SPECIFICATION RamSpec
CONSTANT MaxPolls = 3
INVARIANTS
    ResultIsTrue
PROPERTIES
    EndsAsModelled
