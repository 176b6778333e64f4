SPECIFICATION Spec
CONSTANTS
    Sources = {{"power", "charger"}, {"role"}}
    MaxQueue = 3
INVARIANTS
    TypeOK
    BudgetRestored
    ChargerReported
    GadgetFollows
