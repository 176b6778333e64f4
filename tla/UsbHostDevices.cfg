SPECIFICATION Spec
CONSTANTS
    p1 = p1
    p2 = p2
    p3 = p3
    usb1 = usb1
    usb2 = usb2
    Paths = {p1, p2, p3}
    Buses = {usb1, usb2}
    BusOf <- MCBusOf
    Parent <- MCParent
    Kinds <- MCKinds
    Budgets <- MCBudgets
INVARIANTS
    TypeOK
    HidsAreListed
    SuspendsRight
    Recovered
CHECK_DEADLOCK FALSE
