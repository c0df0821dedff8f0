SPECIFICATION Spec
CONSTANTS
    t1 = t1
    t2 = t2
    t3 = t3
    Thread = {t1, t2}
    Key = {1}
    HEIGHT = 2
    MaxCalls = 2
    head = head
    Null = Null
    Script <- Reinserting
    Main = t1
    Fill = 1
INVARIANTS
    LenIsExact
