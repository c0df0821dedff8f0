SPECIFICATION Spec
CONSTANTS
    t1 = t1
    t2 = t2
    t3 = t3
    Thread = {t1, t2}
    Key = {1, 2, 3}
    HEIGHT = 3
    MaxCalls = 3
    head = head
    Null = Null
    Script <- Growing
    Main = t1
    Fill = 0
INVARIANTS
    RemovedAreUnlinked
