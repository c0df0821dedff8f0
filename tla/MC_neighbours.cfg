SPECIFICATION Spec
CONSTANTS
    t1 = t1
    t2 = t2
    t3 = t3
    Thread = {t1, t2, t3}
    Key = {1, 2}
    HEIGHT = 2
    MaxCalls = 1
    head = head
    Null = Null
    Script <- Neighbours
    Main = t1
    Fill = 0
INVARIANTS
    ReachableIsLinked
    RefsCountLinks
    RetiredOnceAndOut
    Order
