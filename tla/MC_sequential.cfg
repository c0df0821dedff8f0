SPECIFICATION Spec
CONSTANTS
    Node = {n1, n2, n3}
    Key = {1, 2, 3}
    Value = {a, b}
    HEIGHT = 3
    head = head
    Null = Null
SYMMETRY Addresses
INVARIANTS
    SeqTypeOK
    TowersAreLinked
    SearchesStartHighEnough
    ConvertsToSync
    SeqInvariant
PROPERTIES
    ImplementsSortedMap
