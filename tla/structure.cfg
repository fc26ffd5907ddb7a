CONSTANTS
    Tasks = {t1, t2}
    Dirs = {"F0", "foo", "baz"}
    Root = "F0"
    Leaves <- MCLeaves
    Items <- MCItems
    Access <- MCAccess
    Kind <- MCKind
    Own = {"family"}
    MaxFails = 3
SPECIFICATION Spec
INVARIANTS TypeOK CompleteWhenLoaded OneLoader
PROPERTY LoadedInTheEnd
