SPECIFICATION FairSpec
CONSTANTS
    MaxItems = 5
    NoItem = NoItem
    Modules = {m1, m2}
    NoSource = NoSource
    Structs = {D}
    DeclModule <- MCDeclModule
    Generics = {G}
    UnifyKinds = {"WithGeneric"}
    MaxArity = 1
    MaxInserted = 4
    MaxUnifications = 3
INVARIANTS TypeOK FreeSlotsExact SharedInPlace SharedStructsOutlive Solved
 
CHECK_DEADLOCK FALSE
