SPECIFICATION SmallSpec
CONSTANTS
    Topics = {1, 2, 3}
    Categories = {1, 2}
    CategoryOf <- Split
    ListPage = 1
    QueryPage = 2
    Embedded = 1
    Tolerance = 0
    Window = 2
    MaxLog = 4
    MaxFaults = 2
INVARIANTS
    TypeOK
    ForumAccounted
    PassAccounted
PROPERTIES
    ImplementsArchive
    RepairRestores
