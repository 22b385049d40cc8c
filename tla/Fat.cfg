SPECIFICATION Spec
CONSTANTS
    Disks <- SmallDisks
    Geometries <- Layouts
    LsPaths <- Folders
    CatPaths <- Files
    NoArgument = NoArgument
    CLUSTER_SIZE = 2
    BUFFER_SIZE = 2
    DIR_ENTRIES = 2
    BASE_LEN = 2
    EXT_LEN = 1
    Upper <- Letters
INVARIANTS
    CatPrintsFile
    LsListsDirectory
    ShownNameIsFound
    FatUnpacked
    RegionsDisjoint
PROPERTIES
    CommandEnds
