SPECIFICATION FairSpec
CONSTANTS
    Companies = 2
    MaxCode = 2
INVARIANTS
    TypeOK
    FilesAreOneList
PROPERTIES
    FilesRecover
