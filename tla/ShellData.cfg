CONSTANTS
    shell = shell
    rival = rival
    plain = plain
    seq = seq
    k1 = k1
    k2 = k2
    k3 = k3
    Short = Short
    User = User
    Rival = Rival
    Conn <- Conns
    Key <- TheKeys
    Tag <- Tags
    Table <- Tables
    TableOf <- TableOfKey
    Kind <- KindOf
    Schema <- MasterOrder
    Writes <- MayWrite
    Asks <- DumpArgs
    Files <- TheFiles
    MaxImports = 1
SPECIFICATION FairSpec
INVARIANTS
    TypeOK
    ImportAtomic
    ImportReport
    DumpHonest
    DumpLeavesNoTrace
PROPERTIES
    ImportEndsTransaction
    CopyFaithful
    CommandEnds
CHECK_DEADLOCK FALSE
