CONSTANTS
    a = a
    b = b
    c = c
    loop = loop
    init = init
    NoFile = NoFile
    NoLine = NoLine
    Word <- Words
    File <- Files
    Typed <- TheTyped
    MaxTyped = 2
    InitFile = init
    Launches <- TheLaunches
    MaxOpen = 3
    MaxInterrupts = 1
SPECIFICATION FairSpec
INVARIANTS
    TypeOK
    ChunksMatchWhole
    PendingExplained
    ExitStatusHonest
PROPERTIES
    BailStops
    InterruptStops
    ShellExits
