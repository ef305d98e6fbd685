CONSTANTS
    c1 = c1
    c2 = c2
    c3 = c3
    o1 = o1
    o2 = o2
    o3 = o3
    k1 = k1
    k2 = k2
    NoObj = NoObj
    Conn <- Conns3
    Obj <- Objs1
    Key <- Keys1
    Tag <- Tags
    MaxWait = 1
    Nested = FALSE
    KeepGoing = TRUE
    Reads <- EachItsOwn
    Loose = {}
SPECIFICATION FairSpec
PROPERTIES
    WaitReturns
    BindReturns
