CONSTANTS
    c1 = c1
    c2 = c2
    c3 = c3
    o1 = o1
    o2 = o2
    o3 = o3
    k1 = k1
    k2 = k2
    NoObj = NoObj
    Conn <- Conns2
    Obj <- Objs2
    Key <- Keys2
    Tag <- Tags
    MaxWait = 1
    Nested = FALSE
    KeepGoing = FALSE
    Reads <- OneBinds
    Loose <- Conns2
SYMMETRY DataSymmetry
SPECIFICATION Spec
INVARIANTS
    TypeOK
    ScopeAtomic
    AnswerIsTrue
    RollsBackUnlessGaveUp
    NoLockLeak
    LooseDurable
PROPERTIES
    ImplementsScopes
