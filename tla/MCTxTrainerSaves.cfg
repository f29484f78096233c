\* As MCTxResolves, with a trainer that saves checkpoints.
SPECIFICATION FairTxSpec
CONSTANTS
    A = A
    B = B
    C = C
    g0 = g0
    gB = gB
    gC = gC
    inB = inB
    inC = inC
    accB = accB
    accC = accC
    kB = kB
    kC = kC
    pin0 = pin0
    pinB = pinB
    pinC = pinC
    None = None
    Original = A
    BootGen = g0
    Hash = {A, B}
    Exports = {B}
    GenId = {g0, gB}
    Path = {inB, accB}
    EvalKey = {kB}
    PinId = {pin0, pinB}
    HashOrder <- MCOneHash
    GenOf <- MCGenOf
    Inbox <- MCInbox
    Accepted <- MCAccepted
    KeyOf <- MCKeyOf
    PinOf <- MCPinOf
    Audited = {}
    MayFail = {}
    Training = TRUE
    SelfPlay = FALSE
    Watching = TRUE
    Operator = FALSE
    KillModes = {FALSE}
    Outages = {}
    MaxCrashes = 0
PROPERTIES
    PromotionResolves
CHECK_DEADLOCK FALSE
