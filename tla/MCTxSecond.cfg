\* Two candidates and the watcher, no crash.
SPECIFICATION FairTxSpec
CONSTANTS
    A = A
    B = B
    C = C
    g0 = g0
    gB = gB
    gC = gC
    inB = inB
    inC = inC
    accB = accB
    accC = accC
    kB = kB
    kC = kC
    pin0 = pin0
    pinB = pinB
    pinC = pinC
    None = None
    Original = A
    BootGen = g0
    Hash = {A, B, C}
    Exports = {B, C}
    GenId = {g0, gB, gC}
    Path = {inB, inC, accB, accC}
    EvalKey = {kB, kC}
    PinId = {pin0, pinB, pinC}
    HashOrder <- MCTwoHashes
    GenOf <- MCGenOf
    Inbox <- MCInbox
    Accepted <- MCAccepted
    KeyOf <- MCKeyOf
    PinOf <- MCPinOf
    Audited = {}
    MayFail = {}
    Training = FALSE
    SelfPlay = FALSE
    Watching = TRUE
    Operator = FALSE
    KillModes = {FALSE}
    Outages = {}
    MaxCrashes = 0
PROPERTIES
    ConfirmedResolves
CHECK_DEADLOCK FALSE
