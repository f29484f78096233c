\* One candidate, two crashes of the controller or of the host, every report free
\* to fail, and trainer, self-play, watcher and shuffler running.
SPECIFICATION TxSpec
CONSTANTS
    A = A
    B = B
    C = C
    g0 = g0
    gB = gB
    gC = gC
    inB = inB
    inC = inC
    accB = accB
    accC = accC
    kB = kB
    kC = kC
    pin0 = pin0
    pinB = pinB
    pinC = pinC
    None = None
    Original = A
    BootGen = g0
    Hash = {A, B}
    Exports = {B}
    GenId = {g0, gB}
    Path = {inB, accB}
    EvalKey = {kB}
    PinId = {pin0, pinB}
    HashOrder <- MCOneHash
    GenOf <- MCGenOf
    Inbox <- MCInbox
    Accepted <- MCAccepted
    KeyOf <- MCKeyOf
    PinOf <- MCPinOf
    Audited = {gB}
    MayFail = {"canary", "intermediate", "deep"}
    Training = TRUE
    SelfPlay = TRUE
    Watching = TRUE
    Operator = FALSE
    KillModes = {TRUE, FALSE}
    Outages = {"process", "host"}
    MaxCrashes = 2
INVARIANTS
    TxTypeOK
    
    WatchSeesNoRollback
\* a boot service that fails leaves the host with nothing to run
CHECK_DEADLOCK FALSE
