\* A failed deep audit, one reboot that starts its rollback, one that interrupts it.
SPECIFICATION FairTxSpec
CONSTANTS
    A = A
    B = B
    C = C
    g0 = g0
    gB = gB
    gC = gC
    inB = inB
    inC = inC
    accB = accB
    accC = accC
    kB = kB
    kC = kC
    pin0 = pin0
    pinB = pinB
    pinC = pinC
    None = None
    Original = A
    BootGen = g0
    Hash = {A, B}
    Exports = {B}
    GenId = {g0, gB}
    Path = {inB, accB}
    EvalKey = {kB}
    PinId = {pin0, pinB}
    HashOrder <- MCOneHash
    GenOf <- MCGenOf
    Inbox <- MCInbox
    Accepted <- MCAccepted
    KeyOf <- MCKeyOf
    PinOf <- MCPinOf
    Audited = {gB}
    MayFail = {"deep"}
    Training = FALSE
    SelfPlay = FALSE
    Watching = TRUE
    Operator = FALSE
    KillModes = {FALSE}
    Outages = {"host"}
    MaxCrashes = 2
PROPERTIES
    RollbackCompletes
\* a boot service that fails leaves the host with nothing to run
CHECK_DEADLOCK FALSE
