\* Two candidates, so that the second is tested against the first, and one reboot.
SPECIFICATION TxSpec
CONSTANTS
    A = A
    B = B
    C = C
    g0 = g0
    gB = gB
    gC = gC
    inB = inB
    inC = inC
    accB = accB
    accC = accC
    kB = kB
    kC = kC
    pin0 = pin0
    pinB = pinB
    pinC = pinC
    None = None
    Original = A
    BootGen = g0
    Hash = {A, B, C}
    Exports = {B, C}
    GenId = {g0, gB, gC}
    Path = {inB, inC, accB, accC}
    EvalKey = {kB, kC}
    PinId = {pin0, pinB, pinC}
    HashOrder <- MCTwoHashes
    GenOf <- MCGenOf
    Inbox <- MCInbox
    Accepted <- MCAccepted
    KeyOf <- MCKeyOf
    PinOf <- MCPinOf
    Audited = {gB}
    MayFail = {"canary", "intermediate", "deep"}
    Training = FALSE
    SelfPlay = FALSE
    Watching = TRUE
    Operator = FALSE
    KillModes = {FALSE}
    Outages = {"host"}
    MaxCrashes = 1
INVARIANTS
    ProjectionWindow
    RolloutEvidence
    SnapshotIsPrevious
    OneRollout
\* a boot service that fails leaves the host with nothing to run
CHECK_DEADLOCK FALSE
