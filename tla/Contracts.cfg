SPECIFICATION Spec
CONSTANTS
    Processes = {p1}
    Subjects = {s1}
    Contents = {x, y}
    Definitions = {d1}
    ClaimContents = {k1, k2}
    None = None
    Statuses = {"proposed", "accepted"}
    Guarded = {"accepted"}
    Trackings = {"required", "unset"}
    MaxGuards = 2
    Clocks <- MCClocks
    MaxContracts = 2
    MaxEvidence = 1
    MaxResolutions = 2
    MaxDispositions = 2
    MaxTime = 1
SYMMETRY Symmetry
CONSTRAINT Focus
INVARIANTS
    PromisedIsAccepted
    AnswersStand
PROPERTIES
    AcceptanceIsForced
    ImplementsRegister
CHECK_DEADLOCK FALSE
