\* Two runs and one native append; callers enter through the control API.
SPECIFICATION PiSpec
CONSTANTS
    Runs = {r1, r2}
    NoRun = NoRun
    MaxAppends = 1
    LateInput = FALSE
INVARIANT PiSafe
PROPERTIES KeepsLedger EveryRunEnds
CHECK_DEADLOCK FALSE
