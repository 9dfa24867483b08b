SPECIFICATION Spec
CONSTANTS
    Threads = {t1, t2, t3, t4}
    capacity = 2
    Callers = {c1, c2, c3}
    Rates = {1, 3}
    capacity_rate = 4
    cooldown_seconds = 2
    Billing = {0, 2, 6}
    MaxNow = 5
    Nodes = {1, 2}
    grace_ticks = 2
    Untagged = {1}
    Protected = {}
    MaxFailures = 1
    ConfirmAfter = 2
    Healths = {"clean", "stale", "blind"}
    Edits = {"intent", "mode", "confirmed", "freeze", "suspend", "config"}
    PatchFails = TRUE
INVARIANTS SlotsCounted HeadroomConserved WindowAfterBlindness
PROPERTIES PermitsAtomic TrialsRest SweptAfterGrace GuardsServe
CHECK_DEADLOCK FALSE
