---------------------------- MODULE RunAdmission ----------------------------
(***************************************************************************)
(* What the run slot promises to the rest of the program, stated without   *)
(* locks, channels or waiters: runs are admitted one at a time, admission  *)
(* closes for good, and "idle" is announced only once admission is closed  *)
(* and the last admitted run is gone.                                      *)
(* RunSlotGuard is shown to implement this module.                         *)
(***************************************************************************)
CONSTANTS Runs,     \* identities of the runs (claim IDs), never reused
          NoRun     \* the slot is free

VARIABLES holder,   \* the admitted run, or NoRun
          admitted, \* every run admitted so far
          closed,   \* admission has been closed
          idle      \* the idle announcement has been made

admissionVars == <<holder, admitted, closed, idle>>

AdmissionInit ==
    /\ holder = NoRun
    /\ admitted = {}
    /\ closed = FALSE
    /\ idle = FALSE

Admit(r) ==
    /\ ~closed
    /\ holder = NoRun
    /\ r \notin admitted
    /\ holder' = r
    /\ admitted' = admitted \union {r}
    /\ UNCHANGED <<closed, idle>>

Vacate ==
    /\ holder # NoRun
    /\ holder' = NoRun
    /\ idle' = closed
    /\ UNCHANGED <<admitted, closed>>

Close ==
    /\ ~closed
    /\ closed' = TRUE
    /\ idle' = (holder = NoRun)
    /\ UNCHANGED <<holder, admitted>>

AdmissionNext ==
    \/ \E r \in Runs : Admit(r)
    \/ Vacate
    \/ Close

AdmissionSpec == AdmissionInit /\ [][AdmissionNext]_admissionVars
=============================================================================
