----------------------------- MODULE MCLiveness -----------------------------
(* What has to happen in the end: reconnection tasks, the calls of two      *)
(* clients of one recovery log, and the message handlers of a session.      *)
(* Each behaviour exercises one of the three.                               *)
EXTENDS Reconnection, RecoveryLog, SyncSession

VARIABLE focus

AllOutcomes == {"ok", "refused", "timeout"}
UnitSize == [k \in Chunks |-> 1]

Reconnecting(A) ==
    focus = "reconnect" /\ A /\ UNCHANGED <<logvars, sessionvars, focus>>
Logging(A) == focus = "log" /\ A /\ UNCHANGED <<vars, sessionvars, focus>>
Talking(A) == focus = "session" /\ A /\ UNCHANGED <<vars, logvars, focus>>

MCVars == <<vars, logvars, sessionvars, focus>>
MCInit ==
    Init /\ LogInit /\ SessionInit /\ focus \in {"reconnect", "log", "session"}
MCNext == Reconnecting(Next) \/ Logging(LogNext) \/ Talking(SessionNext)

(* The fairness of FairSpec, FairLogSpec and FairSessionSpec. *)
MCSpec ==
    /\ MCInit /\ [][MCNext]_MCVars
    /\ \A t \in Tasks : SF_MCVars(Reconnecting(TaskStep(t)))
    /\ WF_MCVars(Reconnecting(\E r \in Reporters : ReportStep(r)))
    /\ \A c \in Clients : WF_MCVars(Logging(Step(c) \/ LogIoError(c)))
    /\ \A c \in Callers : SF_MCVars(Talking(CallStep(c)))
=============================================================================
