---------------------------- MODULE RunLifecycle ----------------------------
(***************************************************************************)
(* What the ingestion subsystem promises about source runs, with no job,   *)
(* lease or worker in sight: a source has at most one open run, a run is   *)
(* closed by exactly one of SUCCESS and FAILED and stays closed, a PARTIAL *)
(* run is reopened rather than replaced, and only a SUCCESS run is ever    *)
(* exposed to governance.  JobLease implements it.                         *)
(***************************************************************************)
EXTENDS Naturals

CONSTANTS Source,      \* registered sources
          NoSource,    \* the source of a run that does not exist yet
          MaxRuns      \* bound: number of ingestion runs ever created

VARIABLES source,    \* of every run
          status,    \* of every run
          exposed    \* whether the run has been handed to governance

vars == <<source, status, exposed>>

RunId == 1 .. MaxRuns

Init ==
  /\ source = [r \in RunId |-> NoSource]
  /\ status = [r \in RunId |-> "ABSENT"]
  /\ exposed   = [r \in RunId |-> FALSE]

IsOpen(r) == status[r] \in {"RUNNING", "PARTIAL"}

\* A new run, only for a source all of whose runs are closed.
Start(s, r) ==
  /\ status[r] = "ABSENT"
  /\ \A q \in RunId : source[q] = s => ~IsOpen(q)
  /\ source' = [source EXCEPT ![r] = s]
  /\ status' = [status EXCEPT ![r] = "RUNNING"]
  /\ UNCHANGED exposed

\* A PARTIAL run is taken up again under the same identity.
Resume(r) ==
  /\ status[r] = "PARTIAL"
  /\ status' = [status EXCEPT ![r] = "RUNNING"]
  /\ UNCHANGED <<source, exposed>>

Settle(r, outcome) ==
  /\ status[r] = "RUNNING"
  /\ status' = [status EXCEPT ![r] = outcome]
  /\ UNCHANGED <<source, exposed>>

Expose(r) ==
  /\ status[r] = "SUCCESS"
  /\ exposed' = [exposed EXCEPT ![r] = TRUE]
  /\ UNCHANGED <<source, status>>

Next ==
  \E r \in RunId :
    \/ \E s \in Source : Start(s, r)
    \/ Resume(r)
    \/ \E outcome \in {"SUCCESS", "PARTIAL", "FAILED"} : Settle(r, outcome)
    \/ Expose(r)

Spec == Init /\ [][Next]_vars
=============================================================================
