------------------------------ MODULE JobLease ------------------------------
(***************************************************************************)
(* The durable ingestion job queue: ingestion runs, their jobs, the leases *)
(* and claim tokens that fence them, and the worker threads that execute   *)
(* the source workflow under a lease.                                      *)
(*                                                                         *)
(* Every PostgreSQL transaction is one atomic step: each of them locks the *)
(* job row (or the source row) it reads before it writes.  Between two     *)
(* transactions of one worker anything may happen: other workers step,     *)
(* leases lapse, processes die.                                            *)
(*                                                                         *)
(* Runs are numbered in creation order, so started_at (runs) and           *)
(* created_at (jobs, inserted in the same transaction) are both the run's  *)
(* number.  A claim token (a fresh uuid4) is the number of the claim.      *)
(***************************************************************************)
EXTENDS Naturals

CONSTANTS Source,       \* registered sources
          NoSource,     \* the source of a run that does not exist yet
          Worker,       \* job runner threads, one per server process
          Item,         \* the objects a source may hold
          LeaseTicks,   \* clock ticks in lease_seconds
          MaxRuns,      \* bound: ingestion runs ever created
          MaxRequests,  \* bound: accepted ingest requests
          MaxFaults,    \* bound: crashes, lost connections and long stalls
          SilentErrors  \* may an exception's text be empty, as str(TimeoutError()) is?

ASSUME JobLeaseAssumption ==
  /\ NoSource \notin Source
  /\ LeaseTicks \in Nat \ {0}
  /\ MaxRuns \in Nat \ {0}
  /\ MaxRequests \in Nat
  /\ MaxFaults \in Nat
  /\ SilentErrors \in BOOLEAN

VARIABLES
  runSource, runStatus,        \* cce_ingestion_run
  jobStatus, jobToken, lease,  \* cce_job: status, claim_token, ticks until lease_until
  exposed,                     \* the run has its proposal batch
  pc, wrun, wtoken,            \* worker: position in run_once, and its SourceRunRequest
  todo, failed, werror,        \* worker: items in flight, FAILED results, is there an error to report
  claims, requests, faults,    \* counters: tokens issued, requests accepted, faults met
  writer,                      \* history: token of the last fenced write to a run
  owed                         \* history: request accepted, no attempt claimed since

runVars    == <<runSource, runStatus>>
jobVars    == <<jobStatus, jobToken, lease>>
workerVars == <<pc, wrun, wtoken, todo, failed, werror>>
countVars  == <<claims, requests, faults>>
histVars   == <<writer, owed>>
vars == <<runVars, jobVars, exposed, workerVars, countVars, histVars>>

RunId     == 1 .. MaxRuns
RunStatus == {"ABSENT", "RUNNING", "PARTIAL", "SUCCESS", "FAILED"}
JobStatus == {"ABSENT", "QUEUED", "RUNNING", "COMPLETE", "FAILED"}
Position  == {"idle", "load", "discover", "items", "aggregate", "promote", "finish"}

TypeOK ==
  /\ runSource \in [RunId -> Source \cup {NoSource}]
  /\ runStatus \in [RunId -> RunStatus]
  /\ jobStatus \in [RunId -> JobStatus]
  /\ jobToken \in [RunId -> Nat]
  /\ lease \in [RunId -> 0 .. LeaseTicks]
  /\ exposed \in [RunId -> BOOLEAN]
  /\ pc \in [Worker -> Position]
  /\ wrun \in [Worker -> RunId \cup {0}]
  /\ wtoken \in [Worker -> Nat]
  /\ todo \in [Worker -> SUBSET Item]
  /\ failed \in [Worker -> SUBSET Item]
  /\ werror \in [Worker -> {"none", "text"}]
  /\ claims \in Nat /\ requests \in Nat /\ faults \in Nat
  /\ writer \in [RunId -> Nat]
  /\ owed \in [RunId -> BOOLEAN]

Init ==
  /\ runSource = [r \in RunId |-> NoSource]
  /\ runStatus = [r \in RunId |-> "ABSENT"]
  /\ jobStatus = [r \in RunId |-> "ABSENT"]
  /\ jobToken  = [r \in RunId |-> 0]
  /\ lease     = [r \in RunId |-> 0]
  /\ exposed   = [r \in RunId |-> FALSE]
  /\ pc     = [w \in Worker |-> "idle"]
  /\ wrun   = [w \in Worker |-> 0]
  /\ wtoken = [w \in Worker |-> 0]
  /\ todo   = [w \in Worker |-> {}]
  /\ failed = [w \in Worker |-> {}]
  /\ werror = [w \in Worker |-> "none"]
  /\ claims = 0 /\ requests = 0 /\ faults = 0
  /\ writer = [r \in RunId |-> 0]
  /\ owed   = [r \in RunId |-> FALSE]

-----------------------------------------------------------------------------
(* Requests: IngestionRepository.create_or_resume *)

IsOpen(r) == runStatus[r] \in {"RUNNING", "PARTIAL"}

LeaseLive(r) == jobStatus[r] = "RUNNING" /\ lease[r] > 0

\* Resumable, had the SELECT looked for RUNNING runs only (a faulty variant).
ResumableRunningOnly(s) ==
  {r \in RunId : /\ runSource[r] = s
                 /\ \/ runStatus[r] = "RUNNING"
                    \/ runStatus[r] = "SUCCESS" /\ jobStatus[r] = "FAILED"}

\* The runs of s the SELECT of create_or_resume returns.
Resumable(s) ==
  {r \in RunId : /\ runSource[r] = s
                 /\ IsOpen(r) \/ (runStatus[r] = "SUCCESS" /\ jobStatus[r] = "FAILED")}

OldestOf(r, S) == r \in S /\ \A q \in S : r <= q

\* Nothing to resume: insert the run and its job.
CreateRun(s, r) ==
  /\ requests < MaxRequests
  /\ Resumable(s) = {}
  /\ OldestOf(r, {q \in RunId : runStatus[q] = "ABSENT"})
  /\ runSource' = [runSource EXCEPT ![r] = s]
  /\ runStatus' = [runStatus EXCEPT ![r] = "RUNNING"]
  /\ jobStatus' = [jobStatus EXCEPT ![r] = "QUEUED"]
  /\ requests'  = requests + 1
  /\ owed'      = [owed EXCEPT ![r] = TRUE]
  /\ UNCHANGED <<jobToken, lease, exposed, workerVars, claims, faults, writer>>

\* The oldest resumable run is taken up again; one that is RUNNING is refused
\* (ValueError).  A live lease is left alone.
ResumeRun(s, r) ==
  /\ requests < MaxRequests
  /\ OldestOf(r, Resumable(s))
  /\ runStatus[r] # "RUNNING"
  /\ jobStatus' = [jobStatus EXCEPT ![r] = IF LeaseLive(r) THEN "RUNNING" ELSE "QUEUED"]
  /\ requests'  = requests + 1
  /\ owed'      = [owed EXCEPT ![r] = TRUE]
  /\ UNCHANGED <<runVars, jobToken, lease, exposed, workerVars, claims, faults, writer>>

-----------------------------------------------------------------------------
(* Leases: JobRepository *)

\* Claimable, had claim() not looked for lapsed leases (a faulty variant).
ClaimableQueuedOnly == {r \in RunId : jobStatus[r] = "QUEUED"}

Claimable == {r \in RunId : \/ jobStatus[r] = "QUEUED"
                            \/ jobStatus[r] = "RUNNING" /\ lease[r] = 0}

\* claim(): the oldest claimable job whose row no concurrent transaction has
\* locked (FOR UPDATE SKIP LOCKED).
Claim(w) ==
  /\ pc[w] = "idle"
  /\ \E locked \in SUBSET Claimable : \E r \in RunId :
       /\ OldestOf(r, Claimable \ locked)
       /\ jobStatus' = [jobStatus EXCEPT ![r] = "RUNNING"]
       /\ jobToken'  = [jobToken EXCEPT ![r] = claims + 1]
       /\ lease'     = [lease EXCEPT ![r] = LeaseTicks]
       /\ wrun'      = [wrun EXCEPT ![w] = r]
       /\ owed'      = [owed EXCEPT ![r] = FALSE]
  /\ claims' = claims + 1
  /\ wtoken' = [wtoken EXCEPT ![w] = claims + 1]
  /\ pc'     = [pc EXCEPT ![w] = "load"]
  /\ UNCHANGED <<runVars, exposed, todo, failed, werror, requests, faults, writer>>

\* AssertLease, had the claim token not been compared (a faulty variant).
AssertLeaseAnyToken(w) == jobStatus[wrun[w]] = "RUNNING" /\ lease[wrun[w]] > 0

\* The fence of every write: this worker's claim is the current one and its
\* lease has not lapsed (assert_lease, and the WHERE of renew and finish).
AssertLease(w) ==
  /\ jobStatus[wrun[w]] = "RUNNING"
  /\ jobToken[wrun[w]] = wtoken[w]
  /\ lease[wrun[w]] > 0

\* The heartbeat thread of run_once, from the claim until the workflow ends.
Renew(w) ==
  /\ pc[w] \notin {"idle", "finish"}
  /\ AssertLease(w)
  /\ lease[wrun[w]] < LeaseTicks
  /\ lease' = [lease EXCEPT ![wrun[w]] = LeaseTicks]
  /\ UNCHANGED <<runVars, jobStatus, jobToken, exposed, workerVars, countVars, histVars>>

TimePasses ==
  /\ lease' = [r \in RunId |-> IF lease[r] > 0 THEN lease[r] - 1 ELSE 0]
  /\ UNCHANGED <<runVars, jobStatus, jobToken, exposed, workerVars, claims, requests, histVars>>

\* The last tick of a lease some worker still executes under: three heartbeats
\* were due since it was renewed, so letting it pass takes a stall.
LastTick == \E w \in Worker : /\ pc[w] # "idle"
                              /\ AssertLease(w)
                              /\ lease[wrun[w]] = 1

Tick ==
  /\ \E r \in RunId : lease[r] > 0
  /\ ~LastTick
  /\ TimePasses
  /\ UNCHANGED faults

\* A process is paused, or the database is out of its reach, for longer than a lease.
Stall ==
  /\ LastTick
  /\ faults < MaxFaults
  /\ faults' = faults + 1
  /\ TimePasses

-----------------------------------------------------------------------------
(* The workflow of one claim: JobRunner.run_once around SourceGraph.run *)

\* run(): a run that is already SUCCESS only has its promotion left.
LoadRun(w) ==
  /\ pc[w] = "load"
  /\ pc' = [pc EXCEPT ![w] = IF runStatus[wrun[w]] = "SUCCESS" THEN "promote" ELSE "discover"]
  /\ UNCHANGED <<runVars, jobVars, exposed, wrun, wtoken, todo, failed, werror, countVars, histVars>>

\* discover_and_diff_inventory: the whole source is listed, then one fenced
\* transaction diffs it and marks the run RUNNING.  items are those fanned out.
Inventory(w, items) ==
  /\ pc[w] = "discover"
  /\ AssertLease(w)
  /\ runStatus' = [runStatus EXCEPT ![wrun[w]] = "RUNNING"]
  /\ writer' = [writer EXCEPT ![wrun[w]] = wtoken[w]]
  /\ todo'   = [todo EXCEPT ![w] = items]
  /\ pc'     = [pc EXCEPT ![w] = IF items = {} THEN "aggregate" ELSE "items"]
  /\ UNCHANGED <<runSource, jobVars, exposed, wrun, wtoken, failed, werror, countVars, owed>>

\* process_item ends with save_result, in any order over the items in flight; an
\* exception of the item itself was turned into a FAILED result (ok = FALSE).
SaveResult(w, i, ok) ==
  /\ pc[w] = "items"
  /\ i \in todo[w]
  /\ AssertLease(w)
  /\ writer' = [writer EXCEPT ![wrun[w]] = wtoken[w]]
  /\ todo'   = [todo EXCEPT ![w] = @ \ {i}]
  /\ failed' = [failed EXCEPT ![w] = IF ok THEN @ ELSE @ \cup {i}]
  /\ pc'     = [pc EXCEPT ![w] = IF todo[w] = {i} THEN "aggregate" ELSE "items"]
  /\ UNCHANGED <<runVars, jobVars, exposed, wrun, wtoken, werror, countVars, owed>>

\* Outcome, with the status that only jobs have (a faulty variant).
OutcomeComplete(w) == IF failed[w] = {} THEN "COMPLETE" ELSE "PARTIAL"

Outcome(w) == IF failed[w] = {} THEN "SUCCESS" ELSE "PARTIAL"

\* aggregate_item_results: IngestionRepository.finish, then the conditional edge.
FinishRun(w) ==
  /\ pc[w] = "aggregate"
  /\ AssertLease(w)
  /\ runStatus' = [runStatus EXCEPT ![wrun[w]] = Outcome(w)]
  /\ writer'    = [writer EXCEPT ![wrun[w]] = wtoken[w]]
  /\ pc' = [pc EXCEPT ![w] = IF Outcome(w) = "SUCCESS" THEN "promote" ELSE "finish"]
  /\ UNCHANGED <<runSource, jobVars, exposed, wrun, wtoken, todo, failed, werror, countVars, owed>>

\* promote_staged_candidates.  The lease is not checked here; the run's status
\* is, and a run that has its batch already is left as it is.
Promote(w) ==
  /\ pc[w] = "promote"
  /\ runStatus[wrun[w]] = "SUCCESS"
  /\ exposed' = [exposed EXCEPT ![wrun[w]] = TRUE]
  /\ pc' = [pc EXCEPT ![w] = "finish"]
  /\ UNCHANGED <<runVars, jobVars, wrun, wtoken, todo, failed, werror, countVars, histVars>>

\* Any step of the workflow may raise: a provider, the index or the database is
\* unavailable, the lease is lost, promotion refuses.  run_once keeps only the
\* exception's text, and an empty text passes for no error at all.
Raise(w) ==
  /\ pc[w] \notin {"idle", "finish"}
  /\ \/ werror' = [werror EXCEPT ![w] = "text"]
     \/ SilentErrors /\ UNCHANGED werror
  /\ pc' = [pc EXCEPT ![w] = "finish"]
  /\ UNCHANGED <<runVars, jobVars, exposed, wrun, wtoken, todo, failed, countVars, histVars>>

ToIdle(w) ==
  /\ pc'     = [pc EXCEPT ![w] = "idle"]
  /\ wrun'   = [wrun EXCEPT ![w] = 0]
  /\ wtoken' = [wtoken EXCEPT ![w] = 0]
  /\ todo'   = [todo EXCEPT ![w] = {}]
  /\ failed' = [failed EXCEPT ![w] = {}]
  /\ werror' = [werror EXCEPT ![w] = "none"]

\* JobRepository.finish: both updates in one transaction, none if the lease is lost.
CloseJob(r, status) ==
  /\ jobStatus' = [jobStatus EXCEPT ![r] = status]
  /\ lease'     = [lease EXCEPT ![r] = 0]

\* FailRun, had the job alone been marked FAILED (a faulty variant).
FailRunSkipped(r) == UNCHANGED runStatus

FailRun(r) ==
  \/ runStatus[r] = "RUNNING" /\ runStatus' = [runStatus EXCEPT ![r] = "FAILED"]
  \/ runStatus[r] # "RUNNING" /\ UNCHANGED runStatus

FinishJob(w) ==
  LET r == wrun[w]
  IN  /\ pc[w] = "finish"
      /\ \/ /\ AssertLease(w) /\ werror[w] # "none"
            /\ CloseJob(r, "FAILED")
            /\ FailRun(r)
         \/ /\ AssertLease(w) /\ werror[w] = "none"
            /\ CloseJob(r, "COMPLETE")
            /\ UNCHANGED runStatus
         \/ /\ ~AssertLease(w)
            /\ UNCHANGED <<jobStatus, lease, runStatus>>
      /\ ToIdle(w)
      /\ UNCHANGED <<runSource, jobToken, exposed, countVars, histVars>>

\* The process dies and is started again, or finish() itself raises and _run
\* swallows the exception: either way the thread forgets the job.
Crash(w) ==
  /\ pc[w] # "idle"
  /\ faults < MaxFaults
  /\ faults' = faults + 1
  /\ ToIdle(w)
  /\ UNCHANGED <<runVars, jobVars, exposed, claims, requests, histVars>>

-----------------------------------------------------------------------------
Request == \E s \in Source, r \in RunId : CreateRun(s, r) \/ ResumeRun(s, r)

\* What the worker's thread does next, exceptions included.
Step(w) ==
  \/ LoadRun(w)
  \/ \E items \in SUBSET Item : Inventory(w, items)
  \/ \E i \in Item, ok \in BOOLEAN : SaveResult(w, i, ok)
  \/ FinishRun(w)
  \/ Promote(w)
  \/ Raise(w)
  \/ FinishJob(w)

Next ==
  \/ Request
  \/ \E w \in Worker : Claim(w) \/ Renew(w) \/ Step(w) \/ Crash(w)
  \/ Tick
  \/ Stall

Spec == Init /\ [][Next]_vars

\* A started thread is scheduled and time goes on; nobody has to ask for an
\* ingestion, and a fault need never happen.
Fairness ==
  /\ \A w \in Worker : WF_vars(Claim(w)) /\ WF_vars(Renew(w)) /\ WF_vars(Step(w))
  /\ WF_vars(Tick)

FairSpec == Spec /\ Fairness

-----------------------------------------------------------------------------
(* Properties *)

\* A source never has two runs that could both still be written: neither a
\* request that races another, nor a worker that reopens a run (inventory sets
\* RUNNING without looking at the status it overwrites), creates a second one.
OneOpenRunPerSource ==
  \A q, r \in RunId :
    (q # r /\ runSource[q] = runSource[r] /\ IsOpen(q)) => ~IsOpen(r)

\* A run is RUNNING only while a job exists that will end it.  create_or_resume
\* refuses a source whose run is RUNNING, so a run left RUNNING by a finished job
\* would lock its source for good.
NoOrphanedRun ==
  \A r \in RunId : runStatus[r] = "RUNNING" => jobStatus[r] \in {"QUEUED", "RUNNING"}

\* Promotion does not check the lease; it is safe because a worker that reaches
\* it, even one whose claim was taken over, is looking at a SUCCESS run.
PromotionSeesSuccess ==
  \A w \in Worker : pc[w] = "promote" => runStatus[wrun[w]] = "SUCCESS"

\* A run that ended in SUCCESS or FAILED is never reopened or relabelled, though
\* inventory and finish overwrite the status unconditionally.
ClosedRunsStayClosed ==
  [][\A r \in RunId : runStatus[r] \in {"SUCCESS", "FAILED"} => runStatus'[r] = runStatus[r]]_vars

\* Once a newer claim has written to a run no older claim ever does: whatever a
\* stalled worker still has in flight is refused.
NoSupersededWrite ==
  [][\A r \in RunId : writer'[r] >= writer[r]]_vars

\* A worker that lost its lease never gets it back for that claim: not by a late
\* heartbeat, and not when the job is requeued with its old token still in it.
LostLeaseStaysLost ==
  [][\A w \in Worker :
       (pc[w] # "idle" /\ ~AssertLease(w) /\ pc'[w] # "idle") => ~AssertLease(w)']_vars

\* Every run that is RUNNING stops being so, whatever crashes on the way: the
\* lease lapses, another worker claims the job and either ends or fails the run.
EveryRunSettles ==
  \A r \in RunId : (runStatus[r] = "RUNNING") ~> (runStatus[r] # "RUNNING")

\* A crash between SUCCESS and promotion is made good: the batch appears, or the
\* job is FAILED and an explicit request can retry it.
SuccessIsPromoted ==
  \A r \in RunId : (runStatus[r] = "SUCCESS") ~> (exposed[r] \/ jobStatus[r] = "FAILED")

\* The job queue implements the run lifecycle.
Lifecycle == INSTANCE RunLifecycle
  WITH source <- runSource, status <- runStatus, exposed <- exposed,
       Source <- Source, NoSource <- NoSource, MaxRuns <- MaxRuns
ImplementsRunLifecycle == Lifecycle!Spec

\* docs/architecture/ingestion-flow.md:3 has an ingest request create or resume a
\* run and enqueue a job.  So an accepted request that no attempt has picked up
\* yet is always backed by a job that is queued or running.
AcceptedRequestIsQueued ==
  \A r \in RunId : owed[r] => jobStatus[r] \in {"QUEUED", "RUNNING"}
=============================================================================
