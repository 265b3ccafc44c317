--------------------------- MODULE JobLeaseProofs ---------------------------
(***************************************************************************)
(* Proofs about JobLease, for every set of sources, workers and items and  *)
(* every bound.  The argument: claim tokens are unique, so at most one     *)
(* worker holds a job (TokenInv); what a holder may believe about its run  *)
(* is still true when it writes (PositionInv), because only a holder       *)
(* writes; and a job that can still be claimed belongs to a run that can   *)
(* still be worked on (JobInv).  Conversely, work that is left always has  *)
(* a job that keeps it (UnfinishedWorkIsKept).                             *)
(***************************************************************************)
EXTENDS JobLease, TLAPS

\* Worker w's claim is the current one, whether or not its lease has lapsed.
Holds(w) == jobStatus[wrun[w]] = "RUNNING" /\ jobToken[wrun[w]] = wtoken[w]

BusyInv == \A w \in Worker : pc[w] # "idle" => wrun[w] \in RunId

TokenInv ==
  /\ \A r \in RunId : jobToken[r] <= claims
  /\ \A w \in Worker : pc[w] # "idle" => wtoken[w] <= claims
  /\ \A v, w \in Worker : (v # w /\ pc[v] # "idle" /\ pc[w] # "idle") => wtoken[v] # wtoken[w]

PositionInv ==
  \A w \in Worker : (pc[w] # "idle" /\ Holds(w)) =>
    /\ runStatus[wrun[w]] \in {"RUNNING", "PARTIAL", "SUCCESS"}
    /\ pc[w] = "discover" => runStatus[wrun[w]] \in {"RUNNING", "PARTIAL"}
    /\ pc[w] \in {"items", "aggregate"} => runStatus[wrun[w]] = "RUNNING"
    /\ (~SilentErrors /\ pc[w] = "finish" /\ werror[w] = "none") => runStatus[wrun[w]] \in {"PARTIAL", "SUCCESS"}

JobInv ==
  \A r \in RunId :
    /\ jobStatus[r] \in {"QUEUED", "RUNNING"} => runStatus[r] \in {"RUNNING", "PARTIAL", "SUCCESS"}
    /\ (~SilentErrors /\ runStatus[r] = "RUNNING") => jobStatus[r] \in {"QUEUED", "RUNNING"}

WriterInv == \A r \in RunId : writer[r] <= jobToken[r]

IInv ==
  /\ TypeOK
  /\ BusyInv
  /\ TokenInv
  /\ JobInv
  /\ PositionInv
  /\ PromotionSeesSuccess
  /\ OneOpenRunPerSource
  /\ WriterInv

-----------------------------------------------------------------------------
(* Type correctness *)

\* What a claim does, with the choice of the job named.
LEMMA ClaimTakesJob ==
  ASSUME NEW w \in Worker, Claim(w)
  PROVE  \E r \in RunId :
           /\ r \in Claimable
           /\ jobStatus' = [jobStatus EXCEPT ![r] = "RUNNING"]
           /\ jobToken'  = [jobToken EXCEPT ![r] = claims + 1]
           /\ lease'     = [lease EXCEPT ![r] = LeaseTicks]
           /\ wrun'      = [wrun EXCEPT ![w] = r]
           /\ owed'      = [owed EXCEPT ![r] = FALSE]
  BY DEF Claim, OldestOf

LEMMA InitType == Init => TypeOK
  BY JobLeaseAssumption DEF Init, TypeOK, RunId, RunStatus, JobStatus, Position

\* Every step keeps every variable in its type.
LEMMA NextType == TypeOK /\ [Next]_vars => TypeOK'
<1> SUFFICES ASSUME TypeOK, [Next]_vars PROVE TypeOK'
  OBVIOUS
<1>0. LeaseTicks \in 0 .. LeaseTicks /\ 0 \in 0 .. LeaseTicks
  BY JobLeaseAssumption DEF JobLeaseAssumption
<1> USE DEF TypeOK, RunId, RunStatus, JobStatus, Position,
        runVars, jobVars, workerVars, countVars, histVars
<1>1. ASSUME NEW s \in Source, NEW r \in RunId, CreateRun(s, r) PROVE TypeOK'
  BY <1>1 DEF CreateRun
<1>2. ASSUME NEW s \in Source, NEW r \in RunId, ResumeRun(s, r) PROVE TypeOK'
  BY <1>2 DEF ResumeRun
<1>3. ASSUME NEW w \in Worker, Claim(w) PROVE TypeOK'
  <2>1. PICK r \in RunId :
          /\ jobStatus' = [jobStatus EXCEPT ![r] = "RUNNING"]
          /\ jobToken'  = [jobToken EXCEPT ![r] = claims + 1]
          /\ lease'     = [lease EXCEPT ![r] = LeaseTicks]
          /\ wrun'      = [wrun EXCEPT ![w] = r]
          /\ owed'      = [owed EXCEPT ![r] = FALSE]
    BY <1>3, ClaimTakesJob
  <2>2. lease' \in [RunId -> 0 .. LeaseTicks]
    BY <2>1, <1>0
  <2> QED
    BY <1>3, <2>1, <2>2 DEF Claim
<1>4. ASSUME NEW w \in Worker, Renew(w) PROVE TypeOK'
  <2>1. lease' \in [RunId -> 0 .. LeaseTicks]
    BY <1>4, <1>0 DEF Renew
  <2> QED
    BY <1>4, <2>1 DEF Renew
<1>5. ASSUME NEW w \in Worker, LoadRun(w) PROVE TypeOK'
  BY <1>5 DEF LoadRun
<1>6. ASSUME NEW w \in Worker, NEW items \in SUBSET Item, Inventory(w, items) PROVE TypeOK'
  BY <1>6 DEF Inventory
<1>7. ASSUME NEW w \in Worker, NEW i \in Item, NEW ok \in BOOLEAN, SaveResult(w, i, ok)
      PROVE TypeOK'
  BY <1>7 DEF SaveResult
<1>8. ASSUME NEW w \in Worker, FinishRun(w) PROVE TypeOK'
  BY <1>8 DEF FinishRun, Outcome
<1>9. ASSUME NEW w \in Worker, Promote(w) PROVE TypeOK'
  BY <1>9 DEF Promote
<1>10. ASSUME NEW w \in Worker, Raise(w) PROVE TypeOK'
  BY <1>10 DEF Raise
<1>11. ASSUME NEW w \in Worker, FinishJob(w) PROVE TypeOK'
  <2>1. lease' \in [RunId -> 0 .. LeaseTicks]
    BY <1>11, <1>0 DEF FinishJob, FailRun, CloseJob
  <2>2. runStatus' \in [RunId -> RunStatus] /\ jobStatus' \in [RunId -> JobStatus]
    <3>1. \/ runStatus' = [runStatus EXCEPT ![wrun[w]] = "FAILED"]
          \/ runStatus' = runStatus
      BY <1>11 DEF FinishJob, FailRun
    <3>2. \/ jobStatus' = [jobStatus EXCEPT ![wrun[w]] = "FAILED"]
          \/ jobStatus' = [jobStatus EXCEPT ![wrun[w]] = "COMPLETE"]
          \/ jobStatus' = jobStatus
      BY <1>11 DEF FinishJob, CloseJob
    <3> QED
      BY ONLY <3>1, <3>2, TypeOK DEF TypeOK, RunStatus, JobStatus
  <2>3. ToIdle(w) /\ UNCHANGED <<runSource, jobToken, exposed, countVars, histVars>>
    BY <1>11 DEF FinishJob, FailRun
  <2> QED
    BY <2>1, <2>2, <2>3 DEF ToIdle
<1>12. ASSUME NEW w \in Worker, Crash(w) PROVE TypeOK'
  BY <1>12 DEF Crash, ToIdle
<1>13. ASSUME TimePasses, faults' \in Nat PROVE TypeOK'
  <2>1. lease' \in [RunId -> 0 .. LeaseTicks]
    BY <1>13, JobLeaseAssumption DEF TimePasses, JobLeaseAssumption
  <2> QED
    BY <1>13, <2>1 DEF TimePasses
<1>14. CASE Tick
  <2>1. TimePasses /\ faults' \in Nat
    BY <1>14 DEF Tick
  <2> QED
    BY ONLY <2>1, <1>13
<1>15. CASE Stall
  <2>1. TimePasses /\ faults' \in Nat
    BY <1>15 DEF Stall
  <2> QED
    BY ONLY <2>1, <1>13
<1>16. CASE UNCHANGED vars
  BY <1>16 DEF vars
<1> HIDE DEF TypeOK, RunId
<1> QED
  BY <1>1, <1>2, <1>3, <1>4, <1>5, <1>6, <1>7, <1>8, <1>9, <1>10, <1>11, <1>12,
     <1>14, <1>15, <1>16 DEF Next, Request, Step

\* Every reachable state of the job queue has the types TypeOK gives.
THEOREM TypeCorrect == Spec => []TypeOK
  BY InitType, NextType, PTL DEF Spec

-----------------------------------------------------------------------------
(* Claim tokens *)

\* A step that issues no token leaves every busy worker with the claim it had.
KeepsTokens ==
  /\ UNCHANGED <<jobToken, claims>>
  /\ \A w \in Worker : pc'[w] # "idle" =>
       pc[w] # "idle" /\ wrun'[w] = wrun[w] /\ wtoken'[w] = wtoken[w]

LEMMA OnlyClaimIssuesTokens ==
  ASSUME TypeOK, [Next]_vars
  PROVE  KeepsTokens \/ \E w \in Worker : Claim(w)
<1> USE DEF TypeOK, KeepsTokens, runVars, jobVars, workerVars, countVars, histVars
<1>1. ASSUME NEW s \in Source, NEW r \in RunId, CreateRun(s, r) \/ ResumeRun(s, r)
      PROVE  KeepsTokens
  BY <1>1 DEF CreateRun, ResumeRun
<1>2. ASSUME NEW w \in Worker, Renew(w) \/ LoadRun(w) \/ FinishRun(w) \/ Promote(w) \/ Raise(w)
      PROVE  KeepsTokens
  BY <1>2 DEF Renew, LoadRun, FinishRun, Outcome, Promote, Raise
<1>3. ASSUME NEW w \in Worker, NEW items \in SUBSET Item, Inventory(w, items)
      PROVE  KeepsTokens
  BY <1>3 DEF Inventory
<1>4. ASSUME NEW w \in Worker, NEW i \in Item, NEW ok \in BOOLEAN, SaveResult(w, i, ok)
      PROVE  KeepsTokens
  BY <1>4 DEF SaveResult
<1>5. ASSUME NEW w \in Worker, FinishJob(w) \/ Crash(w) PROVE KeepsTokens
  BY <1>5 DEF FinishJob, FailRun, Crash, ToIdle
<1>6. CASE Tick \/ Stall \/ UNCHANGED vars
  BY <1>6 DEF Tick, Stall, TimePasses, vars
<1> HIDE DEF TypeOK, KeepsTokens
<1> QED
  BY <1>1, <1>2, <1>3, <1>4, <1>5, <1>6 DEF Next, Request, Step

\* Tokens stay unique, and every busy worker executes some run.
LEMMA TokenStep ==
  ASSUME TypeOK, BusyInv, TokenInv, [Next]_vars
  PROVE  BusyInv' /\ TokenInv'
<1>1. CASE KeepsTokens
  BY <1>1 DEF KeepsTokens, BusyInv, TokenInv
<1>2. ASSUME NEW w \in Worker, Claim(w) PROVE BusyInv' /\ TokenInv'
  <2>1. PICK r \in RunId : /\ jobToken' = [jobToken EXCEPT ![r] = claims + 1]
                          /\ wrun' = [wrun EXCEPT ![w] = r]
    BY <1>2, ClaimTakesJob
  <2>2. /\ claims' = claims + 1
        /\ wtoken' = [wtoken EXCEPT ![w] = claims + 1]
        /\ pc' = [pc EXCEPT ![w] = "load"]
    BY <1>2 DEF Claim
  <2>3. BusyInv'
    BY <2>1, <2>2 DEF BusyInv, TypeOK
  <2>4. TokenInv'
    BY <2>1, <2>2 DEF TokenInv, TypeOK
  <2> QED
    BY <2>3, <2>4
<1> QED
  BY <1>1, <1>2, OnlyClaimIssuesTokens

\* A job has one holder: two busy workers of one run never hold it together.
LEMMA OneHolder ==
  ASSUME TokenInv, NEW v \in Worker, NEW w \in Worker, v # w,
         pc[v] # "idle", pc[w] # "idle", wrun[v] = wrun[w], Holds(w)
  PROVE  ~Holds(v)
  BY DEF TokenInv, Holds

-----------------------------------------------------------------------------
(* Runs, jobs and the positions of their holders *)

LEMMA JobStep ==
  ASSUME TypeOK, BusyInv, JobInv, PositionInv, [Next]_vars
  PROVE  JobInv'
<1> USE DEF TypeOK, JobInv, runVars, jobVars, workerVars, countVars, histVars
<1>1. ASSUME NEW s \in Source, NEW r \in RunId, CreateRun(s, r) PROVE JobInv'
  BY <1>1 DEF CreateRun
<1>2. ASSUME NEW s \in Source, NEW r \in RunId, ResumeRun(s, r) PROVE JobInv'
  <2>1. runStatus[r] \in {"PARTIAL", "SUCCESS"}
    BY <1>2 DEF ResumeRun, OldestOf, Resumable, IsOpen
  <2>2. jobStatus'[r] \in {"QUEUED", "RUNNING"} /\ UNCHANGED runStatus
        /\ \A q \in RunId : q # r => jobStatus'[q] = jobStatus[q]
    BY <1>2 DEF ResumeRun
  <2> QED
    BY <2>1, <2>2
<1>3. ASSUME NEW w \in Worker, Claim(w) PROVE JobInv'
  <2>1. PICK r \in RunId : r \in Claimable /\ jobStatus' = [jobStatus EXCEPT ![r] = "RUNNING"]
    BY <1>3, ClaimTakesJob
  <2>2. jobStatus[r] \in {"QUEUED", "RUNNING"} /\ UNCHANGED runStatus
    BY <1>3, <2>1 DEF Claimable, Claim
  <2> QED
    BY <2>1, <2>2
<1>4. ASSUME NEW w \in Worker, NEW items \in SUBSET Item, Inventory(w, items) PROVE JobInv'
  BY <1>4 DEF Inventory, AssertLease
<1>5. ASSUME NEW w \in Worker, FinishRun(w) PROVE JobInv'
  <2>1. jobStatus[wrun[w]] = "RUNNING" /\ UNCHANGED jobStatus
    BY <1>5 DEF FinishRun, Outcome, AssertLease
  <2>2. \/ runStatus' = [runStatus EXCEPT ![wrun[w]] = "SUCCESS"]
        \/ runStatus' = [runStatus EXCEPT ![wrun[w]] = "PARTIAL"]
    BY <1>5 DEF FinishRun, Outcome
  <2> QED
    BY <2>1, <2>2
<1>6. ASSUME NEW w \in Worker, FinishJob(w) PROVE JobInv'
  <2>1. CASE AssertLease(w) /\ werror[w] # "none"
    BY <1>6, <2>1 DEF FinishJob, FailRun, CloseJob, AssertLease
  <2>2. CASE AssertLease(w) /\ werror[w] = "none"
    <3>1. ~SilentErrors => runStatus[wrun[w]] # "RUNNING"
      BY <1>6, <2>2 DEF FinishJob, FailRun, PositionInv, Holds, AssertLease
    <3>2. jobStatus' = [jobStatus EXCEPT ![wrun[w]] = "COMPLETE"] /\ UNCHANGED runStatus
      BY <1>6, <2>2 DEF FinishJob, FailRun, CloseJob
    <3> QED
      BY <3>1, <3>2
  <2>3. CASE ~AssertLease(w)
    BY <1>6, <2>3 DEF FinishJob, FailRun
  <2> QED
    BY <2>1, <2>2, <2>3
<1>7. ASSUME NEW w \in Worker, NEW i \in Item, NEW ok \in BOOLEAN, SaveResult(w, i, ok) PROVE JobInv'
  BY <1>7 DEF SaveResult
<1>8. ASSUME NEW w \in Worker,
             Renew(w) \/ LoadRun(w) \/ Promote(w) \/ Raise(w) \/ Crash(w)
      PROVE JobInv'
  BY <1>8 DEF Renew, LoadRun, Promote, Raise, Crash
<1>9. CASE Tick \/ Stall \/ UNCHANGED vars
  BY <1>9 DEF Tick, Stall, TimePasses, vars
<1> HIDE DEF TypeOK, JobInv
<1> QED
  BY <1>1, <1>2, <1>3, <1>4, <1>5, <1>6, <1>7, <1>8, <1>9 DEF Next, Request, Step

\* The facts a step of a holder relies on: what AssertLease tells it.
LEMMA HolderRunOpen ==
  ASSUME TypeOK, BusyInv, PositionInv, NEW w \in Worker, AssertLease(w),
         pc[w] \in {"discover", "items", "aggregate"}
  PROVE  /\ wrun[w] \in RunId
         /\ Holds(w)
         /\ runStatus[wrun[w]] \in {"RUNNING", "PARTIAL"}
         /\ pc[w] # "discover" => runStatus[wrun[w]] = "RUNNING"
  BY DEF BusyInv, PositionInv, AssertLease, Holds

\* A worker that has got to promotion is looking at a SUCCESS run.
LEMMA PromotionStep ==
  ASSUME TypeOK, BusyInv, PositionInv, PromotionSeesSuccess, [Next]_vars
  PROVE  PromotionSeesSuccess'
<1> USE DEF TypeOK, PromotionSeesSuccess, runVars, jobVars, workerVars, countVars, histVars
<1>1. ASSUME NEW s \in Source, NEW r \in RunId, CreateRun(s, r) PROVE PromotionSeesSuccess'
  BY <1>1 DEF CreateRun, OldestOf, BusyInv
<1>2. ASSUME NEW s \in Source, NEW r \in RunId, ResumeRun(s, r) PROVE PromotionSeesSuccess'
  BY <1>2 DEF ResumeRun
<1>3. ASSUME NEW w \in Worker, Claim(w) PROVE PromotionSeesSuccess'
  <2>1. PICK r \in RunId : wrun' = [wrun EXCEPT ![w] = r]
    BY <1>3, ClaimTakesJob
  <2> QED
    BY <1>3, <2>1 DEF Claim
<1>4. ASSUME NEW w \in Worker, NEW items \in SUBSET Item, Inventory(w, items)
      PROVE  PromotionSeesSuccess'
  <2>1. runStatus[wrun[w]] # "SUCCESS"
    BY <1>4, HolderRunOpen DEF Inventory
  <2>2. /\ runStatus' = [runStatus EXCEPT ![wrun[w]] = "RUNNING"]
        /\ wrun' = wrun
        /\ \A v \in Worker : pc'[v] = "promote" => pc[v] = "promote"
    BY <1>4 DEF Inventory
  <2> QED
    BY <2>1, <2>2 DEF BusyInv
<1>5. ASSUME NEW w \in Worker, FinishRun(w) PROVE PromotionSeesSuccess'
  <2>1. runStatus[wrun[w]] # "SUCCESS" /\ wrun[w] \in RunId
    BY <1>5, HolderRunOpen DEF FinishRun, Outcome
  <2>2. CASE failed[w] = {}
    BY <1>5, <2>1, <2>2 DEF FinishRun, Outcome, BusyInv
  <2>3. CASE failed[w] # {}
    BY <1>5, <2>1, <2>3 DEF FinishRun, Outcome, BusyInv
  <2> QED
    BY <2>2, <2>3
<1>6. ASSUME NEW w \in Worker, FinishJob(w) PROVE PromotionSeesSuccess'
  <2>1. \A r \in RunId : runStatus[r] = "SUCCESS" => runStatus'[r] = "SUCCESS"
    BY <1>6 DEF FinishJob, FailRun
  <2>2. \A v \in Worker : pc'[v] = "promote" => pc[v] = "promote" /\ wrun'[v] = wrun[v]
    BY <1>6 DEF FinishJob, FailRun, ToIdle
  <2> QED
    BY <2>1, <2>2 DEF BusyInv
<1>7. ASSUME NEW w \in Worker, NEW i \in Item, NEW ok \in BOOLEAN, SaveResult(w, i, ok)
      PROVE  PromotionSeesSuccess'
  BY <1>7 DEF SaveResult
<1>8. ASSUME NEW w \in Worker, LoadRun(w) PROVE PromotionSeesSuccess'
  BY <1>8 DEF LoadRun
<1>9. ASSUME NEW w \in Worker, Renew(w) \/ Promote(w) \/ Raise(w) \/ Crash(w)
      PROVE  PromotionSeesSuccess'
  BY <1>9 DEF Renew, Promote, Raise, Crash, ToIdle
<1>10. CASE Tick \/ Stall \/ UNCHANGED vars
  BY <1>10 DEF Tick, Stall, TimePasses, vars
<1> HIDE DEF TypeOK, PromotionSeesSuccess
<1> QED
  BY <1>1, <1>2, <1>3, <1>4, <1>5, <1>6, <1>7, <1>8, <1>9, <1>10 DEF Next, Request, Step

\* Only a holder moves its run, so what another holder knows of its own run stays true.
LEMMA PositionStep ==
  ASSUME TypeOK, BusyInv, TokenInv, JobInv, PositionInv, PromotionSeesSuccess, [Next]_vars
  PROVE  PositionInv'
<1> USE DEF TypeOK, PositionInv, Holds, runVars, jobVars, workerVars, countVars, histVars
<1>1. ASSUME NEW s \in Source, NEW r \in RunId, CreateRun(s, r) PROVE PositionInv'
  BY <1>1 DEF CreateRun, BusyInv
<1>2. ASSUME NEW s \in Source, NEW r \in RunId, ResumeRun(s, r) PROVE PositionInv'
  <2>1. \A q \in RunId : jobStatus'[q] = "RUNNING" => jobStatus[q] = "RUNNING"
    BY <1>2 DEF ResumeRun, LeaseLive
  <2> QED
    BY <1>2, <2>1 DEF ResumeRun, BusyInv
<1>3. ASSUME NEW w \in Worker, Claim(w) PROVE PositionInv'
  <2>1. PICK r \in RunId :
          /\ r \in Claimable
          /\ jobStatus' = [jobStatus EXCEPT ![r] = "RUNNING"]
          /\ jobToken' = [jobToken EXCEPT ![r] = claims + 1]
          /\ wrun' = [wrun EXCEPT ![w] = r]
    BY <1>3, ClaimTakesJob
  <2>2. runStatus[r] \in {"RUNNING", "PARTIAL", "SUCCESS"}
    BY <2>1 DEF Claimable, JobInv
  <2>3. /\ pc' = [pc EXCEPT ![w] = "load"]
        /\ wtoken' = [wtoken EXCEPT ![w] = claims + 1]
        /\ UNCHANGED <<runStatus, werror>>
    BY <1>3 DEF Claim
  <2>4. \A v \in Worker : (v # w /\ pc[v] # "idle" /\ Holds(v)') => Holds(v)
    BY <2>1, <2>3 DEF TokenInv, BusyInv
  <2> QED
    BY <2>1, <2>2, <2>3, <2>4
<1>4. ASSUME NEW w \in Worker, NEW items \in SUBSET Item, Inventory(w, items) PROVE PositionInv'
  <2>1. Holds(w) /\ wrun[w] \in RunId /\ pc[w] # "idle"
    BY <1>4, HolderRunOpen DEF Inventory
  <2>2. \A v \in Worker : (v # w /\ pc[v] # "idle" /\ Holds(v)) => wrun[v] # wrun[w]
    BY <2>1, OneHolder
  <2>3. /\ runStatus' = [runStatus EXCEPT ![wrun[w]] = "RUNNING"]
        /\ pc' = [pc EXCEPT ![w] = "aggregate"] \/ pc' = [pc EXCEPT ![w] = "items"]
        /\ UNCHANGED <<wrun, wtoken, werror, jobVars>>
    BY <1>4 DEF Inventory
  <2> QED
    BY <2>1, <2>2, <2>3
<1>5. ASSUME NEW w \in Worker, FinishRun(w) PROVE PositionInv'
  <2>1. Holds(w) /\ wrun[w] \in RunId /\ pc[w] # "idle"
    BY <1>5, HolderRunOpen DEF FinishRun, Outcome
  <2>2. \A v \in Worker : (v # w /\ pc[v] # "idle" /\ Holds(v)) => wrun[v] # wrun[w]
    BY <2>1, OneHolder
  <2>3. /\ \/ /\ runStatus' = [runStatus EXCEPT ![wrun[w]] = "SUCCESS"]
              /\ pc' = [pc EXCEPT ![w] = "promote"]
           \/ /\ runStatus' = [runStatus EXCEPT ![wrun[w]] = "PARTIAL"]
              /\ pc' = [pc EXCEPT ![w] = "finish"]
        /\ UNCHANGED <<wrun, wtoken, werror, jobVars>>
    BY <1>5 DEF FinishRun, Outcome
  <2>4. /\ runStatus'[wrun[w]] \in {"PARTIAL", "SUCCESS"}
        /\ pc'[w] \in {"promote", "finish"}
    BY <2>1, <2>3
  <2>5. \A v \in Worker : v # w => pc'[v] = pc[v]
    BY <2>3
  <2>6. \A v \in Worker : (v # w /\ pc[v] # "idle" /\ Holds(v)) =>
          runStatus'[wrun[v]] = runStatus[wrun[v]]
    <3>1. \A r \in RunId : r # wrun[w] => runStatus'[r] = runStatus[r]
      BY <2>1, <2>3
    <3>2. \A v \in Worker : pc[v] # "idle" => wrun[v] \in RunId
      BY DEF BusyInv
    <3> QED
      BY ONLY <3>1, <3>2, <2>2
  <2> QED
    BY <2>3, <2>4, <2>5, <2>6
<1>6. ASSUME NEW w \in Worker, FinishJob(w) PROVE PositionInv'
  <2>1. \A v \in Worker : pc'[v] # "idle" =>
          /\ v # w /\ pc[v] # "idle" /\ wrun[v] \in RunId
          /\ pc'[v] = pc[v] /\ wrun'[v] = wrun[v] /\ wtoken'[v] = wtoken[v] /\ werror'[v] = werror[v]
    BY <1>6 DEF FinishJob, FailRun, ToIdle, BusyInv
  <2>2. CASE AssertLease(w)
    <3>1. jobStatus'[wrun[w]] # "RUNNING"
      BY <1>6, <2>2 DEF FinishJob, FailRun, CloseJob, BusyInv
    <3>2. \A r \in RunId : r # wrun[w] =>
            jobStatus'[r] = jobStatus[r] /\ jobToken'[r] = jobToken[r] /\ runStatus'[r] = runStatus[r]
      BY <1>6, <2>2 DEF FinishJob, FailRun, CloseJob
    <3> QED
      BY <2>1, <3>1, <3>2
  <2>3. CASE ~AssertLease(w)
    BY <1>6, <2>1, <2>3 DEF FinishJob, FailRun
  <2> QED
    BY <2>2, <2>3
<1>7. ASSUME NEW w \in Worker, NEW i \in Item, NEW ok \in BOOLEAN, SaveResult(w, i, ok) PROVE PositionInv'
  BY <1>7 DEF SaveResult
<1>8. ASSUME NEW w \in Worker, LoadRun(w) PROVE PositionInv'
  BY <1>8 DEF LoadRun
<1>9. ASSUME NEW w \in Worker, Promote(w) PROVE PositionInv'
  BY <1>9 DEF Promote
<1>10. ASSUME NEW w \in Worker, Raise(w) PROVE PositionInv'
  <2>1. pc[w] # "none"
    BY DEF Position
  <2> QED
    BY <1>10, <2>1 DEF Raise
<1>11. ASSUME NEW w \in Worker, Renew(w) \/ Crash(w) PROVE PositionInv'
  BY <1>11 DEF Renew, Crash, ToIdle
<1>12. CASE Tick \/ Stall \/ UNCHANGED vars
  BY <1>12 DEF Tick, Stall, TimePasses, vars
<1> HIDE DEF TypeOK, PositionInv, Holds
<1> QED
  BY <1>1, <1>2, <1>3, <1>4, <1>5, <1>6, <1>7, <1>8, <1>9, <1>10, <1>11, <1>12
     DEF Next, Request, Step

\* A run becomes open only where its source has no other open run.
LEMMA OneOpenRunStep ==
  ASSUME TypeOK, BusyInv, PositionInv, OneOpenRunPerSource, [Next]_vars
  PROVE  OneOpenRunPerSource'
<1> USE DEF TypeOK, OneOpenRunPerSource, IsOpen, runVars, jobVars, workerVars, countVars, histVars
<1>1. ASSUME NEW s \in Source, NEW r \in RunId, CreateRun(s, r) PROVE OneOpenRunPerSource'
  <2>1. \A q \in RunId : runSource[q] = s => ~IsOpen(q)
    BY <1>1 DEF CreateRun, Resumable
  <2> QED
    BY <1>1, <2>1 DEF CreateRun
<1>2. ASSUME UNCHANGED runSource,
             \A r \in RunId : IsOpen(r)' => IsOpen(r)
      PROVE  OneOpenRunPerSource'
  BY <1>2
<1>3. ASSUME NEW w \in Worker, NEW items \in SUBSET Item, Inventory(w, items)
      PROVE  UNCHANGED runSource /\ \A r \in RunId : IsOpen(r)' => IsOpen(r)
  <2>1. IsOpen(wrun[w])
    BY <1>3, HolderRunOpen DEF Inventory
  <2> QED
    BY <1>3, <2>1 DEF Inventory
<1>4. ASSUME NEW w \in Worker, FinishRun(w)
      PROVE  UNCHANGED runSource /\ \A r \in RunId : IsOpen(r)' => IsOpen(r)
  <2>1. IsOpen(wrun[w])
    BY <1>4, HolderRunOpen DEF FinishRun, Outcome
  <2> QED
    BY <1>4, <2>1 DEF FinishRun, Outcome
<1>5. ASSUME NEW w \in Worker, FinishJob(w)
      PROVE  UNCHANGED runSource /\ \A r \in RunId : IsOpen(r)' => IsOpen(r)
  BY <1>5 DEF FinishJob, FailRun
<1>6. ASSUME UNCHANGED runVars
      PROVE  UNCHANGED runSource /\ \A r \in RunId : IsOpen(r)' => IsOpen(r)
  BY <1>6
<1>7. ASSUME NEW s \in Source, NEW r \in RunId, ResumeRun(s, r) PROVE UNCHANGED runVars
  BY <1>7 DEF ResumeRun
<1>8. ASSUME NEW w \in Worker,
             \/ Claim(w) \/ Renew(w) \/ LoadRun(w) \/ Promote(w) \/ Raise(w) \/ Crash(w)
             \/ \E i \in Item, ok \in BOOLEAN : SaveResult(w, i, ok)
      PROVE  UNCHANGED runVars
  BY <1>8 DEF Claim, Renew, LoadRun, Promote, Raise, Crash, SaveResult
<1>9. ASSUME Tick \/ Stall \/ UNCHANGED vars PROVE UNCHANGED runVars
  BY <1>9 DEF Tick, Stall, TimePasses, vars
<1> HIDE DEF TypeOK, OneOpenRunPerSource, IsOpen, runVars
<1> QED
  BY <1>1, <1>2, <1>3, <1>4, <1>5, <1>6, <1>7, <1>8, <1>9 DEF Next, Request, Step

\* The last writer of a run is never ahead of the job's token, and never goes back.
LEMMA WriterStep ==
  ASSUME TypeOK, BusyInv, TokenInv, WriterInv, [Next]_vars
  PROVE  WriterInv' /\ \A r \in RunId : writer'[r] >= writer[r]
<1> USE DEF TypeOK, WriterInv, runVars, jobVars, workerVars, countVars, histVars
<1> DEFINE Goal == WriterInv' /\ \A r \in RunId : writer'[r] >= writer[r]
<1>1. ASSUME NEW w \in Worker, Claim(w) PROVE Goal
  <2>1. PICK r \in RunId : jobToken' = [jobToken EXCEPT ![r] = claims + 1]
    BY <1>1, ClaimTakesJob
  <2> QED
    BY <1>1, <2>1 DEF Claim, TokenInv
<1>2. ASSUME NEW w \in Worker, AssertLease(w), pc[w] # "idle", UNCHANGED jobToken,
             writer' = [writer EXCEPT ![wrun[w]] = wtoken[w]]
      PROVE  Goal
  BY <1>2 DEF AssertLease, BusyInv
<1>3. ASSUME NEW w \in Worker,
             \/ \E items \in SUBSET Item : Inventory(w, items)
             \/ \E i \in Item, ok \in BOOLEAN : SaveResult(w, i, ok)
             \/ FinishRun(w)
      PROVE  Goal
  <2>1. /\ AssertLease(w) /\ pc[w] # "idle" /\ UNCHANGED jobToken
        /\ writer' = [writer EXCEPT ![wrun[w]] = wtoken[w]]
    BY <1>3 DEF Inventory, SaveResult, FinishRun, Outcome
  <2> QED
    BY ONLY <2>1, <1>2
<1>4. ASSUME UNCHANGED <<jobToken, writer>> PROVE Goal
  BY <1>4
<1>5. ASSUME NEW s \in Source, NEW r \in RunId, CreateRun(s, r) \/ ResumeRun(s, r)
      PROVE  UNCHANGED <<jobToken, writer>>
  BY <1>5 DEF CreateRun, ResumeRun
<1>6. ASSUME NEW w \in Worker,
             Renew(w) \/ LoadRun(w) \/ Promote(w) \/ Raise(w) \/ FinishJob(w) \/ Crash(w)
      PROVE  UNCHANGED <<jobToken, writer>>
  BY <1>6 DEF Renew, LoadRun, Promote, Raise, FinishJob, FailRun, Crash
<1>7. ASSUME Tick \/ Stall \/ UNCHANGED vars PROVE UNCHANGED <<jobToken, writer>>
  BY <1>7 DEF Tick, Stall, TimePasses, vars
<1> HIDE DEF Goal, TypeOK, WriterInv
<1>8. Goal
  BY <1>1, <1>3, <1>4, <1>5, <1>6, <1>7 DEF Next, Request, Step
<1> QED
  BY <1>8 DEF Goal

-----------------------------------------------------------------------------
(* The inductive invariant and what follows from it *)

LEMMA InitIInv == Init => IInv
<1> SUFFICES ASSUME Init PROVE IInv
  OBVIOUS
<1>1. TypeOK
  BY InitType
<1>2. BusyInv /\ TokenInv /\ JobInv /\ PositionInv /\ WriterInv
  BY DEF Init, BusyInv, TokenInv, JobInv, PositionInv, WriterInv
<1>3. PromotionSeesSuccess /\ OneOpenRunPerSource
  BY DEF Init, PromotionSeesSuccess, OneOpenRunPerSource, IsOpen
<1> QED
  BY <1>1, <1>2, <1>3 DEF IInv

LEMMA NextIInv == IInv /\ [Next]_vars => IInv'
  BY NextType, TokenStep, JobStep, PositionStep, PromotionStep, OneOpenRunStep, WriterStep
     DEF IInv

\* The strengthening is an invariant of the specification.
THEOREM Inductive == Spec => []IInv
  BY InitIInv, NextIInv, PTL DEF Spec

\* A source never has two runs that could both still be written.
THEOREM OneOpenRun == Spec => []OneOpenRunPerSource
<1>1. IInv => OneOpenRunPerSource
  BY DEF IInv
<1> QED
  BY <1>1, Inductive, PTL

\* No run is left RUNNING without a job that will end it, as long as every
\* exception has a text.
THEOREM NoOrphan ==
  ASSUME ~SilentErrors
  PROVE  Spec => []NoOrphanedRun
<1>1. IInv => NoOrphanedRun
  BY DEF IInv, JobInv, NoOrphanedRun
<1> QED
  BY <1>1, Inductive, PTL

\* Promotion only ever sees a SUCCESS run, lease or no lease.
THEOREM PromotionSafe == Spec => []PromotionSeesSuccess
<1>1. IInv => PromotionSeesSuccess
  BY DEF IInv
<1> QED
  BY <1>1, Inductive, PTL

\* A superseded claim never writes after its successor has.
THEOREM NoStaleWrites == Spec => NoSupersededWrite
<1>1. IInv /\ [Next]_vars => [\A r \in RunId : writer'[r] >= writer[r]]_vars
  BY WriterStep DEF IInv
<1> QED
  BY <1>1, Inductive, PTL DEF Spec, NoSupersededWrite
-----------------------------------------------------------------------------
(* Runs that ended, leases that were lost *)

\* The only steps that change the status of an existing run, and what they find.
LEMMA StatusStep ==
  ASSUME IInv, [Next]_vars
  PROVE  \/ UNCHANGED runVars
         \/ \E s \in Source, r \in RunId : CreateRun(s, r)
         \/ \E r \in RunId, outcome \in {"RUNNING", "SUCCESS", "PARTIAL", "FAILED"} :
              /\ runStatus' = [runStatus EXCEPT ![r] = outcome]
              /\ UNCHANGED <<runSource, exposed>>
              /\ \/ runStatus[r] = "RUNNING"
                 \/ runStatus[r] = "PARTIAL" /\ outcome = "RUNNING"
<1> DEFINE Moves ==
       \E r \in RunId, outcome \in {"RUNNING", "SUCCESS", "PARTIAL", "FAILED"} :
              /\ runStatus' = [runStatus EXCEPT ![r] = outcome]
              /\ UNCHANGED <<runSource, exposed>>
              /\ \/ runStatus[r] = "RUNNING"
                 \/ runStatus[r] = "PARTIAL" /\ outcome = "RUNNING"
<1>0. TypeOK /\ BusyInv /\ PositionInv
  BY DEF IInv
<1>1. ASSUME NEW w \in Worker, NEW items \in SUBSET Item, Inventory(w, items) PROVE Moves
  <2>1. wrun[w] \in RunId /\ runStatus[wrun[w]] \in {"RUNNING", "PARTIAL"}
    BY <1>0, <1>1, HolderRunOpen DEF Inventory
  <2>2. runStatus' = [runStatus EXCEPT ![wrun[w]] = "RUNNING"] /\ UNCHANGED <<runSource, exposed>>
    BY <1>1 DEF Inventory
  <2> QED
    BY <2>1, <2>2
<1>2. ASSUME NEW w \in Worker, FinishRun(w) PROVE Moves
  <2>1. wrun[w] \in RunId /\ runStatus[wrun[w]] = "RUNNING"
    BY <1>0, <1>2, HolderRunOpen DEF FinishRun, Outcome
  <2>2. /\ \/ runStatus' = [runStatus EXCEPT ![wrun[w]] = "SUCCESS"]
           \/ runStatus' = [runStatus EXCEPT ![wrun[w]] = "PARTIAL"]
        /\ UNCHANGED <<runSource, exposed>>
    BY <1>2 DEF FinishRun, Outcome
  <2> QED
    BY <2>1, <2>2
<1>3. ASSUME NEW w \in Worker, FinishJob(w) PROVE Moves \/ UNCHANGED runVars
  <2>1. wrun[w] \in RunId
    BY <1>0, <1>3 DEF FinishJob, FailRun, BusyInv
  <2>2. /\ UNCHANGED <<runSource, exposed>>
        /\ \/ UNCHANGED runStatus
           \/ /\ runStatus[wrun[w]] = "RUNNING"
              /\ runStatus' = [runStatus EXCEPT ![wrun[w]] = "FAILED"]
    BY <1>3 DEF FinishJob, FailRun
  <2> QED
    BY <2>1, <2>2 DEF runVars
<1>4. ASSUME NEW s \in Source, NEW r \in RunId, ResumeRun(s, r) PROVE UNCHANGED runVars
  BY <1>4 DEF ResumeRun
<1>5. ASSUME NEW w \in Worker,
             \/ Claim(w) \/ Renew(w) \/ LoadRun(w) \/ Promote(w) \/ Raise(w) \/ Crash(w)
             \/ \E i \in Item, ok \in BOOLEAN : SaveResult(w, i, ok)
      PROVE  UNCHANGED runVars
  BY <1>5 DEF Claim, Renew, LoadRun, Promote, Raise, Crash, SaveResult, runVars
<1>6. ASSUME Tick \/ Stall \/ UNCHANGED vars PROVE UNCHANGED runVars
  BY <1>6 DEF Tick, Stall, TimePasses, vars
<1> HIDE DEF Moves, runVars
<1>7. Moves \/ UNCHANGED runVars \/ \E s \in Source, r \in RunId : CreateRun(s, r)
  BY <1>1, <1>2, <1>3, <1>4, <1>5, <1>6 DEF Next, Request, Step
<1> QED
  BY <1>7 DEF Moves

\* A run that ended in SUCCESS or FAILED is never reopened or relabelled.
THEOREM ClosedForGood == Spec => ClosedRunsStayClosed
<1>1. ASSUME IInv, [Next]_vars, NEW q \in RunId, runStatus[q] \in {"SUCCESS", "FAILED"}
      PROVE  runStatus'[q] = runStatus[q]
  <2>1. TypeOK
    BY <1>1 DEF IInv
  <2>2. CASE UNCHANGED runVars
    BY <2>2 DEF runVars
  <2>3. ASSUME NEW s \in Source, NEW r \in RunId, CreateRun(s, r)
        PROVE  runStatus'[q] = runStatus[q]
    BY <1>1, <2>1, <2>3 DEF CreateRun, OldestOf, TypeOK
  <2>4. ASSUME NEW r \in RunId, NEW outcome \in {"RUNNING", "SUCCESS", "PARTIAL", "FAILED"},
               runStatus' = [runStatus EXCEPT ![r] = outcome],
               runStatus[r] \in {"RUNNING", "PARTIAL"}
        PROVE  runStatus'[q] = runStatus[q]
    BY <1>1, <2>1, <2>4 DEF TypeOK
  <2> QED
    BY <1>1, <2>2, <2>3, <2>4, StatusStep
<1>2. IInv /\ [Next]_vars =>
        [\A r \in RunId : runStatus[r] \in {"SUCCESS", "FAILED"} => runStatus'[r] = runStatus[r]]_vars
  BY <1>1
<1> QED
  BY <1>2, Inductive, PTL DEF Spec, ClosedRunsStayClosed

\* A worker that lost its lease never has that claim's lease again.
THEOREM LeaseLostForGood == Spec => LostLeaseStaysLost
<1> DEFINE Stays(w) ==
      (pc[w] # "idle" /\ ~AssertLease(w) /\ pc'[w] # "idle") => ~AssertLease(w)'
<1>1. ASSUME IInv, [Next]_vars, NEW w \in Worker PROVE Stays(w)
  <2> SUFFICES ASSUME pc[w] # "idle", pc'[w] # "idle", AssertLease(w)' PROVE AssertLease(w)
    OBVIOUS
  <2> DEFINE r == wrun[w]
  <2>0. TypeOK /\ TokenInv /\ r \in RunId
    BY <1>1 DEF IInv, BusyInv
  <2>1. ASSUME NEW v \in Worker, Claim(v) PROVE AssertLease(w)
    <3>1. PICK q \in RunId : /\ jobStatus' = [jobStatus EXCEPT ![q] = "RUNNING"]
                             /\ jobToken'  = [jobToken EXCEPT ![q] = claims + 1]
                             /\ lease'     = [lease EXCEPT ![q] = LeaseTicks]
                             /\ wrun'      = [wrun EXCEPT ![v] = q]
      BY <2>1, ClaimTakesJob
    <3>2. v # w /\ wtoken' = [wtoken EXCEPT ![v] = claims + 1]
      BY <2>1 DEF Claim
    <3>3. wtoken'[w] = wtoken[w] /\ wrun'[w] = r /\ wtoken[w] <= claims
      BY <3>1, <3>2, <2>0 DEF TypeOK, TokenInv
    <3>4. q # r
      BY <3>1, <3>3, <2>0 DEF AssertLease, TypeOK
    <3> QED
      BY <3>1, <3>3, <3>4, <2>0 DEF AssertLease, TypeOK
  <2>2. CASE KeepsTokens
    <3>1. wrun'[w] = r /\ wtoken'[w] = wtoken[w] /\ jobToken' = jobToken
      BY <2>2 DEF KeepsTokens
    <3>2. jobToken[r] = wtoken[w] /\ jobStatus'[r] = "RUNNING" /\ lease'[r] > 0
      BY <3>1 DEF AssertLease
    <3>3. SUFFICES jobStatus[r] = "RUNNING" /\ lease[r] > 0
      BY <3>2 DEF AssertLease
    <3> USE <2>0 DEF TypeOK
    <3>4. ASSUME NEW s \in Source, NEW q \in RunId, CreateRun(s, q)
          PROVE  jobStatus[r] = "RUNNING" /\ lease[r] > 0
      BY <3>2, <3>4 DEF CreateRun
    <3>5. ASSUME NEW s \in Source, NEW q \in RunId, ResumeRun(s, q)
          PROVE  jobStatus[r] = "RUNNING" /\ lease[r] > 0
      BY <3>2, <3>5 DEF ResumeRun, LeaseLive
    <3>6. ASSUME NEW v \in Worker, Renew(v)
          PROVE  jobStatus[r] = "RUNNING" /\ lease[r] > 0
      <4>1. /\ jobStatus' = jobStatus /\ jobToken[wrun[v]] = wtoken[v] /\ pc[v] # "idle"
            /\ lease[wrun[v]] > 0
        BY <3>6 DEF Renew, AssertLease, jobVars
      <4>2. CASE wrun[v] = r
        BY <3>2, <4>1, <4>2
      <4>3. CASE wrun[v] # r
        BY <3>2, <3>6, <4>1, <4>3 DEF Renew
      <4> QED
        BY <4>2, <4>3
    <3>7. ASSUME NEW v \in Worker, FinishJob(v)
          PROVE  jobStatus[r] = "RUNNING" /\ lease[r] > 0
      BY <3>2, <3>7 DEF FinishJob, FailRun, CloseJob
    <3>8. ASSUME UNCHANGED <<jobStatus, lease>>
          PROVE  jobStatus[r] = "RUNNING" /\ lease[r] > 0
      BY <3>2, <3>8
    <3>9. ASSUME NEW v \in Worker,
                 \/ LoadRun(v) \/ FinishRun(v) \/ Promote(v) \/ Raise(v) \/ Crash(v)
                 \/ \E items \in SUBSET Item : Inventory(v, items)
                 \/ \E i \in Item, ok \in BOOLEAN : SaveResult(v, i, ok)
          PROVE  UNCHANGED <<jobStatus, lease>>
      BY <3>9 DEF LoadRun, FinishRun, Outcome, Promote, Raise, Crash, Inventory, SaveResult, jobVars
    <3>10. ASSUME UNCHANGED vars PROVE UNCHANGED <<jobStatus, lease>>
      BY <3>10 DEF vars, jobVars
    <3>11. ASSUME TimePasses PROVE jobStatus[r] = "RUNNING" /\ lease[r] > 0
      BY <3>2, <3>11 DEF TimePasses
    <3>12. (Tick \/ Stall) => TimePasses
      BY DEF Tick, Stall
    <3> HIDE DEF r, TypeOK
    <3> QED
      BY <1>1, <2>1, <3>2, <3>4, <3>5, <3>6, <3>7, <3>8, <3>9, <3>10, <3>11, <3>12
         DEF Next, Request, Step, AssertLease, r
  <2> QED
    BY <1>1, <2>0, <2>1, <2>2, OnlyClaimIssuesTokens
<1>2. IInv /\ [Next]_vars => [\A w \in Worker : Stays(w)]_vars
  BY <1>1
<1> QED
  BY <1>2, Inductive, PTL DEF Spec, LostLeaseStaysLost

-----------------------------------------------------------------------------
(* The refinement *)

LEMMA LifecycleInit == Init => Lifecycle!Init
  BY DEF Init, Lifecycle!Init, RunId, Lifecycle!RunId

LEMMA LifecycleStep == IInv /\ [Next]_vars => [Lifecycle!Next]_(Lifecycle!vars)
<1> SUFFICES ASSUME IInv, [Next]_vars PROVE [Lifecycle!Next]_(Lifecycle!vars)
  OBVIOUS
<1> USE DEF RunId, Lifecycle!RunId
<1>0. TypeOK
  BY DEF IInv
<1>1. ASSUME NEW s \in Source, NEW r \in RunId, CreateRun(s, r) PROVE Lifecycle!Next
  <2>1. Lifecycle!Start(s, r)
    BY <1>1 DEF CreateRun, OldestOf, Resumable, IsOpen, Lifecycle!Start, Lifecycle!IsOpen
  <2> QED
    BY <2>1 DEF Lifecycle!Next
<1>2. ASSUME NEW r \in RunId, NEW outcome \in {"RUNNING", "SUCCESS", "PARTIAL", "FAILED"},
             runStatus' = [runStatus EXCEPT ![r] = outcome],
             UNCHANGED <<runSource, exposed>>,
             runStatus[r] = "RUNNING" \/ (runStatus[r] = "PARTIAL" /\ outcome = "RUNNING")
      PROVE  [Lifecycle!Next]_(Lifecycle!vars)
  <2>1. CASE runStatus[r] = "PARTIAL"
    BY <1>2, <2>1 DEF Lifecycle!Next, Lifecycle!Resume
  <2>2. CASE runStatus[r] = "RUNNING" /\ outcome = "RUNNING"
    BY <1>0, <1>2, <2>2 DEF Lifecycle!vars, TypeOK
  <2>3. CASE runStatus[r] = "RUNNING" /\ outcome # "RUNNING"
    BY <1>2, <2>3 DEF Lifecycle!Next, Lifecycle!Settle
  <2> QED
    BY <1>2, <2>1, <2>2, <2>3
<1>3. ASSUME NEW w \in Worker, Promote(w) PROVE Lifecycle!Next
  <2>1. Lifecycle!Expose(wrun[w]) /\ wrun[w] \in RunId
    BY <1>3 DEF Promote, runVars, Lifecycle!Expose, IInv, BusyInv
  <2> QED
    BY <2>1 DEF Lifecycle!Next
<1>4. UNCHANGED <<runVars, exposed>> => UNCHANGED Lifecycle!vars
  BY DEF runVars, Lifecycle!vars
<1>5. UNCHANGED runVars => UNCHANGED <<runVars, exposed>> \/ \E w \in Worker : Promote(w)
  <2>1. ASSUME NEW s \in Source, NEW r \in RunId, CreateRun(s, r) \/ ResumeRun(s, r)
        PROVE  UNCHANGED exposed
    BY <2>1 DEF CreateRun, ResumeRun
  <2>2. ASSUME NEW w \in Worker,
               \/ Claim(w) \/ Renew(w) \/ LoadRun(w) \/ FinishRun(w) \/ Raise(w)
               \/ FinishJob(w) \/ Crash(w)
               \/ \E items \in SUBSET Item : Inventory(w, items)
               \/ \E i \in Item, ok \in BOOLEAN : SaveResult(w, i, ok)
        PROVE  UNCHANGED exposed
    BY <2>2 DEF Claim, Renew, LoadRun, FinishRun, Outcome, Raise, FinishJob, FailRun, Crash, Inventory, SaveResult
  <2>3. ASSUME Tick \/ Stall \/ UNCHANGED vars PROVE UNCHANGED exposed
    BY <2>3 DEF Tick, Stall, TimePasses, vars
  <2> QED
    BY <2>1, <2>2, <2>3 DEF Next, Request, Step
<1> HIDE DEF RunId
<1> QED
  BY <1>1, <1>2, <1>3, <1>4, <1>5, StatusStep

\* The job queue, with its leases, faults and retries, implements the run lifecycle.
THEOREM Implementation == Spec => ImplementsRunLifecycle
<1>1. Spec => Lifecycle!Init /\ [][Lifecycle!Next]_(Lifecycle!vars)
  BY LifecycleInit, LifecycleStep, Inductive, PTL DEF Spec
<1> QED
  BY <1>1 DEF ImplementsRunLifecycle, Lifecycle!Spec

-----------------------------------------------------------------------------
(* Where the work that is left is kept: the safety core of the two liveness
   properties.  What remains for them is that somebody takes it up. *)

\* A run that is not settled, or a SUCCESS without its batch, has a job that a
\* worker may claim now, or one under a live lease, or one that ended FAILED and
\* that a request requeues.
UnfinishedWorkIsKept ==
  \A r \in RunId :
    /\ runStatus[r] = "RUNNING" => r \in Claimable \/ LeaseLive(r)
    /\ (runStatus[r] = "SUCCESS" /\ ~exposed[r]) =>
         r \in Claimable \/ LeaseLive(r) \/ r \in Resumable(runSource[r])

\* A holder that ends without an error on a SUCCESS run has exposed it, and a job
\* is COMPLETE only over such a run.
PromotedInv ==
  /\ \A w \in Worker :
       (pc[w] = "finish" /\ Holds(w) /\ werror[w] = "none" /\ runStatus[wrun[w]] = "SUCCESS")
         => exposed[wrun[w]]
  /\ \A r \in RunId :
       (runStatus[r] = "SUCCESS" /\ ~exposed[r]) => jobStatus[r] \in {"QUEUED", "RUNNING", "FAILED"}

LEMMA PromotedStep ==
  ASSUME ~SilentErrors, IInv, PromotedInv, [Next]_vars
  PROVE  PromotedInv'
<1> USE DEF TypeOK, PromotedInv, Holds, runVars, jobVars, workerVars, countVars, histVars
<1> TypeOK /\ BusyInv
  BY DEF IInv
<1>1. ASSUME NEW s \in Source, NEW r \in RunId, CreateRun(s, r) PROVE PromotedInv'
  <2>1. \A w \in Worker : pc[w] = "finish" => wrun[w] \in RunId
    BY DEF BusyInv
  <2> QED
    BY <1>1, <2>1 DEF CreateRun
<1>2. ASSUME NEW s \in Source, NEW r \in RunId, ResumeRun(s, r) PROVE PromotedInv'
  <2>1. \A q \in RunId : jobStatus'[q] = "RUNNING" => jobStatus[q] = "RUNNING"
    BY <1>2 DEF ResumeRun, LeaseLive
  <2>2. \A q \in RunId : jobStatus'[q] = jobStatus[q] \/ jobStatus'[q] \in {"QUEUED", "RUNNING"}
    BY <1>2 DEF ResumeRun
  <2>3. UNCHANGED <<runStatus, exposed, jobToken, workerVars>>
    BY <1>2 DEF ResumeRun
  <2> QED
    BY <2>1, <2>2, <2>3 DEF BusyInv
<1>3. ASSUME NEW w \in Worker, Claim(w) PROVE PromotedInv'
  <2>1. PICK r \in RunId :
          /\ r \in Claimable
          /\ jobStatus' = [jobStatus EXCEPT ![r] = "RUNNING"]
          /\ jobToken' = [jobToken EXCEPT ![r] = claims + 1]
          /\ wrun' = [wrun EXCEPT ![w] = r]
    BY <1>3, ClaimTakesJob
  <2>2. /\ pc' = [pc EXCEPT ![w] = "load"]
        /\ wtoken' = [wtoken EXCEPT ![w] = claims + 1]
        /\ UNCHANGED <<runStatus, exposed, werror>>
    BY <1>3 DEF Claim
  <2>3. \A v \in Worker : (v # w /\ pc[v] # "idle" /\ Holds(v)') => Holds(v)
    BY <2>1, <2>2 DEF IInv, TokenInv, BusyInv
  <2> QED
    BY <2>1, <2>2, <2>3
<1>4. ASSUME NEW w \in Worker, NEW items \in SUBSET Item, Inventory(w, items) PROVE PromotedInv'
  BY <1>4 DEF Inventory, AssertLease, BusyInv
<1>5. ASSUME NEW w \in Worker, FinishRun(w) PROVE PromotedInv'
  <2>1. Holds(w) /\ wrun[w] \in RunId /\ pc[w] # "idle" /\ jobStatus[wrun[w]] = "RUNNING"
    BY <1>5, HolderRunOpen DEF FinishRun, Outcome, AssertLease, IInv
  <2>2. \A v \in Worker : (v # w /\ pc[v] # "idle" /\ Holds(v)) => wrun[v] # wrun[w]
    BY <2>1, OneHolder DEF IInv
  <2>3. /\ \/ /\ runStatus' = [runStatus EXCEPT ![wrun[w]] = "SUCCESS"]
              /\ pc' = [pc EXCEPT ![w] = "promote"]
           \/ /\ runStatus' = [runStatus EXCEPT ![wrun[w]] = "PARTIAL"]
              /\ pc' = [pc EXCEPT ![w] = "finish"]
        /\ UNCHANGED <<wrun, wtoken, werror, jobVars, exposed>>
    BY <1>5 DEF FinishRun, Outcome
  <2>4. ASSUME NEW v \in Worker, pc'[v] = "finish", Holds(v)', werror'[v] = "none",
               runStatus'[wrun'[v]] = "SUCCESS"
        PROVE  exposed'[wrun'[v]]
    <3>1. v # w
      BY <2>1, <2>3, <2>4
    <3>2. pc[v] = "finish" /\ Holds(v) /\ wrun[v] \in RunId /\ wrun[v] # wrun[w]
      BY <2>2, <2>3, <2>4, <3>1 DEF BusyInv
    <3> QED
      BY <2>3, <2>4, <3>2
  <2>5. \A r \in RunId : r = wrun[w] \/ runStatus'[r] = runStatus[r]
    BY <2>3
  <2> QED
    BY <2>1, <2>3, <2>4, <2>5
<1>6. ASSUME NEW w \in Worker, Promote(w) PROVE PromotedInv'
  BY <1>6 DEF Promote, BusyInv
<1>7. ASSUME NEW w \in Worker, FinishJob(w) PROVE PromotedInv'
  <2>1. \A v \in Worker : pc'[v] # "idle" =>
          /\ v # w /\ pc[v] # "idle" /\ wrun[v] \in RunId
          /\ pc'[v] = pc[v] /\ wrun'[v] = wrun[v] /\ wtoken'[v] = wtoken[v] /\ werror'[v] = werror[v]
    BY <1>7 DEF FinishJob, FailRun, ToIdle, BusyInv
  <2>2. UNCHANGED <<exposed, jobToken>> /\ wrun[w] \in RunId
    BY <1>7 DEF FinishJob, BusyInv
  <2>3. \A r \in RunId : runStatus'[r] = "SUCCESS" => runStatus[r] = "SUCCESS"
    BY <1>7 DEF FinishJob, FailRun
  <2>4. \A r \in RunId : jobStatus'[r] = "RUNNING" => jobStatus[r] = "RUNNING"
    BY <1>7 DEF FinishJob, CloseJob
  <2>5. ASSUME NEW r \in RunId, runStatus[r] = "SUCCESS", ~exposed[r]
        PROVE  jobStatus'[r] \in {"QUEUED", "RUNNING", "FAILED"}
    <3>1. CASE AssertLease(w) /\ werror[w] # "none"
      BY <1>7, <2>5, <3>1 DEF FinishJob, CloseJob
    <3>2. CASE AssertLease(w) /\ werror[w] = "none"
      <4>1. r # wrun[w]
        BY <1>7, <2>5, <3>2 DEF FinishJob, AssertLease
      <4> QED
        BY <1>7, <2>5, <3>2, <4>1 DEF FinishJob, CloseJob
    <3>3. CASE ~AssertLease(w)
      BY <1>7, <2>5, <3>3 DEF FinishJob
    <3> QED
      BY <3>1, <3>2, <3>3
  <2> QED
    BY <2>1, <2>2, <2>3, <2>4, <2>5
<1>8. ASSUME NEW w \in Worker, Raise(w) PROVE PromotedInv'
  <2>1. werror' = [werror EXCEPT ![w] = "text"]
    BY <1>8 DEF Raise
  <2> QED
    BY <1>8, <2>1 DEF Raise
<1>9. ASSUME NEW w \in Worker, NEW i \in Item, NEW ok \in BOOLEAN, SaveResult(w, i, ok) PROVE PromotedInv'
  BY <1>9 DEF SaveResult
<1>10. ASSUME NEW w \in Worker, LoadRun(w) \/ Renew(w) \/ Crash(w) PROVE PromotedInv'
  BY <1>10 DEF LoadRun, Renew, Crash, ToIdle
<1>11. CASE Tick \/ Stall \/ UNCHANGED vars
  BY <1>11 DEF Tick, Stall, TimePasses, vars
<1> HIDE DEF TypeOK, PromotedInv, Holds
<1> QED
  BY <1>1, <1>2, <1>3, <1>4, <1>5, <1>6, <1>7, <1>8, <1>9, <1>10, <1>11
     DEF Next, Request, Step

\* No run is lost, however workers crash, stall and overtake each other, as long
\* as every exception has a text: its work is claimable, leased, or requeued by
\* the next request (run_once, JobRepository.claim, create_or_resume).
THEOREM NothingIsLost ==
  ASSUME ~SilentErrors
  PROVE  Spec => []UnfinishedWorkIsKept
<1>1. Init => PromotedInv
  BY DEF Init, PromotedInv
<1>2. IInv /\ PromotedInv /\ [Next]_vars => PromotedInv'
  BY PromotedStep
<1>3. IInv /\ PromotedInv => UnfinishedWorkIsKept
  <2> SUFFICES ASSUME IInv, PromotedInv, NEW r \in RunId
      PROVE  /\ runStatus[r] = "RUNNING" => r \in Claimable \/ LeaseLive(r)
             /\ (runStatus[r] = "SUCCESS" /\ ~exposed[r]) =>
                  r \in Claimable \/ LeaseLive(r) \/ r \in Resumable(runSource[r])
    BY DEF UnfinishedWorkIsKept
  <2>1. jobStatus[r] \in {"QUEUED", "RUNNING"} => r \in Claimable \/ LeaseLive(r)
    <3>1. lease[r] \in 0 .. LeaseTicks
      BY DEF IInv, TypeOK
    <3>2. lease[r] = 0 \/ lease[r] > 0
      BY <3>1, JobLeaseAssumption
    <3> QED
      BY <3>2 DEF Claimable, LeaseLive
  <2>2. runStatus[r] = "RUNNING" => jobStatus[r] \in {"QUEUED", "RUNNING"}
    BY DEF IInv, JobInv
  <2>3. (runStatus[r] = "SUCCESS" /\ ~exposed[r]) => jobStatus[r] \in {"QUEUED", "RUNNING", "FAILED"}
    BY DEF PromotedInv
  <2>4. (runStatus[r] = "SUCCESS" /\ jobStatus[r] = "FAILED") => r \in Resumable(runSource[r])
    BY DEF Resumable
  <2> QED
    BY <2>1, <2>2, <2>3, <2>4
<1> QED
  BY <1>1, <1>2, <1>3, Inductive, PTL DEF Spec
=============================================================================
