---------------------------- MODULE SourceItems ----------------------------
(***************************************************************************)
(* What an ingestion run does to the items of one source: the inventory    *)
(* diff against the item registry, per-item results that later attempts of *)
(* the run inherit, privately staged candidates, and their promotion and   *)
(* decision for one asset identity that any item may be evidence for.      *)
(*                                                                         *)
(* Content is the fact it states, so a content hash is the content itself. *)
(* At most one attempt can write at a time (JobLease, NoSupersededWrite),  *)
(* so there is one current attempt; its items are processed concurrently,  *)
(* each reading in one transaction and saving in another.                  *)
(***************************************************************************)
EXTENDS Naturals, FiniteSets

CONSTANTS Item,        \* objects the source may hold
          Content,     \* contents an object may have
          Gone,        \* the content of an object that is not listed
          None,        \* no hash, no result, no fact, no proposal
          MaxRuns,     \* bound: ingestion runs of the source
          MaxEdits,    \* bound: changes made to the source
          MaxFaults    \* bound: crashes, run failures and item failures

ASSUME SourceItemsAssumption ==
  /\ Gone \notin Content
  /\ None \notin Content \cup {"CHANGED", "UNCHANGED", "MISSING"}
  /\ None \notin [status : {"SUCCESS", "FAILED"}, hash : Content \cup {None}]
  /\ MaxRuns \in Nat \ {0} /\ MaxEdits \in Nat /\ MaxFaults \in Nat

VARIABLES
  content,                \* the source itself
  known, hash, avail,     \* source_item: rows, current_content_hash, availability
  runStatus,              \* cce_ingestion_run
  result, staged,         \* ingestion_item_result, candidate_extraction
  cur,                    \* the run of the current attempt, 0 if there is none
  work, seen, phase, draft,  \* the attempt: change type, hash, progress, candidates
  promoted, proposal,     \* the run has its batch; what the batch proposes
  fact, support,          \* the active asset revision and its evidence
  extracted,              \* history: contents of an item saved with a SUCCESS result
  edits, faults           \* counters

sourceVars   == <<content, edits>>
registryVars == <<known, hash, avail>>
runVars      == <<runStatus, result, staged>>
attemptVars  == <<cur, work, seen, phase, draft>>
packageVars  == <<promoted, proposal, fact, support>>
vars == <<sourceVars, registryVars, runVars, attemptVars, packageVars, extracted, faults>>

RunId     == 1 .. MaxRuns
RunStatus == {"ABSENT", "RUNNING", "PARTIAL", "SUCCESS", "FAILED"}
Change    == {"CHANGED", "UNCHANGED", "MISSING"}
Result    == [status : {"SUCCESS", "FAILED"}, hash : Content \cup {None}]
Candidate == [op : {"ASSERT", "REMOVE"}, fact : Content, hash : Content \cup {None}]
Proposal  == [op : {"CREATE", "UPDATE", "REMOVE", "AMBIGUITY"},
              fact : Content \cup {None}, evidence : SUBSET Item]

TypeOK ==
  /\ content \in [Item -> Content \cup {Gone}]
  /\ known \subseteq Item
  /\ hash \in [Item -> Content \cup {None}]
  /\ avail \in [Item -> BOOLEAN]
  /\ runStatus \in [RunId -> RunStatus]
  /\ result \in [RunId -> [Item -> Result \cup {None}]]
  /\ staged \in [RunId -> [Item -> SUBSET Candidate]]
  /\ cur \in RunId \cup {0}
  /\ work \in [Item -> Change \cup {None}]
  /\ seen \in [Item -> Content \cup {None}]
  /\ phase \in [Item -> {"idle", "todo", "ok", "failed", "saved"}]
  /\ draft \in [Item -> SUBSET Candidate]
  /\ promoted \subseteq RunId
  /\ proposal \in [RunId -> Proposal \cup {None}]
  /\ fact \in Content \cup {None} /\ support \subseteq Item
  /\ extracted \in [Item -> SUBSET Content]
  /\ edits \in 0 .. MaxEdits /\ faults \in 0 .. MaxFaults

NoAttempt ==
  /\ cur' = 0
  /\ work'  = [i \in Item |-> None]
  /\ seen'  = [i \in Item |-> None]
  /\ phase' = [i \in Item |-> "idle"]
  /\ draft' = [i \in Item |-> {}]

Init ==
  /\ content \in [Item -> Content \cup {Gone}]
  /\ known = {}
  /\ hash  = [i \in Item |-> None]
  /\ avail = [i \in Item |-> TRUE]
  /\ runStatus = [r \in RunId |-> "ABSENT"]
  /\ result = [r \in RunId |-> [i \in Item |-> None]]
  /\ staged = [r \in RunId |-> [i \in Item |-> {}]]
  /\ cur = 0
  /\ work  = [i \in Item |-> None]
  /\ seen  = [i \in Item |-> None]
  /\ phase = [i \in Item |-> "idle"]
  /\ draft = [i \in Item |-> {}]
  /\ promoted = {}
  /\ proposal = [r \in RunId |-> None]
  /\ fact = None /\ support = {}
  /\ extracted = [i \in Item |-> {}]
  /\ edits = 0 /\ faults = 0

Fault == faults < MaxFaults /\ faults' = faults + 1

-----------------------------------------------------------------------------
(* The source, which changes as it likes *)

EditSource(i, c) ==
  /\ edits < MaxEdits
  /\ content[i] # c
  /\ content' = [content EXCEPT ![i] = c]
  /\ edits'   = edits + 1
  /\ UNCHANGED <<registryVars, runVars, attemptVars, packageVars, extracted, faults>>

-----------------------------------------------------------------------------
(* Runs and attempts *)

IsOpen(r) == runStatus[r] \in {"RUNNING", "PARTIAL"}

\* create_or_resume finds nothing to resume.
NewRun(r) ==
  /\ runStatus[r] = "ABSENT"
  /\ \A q \in RunId : q < r => runStatus[q] \in {"SUCCESS", "FAILED"}
  /\ runStatus' = [runStatus EXCEPT ![r] = "RUNNING"]
  /\ UNCHANGED <<sourceVars, registryVars, result, staged, attemptVars, packageVars,
                 extracted, faults>>

\* Unchanged, had a result of the run counted whatever its status (a faulty variant).
UnchangedIfTried(r, i) ==
  IF result[r][i] = None
  THEN i \in known /\ hash[i] = content[i] /\ avail[i]
  ELSE result[r][i].hash = content[i]

\* The registry says the listed item was processed as it is; a result this run
\* already has for the item overrides the registry.
Unchanged(r, i) ==
  IF result[r][i] = None
  THEN i \in known /\ hash[i] = content[i] /\ avail[i]
  ELSE result[r][i] = [status |-> "SUCCESS", hash |-> content[i]]

Listed == {i \in Item : content[i] # Gone}

\* What an attempt is fanned out over: the listing and the rows no longer listed.
Rows == Listed \cup known

\* Discovery and inventory(), for a new attempt of an open run.  NEW items are
\* treated like CHANGED ones by everything downstream.
Inventory(r) ==
  /\ cur = 0 /\ IsOpen(r)
  /\ cur'   = r
  /\ work'  = [i \in Item |->
                 CASE i \in Listed /\ Unchanged(r, i)  -> "UNCHANGED"
                   [] i \in Listed /\ ~Unchanged(r, i) -> "CHANGED"
                   [] i \in Rows \ Listed              -> "MISSING"
                   [] i \notin Rows                    -> None]
  /\ seen'  = [i \in Item |-> IF i \in Listed THEN content[i] ELSE hash[i]]
  /\ phase' = [i \in Item |->
                 CASE i \in Listed /\ Unchanged(r, i) -> "ok"
                   [] i \notin Rows                   -> "idle"
                   [] OTHER                           -> "todo"]
  /\ draft' = [i \in Item |-> {}]
  /\ known' = known \cup Listed
  /\ avail' = [i \in Item |-> avail[i] /\ i \notin known \ Listed]
  /\ runStatus' = [runStatus EXCEPT ![r] = "RUNNING"]
  /\ UNCHANGED <<sourceVars, hash, result, staged, packageVars, extracted, faults>>

\* The process dies, or the attempt loses its lease: the job is claimed again later.
LoseAttempt ==
  /\ cur # 0
  /\ Fault /\ NoAttempt
  /\ UNCHANGED <<sourceVars, registryVars, runVars, packageVars, extracted>>

\* The attempt raises outside process_item, its own inventory included, and
\* JobRepository.finish fails the run.
FailRun(r) ==
  /\ runStatus[r] = "RUNNING"
  /\ cur \in {0, r}
  /\ runStatus' = [runStatus EXCEPT ![r] = "FAILED"]
  /\ Fault /\ NoAttempt
  /\ UNCHANGED <<sourceVars, registryVars, result, staged, packageVars, extracted>>

-----------------------------------------------------------------------------
(* process_item: read, then save *)

\* SameContent, had ground() not hashed what it fetched (a faulty variant).
SameContentUnchecked(i) == i \in DOMAIN seen

\* ground() fetches the object again and raises if it is no longer what was listed.
SameContent(i) == content[i] = seen[i]

\* Ground, index, search and extract: one candidate, for the fact the content states.
Extract(i) ==
  /\ cur # 0 /\ work[i] = "CHANGED" /\ phase[i] = "todo"
  /\ SameContent(i)
  /\ draft' = [draft EXCEPT ![i] = {[op |-> "ASSERT", fact |-> content[i], hash |-> seen[i]]}]
  /\ phase' = [phase EXCEPT ![i] = "ok"]
  /\ UNCHANGED <<sourceVars, registryVars, runVars, cur, work, seen, packageVars,
                 extracted, faults>>

\* The object changed under the attempt, or a provider failed: a FAILED result.
FailItem(i) ==
  /\ cur # 0 /\ work[i] \in {"CHANGED", "MISSING"} /\ phase[i] = "todo"
  /\ \/ work[i] = "CHANGED" /\ ~SameContent(i) /\ UNCHANGED faults
     \/ Fault
  /\ phase' = [phase EXCEPT ![i] = "failed"]
  /\ UNCHANGED <<sourceVars, registryVars, runVars, cur, work, seen, draft, packageVars, extracted>>

\* missing_candidates: the active revisions item i is evidence of and no
\* available item is.
OnlyUnavailable(i) == fact # None /\ i \in support /\ \A j \in support : ~avail[j]

ReadMissing(i) ==
  /\ cur # 0 /\ work[i] = "MISSING" /\ phase[i] = "todo"
  /\ draft' = [draft EXCEPT ![i] =
                 {[op |-> "REMOVE", fact |-> f, hash |-> seen[i]] :
                    f \in {g \in {fact} : OnlyUnavailable(i)}}]
  /\ phase' = [phase EXCEPT ![i] = "ok"]
  /\ UNCHANGED <<sourceVars, registryVars, runVars, cur, work, seen, packageVars,
                 extracted, faults>>

\* Staging, had it been added to rather than replaced (a faulty variant).
RestagedKeepingOld(i) == staged[cur][i] \cup draft[i]

\* Candidates of an UNCHANGED item stay as an earlier attempt left them.
Restaged(i) == IF work[i] = "UNCHANGED" THEN staged[cur][i] ELSE draft[i]

\* save_result: one fenced transaction.
SaveResult(i) ==
  /\ cur # 0 /\ phase[i] \in {"ok", "failed"}
  /\ result' = [result EXCEPT ![cur][i] =
                  [status |-> IF phase[i] = "ok" THEN "SUCCESS" ELSE "FAILED", hash |-> seen[i]]]
  /\ staged' = [staged EXCEPT ![cur][i] = Restaged(i)]
  /\ IF phase[i] = "ok"
       THEN /\ hash'  = [hash EXCEPT ![i] = seen[i]]
            /\ avail' = [avail EXCEPT ![i] = work[i] # "MISSING"]
            /\ extracted' = [extracted EXCEPT ![i] =
                               @ \cup {c.fact : c \in {d \in draft[i] : d.op = "ASSERT"}}]
       ELSE UNCHANGED <<hash, avail, extracted>>
  /\ phase' = [phase EXCEPT ![i] = "saved"]
  /\ UNCHANGED <<sourceVars, known, runStatus, cur, work, seen, draft, packageVars, faults>>

\* aggregate_item_results: the results of this attempt, and only those, decide.
FinishRun ==
  /\ cur # 0
  /\ \A i \in Item : phase[i] \in {"idle", "saved"}
  /\ runStatus' = [runStatus EXCEPT ![cur] =
       IF \A i \in Item : phase[i] = "saved" => result[cur][i].status = "SUCCESS"
       THEN "SUCCESS" ELSE "PARTIAL"]
  /\ NoAttempt
  /\ UNCHANGED <<sourceVars, registryVars, result, staged, packageVars, extracted, faults>>

-----------------------------------------------------------------------------
(* Promotion and decision, for the one identity the items speak of *)

StagedBy(r) == UNION {staged[r][i] : i \in Item}

\* Variants, had the payloads not been compared (a faulty variant).
VariantsByOperation(r) ==
  {[op |-> o, fact |-> (CHOOSE c \in StagedBy(r) : c.op = o).fact] :
     o \in {c.op : c \in StagedBy(r)}}

Variants(r) == {[op |-> c.op, fact |-> c.fact] : c \in StagedBy(r)}

EvidenceOf(r) == {i \in Item : staged[r][i] # {}}

\* The proposal of r's batch when its candidates agree on variant v.
Proposed(r, v) ==
  [op |-> CASE v.op = "REMOVE" -> "REMOVE"
            [] v.op = "ASSERT" /\ fact # None -> "UPDATE"
            [] v.op = "ASSERT" /\ fact = None -> "CREATE",
   fact |-> v.fact, evidence |-> EvidenceOf(r)]

\* GovernanceRepository.promote: once per run, from SUCCESS only.
Promote(r) ==
  /\ runStatus[r] = "SUCCESS" /\ r \notin promoted
  /\ promoted' = promoted \cup {r}
  /\ \/ \* nothing staged, or nothing left to remove
        /\ \/ Variants(r) = {}
           \/ fact = None /\ \E f \in Content : Variants(r) = {[op |-> "REMOVE", fact |-> f]}
        /\ UNCHANGED <<proposal, support>>
     \/ \* the active payload again: its evidence grows
        /\ fact # None /\ Variants(r) = {[op |-> "ASSERT", fact |-> fact]}
        /\ support' = support \cup EvidenceOf(r)
        /\ UNCHANGED proposal
     \/ \* one change
        /\ \E v \in Variants(r) :
             /\ Variants(r) = {v}
             /\ v # [op |-> "ASSERT", fact |-> fact]
             /\ v.op = "REMOVE" => fact # None
             /\ proposal' = [proposal EXCEPT ![r] = Proposed(r, v)]
        /\ UNCHANGED support
     \/ \* conflicting facts: an AMBIGUITY asset, which is another identity
        /\ Cardinality(Variants(r)) > 1
        /\ proposal' = [proposal EXCEPT ![r] =
             [op |-> "AMBIGUITY", fact |-> None, evidence |-> EvidenceOf(r)]]
        /\ UNCHANGED support
  /\ UNCHANGED <<sourceVars, registryVars, runVars, attemptVars, fact, extracted, faults>>

\* A build goes through for an UPDATE or REMOVE whose target is active and a
\* CREATE whose identity is not.
Buildable(p) ==
  \/ p.op \in {"UPDATE", "REMOVE"} /\ fact # None
  \/ p.op = "CREATE" /\ fact = None

\* The steward's decision resolves the batch; its outcome is final either way.
Decide(r, approve) ==
  /\ proposal[r] # None
  /\ IF approve /\ Buildable(proposal[r])
       THEN IF proposal[r].op = "REMOVE"
              THEN fact' = None /\ support' = {}
              ELSE fact' = proposal[r].fact /\ support' = proposal[r].evidence
       ELSE UNCHANGED <<fact, support>>
  /\ proposal' = [proposal EXCEPT ![r] = None]
  /\ UNCHANGED <<sourceVars, registryVars, runVars, attemptVars, promoted, extracted, faults>>

-----------------------------------------------------------------------------
Next ==
  \/ \E i \in Item, c \in Content \cup {Gone} : EditSource(i, c)
  \/ \E r \in RunId : NewRun(r) \/ Inventory(r) \/ FailRun(r) \/ Promote(r)
  \/ LoseAttempt
  \/ \E i \in Item : Extract(i) \/ FailItem(i) \/ ReadMissing(i) \/ SaveResult(i)
  \/ FinishRun
  \/ \E r \in RunId, approve \in BOOLEAN : Decide(r, approve)

Spec == Init /\ [][Next]_vars

-----------------------------------------------------------------------------
(* Properties *)

\* What a candidate claims was read from the content whose hash its evidence
\* carries, although the object is fetched once to be hashed and once to be read, and
\* that is the content of the item's result in its run: a later attempt that finds the
\* item changed, failed or missing replaces what was staged for it.
EvidenceMatchesContent ==
  \A r \in RunId, i \in Item : \A c \in staged[r][i] :
    /\ c.op = "ASSERT" => c.fact = c.hash
    /\ result[r][i] = [status |-> "SUCCESS", hash |-> c.hash]

\* An item is skipped as UNCHANGED only if exactly that content of it has been
\* extracted before, whatever attempts and runs failed in between.
SkippedWasExtracted ==
  \A i \in Item : work[i] = "UNCHANGED" => seen[i] \in extracted[i]

\* Every item cited as evidence of the active fact did state that fact, after
\* any merging of candidates, late promotion and decisions out of order.
SupportStatesFact ==
  /\ fact # None => support # {}
  /\ \A i \in support : fact \in extracted[i]

\* docs/architecture/ingestion-flow.md:31 has a restarted worker "retain successful
\* item outcomes".  So the candidates of an item that is skipped as UNCHANGED are
\* staged in a run that has succeeded or still can.
SkippedOutcomeIsRetained ==
  \A i \in Item : work[i] = "UNCHANGED" =>
    \E r \in RunId : /\ runStatus[r] \in {"RUNNING", "SUCCESS"}
                     /\ \E c \in staged[r][i] : c.fact = seen[i]

\* docs/architecture/ingestion-flow.md:29: "A REMOVE candidate is staged only when
\* an active asset has no other available evidence."  So a removal proposed to the
\* steward is not contradicted by an item the registry has as available.
RemovalHasNoEvidence ==
  [][\A r \in RunId :
       (Promote(r) /\ proposal'[r] # None /\ proposal'[r].op = "REMOVE")
         => \A i \in support : ~avail[i]]_vars
=============================================================================
