------------------------- MODULE SourceItemsProofs --------------------------
(***************************************************************************)
(* Proofs about SourceItems, for all items and contents and every bound.   *)
(*                                                                         *)
(* A success, wherever it is recorded, is evidence of an extraction: as    *)
(* the hash of the registry, as a result that later attempts of the run    *)
(* inherit (HistoryInv), or in the hands of the attempt at work (WorkInv). *)
(* That is why an item may be skipped, and why what is staged, proposed    *)
(* and decided much later still rests on contents that were read.          *)
(***************************************************************************)
EXTENDS SourceItems, TLAPS

\* What was recorded as done was done; nothing was recorded of an item without hash.
HistoryInv ==
  \A i \in Item :
    /\ hash[i] \in extracted[i] \cup {None}
    /\ \A r \in RunId : (result[r][i] # None /\ result[r][i].status = "SUCCESS")
                          => result[r][i].hash \in extracted[i] \cup {None}

\* What the current attempt knows of an item, and what it may save of it.
WorkInv ==
  \A i \in Item :
    /\ work[i] = "CHANGED" => seen[i] \in Content
    /\ work[i] = "MISSING" => seen[i] \in extracted[i] \cup {None}
    /\ work[i] = "UNCHANGED" =>
         cur # 0 /\ result[cur][i] \in {None, [status |-> "SUCCESS", hash |-> seen[i]]}
    /\ phase[i] \in {"todo", "failed"} => draft[i] = {} /\ work[i] # "UNCHANGED"
    /\ phase[i] \in {"ok", "failed"} => work[i] # None
    /\ \A c \in draft[i] : c.hash = seen[i] /\ (c.op = "ASSERT" => c.fact = c.hash)
    /\ (work[i] = "CHANGED" /\ phase[i] = "ok") =>
         [op |-> "ASSERT", fact |-> seen[i], hash |-> seen[i]] \in draft[i]

\* A proposal that puts a fact in force cites items, and each has stated it.
ProposalInv ==
  \A r \in RunId : (proposal[r] # None /\ proposal[r].op \in {"CREATE", "UPDATE"}) =>
    /\ proposal[r].fact \in Content /\ proposal[r].evidence # {}
    /\ \A i \in proposal[r].evidence : proposal[r].fact \in extracted[i]

IInv ==
  /\ TypeOK /\ HistoryInv /\ WorkInv /\ ProposalInv
  /\ EvidenceMatchesContent /\ SkippedWasExtracted /\ SupportStatesFact

-----------------------------------------------------------------------------
(* Steps outside an item: the source, runs and attempts *)

LEMMA NotNone == None \notin Content /\ None \notin Change /\ None \notin Result
  BY SourceItemsAssumption DEF SourceItemsAssumption, Change, Result

\* With no attempt there is nothing to know of an item.
LEMMA NoAttemptFacts ==
  ASSUME NoAttempt
  PROVE  /\ WorkInv' /\ SkippedWasExtracted'
         /\ cur' = 0
         /\ work' \in [Item -> Change \cup {None}] /\ seen' \in [Item -> Content \cup {None}]
         /\ phase' \in [Item -> {"idle", "todo", "ok", "failed", "saved"}]
         /\ draft' \in [Item -> SUBSET Candidate]
<1>1. \A i \in Item : work'[i] = None /\ phase'[i] = "idle" /\ draft'[i] = {}
  BY DEF NoAttempt
<1>2. \A i \in Item : work'[i] \notin {"CHANGED", "MISSING", "UNCHANGED"}
  BY <1>1, NotNone DEF Change
<1> QED
  BY <1>1, <1>2 DEF WorkInv, SkippedWasExtracted, NoAttempt

LEMMA EditSourceStep ==
  ASSUME IInv, NEW i \in Item, NEW c \in Content \cup {Gone}, EditSource(i, c)
  PROVE  IInv'
<1>1. content' \in [Item -> Content \cup {Gone}] /\ edits' \in 0 .. MaxEdits
  BY SourceItemsAssumption DEF IInv, TypeOK, EditSource, SourceItemsAssumption
<1>2. UNCHANGED <<known, hash, avail, runStatus, result, staged, cur, work, seen, phase, draft,
                  promoted, proposal, fact, support, extracted, faults>>
  BY DEF EditSource, registryVars, runVars, attemptVars, packageVars
<1>3. TypeOK'
  BY <1>1, <1>2 DEF IInv, TypeOK
<1>4. HistoryInv' /\ WorkInv' /\ ProposalInv'
  BY <1>2 DEF IInv, HistoryInv, WorkInv, ProposalInv
<1>5. EvidenceMatchesContent' /\ SkippedWasExtracted' /\ SupportStatesFact'
  BY <1>2 DEF IInv, EvidenceMatchesContent, SkippedWasExtracted, SupportStatesFact
<1> QED
  BY <1>3, <1>4, <1>5 DEF IInv

LEMMA NewRunStep ==
  ASSUME IInv, NEW r \in RunId, NewRun(r)
  PROVE  IInv'
<1>1. runStatus' \in [RunId -> RunStatus]
  BY DEF IInv, TypeOK, NewRun, RunStatus
<1>2. UNCHANGED <<content, edits, known, hash, avail, result, staged, cur, work, seen, phase,
                  draft, promoted, proposal, fact, support, extracted, faults>>
  BY DEF NewRun, sourceVars, registryVars, attemptVars, packageVars
<1>3. TypeOK'
  BY <1>1, <1>2 DEF IInv, TypeOK
<1>4. HistoryInv' /\ WorkInv' /\ ProposalInv'
  BY <1>2 DEF IInv, HistoryInv, WorkInv, ProposalInv
<1>5. EvidenceMatchesContent' /\ SkippedWasExtracted' /\ SupportStatesFact'
  BY <1>2 DEF IInv, EvidenceMatchesContent, SkippedWasExtracted, SupportStatesFact
<1> QED
  BY <1>3, <1>4, <1>5 DEF IInv

\* An attempt ends, and nothing but the run's status and the faults may change.
LEMMA AttemptEnds ==
  ASSUME IInv, NoAttempt, runStatus' \in [RunId -> RunStatus], faults' \in 0 .. MaxFaults,
         UNCHANGED <<sourceVars, registryVars, result, staged, packageVars, extracted>>
  PROVE  IInv'
<1>1. UNCHANGED <<content, edits, known, hash, avail, result, staged, promoted, proposal,
                  fact, support, extracted>>
  BY DEF sourceVars, registryVars, packageVars
<1>2. TypeOK'
  BY <1>1, NoAttemptFacts DEF IInv, TypeOK
<1>3. HistoryInv' /\ ProposalInv' /\ EvidenceMatchesContent' /\ SupportStatesFact'
  BY <1>1 DEF IInv, HistoryInv, ProposalInv, EvidenceMatchesContent, SupportStatesFact
<1> QED
  BY <1>2, <1>3, NoAttemptFacts DEF IInv

LEMMA FaultTyped == TypeOK /\ Fault => faults' \in 0 .. MaxFaults
  BY SourceItemsAssumption DEF TypeOK, Fault, SourceItemsAssumption

LEMMA LoseAttemptStep == IInv /\ LoseAttempt => IInv'
  BY AttemptEnds, FaultTyped DEF IInv, TypeOK, LoseAttempt, runVars

LEMMA FailRunStep ==
  ASSUME IInv, NEW r \in RunId, FailRun(r)
  PROVE  IInv'
<1>1. runStatus' \in [RunId -> RunStatus]
  BY DEF IInv, TypeOK, FailRun, RunStatus
<1> QED
  BY <1>1, AttemptEnds, FaultTyped DEF IInv, FailRun

LEMMA FinishRunStep == IInv /\ FinishRun => IInv'
<1> SUFFICES ASSUME IInv, FinishRun PROVE IInv'
  OBVIOUS
<1>1. runStatus' \in [RunId -> RunStatus]
  BY DEF IInv, TypeOK, FinishRun, RunStatus
<1>2. faults' \in 0 .. MaxFaults
  BY DEF IInv, TypeOK, FinishRun
<1> QED
  BY <1>1, <1>2, AttemptEnds DEF FinishRun

\* What is skipped has a hash that was recorded with a success.
LEMMA UnchangedWasExtracted ==
  ASSUME IInv, NEW r \in RunId, NEW i \in Listed, Unchanged(r, i)
  PROVE  /\ content[i] \in Content /\ content[i] \in extracted[i]
         /\ result[r][i] \in {None, [status |-> "SUCCESS", hash |-> content[i]]}
<1>1. i \in Item /\ content[i] \in Content
  BY DEF Listed, IInv, TypeOK
<1>2. content[i] # None
  BY <1>1, NotNone
<1>3. CASE result[r][i] = None
  BY <1>1, <1>2, <1>3 DEF Unchanged, IInv, HistoryInv
<1>4. CASE result[r][i] # None
  <2>1. result[r][i] = [status |-> "SUCCESS", hash |-> content[i]]
    BY <1>4 DEF Unchanged
  <2>2. result[r][i].hash \in extracted[i] \cup {None}
    BY <1>1, <1>4, <2>1 DEF IInv, HistoryInv
  <2> QED
    BY <1>1, <1>2, <2>1, <2>2
<1> QED
  BY <1>3, <1>4

LEMMA InventoryStep ==
  ASSUME IInv, NEW r \in RunId, Inventory(r)
  PROVE  IInv'
<1>1. /\ cur' = r
      /\ known' = known \cup Listed
      /\ avail' = [i \in Item |-> avail[i] /\ i \notin known \ Listed]
      /\ runStatus' = [runStatus EXCEPT ![r] = "RUNNING"]
      /\ UNCHANGED <<content, edits, hash, result, staged, promoted, proposal, fact, support,
                     extracted, faults>>
  BY DEF Inventory, sourceVars, packageVars
<1>2. \A i \in Item : content[i] # Gone => content[i] \in Content
  BY DEF IInv, TypeOK
<1>3. ASSUME NEW i \in Item
      PROVE  /\ draft'[i] = {}
             /\ \/ i \in Listed /\ Unchanged(r, i) /\ work'[i] = "UNCHANGED" /\ phase'[i] = "ok"
                   /\ seen'[i] = content[i]
                \/ i \in Listed /\ work'[i] = "CHANGED" /\ phase'[i] = "todo" /\ seen'[i] = content[i]
                \/ i \notin Listed /\ work'[i] = "MISSING" /\ phase'[i] = "todo" /\ seen'[i] = hash[i]
                \/ i \notin Listed /\ work'[i] = None /\ phase'[i] = "idle" /\ seen'[i] = hash[i]
  <2>1. /\ draft'[i] = {}
        /\ seen'[i] = IF i \in Listed THEN content[i] ELSE hash[i]
        /\ work'[i] = CASE i \in Listed /\ Unchanged(r, i)  -> "UNCHANGED"
                        [] i \in Listed /\ ~Unchanged(r, i) -> "CHANGED"
                        [] i \in Rows \ Listed              -> "MISSING"
                        [] i \notin Rows                    -> None
        /\ phase'[i] = CASE i \in Listed /\ Unchanged(r, i) -> "ok"
                         [] i \notin Rows                   -> "idle"
                         [] OTHER                           -> "todo"
    BY DEF Inventory
  <2>2. i \in Listed => i \in Rows
    BY DEF Rows
  <2>3. CASE i \in Listed /\ Unchanged(r, i)
    BY <2>1, <2>2, <2>3
  <2>4. CASE i \in Listed /\ ~Unchanged(r, i)
    BY <2>1, <2>2, <2>4
  <2>5. CASE i \in Rows \ Listed
    BY <2>1, <2>5
  <2>6. CASE i \notin Rows
    BY <2>1, <2>2, <2>6
  <2> QED
    BY <2>3, <2>4, <2>5, <2>6
<1>4. TypeOK'
  <2>1. \A i \in Item : seen'[i] \in Content \cup {None}
    BY <1>2, <1>3 DEF IInv, TypeOK, Listed
  <2>2. work' \in [Item -> Change \cup {None}]
    <3>1. \A i \in Item : work'[i] \in Change \cup {None}
      BY <1>3 DEF Change
    <3>2. work' = [i \in Item |-> work'[i]]
      BY DEF Inventory
    <3> QED
      BY <3>1, <3>2
  <2>3. phase' \in [Item -> {"idle", "todo", "ok", "failed", "saved"}]
    <3>1. \A i \in Item : phase'[i] \in {"idle", "todo", "ok", "failed", "saved"}
      BY <1>3
    <3>2. phase' = [i \in Item |-> phase'[i]]
      BY DEF Inventory
    <3> QED
      BY <3>1, <3>2
  <2>4. seen' \in [Item -> Content \cup {None}]
    BY <2>1 DEF Inventory
  <2>5. draft' \in [Item -> SUBSET Candidate]
    BY DEF Inventory
  <2>6. known' \subseteq Item /\ avail' \in [Item -> BOOLEAN] /\ runStatus' \in [RunId -> RunStatus]
    BY <1>1 DEF IInv, TypeOK, RunStatus, Listed
  <2> QED
    BY <1>1, <2>2, <2>3, <2>4, <2>5, <2>6 DEF IInv, TypeOK
<1>5. HistoryInv' /\ ProposalInv' /\ EvidenceMatchesContent' /\ SupportStatesFact'
  BY <1>1 DEF IInv, HistoryInv, ProposalInv, EvidenceMatchesContent, SupportStatesFact
<1>6. WorkInv' /\ SkippedWasExtracted'
  <2> SUFFICES ASSUME NEW i \in Item
               PROVE  /\ work'[i] = "CHANGED" => seen'[i] \in Content
                      /\ work'[i] = "MISSING" => seen'[i] \in extracted'[i] \cup {None}
                      /\ work'[i] = "UNCHANGED" =>
                           cur' # 0 /\ result'[cur'][i] \in {None, [status |-> "SUCCESS", hash |-> seen'[i]]}
                      /\ phase'[i] \in {"todo", "failed"} => work'[i] # "UNCHANGED"
                      /\ phase'[i] \in {"ok", "failed"} => work'[i] # None
                      /\ draft'[i] = {}
                      /\ ~(work'[i] = "CHANGED" /\ phase'[i] = "ok")
                      /\ work'[i] = "UNCHANGED" => seen'[i] \in extracted'[i]
    BY DEF WorkInv, SkippedWasExtracted
  <2>1. i \in Listed => content[i] \in Content
    BY <1>2 DEF Listed
  <2>2. i \in Listed /\ Unchanged(r, i) =>
          content[i] \in extracted[i] /\ result[r][i] \in {None, [status |-> "SUCCESS", hash |-> content[i]]}
    BY UnchangedWasExtracted
  <2>3. hash[i] \in extracted[i] \cup {None}
    BY DEF IInv, HistoryInv
  <2>4. r # 0
    BY SourceItemsAssumption DEF SourceItemsAssumption, RunId
  <2>5. None \notin {"CHANGED", "UNCHANGED", "MISSING"}
    BY NotNone DEF Change
  <2>6. draft'[i] = {} /\ cur' # 0 /\ result' = result /\ extracted' = extracted
    BY <1>1, <1>3, <2>4
  <2>7. CASE i \in Listed /\ Unchanged(r, i) /\ work'[i] = "UNCHANGED" /\ phase'[i] = "ok"
             /\ seen'[i] = content[i]
    BY <1>1, <2>2, <2>5, <2>6, <2>7
  <2>8. CASE i \in Listed /\ work'[i] = "CHANGED" /\ phase'[i] = "todo" /\ seen'[i] = content[i]
    BY <2>1, <2>5, <2>6, <2>8
  <2>9. CASE i \notin Listed /\ work'[i] = "MISSING" /\ phase'[i] = "todo" /\ seen'[i] = hash[i]
    BY <2>3, <2>5, <2>6, <2>9
  <2>10. CASE i \notin Listed /\ work'[i] = None /\ phase'[i] = "idle" /\ seen'[i] = hash[i]
    BY <2>5, <2>6, <2>10
  <2> QED
    BY <1>3, <2>7, <2>8, <2>9, <2>10
<1> QED
  BY <1>4, <1>5, <1>6 DEF IInv

-----------------------------------------------------------------------------
(* Steps of one item *)

\* A step that only moves one item of the attempt on, to a phase that its draft fits.
LEMMA ItemStep ==
  ASSUME IInv, NEW i \in Item, NEW p \in {"ok", "failed"}, NEW d \in SUBSET Candidate,
         work[i] \in {"CHANGED", "MISSING"}, phase[i] = "todo",
         phase' = [phase EXCEPT ![i] = p], draft' = [draft EXCEPT ![i] = d],
         faults' \in 0 .. MaxFaults,
         p = "failed" => d = {},
         \A c \in d : c.hash = seen[i] /\ (c.op = "ASSERT" => c.fact = c.hash),
         (work[i] = "CHANGED" /\ p = "ok") =>
           [op |-> "ASSERT", fact |-> seen[i], hash |-> seen[i]] \in d,
         UNCHANGED <<sourceVars, registryVars, runVars, cur, work, seen, packageVars, extracted>>
  PROVE  IInv'
<1>1. UNCHANGED <<content, edits, known, hash, avail, runStatus, result, staged, cur, work, seen,
                  promoted, proposal, fact, support, extracted>>
  BY DEF sourceVars, registryVars, runVars, packageVars
<1>2. TypeOK'
  BY <1>1 DEF IInv, TypeOK
<1>3. HistoryInv' /\ ProposalInv' /\ EvidenceMatchesContent' /\ SkippedWasExtracted' /\ SupportStatesFact'
  BY <1>1 DEF IInv, HistoryInv, ProposalInv, EvidenceMatchesContent, SkippedWasExtracted,
              SupportStatesFact
<1>4. WorkInv'
  <2>1. phase'[i] = p /\ draft'[i] = d
    BY DEF IInv, TypeOK
  <2>2. \A k \in Item \ {i} : phase'[k] = phase[k] /\ draft'[k] = draft[k]
    BY DEF IInv, TypeOK
  <2>3. WorkInv /\ work[i] # None
    BY NotNone DEF IInv, Change
  <2> QED
    BY <1>1, <2>1, <2>2, <2>3 DEF WorkInv
<1> QED
  BY <1>2, <1>3, <1>4 DEF IInv

LEMMA ExtractStep ==
  ASSUME IInv, NEW i \in Item, Extract(i)
  PROVE  IInv'
<1> DEFINE c == [op |-> "ASSERT", fact |-> seen[i], hash |-> seen[i]]
<1>1. /\ work[i] = "CHANGED" /\ phase[i] = "todo"
      /\ draft' = [draft EXCEPT ![i] = {c}]
      /\ phase' = [phase EXCEPT ![i] = "ok"]
      /\ UNCHANGED <<sourceVars, registryVars, runVars, cur, work, seen, packageVars, extracted, faults>>
  BY DEF Extract, SameContent
<1>2. c \in Candidate
  BY <1>1 DEF IInv, WorkInv, Candidate
<1>3. \A x \in {c} : x.hash = seen[i] /\ x.fact = x.hash
  OBVIOUS
<1>4. faults' \in 0 .. MaxFaults
  BY <1>1 DEF IInv, TypeOK
<1> HIDE DEF c
<1>5. {c} \in SUBSET Candidate
  BY <1>2
<1>6. c \in {c}
  OBVIOUS
<1> QED
  BY <1>1, <1>3, <1>4, <1>5, <1>6, ItemStep DEF c

LEMMA FailItemStep ==
  ASSUME IInv, NEW i \in Item, FailItem(i)
  PROVE  IInv'
<1>1. /\ work[i] \in {"CHANGED", "MISSING"} /\ phase[i] = "todo"
      /\ phase' = [phase EXCEPT ![i] = "failed"]
      /\ UNCHANGED <<sourceVars, registryVars, runVars, cur, work, seen, draft, packageVars, extracted>>
  BY DEF FailItem
<1>2. faults' \in 0 .. MaxFaults
  BY FaultTyped DEF FailItem, IInv, TypeOK
<1>3. draft' = [draft EXCEPT ![i] = {}]
  <2>1. draft[i] = {}
    BY <1>1 DEF IInv, WorkInv
  <2> QED
    BY <1>1, <2>1 DEF IInv, TypeOK
<1>4. {} \in SUBSET Candidate
  OBVIOUS
<1> QED
  BY <1>1, <1>2, <1>3, <1>4, ItemStep

LEMMA ReadMissingStep ==
  ASSUME IInv, NEW i \in Item, ReadMissing(i)
  PROVE  IInv'
<1> DEFINE d == {[op |-> "REMOVE", fact |-> f, hash |-> seen[i]] :
                   f \in {g \in {fact} : OnlyUnavailable(i)}}
<1>1. /\ work[i] = "MISSING" /\ phase[i] = "todo"
      /\ draft' = [draft EXCEPT ![i] = d]
      /\ phase' = [phase EXCEPT ![i] = "ok"]
      /\ UNCHANGED <<sourceVars, registryVars, runVars, cur, work, seen, packageVars, extracted, faults>>
  BY DEF ReadMissing
<1>2. d \in SUBSET Candidate
  BY DEF IInv, TypeOK, OnlyUnavailable, Candidate
<1>3. \A c \in d : c.hash = seen[i] /\ c.op = "REMOVE"
  OBVIOUS
<1>4. faults' \in 0 .. MaxFaults
  BY <1>1 DEF IInv, TypeOK
<1> HIDE DEF d
<1> QED
  BY <1>1, <1>2, <1>3, <1>4, ItemStep

LEMMA SaveResultStep ==
  ASSUME IInv, NEW i \in Item, SaveResult(i)
  PROVE  IInv'
<1> DEFINE new == [status |-> IF phase[i] = "ok" THEN "SUCCESS" ELSE "FAILED", hash |-> seen[i]]
<1>1. /\ cur # 0 /\ phase[i] \in {"ok", "failed"}
      /\ result' = [result EXCEPT ![cur][i] = new]
      /\ staged' = [staged EXCEPT ![cur][i] = Restaged(i)]
      /\ phase' = [phase EXCEPT ![i] = "saved"]
      /\ UNCHANGED <<content, edits, known, runStatus, cur, work, seen, draft, promoted, proposal,
                     fact, support, faults>>
  BY DEF SaveResult, sourceVars, packageVars
<1>2. IF phase[i] = "ok"
      THEN /\ hash'  = [hash EXCEPT ![i] = seen[i]]
           /\ avail' = [avail EXCEPT ![i] = work[i] # "MISSING"]
           /\ extracted' = [extracted EXCEPT ![i] =
                              @ \cup {c.fact : c \in {d \in draft[i] : d.op = "ASSERT"}}]
      ELSE UNCHANGED <<hash, avail, extracted>>
  BY DEF SaveResult
<1>3. TypeOK /\ HistoryInv /\ WorkInv /\ EvidenceMatchesContent /\ SkippedWasExtracted
      /\ SupportStatesFact /\ ProposalInv
  BY DEF IInv
<1>4. cur \in RunId /\ seen[i] \in Content \cup {None} /\ new \in Result
  BY <1>1, <1>3 DEF TypeOK, Result
<1>5. Restaged(i) \in SUBSET Candidate
  BY <1>3, <1>4 DEF TypeOK, Restaged
<1>6. /\ result'[cur][i] = new /\ staged'[cur][i] = Restaged(i)
      /\ \A r \in RunId, k \in Item : r # cur \/ k # i =>
           result'[r][k] = result[r][k] /\ staged'[r][k] = staged[r][k]
  BY <1>1, <1>3, <1>4 DEF TypeOK
<1> HIDE DEF new
<1>7. /\ phase'[i] = "saved"
      /\ \A k \in Item \ {i} : phase'[k] = phase[k]
  BY <1>1, <1>3 DEF TypeOK
\* Extraction history grows; a success adds the content it was for.
<1>8. /\ \A k \in Item : extracted[k] \subseteq extracted'[k]
      /\ phase[i] = "ok" => seen[i] \in extracted'[i] \cup {None}
      /\ extracted' \in [Item -> SUBSET Content]
  <2>1. CASE phase[i] = "ok"
    <3> DEFINE facts == {c.fact : c \in {d \in draft[i] : d.op = "ASSERT"}}
    <3>1. facts \subseteq Content
      BY <1>3 DEF TypeOK, Candidate
    <3>2. extracted' = [extracted EXCEPT ![i] = @ \cup facts]
      BY <1>2, <2>1
    <3>3. work[i] = "CHANGED" => seen[i] \in facts
      <4> SUFFICES ASSUME work[i] = "CHANGED" PROVE seen[i] \in facts
        OBVIOUS
      <4>1. [op |-> "ASSERT", fact |-> seen[i], hash |-> seen[i]] \in draft[i]
        BY <1>3, <2>1 DEF WorkInv
      <4> QED
        BY <4>1
    <3> HIDE DEF facts
    <3>4. /\ extracted' \in [Item -> SUBSET Content]
          /\ extracted'[i] = extracted[i] \cup facts
          /\ \A k \in Item \ {i} : extracted'[k] = extracted[k]
      BY <1>3, <3>1, <3>2 DEF TypeOK
    <3>5. work[i] \in {"CHANGED", "MISSING", "UNCHANGED"}
      BY <1>1, <1>3 DEF TypeOK, WorkInv, Change
    <3>6. work[i] # "CHANGED" => seen[i] \in extracted[i] \cup {None}
      BY <1>3, <3>5 DEF WorkInv, SkippedWasExtracted
    <3> QED
      BY <3>3, <3>4, <3>5, <3>6
  <2>2. CASE phase[i] # "ok"
    BY <1>2, <1>3, <2>2 DEF TypeOK
  <2> QED
    BY <2>1, <2>2
<1>9. /\ phase[i] = "ok" => hash'[i] = seen[i]
      /\ \A k \in Item : hash'[k] = hash[k] \/ (k = i /\ phase[i] = "ok")
      /\ hash' \in [Item -> Content \cup {None}]
  <2>1. hash' = IF phase[i] = "ok" THEN [hash EXCEPT ![i] = seen[i]] ELSE hash
    BY <1>2
  <2>2. hash \in [Item -> Content \cup {None}]
    BY <1>3 DEF TypeOK
  <2>3. CASE phase[i] = "ok"
    BY <1>4, <2>1, <2>2, <2>3
  <2>4. CASE phase[i] # "ok"
    BY <2>1, <2>2, <2>4
  <2> QED
    BY <2>3, <2>4
<1>9a. avail' \in [Item -> BOOLEAN]
  <2>1. avail' = IF phase[i] = "ok" THEN [avail EXCEPT ![i] = work[i] # "MISSING"] ELSE avail
    BY <1>2
  <2> QED
    BY <1>3, <2>1 DEF TypeOK
<1>10. TypeOK'
  <2>1. result' \in [RunId -> [Item -> Result \cup {None}]]
    BY <1>1, <1>3, <1>4 DEF TypeOK
  <2>2. staged' \in [RunId -> [Item -> SUBSET Candidate]]
    BY <1>1, <1>3, <1>5 DEF TypeOK
  <2>3. phase' \in [Item -> {"idle", "todo", "ok", "failed", "saved"}]
    BY <1>1, <1>3 DEF TypeOK
  <2> QED
    BY <1>1, <1>3, <1>8, <1>9, <1>9a, <2>1, <2>2, <2>3 DEF TypeOK
<1>11. HistoryInv'
  <2> SUFFICES ASSUME NEW k \in Item
               PROVE  /\ hash'[k] \in extracted'[k] \cup {None}
                      /\ \A r \in RunId : (result'[r][k] # None /\ result'[r][k].status = "SUCCESS")
                                            => result'[r][k].hash \in extracted'[k] \cup {None}
    BY DEF HistoryInv
  <2>1. hash'[k] \in extracted'[k] \cup {None}
    BY <1>3, <1>8, <1>9 DEF HistoryInv
  <2>2. ASSUME NEW r \in RunId, result'[r][k] # None, result'[r][k].status = "SUCCESS"
        PROVE  result'[r][k].hash \in extracted'[k] \cup {None}
    <3>1. CASE r = cur /\ k = i
      <4>1. new.status = "SUCCESS" /\ result'[r][k] = new
        BY <1>6, <2>2, <3>1
      <4>2. phase[i] = "ok" /\ new.hash = seen[i]
        BY <4>1 DEF new
      <4> QED
        BY <1>8, <3>1, <4>1, <4>2
    <3>2. CASE ~(r = cur /\ k = i)
      <4>1. result'[r][k] = result[r][k]
        BY <1>6, <3>2
      <4>2. result[r][k].hash \in extracted[k] \cup {None}
        BY <1>3, <2>2, <4>1 DEF HistoryInv
      <4> QED
        BY <1>8, <4>1, <4>2
    <3> QED
      BY <3>1, <3>2
  <2> QED
    BY <2>1, <2>2
<1>12. WorkInv'
  <2> SUFFICES ASSUME NEW k \in Item
               PROVE  /\ work[k] = "CHANGED" => seen[k] \in Content
                      /\ work[k] = "MISSING" => seen[k] \in extracted'[k] \cup {None}
                      /\ work[k] = "UNCHANGED" =>
                           cur # 0 /\ result'[cur][k] \in {None, [status |-> "SUCCESS", hash |-> seen[k]]}
                      /\ phase'[k] \in {"todo", "failed"} => draft[k] = {} /\ work[k] # "UNCHANGED"
                      /\ phase'[k] \in {"ok", "failed"} => work[k] # None
                      /\ \A c \in draft[k] : c.hash = seen[k] /\ (c.op = "ASSERT" => c.fact = c.hash)
                      /\ (work[k] = "CHANGED" /\ phase'[k] = "ok") =>
                           [op |-> "ASSERT", fact |-> seen[k], hash |-> seen[k]] \in draft[k]
    BY <1>1 DEF WorkInv
  <2>1. CASE k = i
    <3>1. work[i] = "UNCHANGED" => new = [status |-> "SUCCESS", hash |-> seen[i]]
      BY <1>1, <1>3 DEF WorkInv, new
    <3> QED
      BY <1>1, <1>3, <1>6, <1>7, <1>8, <2>1, <3>1 DEF WorkInv
  <2>2. CASE k # i
    <3>1. phase'[k] = phase[k] /\ result'[cur][k] = result[cur][k]
      BY <1>4, <1>6, <1>7, <2>2
    <3> QED
      BY <1>3, <1>8, <3>1 DEF WorkInv
  <2> QED
    BY <2>1, <2>2
<1>13. EvidenceMatchesContent'
  <2> SUFFICES ASSUME NEW r \in RunId, NEW k \in Item, NEW c \in staged'[r][k]
               PROVE  /\ c.op = "ASSERT" => c.fact = c.hash
                      /\ result'[r][k] = [status |-> "SUCCESS", hash |-> c.hash]
    BY DEF EvidenceMatchesContent
  <2>1. CASE r = cur /\ k = i
    <3>1. c \in Restaged(i) /\ result'[r][k] = new
      BY <1>6, <2>1
    <3>2. CASE work[i] = "UNCHANGED"
      <4>1. c \in staged[cur][i]
        BY <3>1, <3>2 DEF Restaged
      <4>2. /\ c.op = "ASSERT" => c.fact = c.hash
            /\ result[cur][i] = [status |-> "SUCCESS", hash |-> c.hash]
        BY <1>3, <1>4, <4>1 DEF EvidenceMatchesContent
      <4>3. c.hash \in Content \cup {None}
        BY <1>3, <1>4, <4>1 DEF TypeOK, Candidate
      <4>4. result[cur][i] # None
        BY <4>2, <4>3, NotNone DEF Result
      <4>5. result[cur][i] = [status |-> "SUCCESS", hash |-> seen[i]] /\ phase[i] = "ok"
        BY <1>1, <1>3, <3>2, <4>4 DEF WorkInv
      <4> QED
        BY <3>1, <4>2, <4>5 DEF new
    <3>3. CASE work[i] # "UNCHANGED"
      <4>1. c \in draft[i]
        BY <3>1, <3>3 DEF Restaged
      <4>2. /\ c.op = "ASSERT" => c.fact = c.hash
            /\ c.hash = seen[i] /\ phase[i] = "ok"
        BY <1>1, <1>3, <4>1 DEF WorkInv
      <4> QED
        BY <3>1, <4>2 DEF new
    <3> QED
      BY <3>2, <3>3
  <2>2. CASE ~(r = cur /\ k = i)
    BY <1>3, <1>6, <2>2 DEF EvidenceMatchesContent
  <2> QED
    BY <2>1, <2>2
<1>14. SkippedWasExtracted'
  BY <1>1, <1>3, <1>8 DEF SkippedWasExtracted
<1>15. ProposalInv'
  BY <1>1, <1>3, <1>8 DEF ProposalInv, TypeOK, Proposal
<1>16. SupportStatesFact'
  BY <1>1, <1>3, <1>8 DEF SupportStatesFact, TypeOK
<1> QED
  BY <1>10, <1>11, <1>12, <1>13, <1>14, <1>15, <1>16 DEF IInv

-----------------------------------------------------------------------------
(* Promotion and decision *)

\* What is staged for an item was extracted from it.
LEMMA StagedWasExtracted ==
  ASSUME IInv, NEW r \in RunId, NEW i \in Item, NEW c \in staged[r][i], c.op = "ASSERT"
  PROVE  c.fact \in Content /\ c.fact \in extracted[i]
<1>1. c \in Candidate
  BY DEF IInv, TypeOK
<1>2. c.fact \in Content /\ c.fact # None /\ c.hash \in Content \cup {None}
  BY <1>1, NotNone DEF Candidate
<1>3. c.fact = c.hash /\ result[r][i] = [status |-> "SUCCESS", hash |-> c.hash]
  BY DEF IInv, EvidenceMatchesContent
<1>4. result[r][i] # None
  BY <1>2, <1>3, NotNone DEF Result
<1>5. c.hash \in extracted[i] \cup {None}
  BY <1>3, <1>4 DEF IInv, HistoryInv
<1> QED
  BY <1>2, <1>3, <1>5

\* A variant that all of a run's candidates share is supported by all of their items.
LEMMA VariantIsSupported ==
  ASSUME IInv, NEW r \in RunId, NEW v, Variants(r) = {v}
  PROVE  /\ v.op \in {"ASSERT", "REMOVE"} /\ v.fact \in Content
         /\ EvidenceOf(r) # {} /\ EvidenceOf(r) \subseteq Item
         /\ v.op = "ASSERT" => \A i \in EvidenceOf(r) : v.fact \in extracted[i]
<1>1. \A i \in Item : \A c \in staged[r][i] :
        c \in Candidate /\ v = [op |-> c.op, fact |-> c.fact]
  <2> TAKE i \in Item
  <2> TAKE c \in staged[r][i]
  <2>1. c \in Candidate
    BY DEF IInv, TypeOK
  <2>2. [op |-> c.op, fact |-> c.fact] \in Variants(r)
    BY DEF Variants, StagedBy
  <2> QED
    BY <2>1, <2>2
<1>2. PICK i \in Item : staged[r][i] # {}
  BY DEF Variants, StagedBy
<1>3. PICK c : c \in staged[r][i]
  BY <1>2
<1>4. v.op \in {"ASSERT", "REMOVE"} /\ v.fact \in Content
  BY <1>1, <1>3 DEF Candidate
<1>5. EvidenceOf(r) # {} /\ EvidenceOf(r) \subseteq Item
  BY <1>2 DEF EvidenceOf
<1>6. ASSUME v.op = "ASSERT", NEW k \in EvidenceOf(r) PROVE v.fact \in extracted[k]
  <2>1. k \in Item /\ staged[r][k] # {}
    BY DEF EvidenceOf
  <2>2. PICK x : x \in staged[r][k]
    BY <2>1
  <2>3. x.op = "ASSERT" /\ x.fact = v.fact
    BY <1>1, <1>6, <2>1, <2>2
  <2> QED
    BY <2>1, <2>2, <2>3, StagedWasExtracted
<1> QED
  BY <1>4, <1>5, <1>6

\* Steps of governance leave runs and attempts alone.
LEMMA GovernanceStep ==
  ASSUME IInv, UNCHANGED <<sourceVars, registryVars, runVars, attemptVars, extracted, faults>>,
         promoted' \subseteq RunId, proposal' \in [RunId -> Proposal \cup {None}],
         fact' \in Content \cup {None}, support' \subseteq Item, ProposalInv', SupportStatesFact'
  PROVE  IInv'
<1>1. UNCHANGED <<content, edits, known, hash, avail, runStatus, result, staged, cur, work, seen,
                  phase, draft, extracted, faults>>
  BY DEF sourceVars, registryVars, runVars, attemptVars
<1>2. TypeOK'
  BY <1>1 DEF IInv, TypeOK
<1>3. HistoryInv' /\ WorkInv'
  BY <1>1 DEF IInv, HistoryInv, WorkInv
<1>4. EvidenceMatchesContent' /\ SkippedWasExtracted'
  BY <1>1 DEF IInv, EvidenceMatchesContent, SkippedWasExtracted
<1> QED
  BY <1>2, <1>3, <1>4 DEF IInv

LEMMA PromoteStep ==
  ASSUME IInv, NEW r \in RunId, Promote(r)
  PROVE  IInv'
<1>1. /\ UNCHANGED <<sourceVars, registryVars, runVars, attemptVars, fact, extracted, faults>>
      /\ promoted' = promoted \cup {r}
  BY DEF Promote
<1>2. promoted' \subseteq RunId /\ fact' \in Content \cup {None}
  BY <1>1 DEF IInv, TypeOK
<1>3. /\ proposal \in [RunId -> Proposal \cup {None}] /\ support \subseteq Item
      /\ ProposalInv /\ SupportStatesFact
  BY DEF IInv, TypeOK
<1>4. CASE UNCHANGED <<proposal, support>>
  <2>1. ProposalInv' /\ SupportStatesFact'
    BY <1>1, <1>3, <1>4 DEF ProposalInv, SupportStatesFact
  <2> QED
    BY <1>1, <1>2, <1>3, <1>4, <2>1, GovernanceStep
<1>5. CASE /\ fact # None /\ Variants(r) = {[op |-> "ASSERT", fact |-> fact]}
           /\ support' = support \cup EvidenceOf(r)
           /\ UNCHANGED proposal
  <2>1. EvidenceOf(r) \subseteq Item /\ \A i \in EvidenceOf(r) : fact \in extracted[i]
    <3> DEFINE v == [op |-> "ASSERT", fact |-> fact]
    <3>1. Variants(r) = {v} /\ v.op = "ASSERT" /\ v.fact = fact
      BY <1>5
    <3> HIDE DEF v
    <3> QED
      BY <3>1, VariantIsSupported
  <2>2. ProposalInv' /\ SupportStatesFact' /\ support' \subseteq Item
    BY <1>1, <1>3, <1>5, <2>1 DEF ProposalInv, SupportStatesFact
  <2> QED
    BY <1>1, <1>2, <1>3, <1>5, <2>2, GovernanceStep
\* A new proposal of the run.
<1>6. ASSUME NEW p \in Proposal, proposal' = [proposal EXCEPT ![r] = p], UNCHANGED support,
             p.op \in {"CREATE", "UPDATE"} =>
               /\ p.fact \in Content /\ p.evidence # {}
               /\ \A i \in p.evidence : p.fact \in extracted[i]
      PROVE  IInv'
  <2>1. proposal' \in [RunId -> Proposal \cup {None}]
    BY <1>3, <1>6
  <2>2. \A q \in RunId : proposal'[q] = IF q = r THEN p ELSE proposal[q]
    BY <1>3, <1>6
  <2>3. ProposalInv'
    BY <1>1, <1>3, <1>6, <2>2 DEF ProposalInv
  <2>4. SupportStatesFact'
    BY <1>1, <1>3, <1>6 DEF SupportStatesFact
  <2> QED
    BY <1>1, <1>2, <1>3, <1>6, <2>1, <2>3, <2>4, GovernanceStep
<1>7. CASE /\ \E v \in Variants(r) :
                /\ Variants(r) = {v}
                /\ v.op = "REMOVE" => fact # None
                /\ proposal' = [proposal EXCEPT ![r] = Proposed(r, v)]
           /\ UNCHANGED support
  <2>1. PICK v : Variants(r) = {v} /\ proposal' = [proposal EXCEPT ![r] = Proposed(r, v)]
    BY <1>7
  <2>2. /\ v.op \in {"ASSERT", "REMOVE"} /\ v.fact \in Content
        /\ EvidenceOf(r) # {} /\ EvidenceOf(r) \subseteq Item
        /\ v.op = "ASSERT" => \A i \in EvidenceOf(r) : v.fact \in extracted[i]
    BY <2>1, VariantIsSupported
  <2>3. /\ Proposed(r, v).fact = v.fact /\ Proposed(r, v).evidence = EvidenceOf(r)
        /\ v.op = "REMOVE" => Proposed(r, v).op = "REMOVE"
        /\ Proposed(r, v).op \in {"CREATE", "UPDATE", "REMOVE"}
    BY <2>2 DEF Proposed
  <2>4. Proposed(r, v) \in Proposal
    BY <2>2 DEF Proposed, Proposal
  <2> QED
    BY <1>6, <1>7, <2>1, <2>2, <2>3, <2>4
<1>8. CASE /\ proposal' = [proposal EXCEPT ![r] =
                 [op |-> "AMBIGUITY", fact |-> None, evidence |-> EvidenceOf(r)]]
           /\ UNCHANGED support
  <2> DEFINE p == [op |-> "AMBIGUITY", fact |-> None, evidence |-> EvidenceOf(r)]
  <2>1. p \in Proposal /\ p.op \notin {"CREATE", "UPDATE"}
    BY DEF Proposal, EvidenceOf
  <2> QED
    BY <1>6, <1>8, <2>1
<1>9. \/ UNCHANGED <<proposal, support>>
      \/ /\ fact # None /\ Variants(r) = {[op |-> "ASSERT", fact |-> fact]}
         /\ support' = support \cup EvidenceOf(r)
         /\ UNCHANGED proposal
      \/ /\ \E v \in Variants(r) :
              /\ Variants(r) = {v}
              /\ v.op = "REMOVE" => fact # None
              /\ proposal' = [proposal EXCEPT ![r] = Proposed(r, v)]
         /\ UNCHANGED support
      \/ /\ proposal' = [proposal EXCEPT ![r] =
               [op |-> "AMBIGUITY", fact |-> None, evidence |-> EvidenceOf(r)]]
         /\ UNCHANGED support
  BY DEF Promote
<1> QED
  BY <1>4, <1>5, <1>7, <1>8, <1>9

LEMMA DecideStep ==
  ASSUME IInv, NEW r \in RunId, NEW approve \in BOOLEAN, Decide(r, approve)
  PROVE  IInv'
<1>1. /\ proposal[r] # None
      /\ proposal' = [proposal EXCEPT ![r] = None]
      /\ UNCHANGED <<sourceVars, registryVars, runVars, attemptVars, promoted, extracted, faults>>
      /\ IF approve /\ Buildable(proposal[r])
         THEN IF proposal[r].op = "REMOVE"
              THEN fact' = None /\ support' = {}
              ELSE fact' = proposal[r].fact /\ support' = proposal[r].evidence
         ELSE UNCHANGED <<fact, support>>
  BY DEF Decide
<1>2. TypeOK /\ ProposalInv /\ SupportStatesFact
  BY DEF IInv
<1>3. promoted' \subseteq RunId /\ proposal' \in [RunId -> Proposal \cup {None}]
  BY <1>1, <1>2 DEF TypeOK
<1>4. ProposalInv'
  <2>1. \A q \in RunId : proposal'[q] = IF q = r THEN None ELSE proposal[q]
    BY <1>1, <1>2 DEF TypeOK
  <2> QED
    BY <1>1, <1>2, <2>1 DEF ProposalInv
<1>5. fact' \in Content \cup {None} /\ support' \subseteq Item /\ SupportStatesFact'
  <2>1. CASE approve /\ Buildable(proposal[r]) /\ proposal[r].op = "REMOVE"
    <3>1. fact' = None /\ support' = {}
      BY <1>1, <2>1
    <3> QED
      BY <3>1 DEF SupportStatesFact
  <2>2. CASE approve /\ Buildable(proposal[r]) /\ proposal[r].op # "REMOVE"
    <3>1. fact' = proposal[r].fact /\ support' = proposal[r].evidence
      BY <1>1, <2>2
    <3>2. proposal[r].op \in {"CREATE", "UPDATE"}
      BY <2>2 DEF Buildable
    <3>3. /\ proposal[r].fact \in Content /\ proposal[r].evidence # {}
          /\ \A i \in proposal[r].evidence : proposal[r].fact \in extracted[i]
      BY <1>1, <1>2, <3>2 DEF ProposalInv
    <3>4. proposal[r].evidence \subseteq Item
      BY <1>1, <1>2 DEF TypeOK, Proposal
    <3> QED
      BY <1>1, <3>1, <3>3, <3>4 DEF SupportStatesFact
  <2>3. CASE ~(approve /\ Buildable(proposal[r]))
    <3>1. UNCHANGED <<fact, support, extracted>>
      BY <1>1, <2>3
    <3> QED
      BY <1>2, <3>1 DEF TypeOK, SupportStatesFact
  <2> QED
    BY <2>1, <2>2, <2>3
<1> QED
  BY <1>1, <1>3, <1>4, <1>5, GovernanceStep

-----------------------------------------------------------------------------
(* The theorems *)

LEMMA InitIInv == Init => IInv
<1> SUFFICES ASSUME Init PROVE IInv
  OBVIOUS
<1>1. TypeOK
  BY SourceItemsAssumption DEF Init, TypeOK, RunStatus, Change, SourceItemsAssumption
<1>2. WorkInv /\ SkippedWasExtracted
  BY NotNone DEF Init, WorkInv, SkippedWasExtracted, Change
<1>3. HistoryInv /\ ProposalInv
  BY DEF Init, HistoryInv, ProposalInv
<1>4. EvidenceMatchesContent /\ SupportStatesFact
  BY DEF Init, EvidenceMatchesContent, SupportStatesFact
<1> QED
  BY <1>1, <1>2, <1>3, <1>4 DEF IInv

LEMMA NextIInv == IInv /\ [Next]_vars => IInv'
<1> SUFFICES ASSUME IInv, [Next]_vars PROVE IInv'
  OBVIOUS
<1>1. ASSUME UNCHANGED vars PROVE IInv'
  <2>1. UNCHANGED <<sourceVars, registryVars, runVars, attemptVars, packageVars, extracted, faults>>
    BY <1>1 DEF vars
  <2>2. UNCHANGED <<promoted, proposal, fact, support, extracted>>
    BY <2>1 DEF packageVars
  <2>3. ProposalInv' /\ SupportStatesFact'
    BY <2>2 DEF IInv, ProposalInv, SupportStatesFact
  <2> QED
    BY <2>1, <2>2, <2>3, GovernanceStep DEF IInv, TypeOK
<1>2. ASSUME NEW i \in Item, NEW c \in Content \cup {Gone}, EditSource(i, c) PROVE IInv'
  BY <1>2, EditSourceStep
<1>3. ASSUME NEW r \in RunId, NewRun(r) \/ Inventory(r) \/ FailRun(r) \/ Promote(r) PROVE IInv'
  BY <1>3, NewRunStep, InventoryStep, FailRunStep, PromoteStep
<1>4. ASSUME LoseAttempt \/ FinishRun PROVE IInv'
  BY <1>4, LoseAttemptStep, FinishRunStep
<1>5. ASSUME NEW i \in Item, Extract(i) \/ FailItem(i) \/ ReadMissing(i) \/ SaveResult(i) PROVE IInv'
  BY <1>5, ExtractStep, FailItemStep, ReadMissingStep, SaveResultStep
<1>6. ASSUME NEW r \in RunId, NEW approve \in BOOLEAN, Decide(r, approve) PROVE IInv'
  BY <1>6, DecideStep
<1> QED
  BY <1>1, <1>2, <1>3, <1>4, <1>5, <1>6 DEF Next

\* The strengthening is inductive: it holds in every reachable state.
THEOREM Inductive == Spec => []IInv
  BY InitIInv, NextIInv, PTL DEF Spec

\* Type correctness.
THEOREM TypeCorrect == Spec => []TypeOK
<1>1. IInv => TypeOK
  BY DEF IInv
<1> QED
  BY <1>1, Inductive, PTL

\* What a candidate claims was read from the content of the item's result in its run.
THEOREM EvidenceMatches == Spec => []EvidenceMatchesContent
<1>1. IInv => EvidenceMatchesContent
  BY DEF IInv
<1> QED
  BY <1>1, Inductive, PTL

\* Only what was extracted as it is now is skipped.
THEOREM SkippedExtracted == Spec => []SkippedWasExtracted
<1>1. IInv => SkippedWasExtracted
  BY DEF IInv
<1> QED
  BY <1>1, Inductive, PTL

\* Every item cited for the active fact did state it.
THEOREM SupportStates == Spec => []SupportStatesFact
<1>1. IInv => SupportStatesFact
  BY DEF IInv
<1> QED
  BY <1>1, Inductive, PTL
=============================================================================
