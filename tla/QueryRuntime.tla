---------------------------- MODULE QueryRuntime ----------------------------
(***************************************************************************)
(* One question of a user: CompoundQuery splits it into atomic questions,  *)
(* answers these in parallel, each by a run of RuntimeOrchestrator with a  *)
(* Context ON and a Context OFF branch, and synthesizes the answers.  The  *)
(* query and each atomic question have a trace row, written on its own.    *)
(* Meanwhile the Workspace may be archived and the process may die.        *)
(*                                                                         *)
(* An exception that leaves an atomic question leaves the fan-out: what    *)
(* has not started is cancelled, what runs is waited for, and run raises.  *)
(***************************************************************************)
EXTENDS Naturals, FiniteSets, SequencesExt

CONSTANTS MaxQuestions,     \* 10: more are refused
          MaxConcurrency,   \* 5: atomic questions answered at once
          None

ASSUME QueryRuntimeAssumption ==
  MaxQuestions \in Nat \ {0} /\ MaxConcurrency \in Nat \ {0}

VARIABLES
  archived,     \* workspace: its status is not ACTIVE
  at,           \* the node of CompoundQuery that runs next
  trace,        \* query_trace of the query: "none" or its status
  count,        \* atomic questions, 0 before atomize_question
  atomic,       \* each atomic question: its node and what it found so far
  atomicTrace,  \* query_trace of each atomic question
  results,      \* State.results: the atomic questions answered, as they came in
  answer        \* State.response: None before final_synthesis

vars == <<archived, at, trace, count, atomic, atomicTrace, results, answer>>

Question == 1 .. MaxQuestions

\* A branch's result, with whether it has an answer; the model may return an empty one.
BranchStatus == {"SUCCESS", "FAILED", "INSUFFICIENT_CONTEXT", "DATA_SOURCE_UNRESOLVED"}
Branch  == {b \in [status : BranchStatus, answered : BOOLEAN] : b.answered => b.status = "SUCCESS"}
Failed  == [status |-> "FAILED", answered |-> FALSE]
Running == {"retrieve_lessons", "create_trace", "parse_question", "branches",
            "persist_trace_finalizer", "recover"}
Atomic  == [at : Running \cup {"unsent", "sent", "cancelled", "done", "raised"},
            intent : {"none", "document", "live"},
            on : Branch \cup {None}, off : Branch \cup {None}, comparable : BOOLEAN]
Answer  == [status : {"SUCCESS", "PARTIAL", "FAILED"}, results : Seq(Question),
            used : SUBSET Question, reported : SUBSET Question]

ASSUME NoneIsNoResult == None \notin Branch /\ None \notin Answer

TypeOK ==
  /\ archived \in BOOLEAN
  /\ at \in {"run", "create_query_trace", "atomize_question", "answer_atomic_question",
             "final_synthesis", "persist_final_trace", "fail", "returned", "raised", "dead"}
  /\ trace \in {"none", "RUNNING", "SUCCESS", "PARTIAL", "FAILED"}
  /\ count \in 0 .. MaxQuestions
  /\ atomic \in [Question -> Atomic]
  /\ atomicTrace \in [Question -> BranchStatus \cup {"none", "RUNNING"}]
  /\ results \in Seq(1 .. count) /\ IsInjective(results)
  /\ answer \in Answer \cup {None}
  /\ \A q \in Question : atomic[q].at = "done" => atomic[q].on # None /\ atomic[q].off # None

Unsent == [at |-> "unsent", intent |-> "none", on |-> None, off |-> None, comparable |-> FALSE]

Init ==
  /\ archived \in BOOLEAN
  /\ at = "run" /\ trace = "none" /\ count = 0
  /\ atomic = [q \in Question |-> Unsent]
  /\ atomicTrace = [q \in Question |-> "none"]
  /\ results = <<>> /\ answer = None

-----------------------------------------------------------------------------
(* CompoundQuery, up to the fan-out *)

\* The Workspace is looked up, and its active package, which there may be none of.
Run ==
  /\ at = "run"
  /\ \/ ~archived /\ at' = "create_query_trace"
     \/ at' = "raised"
  /\ UNCHANGED <<archived, trace, count, atomic, atomicTrace, results, answer>>

CreateQueryTrace ==
  /\ at = "create_query_trace"
  /\ \/ ~archived /\ trace' = "RUNNING" /\ at' = "atomize_question"
     \/ trace' = trace /\ at' = "fail"
  /\ UNCHANGED <<archived, count, atomic, atomicTrace, results, answer>>

AtomizeQuestion ==
  /\ at = "atomize_question"
  /\ \/ /\ count' \in 1 .. MaxQuestions
        /\ atomic' = [q \in Question |-> [Unsent EXCEPT !.at = IF q <= count' THEN "sent" ELSE "unsent"]]
        /\ at' = "answer_atomic_question"
     \/ \* the model raises, or its list is empty, too long or has an empty question
        at' = "fail" /\ UNCHANGED <<count, atomic>>
  /\ UNCHANGED <<archived, trace, atomicTrace, results, answer>>

-----------------------------------------------------------------------------
(* One atomic question: _atomic and RuntimeOrchestrator.run *)

\* The next node of atomic question q, with changes to the rest of what it knows.
Proceed(q, node) == atomic' = [atomic EXCEPT ![q].at = node]

Doing(q, node) == at = "answer_atomic_question" /\ atomic[q].at = node

Rest == <<archived, at, trace, count, results, answer>>

Start(q) ==
  /\ Doing(q, "sent")
  /\ Cardinality({r \in Question : atomic[r].at \in Running}) < MaxConcurrency
  /\ Proceed(q, "retrieve_lessons")
  /\ UNCHANGED <<Rest, atomicTrace>>

\* The search for lessons is outside the try of run: what it raises leaves the fan-out.
RetrieveLessons(q) ==
  /\ Doing(q, "retrieve_lessons")
  /\ Proceed(q, "create_trace") \/ Proceed(q, "raised")
  /\ UNCHANGED <<Rest, atomicTrace>>

\* create_trace finds no row to copy from when the Workspace has been archived.
CreateTrace(q) ==
  /\ Doing(q, "create_trace")
  /\ \/ ~archived /\ atomicTrace' = [atomicTrace EXCEPT ![q] = "RUNNING"]
        /\ Proceed(q, "parse_question")
     \/ UNCHANGED atomicTrace /\ Proceed(q, "recover")
  /\ UNCHANGED Rest

ParseQuestion(q) ==
  /\ Doing(q, "parse_question")
  /\ \E intent \in {"none", "document", "live"} :
       atomic' = [atomic EXCEPT ![q].intent = intent, ![q].at = "branches"]
  /\ UNCHANGED <<Rest, atomicTrace>>

\* How a branch may end: without an intent it is not run; ON may find nothing to go by,
\* a live question no single source; every exception, and the SQL graph, ends in FAILED.
Outcomes(intent, branch) ==
  IF intent = "none" THEN {Failed}
  ELSE {b \in Branch :
          /\ b.status = "INSUFFICIENT_CONTEXT" => branch = "on" /\ intent = "document"
          /\ b.status = "DATA_SOURCE_UNRESOLVED" => intent = "live"}

ContextOn(q) ==
  /\ Doing(q, "branches") /\ atomic[q].on = None
  /\ \E b \in Outcomes(atomic[q].intent, "on") : atomic' = [atomic EXCEPT ![q].on = b]
  /\ UNCHANGED <<Rest, atomicTrace>>

ContextOff(q) ==
  /\ Doing(q, "branches") /\ atomic[q].off = None
  /\ \E b \in Outcomes(atomic[q].intent, "off") : atomic' = [atomic EXCEPT ![q].off = b]
  /\ UNCHANGED <<Rest, atomicTrace>>

\* Provable, had it been left to the model whether there is something to compare
\* (a faulty variant).
ProvableStatus(a) == a.on.status = "SUCCESS" /\ a.off.status = "SUCCESS"

Provable(a) == ProvableStatus(a) /\ a.on.answered /\ a.off.answered

\* The join of the branches; the classifier may fail, which leaves nothing compared.
ProofClassifier(q) ==
  /\ Doing(q, "branches") /\ atomic[q].on # None /\ atomic[q].off # None
  /\ \E comparable \in BOOLEAN :
       /\ comparable => Provable(atomic[q])
       /\ atomic' = [atomic EXCEPT ![q].comparable = comparable,
                                   ![q].at = "persist_trace_finalizer"]
  /\ UNCHANGED <<Rest, atomicTrace>>

\* Finished, had the row of a failure been left to the query's (a faulty variant).
FinishedIfFine(q, status) ==
  atomicTrace' = [atomicTrace EXCEPT ![q] = IF @ = "none" \/ status = "FAILED" THEN @ ELSE status]

\* finish_trace updates the row, if there is one.
Finished(q, status) ==
  atomicTrace' = [atomicTrace EXCEPT ![q] = IF @ = "none" THEN "none" ELSE status]

PersistTrace(q) ==
  /\ Doing(q, "persist_trace_finalizer")
  /\ \/ /\ Finished(q, atomic[q].on.status)
        /\ Proceed(q, "done")
        /\ results' = Append(results, q)
     \/ /\ Proceed(q, "recover")
        /\ UNCHANGED <<atomicTrace, results>>
  /\ UNCHANGED <<archived, at, trace, count, answer>>

\* Recovered, had the branches been taken to be through (a faulty variant).
RecoveredAsIs(a) == [a EXCEPT !.comparable = FALSE]

\* Recovered, had what the branches found been kept (a faulty variant).
RecoveredPartly(a) == IF a.on = None \/ a.off = None
                        THEN [a EXCEPT !.on = Failed, !.off = Failed] ELSE a

\* The response that run makes up when the graph raised.
Recovered(a) == [a EXCEPT !.on = Failed, !.off = Failed, !.comparable = FALSE]

Recover(q) ==
  /\ Doing(q, "recover")
  /\ \/ /\ Finished(q, "FAILED")
        /\ atomic' = [atomic EXCEPT ![q] = [Recovered(@) EXCEPT !.at = "done"]]
        /\ results' = Append(results, q)
     \/ /\ Proceed(q, "raised")
        /\ UNCHANGED <<atomicTrace, results>>
  /\ UNCHANGED <<archived, at, trace, count, answer>>

-----------------------------------------------------------------------------
(* CompoundQuery, from the join on *)

\* Broken, had only the results been waited for (a faulty variant).
BrokenNever == FALSE

\* An atomic question raised.
Broken == \E q \in Question : atomic[q].at = "raised"

CancelSent ==
  /\ at = "answer_atomic_question" /\ Broken
  /\ \E q \in Question : atomic[q].at = "sent"
  /\ atomic' = [q \in Question |-> IF atomic[q].at = "sent"
                                     THEN [atomic[q] EXCEPT !.at = "cancelled"] ELSE atomic[q]]
  /\ UNCHANGED <<Rest, atomicTrace>>

LeaveFanOut ==
  /\ at = "answer_atomic_question" /\ Broken
  /\ \A q \in Question : atomic[q].at \notin Running \cup {"sent"}
  /\ at' = "fail"
  /\ UNCHANGED <<archived, trace, count, atomic, atomicTrace, results, answer>>

JoinFanOut ==
  /\ at = "answer_atomic_question"
  /\ Len(results) = count
  /\ at' = "final_synthesis"
  /\ UNCHANGED <<archived, trace, count, atomic, atomicTrace, results, answer>>

\* sorted by index, which no two results have in common.
InOrder(s) ==
  CHOOSE t \in [1 .. Len(s) -> ToSet(s)] : \A i, j \in 1 .. Len(s) : i < j => t[i] < t[j]

Successful(q) == atomic[q].on.status = "SUCCESS" /\ atomic[q].on.answered

\* Status, had some answer been enough (a faulty variant).
StatusIfAny(used) == IF used # {} THEN "SUCCESS" ELSE "FAILED"

Status(used) ==
  IF used = 1 .. count THEN "SUCCESS" ELSE IF used # {} THEN "PARTIAL" ELSE "FAILED"

FinalSynthesis ==
  /\ at = "final_synthesis"
  /\ LET used == {q \in ToSet(results) : Successful(q)}
     IN  \/ /\ answer' = [status |-> Status(used), results |-> InOrder(results),
                          used |-> used, reported |-> ToSet(results) \ used]
            /\ at' = "persist_final_trace"
         \/ \* the model is asked only if there is something to synthesize
            /\ used # {}
            /\ at' = "fail" /\ UNCHANGED answer
  /\ UNCHANGED <<archived, trace, count, atomic, atomicTrace, results>>

PersistFinalTrace ==
  /\ at = "persist_final_trace"
  /\ \/ trace' = answer.status /\ at' = "returned"
     \/ trace' = trace /\ at' = "fail"
  /\ UNCHANGED <<archived, count, atomic, atomicTrace, results, answer>>

\* fail_trace, on the row if there is one, and the exception goes on to the caller.
Fail ==
  /\ at = "fail"
  /\ \/ trace' = IF trace = "none" THEN "none" ELSE "FAILED"
     \/ trace' = trace
  /\ at' = "raised"
  /\ UNCHANGED <<archived, count, atomic, atomicTrace, results, answer>>

Archive ==
  /\ ~archived /\ archived' = TRUE
  /\ UNCHANGED <<at, trace, count, atomic, atomicTrace, results, answer>>

Crash ==
  /\ at \notin {"returned", "raised", "dead"}
  /\ at' = "dead"
  /\ UNCHANGED <<archived, trace, count, atomic, atomicTrace, results, answer>>

-----------------------------------------------------------------------------
Progress ==
  \/ Run \/ CreateQueryTrace \/ AtomizeQuestion
  \/ \E q \in Question :
       \/ Start(q) \/ RetrieveLessons(q) \/ CreateTrace(q) \/ ParseQuestion(q)
       \/ ContextOn(q) \/ ContextOff(q) \/ ProofClassifier(q) \/ PersistTrace(q) \/ Recover(q)
  \/ CancelSent \/ LeaveFanOut \/ JoinFanOut
  \/ FinalSynthesis \/ PersistFinalTrace \/ Fail

Next == Progress \/ Archive \/ Crash

\* The threads of the query run, and the calls they make answer or time out.
Spec == Init /\ [][Next]_vars /\ WF_vars(Progress)

-----------------------------------------------------------------------------
(* Properties *)

\* The response has every question's result, in the order asked whichever was answered
\* first.  The synthesis is built from successful Context ON answers only, each stored
\* as a success with its own trace, and every other question is reported as failed: so
\* nothing is used whose trace could not be written.  A comparison is shown only of two
\* branches that both answered, and no longer after the graph around it failed.
ResponseMatchesStore ==
  /\ answer # None =>
       /\ answer.results = [q \in 1 .. count |-> q]
       /\ \A q \in answer.used : atomicTrace[q] = "SUCCESS" /\ atomic[q].on.answered
       /\ answer.reported = (1 .. count) \ answer.used
  /\ \A q \in Question : atomic[q].comparable =>
       \A b \in {atomic[q].on, atomic[q].off} : b.status = "SUCCESS" /\ b.answered

\* The trace of a query that returned says SUCCESS only if every one of its questions
\* was answered and stored, and FAILED only if none was; and none of theirs is left
\* RUNNING: each has the status of its Context ON branch, or there is no trace of the
\* question at all and a failure in the response.
TracesAreHonest ==
  at = "returned" =>
    /\ LET answeredOnes == {q \in 1 .. count : atomicTrace[q] = "SUCCESS" /\ atomic[q].on.answered}
       IN  /\ trace = "SUCCESS" <=> answeredOnes = 1 .. count
           /\ trace = "FAILED" <=> answeredOnes = {}
    /\ \A q \in 1 .. count :
         \/ atomicTrace[q] = atomic[q].on.status
         \/ atomicTrace[q] = "none" /\ q \in answer.reported

\* Unless the process dies, the caller gets an answer or an exception.
Terminates == <>(at \in {"returned", "raised", "dead"})
=============================================================================
