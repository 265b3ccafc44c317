------------------------- MODULE QueryRuntimeProofs -------------------------
(***************************************************************************)
(* Proofs about QueryRuntime, for any number of questions answered in any  *)
(* order, and whatever limit on how many run at once.                      *)
(*                                                                         *)
(* An atomic question touches its own node and trace only, and results     *)
(* only once, when it is done: so one lemma (OneQuestion) serves all its   *)
(* steps, given that the step leaves the question as QuestionOK has it.    *)
(* The steps that the query and its questions have left are counted down   *)
(* as the members of a finite set (Ahead).                                 *)
(***************************************************************************)
EXTENDS QueryRuntime, FiniteSetTheorems, TLAPS

\* What the node a of an atomic question says of its trace row tr.
QuestionOK(a, tr) ==
  /\ a.at \in {"unsent", "sent", "cancelled", "retrieve_lessons", "create_trace"} => tr = "none"
  /\ a.at \in {"parse_question", "branches", "persist_trace_finalizer"} => tr = "RUNNING"
  /\ a.at = "recover" => tr \in {"none", "RUNNING"}
  /\ a.at = "persist_trace_finalizer" => a.on # None /\ a.off # None
  /\ a.at = "done" =>
       /\ a.on # None /\ a.off # None
       /\ tr = a.on.status \/ (tr = "none" /\ a.on = Failed)
  /\ a.comparable => a.on # None /\ a.off # None /\ Provable(a)

QuestionInv ==
  \A q \in Question :
    /\ QuestionOK(atomic[q], atomicTrace[q])
    /\ atomic[q].at = "unsent" <=> q > count
    /\ atomic[q].at = "done" <=> q \in ToSet(results)

\* The fan-out lasts until every question has its result.
JoinInv ==
  /\ at \in {"run", "create_query_trace", "atomize_question"} => count = 0
  /\ at \in {"answer_atomic_question", "final_synthesis"} => count > 0
  /\ at = "final_synthesis" => ToSet(results) = 1 .. count

\* From the synthesis on, the response is what the results were and stays so.
AnswerInv ==
  /\ at \in {"persist_final_trace", "returned"} => answer # None
  /\ at = "returned" => trace = answer.status
  /\ answer # None =>
       /\ at \in {"persist_final_trace", "fail", "returned", "raised", "dead"}
       /\ count > 0 /\ ToSet(results) = 1 .. count
       /\ answer.results = [q \in 1 .. count |-> q]
       /\ answer.used = {q \in 1 .. count : Successful(q)}
       /\ answer.reported = (1 .. count) \ answer.used
       /\ answer.status = Status(answer.used)

IInv == TypeOK /\ QuestionInv /\ JoinInv /\ AnswerInv

-----------------------------------------------------------------------------
(* Sequences *)

\* A sequence without repetition that is as long as its range allows has all of it.
LEMMA FullRange ==
  ASSUME NEW n \in Nat, NEW s \in Seq(1 .. n), IsInjective(s), Len(s) = n
  PROVE  ToSet(s) = 1 .. n
<1>1. s \in [1 .. n -> 1 .. n]
  OBVIOUS
<1>2. s \in Injection(1 .. n, 1 .. n)
  BY <1>1 DEF Injection, IsInjective
<1>3. IsFiniteSet(1 .. n)
  BY FS_Interval
<1>4. s \in Surjection(1 .. n, 1 .. n)
  BY <1>2, <1>3, FS_Injection
<1>5. \A k \in 1 .. n : \E i \in 1 .. n : s[i] = k
  BY <1>4 DEF Surjection
<1> QED
  BY <1>1, <1>5 DEF ToSet

\* An increasing enumeration does not repeat itself.
LEMMA Distinct ==
  ASSUME NEW n \in Nat, NEW t \in [1 .. n -> 1 .. n],
         \A i, j \in 1 .. n : i < j => t[i] < t[j],
         NEW k \in 1 .. n, NEW l \in 1 .. n, k < l
  PROVE  t[k] # t[l]
<1>1. t[k] < t[l]
  OBVIOUS
<1>2. t[k] \in Nat
  OBVIOUS
<1> QED
  BY <1>1, <1>2

\* An increasing enumeration of 1 .. n counts: below each position there are as many
\* values as positions, and above it too.
LEMMA IncreasingCounts ==
  ASSUME NEW n \in Nat, NEW t \in [1 .. n -> 1 .. n],
         \A i, j \in 1 .. n : i < j => t[i] < t[j]
  PROVE  t = [q \in 1 .. n |-> q]
<1> SUFFICES ASSUME NEW i \in 1 .. n PROVE t[i] = i
  OBVIOUS
<1>0. i \in Nat /\ t[i] \in 1 .. n
  OBVIOUS
<1>1. i <= t[i]
  <2> DEFINE low == [k \in 1 .. i |-> t[k]]
  <2>1. \A k \in 1 .. i : k \in 1 .. n /\ t[k] \in 1 .. n /\ (k = i \/ t[k] < t[i])
    BY <1>0
  <2>2. \A k \in 1 .. i : t[k] \in 1 .. t[i]
    <3> SUFFICES ASSUME NEW k \in 1 .. i PROVE t[k] \in 1 .. t[i]
      OBVIOUS
    <3>1. t[k] \in Nat /\ t[k] >= 1 /\ t[i] \in Nat
      BY <1>0, <2>1
    <3>2. CASE k = i
      BY <3>1, <3>2
    <3>3. CASE t[k] < t[i]
      BY <3>1, <3>3
    <3> QED
      BY <2>1, <3>2, <3>3
  <2>3. \A k, l \in 1 .. i : k < l => t[k] # t[l]
    BY <2>1, Distinct
  <2>4. \A k, l \in 1 .. i : t[k] = t[l] => k = l
    <3> SUFFICES ASSUME NEW k \in 1 .. i, NEW l \in 1 .. i, t[k] = t[l] PROVE k = l
      OBVIOUS
    <3>1. k < l \/ l < k \/ k = l
      BY <1>0
    <3> QED
      BY <2>3, <3>1
  <2>5. low \in Injection(1 .. i, 1 .. t[i])
    BY <2>2, <2>4 DEF Injection, IsInjective
  <2>6. IsFiniteSet(1 .. t[i]) /\ Cardinality(1 .. t[i]) = t[i] /\ Cardinality(1 .. i) = i
    BY <1>0, FS_Interval
  <2> HIDE DEF low
  <2> QED
    BY <2>5, <2>6, FS_Injection
<1>2. t[i] <= i
  <2> DEFINE high == [k \in i .. n |-> t[k]]
  <2>1. \A k \in i .. n : k \in 1 .. n /\ t[k] \in t[i] .. n
    <3> SUFFICES ASSUME NEW k \in i .. n PROVE k \in 1 .. n /\ t[k] \in t[i] .. n
      OBVIOUS
    <3>1. k \in 1 .. n /\ (k = i \/ i < k)
      BY <1>0
    <3>2. t[k] \in 1 .. n /\ (k = i \/ t[i] < t[k])
      BY <3>1
    <3> QED
      BY <1>0, <3>1, <3>2
  <2>2. \A k, l \in i .. n : k < l => t[k] # t[l]
    BY <1>0, <2>1, Distinct
  <2>3. \A k, l \in i .. n : t[k] = t[l] => k = l
    <3> SUFFICES ASSUME NEW k \in i .. n, NEW l \in i .. n, t[k] = t[l] PROVE k = l
      OBVIOUS
    <3>1. k < l \/ l < k \/ k = l
      BY <1>0
    <3> QED
      BY <2>2, <3>1
  <2>4. high \in Injection(i .. n, t[i] .. n)
    BY <2>1, <2>3 DEF Injection, IsInjective
  <2>5. /\ IsFiniteSet(t[i] .. n) /\ Cardinality(t[i] .. n) = n - t[i] + 1
        /\ Cardinality(i .. n) = n - i + 1
    BY <1>0, FS_Interval
  <2> HIDE DEF high
  <2>6. n - i + 1 <= n - t[i] + 1
    BY <2>4, <2>5, FS_Injection
  <2> QED
    BY <2>6, <1>0
<1> QED
  BY <1>0, <1>1, <1>2

LEMMA InOrderCounts ==
  ASSUME NEW n \in Nat, NEW s \in Seq(1 .. n), Len(s) = n, ToSet(s) = 1 .. n
  PROVE  InOrder(s) = [q \in 1 .. n |-> q]
<1> DEFINE Increasing(t) == \A i, j \in 1 .. n : i < j => t[i] < t[j]
           Identity == [q \in 1 .. n |-> q]
<1>1. Identity \in [1 .. n -> 1 .. n] /\ Increasing(Identity)
  OBVIOUS
<1>2. \A t \in [1 .. n -> 1 .. n] : Increasing(t) => t = Identity
  BY IncreasingCounts
<1>3. InOrder(s) = CHOOSE t \in [1 .. n -> 1 .. n] : Increasing(t)
  BY DEF InOrder
<1> HIDE DEF Increasing, Identity
<1>4. InOrder(s) = Identity
  BY <1>1, <1>2, <1>3
<1> QED
  BY <1>4 DEF Identity

-----------------------------------------------------------------------------
(* Steps of an atomic question *)

\* A result more: it is new, and it is of one of the questions.
LEMMA OneMore ==
  ASSUME NEW n \in Nat, NEW s \in Seq(1 .. n), IsInjective(s), NEW q \in 1 .. n, q \notin ToSet(s)
  PROVE  /\ Append(s, q) \in Seq(1 .. n) /\ IsInjective(Append(s, q))
         /\ ToSet(Append(s, q)) = ToSet(s) \cup {q}
<1> DEFINE t == Append(s, q)
<1>0. Len(s) \in Nat /\ DOMAIN s = 1 .. Len(s)
  OBVIOUS
<1>1. /\ t \in Seq(1 .. n) /\ DOMAIN t = 1 .. Len(s) + 1
      /\ \A i \in 1 .. Len(s) : t[i] = s[i]
      /\ t[Len(s) + 1] = q
  OBVIOUS
<1> HIDE DEF t
<1>2. \A i \in 1 .. Len(s) + 1 : i \in 1 .. Len(s) \/ i = Len(s) + 1
  BY <1>0
<1>3. \A i \in 1 .. Len(s) : s[i] # q
  BY <1>0 DEF ToSet
<1>4. IsInjective(t)
  <2> SUFFICES ASSUME NEW i \in 1 .. Len(s) + 1, NEW j \in 1 .. Len(s) + 1, t[i] = t[j]
               PROVE  i = j
    BY <1>1 DEF IsInjective
  <2>1. CASE i \in 1 .. Len(s) /\ j \in 1 .. Len(s)
    BY <1>0, <1>1, <2>1 DEF IsInjective
  <2>2. CASE i = Len(s) + 1 /\ j = Len(s) + 1
    BY <2>2
  <2>3. CASE ~(i \in 1 .. Len(s) <=> j \in 1 .. Len(s))
    BY <1>1, <1>2, <1>3, <2>3
  <2> QED
    BY <1>2, <2>1, <2>2, <2>3
<1>5. ToSet(t) = ToSet(s) \cup {q}
  <2>1. Len(s) + 1 \in 1 .. Len(s) + 1 /\ 1 .. Len(s) \subseteq 1 .. Len(s) + 1
    BY <1>0
  <2> QED
    BY <1>0, <1>1, <1>2, <2>1 DEF ToSet
<1> QED
  BY <1>1, <1>4, <1>5 DEF t

LEMMA OneQuestion ==
  ASSUME IInv, at = "answer_atomic_question",
         NEW q \in Question, atomic[q].at \in Running \cup {"sent"},
         NEW a \in Atomic, a.at # "unsent",
         NEW tr \in BranchStatus \cup {"none", "RUNNING"}, QuestionOK(a, tr),
         atomic' = [atomic EXCEPT ![q] = a],
         atomicTrace' = [atomicTrace EXCEPT ![q] = tr],
         results' = IF a.at = "done" THEN Append(results, q) ELSE results,
         UNCHANGED <<archived, at, trace, count, answer>>
  PROVE  IInv'
<1> USE DEF IInv
<1>0. MaxQuestions \in Nat /\ count \in Nat /\ count <= MaxQuestions /\ q \in Nat
  BY QueryRuntimeAssumption DEF QueryRuntimeAssumption, TypeOK, Question
<1>1. atomic[q].at # "unsent" /\ atomic[q].at # "done"
  BY DEF Running
<1>2. q \in 1 .. count /\ q \notin ToSet(results)
  BY <1>0, <1>1 DEF QuestionInv, Question
<1>3. results \in Seq(1 .. count) /\ IsInjective(results)
  BY DEF TypeOK
<1>4. /\ results' \in Seq(1 .. count) /\ IsInjective(results')
      /\ ToSet(results') = IF a.at = "done" THEN ToSet(results) \cup {q} ELSE ToSet(results)
  <2>1. CASE a.at = "done"
    BY <1>0, <1>2, <1>3, <2>1, OneMore
  <2>2. CASE a.at # "done"
    BY <1>3, <2>2
  <2> QED
    BY <2>1, <2>2
<1>5. \A r \in Question : /\ atomic'[r] = IF r = q THEN a ELSE atomic[r]
                          /\ atomicTrace'[r] = IF r = q THEN tr ELSE atomicTrace[r]
  BY DEF TypeOK
<1>6. TypeOK'
  <2>1. /\ atomic' \in [Question -> Atomic]
        /\ atomicTrace' \in [Question -> BranchStatus \cup {"none", "RUNNING"}]
    BY DEF TypeOK
  <2>2. \A r \in Question : atomic'[r].at = "done" => atomic'[r].on # None /\ atomic'[r].off # None
    BY <1>5 DEF TypeOK, QuestionOK
  <2> QED
    BY <1>4, <2>1, <2>2 DEF TypeOK
<1>7. QuestionInv'
  <2>1. \A r \in Question : QuestionOK(atomic[r], atomicTrace[r])'
    <3> SUFFICES ASSUME NEW r \in Question PROVE QuestionOK(atomic'[r], atomicTrace'[r])
      OBVIOUS
    <3>1. QuestionOK(atomic[r], atomicTrace[r])
      BY DEF QuestionInv
    <3> QED
      BY <1>5, <3>1
  <2>2. \A r \in Question : /\ atomic'[r].at = "unsent" <=> r > count
                            /\ atomic'[r].at = "done" <=> r \in ToSet(results')
    <3> SUFFICES ASSUME NEW r \in Question
                 PROVE  /\ atomic'[r].at = "unsent" <=> r > count
                        /\ atomic'[r].at = "done" <=> r \in ToSet(results')
      OBVIOUS
    <3>1. CASE r = q
      BY <1>0, <1>2, <1>4, <1>5, <3>1
    <3>2. CASE r # q
      BY <1>4, <1>5, <3>2 DEF QuestionInv
    <3> QED
      BY <3>1, <3>2
  <2> QED
    BY <2>1, <2>2 DEF QuestionInv
<1>8. JoinInv'
  BY DEF JoinInv
<1>9. AnswerInv'
  BY DEF AnswerInv
<1> QED
  BY <1>6, <1>7, <1>8, <1>9

\* The steps of the atomic question q.
QuestionStep(q) ==
  \/ Start(q) \/ RetrieveLessons(q) \/ CreateTrace(q) \/ ParseQuestion(q)
  \/ ContextOn(q) \/ ContextOff(q) \/ ProofClassifier(q) \/ PersistTrace(q) \/ Recover(q)

\* The question is left with node a and trace tr.
Leaves(q, a, tr) ==
  /\ a \in Atomic /\ a.at # "unsent" /\ tr \in BranchStatus \cup {"none", "RUNNING"}
  /\ QuestionOK(a, tr)
  /\ atomic' = [atomic EXCEPT ![q] = a]
  /\ atomicTrace' = [atomicTrace EXCEPT ![q] = tr]
  /\ results' = IF a.at = "done" THEN Append(results, q) ELSE results

LEMMA BranchFacts ==
  /\ Failed \in Branch /\ Failed # None /\ Failed.status = "FAILED"
  /\ \A b \in Branch : b # None /\ b.status \in BranchStatus
<1>1. Failed \in [status : BranchStatus, answered : BOOLEAN] /\ Failed.status = "FAILED"
  BY DEF Failed, BranchStatus
<1>2. ~Failed.answered
  BY DEF Failed
<1>3. Failed \in Branch
  BY <1>1, <1>2 DEF Branch
<1>4. \A b \in Branch : b \in [status : BranchStatus, answered : BOOLEAN]
  BY DEF Branch
<1> QED
  BY <1>1, <1>3, <1>4, NoneIsNoResult

\* The node of a record and nothing else.
LEMMA NodeFacts ==
  ASSUME NEW a \in Atomic, NEW node \in Running \cup {"cancelled", "raised", "done"}
  PROVE  LET b == [a EXCEPT !.at = node]
         IN  /\ b \in Atomic /\ b.at = node /\ b.on = a.on /\ b.off = a.off
             /\ b.comparable = a.comparable /\ (Provable(b) <=> Provable(a))
<1> DEFINE b == [a EXCEPT !.at = node]
<1>1. b \in Atomic /\ b.at = node
  BY DEF Atomic, Running
<1>2. b.on = a.on /\ b.off = a.off /\ b.comparable = a.comparable
  BY DEF Atomic
<1> HIDE DEF b
<1>3. Provable(b) <=> Provable(a)
  BY <1>2 DEF Provable, ProvableStatus
<1> QED
  BY <1>1, <1>2, <1>3 DEF b

LEMMA QuestionLeaves ==
  ASSUME IInv, NEW q \in Question, QuestionStep(q)
  PROVE  /\ at = "answer_atomic_question" /\ atomic[q].at \in Running \cup {"sent"}
         /\ UNCHANGED <<archived, at, trace, count, answer>>
         /\ \E a, tr : Leaves(q, a, tr)
<1> USE DEF IInv
<1>0. /\ atomic[q] \in Atomic /\ QuestionOK(atomic[q], atomicTrace[q])
      /\ atomicTrace[q] \in BranchStatus \cup {"none", "RUNNING"}
      /\ atomicTrace = [atomicTrace EXCEPT ![q] = atomicTrace[q]]
  BY DEF TypeOK, QuestionInv
<1>1. /\ at = "answer_atomic_question" /\ atomic[q].at \in Running \cup {"sent"}
      /\ UNCHANGED <<archived, at, trace, count, answer>>
  BY DEF QuestionStep, Start, RetrieveLessons, CreateTrace, ParseQuestion, ContextOn, ContextOff,
         ProofClassifier, PersistTrace, Recover, Doing, Rest, Running
\* A step that changes nothing but the node, and that not to the last one.
<1>2. ASSUME NEW node \in Running \cup {"raised"}, Proceed(q, node),
             UNCHANGED <<atomicTrace, results>>,
             \/ node \in {"retrieve_lessons", "create_trace"} /\ atomicTrace[q] = "none"
             \/ node = "recover" /\ atomicTrace[q] \in {"none", "RUNNING"}
             \/ node = "raised"
      PROVE  \E a, tr : Leaves(q, a, tr)
  <2> DEFINE a == [atomic[q] EXCEPT !.at = node]
  <2>1. /\ a \in Atomic /\ a.at = node /\ a.on = atomic[q].on /\ a.off = atomic[q].off
        /\ a.comparable = atomic[q].comparable /\ (Provable(a) <=> Provable(atomic[q]))
    BY <1>0, NodeFacts
  <2>2. atomic' = [atomic EXCEPT ![q] = a]
    BY <1>2 DEF Proceed
  <2> HIDE DEF a
  <2>3. QuestionOK(a, atomicTrace[q])
    BY <1>0, <1>2, <2>1 DEF QuestionOK
  <2>4. Leaves(q, a, atomicTrace[q])
    BY <1>0, <1>2, <2>1, <2>2, <2>3 DEF Leaves, Running
  <2> QED
    BY <2>4
<1>3. CASE Start(q)
  <2>1. /\ Proceed(q, "retrieve_lessons") /\ UNCHANGED <<atomicTrace, results>>
        /\ atomicTrace[q] = "none"
    BY <1>0, <1>3 DEF Start, Doing, Rest, QuestionOK
  <2> QED
    BY <1>1, <1>2, <2>1 DEF Running
<1>4. CASE RetrieveLessons(q)
  <2>1. /\ Proceed(q, "create_trace") \/ Proceed(q, "raised")
        /\ UNCHANGED <<atomicTrace, results>> /\ atomicTrace[q] = "none"
    BY <1>0, <1>4 DEF RetrieveLessons, Doing, Rest, QuestionOK
  <2> QED
    BY <1>1, <1>2, <2>1 DEF Running
<1>5. CASE CreateTrace(q)
  <2>1. atomicTrace[q] = "none" /\ UNCHANGED results
    BY <1>0, <1>5 DEF CreateTrace, Doing, Rest, QuestionOK
  <2>2. CASE UNCHANGED atomicTrace /\ Proceed(q, "recover")
    BY <1>1, <1>2, <2>1, <2>2 DEF Running
  <2>3. CASE /\ atomicTrace' = [atomicTrace EXCEPT ![q] = "RUNNING"]
             /\ Proceed(q, "parse_question")
    <3> DEFINE a == [atomic[q] EXCEPT !.at = "parse_question"]
    <3>1. /\ a \in Atomic /\ a.at = "parse_question" /\ a.on = atomic[q].on
          /\ a.off = atomic[q].off
          /\ a.comparable = atomic[q].comparable /\ (Provable(a) <=> Provable(atomic[q]))
      BY <1>0, NodeFacts DEF Running
    <3>2. atomic' = [atomic EXCEPT ![q] = a]
      BY <2>3 DEF Proceed
    <3> HIDE DEF a
    <3>3. QuestionOK(a, "RUNNING")
      BY <1>0, <3>1 DEF QuestionOK
    <3>4. Leaves(q, a, "RUNNING")
      BY <2>1, <2>3, <3>1, <3>2, <3>3 DEF Leaves
    <3> QED
      BY <1>1, <3>4
  <2> QED
    BY <1>5, <2>2, <2>3 DEF CreateTrace
<1>6. CASE ParseQuestion(q)
  <2>1. PICK intent \in {"none", "document", "live"} :
          atomic' = [atomic EXCEPT ![q].intent = intent, ![q].at = "branches"]
    BY <1>6 DEF ParseQuestion
  <2> DEFINE a == [atomic[q] EXCEPT !.intent = intent, !.at = "branches"]
  <2>2. /\ a \in Atomic /\ a.at = "branches" /\ a.on = atomic[q].on /\ a.off = atomic[q].off
        /\ a.comparable = atomic[q].comparable
    BY <1>0 DEF Atomic, Running
  <2>3. atomic' = [atomic EXCEPT ![q] = a]
    BY <2>1 DEF TypeOK
  <2> HIDE DEF a
  <2>4. Provable(a) <=> Provable(atomic[q])
    BY <2>2 DEF Provable, ProvableStatus
  <2>5. QuestionOK(a, atomicTrace[q]) /\ UNCHANGED <<atomicTrace, results>>
    BY <1>0, <1>6, <2>2, <2>4 DEF QuestionOK, ParseQuestion, Doing, Rest
  <2>6. Leaves(q, a, atomicTrace[q])
    BY <1>0, <2>2, <2>3, <2>5 DEF Leaves
  <2> QED
    BY <1>1, <2>6
<1>7. CASE ContextOn(q)
  <2>1. PICK b \in Branch : atomic' = [atomic EXCEPT ![q].on = b]
    BY <1>7, BranchFacts DEF ContextOn, Outcomes
  <2> DEFINE a == [atomic[q] EXCEPT !.on = b]
  <2>2. a \in Atomic /\ a.at = atomic[q].at /\ a.comparable = atomic[q].comparable
    BY <1>0 DEF Atomic
  <2>3. atomic' = [atomic EXCEPT ![q] = a]
    BY <2>1 DEF TypeOK
  <2> HIDE DEF a
  <2>4. atomic[q].at = "branches" /\ ~atomic[q].comparable /\ UNCHANGED <<atomicTrace, results>>
    BY <1>0, <1>7 DEF QuestionOK, ContextOn, Doing, Rest
  <2>5. QuestionOK(a, atomicTrace[q])
    BY <1>0, <2>2, <2>4 DEF QuestionOK
  <2>6. Leaves(q, a, atomicTrace[q])
    BY <1>0, <2>2, <2>3, <2>4, <2>5 DEF Leaves
  <2> QED
    BY <1>1, <2>6
<1>8. CASE ContextOff(q)
  <2>1. PICK b \in Branch : atomic' = [atomic EXCEPT ![q].off = b]
    BY <1>8, BranchFacts DEF ContextOff, Outcomes
  <2> DEFINE a == [atomic[q] EXCEPT !.off = b]
  <2>2. a \in Atomic /\ a.at = atomic[q].at /\ a.comparable = atomic[q].comparable
    BY <1>0 DEF Atomic
  <2>3. atomic' = [atomic EXCEPT ![q] = a]
    BY <2>1 DEF TypeOK
  <2> HIDE DEF a
  <2>4. atomic[q].at = "branches" /\ ~atomic[q].comparable /\ UNCHANGED <<atomicTrace, results>>
    BY <1>0, <1>8 DEF QuestionOK, ContextOff, Doing, Rest
  <2>5. QuestionOK(a, atomicTrace[q])
    BY <1>0, <2>2, <2>4 DEF QuestionOK
  <2>6. Leaves(q, a, atomicTrace[q])
    BY <1>0, <2>2, <2>3, <2>4, <2>5 DEF Leaves
  <2> QED
    BY <1>1, <2>6
<1>9. CASE ProofClassifier(q)
  <2>1. PICK comparable \in BOOLEAN :
          /\ comparable => Provable(atomic[q])
          /\ atomic' = [atomic EXCEPT ![q].comparable = comparable,
                                      ![q].at = "persist_trace_finalizer"]
    BY <1>9 DEF ProofClassifier
  <2> DEFINE a == [atomic[q] EXCEPT !.comparable = comparable, !.at = "persist_trace_finalizer"]
  <2>2. /\ a \in Atomic /\ a.at = "persist_trace_finalizer" /\ a.on = atomic[q].on
        /\ a.off = atomic[q].off /\ a.comparable = comparable
    BY <1>0 DEF Atomic, Running
  <2>3. atomic' = [atomic EXCEPT ![q] = a]
    BY <2>1 DEF TypeOK
  <2> HIDE DEF a
  <2>4. /\ atomic[q].at = "branches" /\ atomic[q].on # None /\ atomic[q].off # None
        /\ UNCHANGED <<atomicTrace, results>>
    BY <1>9 DEF ProofClassifier, Doing, Rest
  <2>5. Provable(a) <=> Provable(atomic[q])
    BY <2>2 DEF Provable, ProvableStatus
  <2>6. QuestionOK(a, atomicTrace[q])
    BY <1>0, <2>1, <2>2, <2>4, <2>5 DEF QuestionOK
  <2>7. Leaves(q, a, atomicTrace[q])
    BY <1>0, <2>2, <2>3, <2>4, <2>6 DEF Leaves
  <2> QED
    BY <1>1, <2>7
<1>10. CASE PersistTrace(q)
  <2>1. atomic[q].at = "persist_trace_finalizer" /\ atomicTrace[q] = "RUNNING"
    BY <1>0, <1>10 DEF PersistTrace, Doing, QuestionOK
  <2>2. CASE Proceed(q, "recover") /\ UNCHANGED <<atomicTrace, results>>
    BY <1>1, <1>2, <2>1, <2>2 DEF Running
  <2>3. CASE /\ Finished(q, atomic[q].on.status) /\ Proceed(q, "done")
             /\ results' = Append(results, q)
    <3> DEFINE a == [atomic[q] EXCEPT !.at = "done"]
               tr == atomic[q].on.status
    <3>1. /\ a \in Atomic /\ a.at = "done" /\ a.on = atomic[q].on /\ a.off = atomic[q].off
          /\ a.comparable = atomic[q].comparable /\ (Provable(a) <=> Provable(atomic[q]))
      BY <1>0, NodeFacts
    <3>2. atomic' = [atomic EXCEPT ![q] = a]
      BY <2>3 DEF Proceed
    <3>3. atomicTrace' = [atomicTrace EXCEPT ![q] = tr]
      BY <1>0, <2>1, <2>3 DEF Finished, TypeOK
    <3>4. a.on # None /\ a.off # None /\ tr \in BranchStatus /\ tr = a.on.status
      BY <1>0, <2>1, <3>1, BranchFacts DEF QuestionOK, Atomic
    <3> HIDE DEF a, tr
    <3>5. QuestionOK(a, tr)
      BY <1>0, <3>1, <3>4 DEF QuestionOK
    <3>6. Leaves(q, a, tr)
      BY <2>3, <3>1, <3>2, <3>3, <3>4, <3>5 DEF Leaves
    <3> QED
      BY <1>1, <3>6
  <2> QED
    BY <1>10, <2>2, <2>3 DEF PersistTrace
<1>11. CASE Recover(q)
  <2>1. atomic[q].at = "recover" /\ atomicTrace[q] \in {"none", "RUNNING"}
    BY <1>0, <1>11 DEF Recover, Doing, QuestionOK
  <2>2. CASE Proceed(q, "raised") /\ UNCHANGED <<atomicTrace, results>>
    BY <1>1, <1>2, <2>2
  <2>3. CASE /\ Finished(q, "FAILED")
             /\ atomic' = [atomic EXCEPT ![q] = [Recovered(@) EXCEPT !.at = "done"]]
             /\ results' = Append(results, q)
    <3> DEFINE a == [Recovered(atomic[q]) EXCEPT !.at = "done"]
               tr == IF atomicTrace[q] = "none" THEN "none" ELSE "FAILED"
    <3>1. /\ a \in Atomic /\ a.at = "done" /\ a.on = Failed /\ a.off = Failed
          /\ a.comparable = FALSE
      BY <1>0, BranchFacts DEF Atomic, Recovered
    <3>2. atomic' = [atomic EXCEPT ![q] = a]
      BY <2>3 DEF TypeOK
    <3>3. atomicTrace' = [atomicTrace EXCEPT ![q] = tr]
      BY <1>0, <2>1, <2>3 DEF Finished, TypeOK
    <3>4. tr \in {"none", "FAILED"}
      OBVIOUS
    <3> HIDE DEF a, tr
    <3>5. QuestionOK(a, tr)
      BY <3>1, <3>4, BranchFacts DEF QuestionOK
    <3>6. Leaves(q, a, tr)
      BY <2>3, <3>1, <3>2, <3>3, <3>4, <3>5 DEF Leaves, BranchStatus
    <3> QED
      BY <1>1, <3>6
  <2> QED
    BY <1>11, <2>2, <2>3 DEF Recover
<1> QED
  BY <1>3, <1>4, <1>5, <1>6, <1>7, <1>8, <1>9, <1>10, <1>11 DEF QuestionStep

-----------------------------------------------------------------------------
(* Steps of the query *)

LEMMA InitIInv == Init => IInv
<1> SUFFICES ASSUME Init PROVE IInv
  OBVIOUS
<1>0. MaxQuestions \in Nat \ {0}
  BY QueryRuntimeAssumption DEF QueryRuntimeAssumption
<1>1. Unsent \in Atomic /\ Unsent.at = "unsent" /\ ~Unsent.comparable
  BY DEF Unsent, Atomic, Running
<1>2. TypeOK
  BY <1>0, <1>1 DEF Init, TypeOK, IsInjective
<1>3. \A q \in Question : q \in Nat /\ q > 0
  BY <1>0 DEF Question
<1>4. QuestionInv
  BY <1>1, <1>3 DEF Init, QuestionInv, QuestionOK, ToSet
<1>5. JoinInv /\ AnswerInv
  BY DEF Init, JoinInv, AnswerInv
<1> QED
  BY <1>2, <1>4, <1>5 DEF IInv

\* A step that moves on without touching the questions.
LEMMA AtOnly ==
  ASSUME IInv, UNCHANGED <<count, atomic, atomicTrace, results, answer>>, archived' \in BOOLEAN,
         \/ /\ at \in {"run", "create_query_trace"}
            /\ at' \in {"create_query_trace", "atomize_question", "fail", "raised"}
            /\ trace' \in {trace, "RUNNING"}
         \/ at \in {"atomize_question", "answer_atomic_question", "final_synthesis"} /\ at' = "fail"
            /\ trace' = trace
         \/ at = "persist_final_trace"
            /\ ((at' = "returned" /\ trace' = answer.status) \/ (at' = "fail" /\ trace' = trace))
         \/ at = "fail" /\ at' = "raised" /\ trace' \in {trace, "FAILED"}
         \/ at \notin {"returned", "raised", "dead"} /\ at' = "dead" /\ trace' = trace
         \/ UNCHANGED <<at, trace>>
  PROVE  IInv'
<1> USE DEF IInv
<1>1. at = "persist_final_trace" => answer.status \in {"SUCCESS", "PARTIAL", "FAILED"}
  BY DEF AnswerInv, TypeOK, Answer
<1>2. TypeOK'
  BY <1>1 DEF TypeOK
<1>3. QuestionInv'
  BY DEF QuestionInv
<1>4. JoinInv'
  BY DEF JoinInv
<1>5. AnswerInv'
  <2>1. \A q : Successful(q)' = Successful(q)
    BY DEF Successful
  <2>2. \A S : Status(S)' = Status(S)
    BY DEF Status
  <2>3. at' = "returned" => trace' = answer.status
    BY DEF AnswerInv
  <2>4. at' \in {"persist_final_trace", "returned"} => answer # None
    BY DEF AnswerInv
  <2>5. ASSUME answer # None
        PROVE  at' \in {"persist_final_trace", "fail", "returned", "raised", "dead"}
    BY <2>5 DEF AnswerInv
  <2> QED
    BY <2>1, <2>2, <2>3, <2>4, <2>5 DEF AnswerInv
<1> QED
  BY <1>2, <1>3, <1>4, <1>5

LEMMA AtomizeStep == IInv /\ AtomizeQuestion => IInv'
<1> SUFFICES ASSUME IInv, AtomizeQuestion PROVE IInv'
  OBVIOUS
<1> USE DEF IInv
<1>0. MaxQuestions \in Nat \ {0} /\ at = "atomize_question"
  BY QueryRuntimeAssumption DEF QueryRuntimeAssumption, AtomizeQuestion
<1>1. CASE at' = "fail" /\ UNCHANGED <<count, atomic>>
  <2>1. UNCHANGED <<archived, trace, atomicTrace, results, answer>>
    BY DEF AtomizeQuestion
  <2>2. archived' \in BOOLEAN
    BY <2>1 DEF TypeOK
  <2> QED
    BY <1>0, <1>1, <2>1, <2>2, AtOnly
<1>2. CASE /\ count' \in 1 .. MaxQuestions
           /\ atomic' = [q \in Question |->
                           [Unsent EXCEPT !.at = IF q <= count' THEN "sent" ELSE "unsent"]]
           /\ at' = "answer_atomic_question"
  <2>0. UNCHANGED <<archived, trace, atomicTrace, results, answer>>
    BY DEF AtomizeQuestion
  <2>1. count = 0 /\ answer = None
    BY <1>0 DEF JoinInv, AnswerInv
  <2>2. results = <<>>
    <3>1. results \in Seq({})
      BY <2>1 DEF TypeOK
    <3> QED
      BY <3>1
  <2>3. \A node \in {"sent", "unsent"} :
          LET a == [Unsent EXCEPT !.at = node]
          IN  a \in Atomic /\ a.at = node /\ ~a.comparable
    BY DEF Unsent, Atomic, Running
  <2>4. \A q \in Question : /\ q \in Nat /\ q > 0
                            /\ atomic[q].at = "unsent" /\ atomicTrace[q] = "none"
    BY <1>0, <2>1 DEF QuestionInv, QuestionOK, Question
  <2>5. \A q \in Question : /\ atomic'[q] \in Atomic /\ ~atomic'[q].comparable
                            /\ atomic'[q].at = IF q <= count' THEN "sent" ELSE "unsent"
    BY <1>2, <2>3
  <2>6. count' \in Nat /\ count' > 0 /\ count' \in 0 .. MaxQuestions
    BY <1>0, <1>2
  <2>7. TypeOK'
    <3>1. atomic' \in [Question -> Atomic]
      BY <1>2, <2>5
    <3>2. results' \in Seq(1 .. count') /\ IsInjective(results')
      BY <2>0, <2>2 DEF IsInjective
    <3>3. \A q \in Question : atomic'[q].at # "done"
      BY <2>5
    <3> QED
      BY <1>2, <2>0, <2>6, <3>1, <3>2, <3>3 DEF TypeOK
  <2>8. QuestionInv'
    <3>1. \A q \in Question : QuestionOK(atomic'[q], atomicTrace'[q])
      BY <2>0, <2>4, <2>5 DEF QuestionOK
    <3>2. \A q \in Question : atomic'[q].at = "unsent" <=> q > count'
      BY <2>4, <2>5, <2>6
    <3>3. \A q \in Question : atomic'[q].at # "done" /\ q \notin ToSet(results')
      BY <2>0, <2>2, <2>5 DEF ToSet
    <3> QED
      BY <3>1, <3>2, <3>3 DEF QuestionInv
  <2>9. JoinInv'
    BY <1>2, <2>6 DEF JoinInv
  <2>10. AnswerInv'
    BY <1>2, <2>0, <2>1 DEF AnswerInv
  <2> QED
    BY <2>7, <2>8, <2>9, <2>10
<1> QED
  BY <1>1, <1>2 DEF AtomizeQuestion

LEMMA CancelStep == IInv /\ CancelSent => IInv'
<1> SUFFICES ASSUME IInv, CancelSent PROVE IInv'
  OBVIOUS
<1> USE DEF IInv
<1>1. at = "answer_atomic_question" /\ UNCHANGED <<Rest, atomicTrace>>
  BY DEF CancelSent
<1>2. ASSUME NEW q \in Question
      PROVE  /\ atomic'[q] \in Atomic /\ QuestionOK(atomic'[q], atomicTrace[q])
             /\ atomic'[q].at = "unsent" <=> atomic[q].at = "unsent"
             /\ atomic'[q].at = "done" <=> atomic[q].at = "done"
  <2>0. atomic[q] \in Atomic /\ QuestionOK(atomic[q], atomicTrace[q])
    BY DEF TypeOK, QuestionInv
  <2>1. CASE atomic[q].at = "sent"
    <3> DEFINE a == [atomic[q] EXCEPT !.at = "cancelled"]
    <3>1. /\ a \in Atomic /\ a.at = "cancelled" /\ a.on = atomic[q].on /\ a.off = atomic[q].off
          /\ a.comparable = atomic[q].comparable /\ (Provable(a) <=> Provable(atomic[q]))
      BY <2>0, NodeFacts
    <3>2. atomic'[q] = a
      BY <2>1 DEF CancelSent
    <3> HIDE DEF a
    <3> QED
      BY <2>0, <2>1, <3>1, <3>2 DEF QuestionOK
  <2>2. CASE atomic[q].at # "sent"
    <3>1. atomic'[q] = atomic[q]
      BY <2>2 DEF CancelSent
    <3> QED
      BY <2>0, <3>1
  <2> QED
    BY <2>1, <2>2
<1>3. TypeOK'
  <2>1. atomic' \in [Question -> Atomic]
    BY <1>2 DEF CancelSent
  <2>2. \A q \in Question : atomic'[q].at = "done" => atomic'[q].on # None /\ atomic'[q].off # None
    BY <1>2 DEF QuestionOK
  <2> QED
    BY <1>1, <2>1, <2>2 DEF TypeOK, Rest
<1>4. QuestionInv'
  BY <1>1, <1>2 DEF QuestionInv, Rest
<1>5. JoinInv' /\ AnswerInv'
  BY <1>1 DEF JoinInv, AnswerInv, Rest
<1> QED
  BY <1>3, <1>4, <1>5

LEMMA JoinStep == IInv /\ JoinFanOut => IInv'
<1> SUFFICES ASSUME IInv, JoinFanOut PROVE IInv'
  OBVIOUS
<1> USE DEF IInv
<1>1. ToSet(results) = 1 .. count
  <2>1. /\ count \in Nat /\ results \in Seq(1 .. count) /\ IsInjective(results)
        /\ Len(results) = count
    BY QueryRuntimeAssumption DEF QueryRuntimeAssumption, TypeOK, JoinFanOut
  <2> QED
    BY <2>1, FullRange
<1>2. TypeOK' /\ QuestionInv'
  BY DEF JoinFanOut, TypeOK, QuestionInv
<1>3. JoinInv' /\ AnswerInv'
  BY <1>1 DEF JoinFanOut, JoinInv, AnswerInv
<1> QED
  BY <1>2, <1>3

LEMMA SynthesisStep == IInv /\ FinalSynthesis => IInv'
<1> SUFFICES ASSUME IInv, FinalSynthesis PROVE IInv'
  OBVIOUS
<1> USE DEF IInv
<1> DEFINE used == {q \in ToSet(results) : Successful(q)}
<1>0. at = "final_synthesis" /\ UNCHANGED <<archived, trace, count, atomic, atomicTrace, results>>
  BY DEF FinalSynthesis
<1>1. CASE at' = "fail" /\ UNCHANGED answer
  <2>1. archived' \in BOOLEAN
    BY <1>0 DEF TypeOK
  <2> QED
    BY <1>0, <1>1, <2>1, AtOnly
<1>2. CASE /\ answer' = [status |-> Status(used), results |-> InOrder(results),
                         used |-> used, reported |-> ToSet(results) \ used]
           /\ at' = "persist_final_trace"
  <2>1. /\ count \in Nat /\ count > 0 /\ results \in Seq(1 .. count) /\ IsInjective(results)
        /\ ToSet(results) = 1 .. count /\ 1 .. count \subseteq Question
    BY <1>0, QueryRuntimeAssumption DEF QueryRuntimeAssumption, TypeOK, JoinInv, Question
  <2>2. Len(results) = count
    <3>0. results \in [1 .. Len(results) -> 1 .. count] /\ Len(results) \in Nat
      BY <2>1
    <3>1. \A k \in 1 .. count : \E i \in 1 .. Len(results) : results[i] = k
      BY <2>1, <3>0 DEF ToSet
    <3>2. results \in Injection(1 .. Len(results), 1 .. count)
      BY <2>1, <3>0 DEF Injection, IsInjective
    <3>3. results \in Surjection(1 .. Len(results), 1 .. count)
      BY <3>0, <3>1 DEF Surjection
    <3>4. \A n \in Nat : IsFiniteSet(1 .. n) /\ Cardinality(1 .. n) = n
      BY FS_Interval
    <3>5. /\ IsFiniteSet(1 .. count) /\ Cardinality(1 .. count) = count
          /\ Cardinality(1 .. Len(results)) = Len(results)
      BY <2>1, <3>0, <3>4
    <3> QED
      BY <3>2, <3>3, <3>5, FS_Injection
  <2>3. InOrder(results) = [q \in 1 .. count |-> q]
    BY <2>1, <2>2, InOrderCounts
  <2>4. used = {q \in 1 .. count : Successful(q)} /\ used \subseteq 1 .. count
    BY <2>1
  <2>5. answer' \in Answer
    <3>1. InOrder(results) \in Seq(Question)
      BY <2>1, <2>3
    <3>2. Status(used) \in {"SUCCESS", "PARTIAL", "FAILED"}
      BY DEF Status
    <3>3. used \in SUBSET Question /\ (ToSet(results) \ used) \in SUBSET Question
      BY <2>1, <2>4
    <3> HIDE DEF used
    <3> QED
      BY <1>2, <3>1, <3>2, <3>3 DEF Answer
  <2>6. TypeOK'
    BY <1>0, <1>2, <2>5 DEF TypeOK
  <2>7. QuestionInv' /\ JoinInv'
    BY <1>0, <1>2 DEF QuestionInv, JoinInv
  <2>8. AnswerInv'
    <3>1. answer' # None
      BY <2>5, NoneIsNoResult
    <3>2. \A q : Successful(q)' = Successful(q)
      BY <1>0 DEF Successful
    <3>3. \A S : Status(S)' = Status(S)
      BY <1>0 DEF Status
    <3>4. /\ answer'.results = [q \in 1 .. count |-> q] /\ answer'.used = used
          /\ answer'.reported = (1 .. count) \ used /\ answer'.status = Status(used)
      BY <1>2, <2>1, <2>3
    <3>5. used = {q \in 1 .. count : Successful(q)'}
      BY <2>4, <3>2
    <3> HIDE DEF used
    <3> QED
      BY <1>0, <1>2, <2>1, <3>1, <3>3, <3>4, <3>5 DEF AnswerInv
  <2> QED
    BY <2>6, <2>7, <2>8
<1> QED
  BY <1>1, <1>2 DEF FinalSynthesis

LEMMA ProgressStep == IInv /\ Progress => IInv'
<1> SUFFICES ASSUME IInv, Progress PROVE IInv'
  OBVIOUS
<1> USE DEF IInv
<1>0. archived \in BOOLEAN
  BY DEF TypeOK
<1>1. CASE Run
  BY <1>0, <1>1, AtOnly DEF Run
<1>2. CASE CreateQueryTrace
  BY <1>0, <1>2, AtOnly DEF CreateQueryTrace
<1>3. CASE AtomizeQuestion
  BY <1>3, AtomizeStep
<1>4. ASSUME NEW q \in Question, QuestionStep(q) PROVE IInv'
  <2>1. /\ at = "answer_atomic_question" /\ atomic[q].at \in Running \cup {"sent"}
        /\ UNCHANGED <<archived, at, trace, count, answer>>
        /\ \E a, tr : Leaves(q, a, tr)
    BY <1>4, QuestionLeaves
  <2>2. PICK a, tr : Leaves(q, a, tr)
    BY <2>1
  <2> QED
    BY <2>1, <2>2, OneQuestion DEF Leaves
<1>5. CASE CancelSent
  BY <1>5, CancelStep
<1>6. CASE LeaveFanOut
  BY <1>0, <1>6, AtOnly DEF LeaveFanOut
<1>7. CASE JoinFanOut
  BY <1>7, JoinStep
<1>8. CASE FinalSynthesis
  BY <1>8, SynthesisStep
<1>9. CASE PersistFinalTrace
  BY <1>0, <1>9, AtOnly DEF PersistFinalTrace
<1>10. CASE Fail
  BY <1>0, <1>10, AtOnly DEF Fail
<1> QED
  BY <1>1, <1>2, <1>3, <1>4, <1>5, <1>6, <1>7, <1>8, <1>9, <1>10 DEF Progress, QuestionStep

LEMMA NextIInv == IInv /\ [Next]_vars => IInv'
<1> SUFFICES ASSUME IInv, [Next]_vars PROVE IInv'
  OBVIOUS
<1>0. archived \in BOOLEAN
  BY DEF IInv, TypeOK
<1>1. CASE Progress
  BY <1>1, ProgressStep
<1>2. CASE Archive
  BY <1>2, AtOnly DEF Archive
<1>3. CASE Crash
  BY <1>0, <1>3, AtOnly DEF Crash
<1>4. CASE UNCHANGED vars
  BY <1>0, <1>4, AtOnly DEF vars
<1> QED
  BY <1>1, <1>2, <1>3, <1>4 DEF Next

\* The inductive invariant: what node, trace row, results and response say of each other.
THEOREM Inductive == Spec => []IInv
  BY InitIInv, NextIInv, PTL DEF Spec

-----------------------------------------------------------------------------
(* Theorems *)

\* Every variable of CompoundQuery and its atomic questions has its type, and no question
\* is answered twice.
THEOREM TypeCorrect == Spec => []TypeOK
<1>1. IInv => TypeOK
  BY DEF IInv
<1> QED
  BY <1>1, Inductive, PTL

\* The response of a query of any number of questions, in whatever order their threads
\* end, has their results in the order asked; the synthesis used exactly the successes
\* that are stored as such; and only answers of both branches are ever compared.
THEOREM ResponseMatches == Spec => []ResponseMatchesStore
<1>1. IInv => ResponseMatchesStore
  <2> SUFFICES ASSUME IInv PROVE ResponseMatchesStore
    OBVIOUS
  <2> USE DEF IInv
  <2>1. ASSUME answer # None
        PROVE  /\ answer.results = [q \in 1 .. count |-> q]
               /\ \A q \in answer.used : atomicTrace[q] = "SUCCESS" /\ atomic[q].on.answered
               /\ answer.reported = (1 .. count) \ answer.used
    <3>1. /\ answer.results = [q \in 1 .. count |-> q] /\ ToSet(results) = 1 .. count
          /\ answer.used = {q \in 1 .. count : Successful(q)}
          /\ answer.reported = (1 .. count) \ answer.used
      BY <2>1 DEF AnswerInv
    <3>2. ASSUME NEW q \in answer.used
          PROVE  atomicTrace[q] = "SUCCESS" /\ atomic[q].on.answered
      <4>1. /\ q \in Question /\ q \in ToSet(results) /\ atomic[q].on.status = "SUCCESS"
            /\ atomic[q].on.answered
        BY <3>1, <3>2, QueryRuntimeAssumption DEF QueryRuntimeAssumption, Successful, TypeOK, Question
      <4>2. QuestionOK(atomic[q], atomicTrace[q]) /\ atomic[q].at = "done"
        BY <4>1 DEF QuestionInv
      <4> QED
        BY <4>1, <4>2, BranchFacts DEF QuestionOK
    <3> QED
      BY <3>1, <3>2
  <2>2. ASSUME NEW q \in Question, atomic[q].comparable,
               NEW b \in {atomic[q].on, atomic[q].off}
        PROVE  b.status = "SUCCESS" /\ b.answered
    BY <2>2 DEF QuestionInv, QuestionOK, Provable, ProvableStatus
  <2> QED
    BY <2>1, <2>2 DEF ResponseMatchesStore
<1> QED
  BY <1>1, Inductive, PTL

\* The stored traces tell of a returned query what happened: SUCCESS, PARTIAL or FAILED
\* by how many of its questions have a stored answer, and no question left RUNNING.
THEOREM HonestTraces == Spec => []TracesAreHonest
<1>1. IInv => TracesAreHonest
  <2> SUFFICES ASSUME IInv, at = "returned" PROVE TracesAreHonest
    BY DEF TracesAreHonest
  <2> USE DEF IInv
  <2> DEFINE answeredOnes == {q \in 1 .. count : atomicTrace[q] = "SUCCESS" /\ atomic[q].on.answered}
  <2>1. /\ answer # None /\ trace = answer.status /\ answer.status = Status(answer.used)
        /\ count > 0 /\ ToSet(results) = 1 .. count
        /\ answer.used = {q \in 1 .. count : Successful(q)}
        /\ answer.reported = (1 .. count) \ answer.used
    BY DEF AnswerInv
  <2>2. count \in Nat /\ 1 .. count \subseteq Question
    BY QueryRuntimeAssumption DEF QueryRuntimeAssumption, TypeOK, Question
  <2>3. \A q \in 1 .. count : /\ QuestionOK(atomic[q], atomicTrace[q]) /\ atomic[q].at = "done"
    BY <2>1, <2>2 DEF QuestionInv
  <2>4. \A q \in 1 .. count : \/ atomicTrace[q] = atomic[q].on.status
                              \/ atomicTrace[q] = "none" /\ atomic[q].on.status = "FAILED"
    BY <2>3, BranchFacts DEF QuestionOK
  <2>5. answeredOnes = answer.used
    <3>1. \A q \in 1 .. count : atomicTrace[q] = "SUCCESS" <=> atomic[q].on.status = "SUCCESS"
      BY <2>4
    <3>2. \A q \in 1 .. count :
            (atomicTrace[q] = "SUCCESS" /\ atomic[q].on.answered) <=> Successful(q)
      BY <3>1 DEF Successful
    <3> QED
      BY <2>1, <3>2
  <2>6. 1 .. count # {}
    BY <2>1, <2>2
  <2> HIDE DEF answeredOnes
  <2>7. /\ trace = "SUCCESS" <=> answeredOnes = 1 .. count
        /\ trace = "FAILED" <=> answeredOnes = {}
    BY <2>1, <2>5, <2>6 DEF Status
  <2>8. \A q \in 1 .. count : atomic[q].on.status # "SUCCESS" => q \in answer.reported
    BY <2>1 DEF Successful
  <2>9. \A q \in 1 .. count : \/ atomicTrace[q] = atomic[q].on.status
                              \/ atomicTrace[q] = "none" /\ q \in answer.reported
    BY <2>4, <2>8
  <2> QED
    BY <2>7, <2>9 DEF TracesAreHonest, answeredOnes
<1> QED
  BY <1>1, Inductive, PTL

-----------------------------------------------------------------------------
(* The end of the query *)

\* How many steps an atomic question with node a can still take.
StepsOf(a) ==
  CASE a.at \in {"unsent", "sent"}        -> 9
    [] a.at = "retrieve_lessons"          -> 8
    [] a.at = "create_trace"              -> 7
    [] a.at = "parse_question"            -> 6
    [] a.at = "branches"                  -> IF a.on = None THEN (IF a.off = None THEN 5 ELSE 4)
                                             ELSE (IF a.off = None THEN 4 ELSE 3)
    [] a.at = "persist_trace_finalizer"   -> 2
    [] a.at = "recover"                   -> 1
    [] OTHER                              -> 0

\* ... and CompoundQuery itself.
StepsOfQuery ==
  CASE at = "run"                    -> 7
    [] at = "create_query_trace"     -> 6
    [] at = "atomize_question"       -> 5
    [] at = "answer_atomic_question" -> 4
    [] at = "final_synthesis"        -> 3
    [] at = "persist_final_trace"    -> 2
    [] at = "fail"                   -> 1
    [] OTHER                         -> 0

\* The steps that the questions have ahead of them, each with its number.
Ahead == {x \in Question \X (1 .. 9) : x[2] <= StepsOf(atomic[x[1]])}

StepsLeft == StepsOfQuery + Cardinality(Ahead)

\* A step of the query leaves it fewer steps, one of its environment adds none.
EachStepCounts ==
  [][IF Progress THEN StepsLeft' < StepsLeft ELSE StepsLeft' <= StepsLeft]_vars

\* Who is cancelled is so because another question raised.
CancelInv == (\E q \in Question : atomic[q].at = "cancelled") => Broken

\* While the fan-out waits, a question is at work or may start, or there is nothing to
\* wait for: all results are there, or the exception can be raised.
NobodyWaitsForever ==
  at = "answer_atomic_question" =>
    \/ \E q \in Question : atomic[q].at \in Running
    \/ /\ \E q \in Question : atomic[q].at = "sent"
       /\ Cardinality({r \in Question : atomic[r].at \in Running}) < MaxConcurrency
    \/ Len(results) = count
    \/ Broken /\ \A q \in Question : atomic[q].at \notin Running \cup {"sent"}

LEMMA UpTo ==
  ASSUME NEW n \in Nat
  PROVE  IsFiniteSet(1 .. n) /\ Cardinality(1 .. n) = n
BY FS_Interval

LEMMA StepsOfRange ==
  /\ \A a : StepsOf(a) \in 0 .. 9
  /\ StepsOfQuery \in 0 .. 7
  BY DEF StepsOf, StepsOfQuery

LEMMA AheadIsFinite ==
  IsFiniteSet(Ahead) /\ Cardinality(Ahead) \in 0 .. 9 * MaxQuestions
<1>1. MaxQuestions \in Nat
  BY QueryRuntimeAssumption
<1>2. IsFiniteSet(Question) /\ Cardinality(Question) = MaxQuestions
  BY <1>1, FS_Interval DEF Question
<1>3. IsFiniteSet(1 .. 9) /\ Cardinality(1 .. 9) = 9
  BY UpTo
<1> DEFINE all == Question \X (1 .. 9)
<1>4. IsFiniteSet(all) /\ Cardinality(all) = MaxQuestions * 9
  BY <1>2, <1>3, FS_Product
<1>5. Ahead \in SUBSET all
  BY DEF Ahead
<1> HIDE DEF all
<1>6. IsFiniteSet(Ahead) /\ Cardinality(Ahead) <= MaxQuestions * 9
  BY <1>4, <1>5, FS_Subset
<1>7. Cardinality(Ahead) \in Nat
  BY <1>6, FS_CardinalityType
<1>8. MaxQuestions * 9 = 9 * MaxQuestions
  BY <1>1
<1> QED
  BY <1>1, <1>6, <1>7, <1>8

\* A step of CompoundQuery, which gives the questions nothing to do.
LEMMA FewerOfQuery ==
  ASSUME \A q \in Question : StepsOf(atomic'[q]) <= StepsOf(atomic[q]),
         StepsOfQuery' < StepsOfQuery
  PROVE  StepsLeft' < StepsLeft
<1>1. Ahead' \in SUBSET Ahead
  <2> SUFFICES ASSUME NEW q \in Question, NEW k \in 1 .. 9, k <= StepsOf(atomic'[q])
               PROVE  k <= StepsOf(atomic[q])
    BY DEF Ahead, Question
  <2> QED
    BY StepsOfRange
<1>2. Cardinality(Ahead') <= Cardinality(Ahead) /\ Cardinality(Ahead') \in Nat /\ Cardinality(Ahead) \in Nat
  BY <1>1, AheadIsFinite, FS_Subset, FS_CardinalityType
<1>3. StepsLeft' = StepsOfQuery' + Cardinality(Ahead')
  BY DEF StepsLeft
<1>4. StepsOfQuery \in Nat /\ StepsOfQuery' \in Nat
  BY DEF StepsOfQuery
<1> QED
  BY <1>2, <1>3, <1>4 DEF StepsLeft

\* A step of questions, which leaves CompoundQuery where it is.
LEMMA FewerOfQuestions ==
  ASSUME UNCHANGED at, \A q \in Question : StepsOf(atomic'[q]) <= StepsOf(atomic[q]),
         NEW p \in Question, StepsOf(atomic'[p]) < StepsOf(atomic[p])
  PROVE  StepsLeft' < StepsLeft
<1> DEFINE last == <<p, StepsOf(atomic[p])>>
<1>1. Ahead' \in SUBSET Ahead
  <2> SUFFICES ASSUME NEW q \in Question, NEW k \in 1 .. 9, k <= StepsOf(atomic'[q])
               PROVE  k <= StepsOf(atomic[q])
    BY DEF Ahead, Question
  <2> QED
    BY StepsOfRange
<1>2. last \in Ahead /\ last \notin Ahead'
  BY StepsOfRange DEF Ahead, Question
<1> HIDE DEF last
<1>3. Cardinality(Ahead') < Cardinality(Ahead) /\ Cardinality(Ahead') \in Nat /\ Cardinality(Ahead) \in Nat
  <2>1. IsFiniteSet(Ahead') /\ Cardinality(Ahead') <= Cardinality(Ahead) /\ Cardinality(Ahead') # Cardinality(Ahead)
    BY <1>1, <1>2, AheadIsFinite, FS_Subset
  <2> QED
    BY <2>1, AheadIsFinite, FS_CardinalityType
<1>4. StepsOfQuery' = StepsOfQuery /\ StepsOfQuery \in Nat
  BY DEF StepsOfQuery
<1> QED
  BY <1>3, <1>4 DEF StepsLeft

\* Every step of a question is one that it does not take again.
LEMMA QuestionGoesOn ==
  ASSUME IInv, NEW q \in Question, QuestionStep(q)
  PROVE  /\ UNCHANGED at
         /\ \E a : /\ a.at \in Running \cup {"done", "raised"} /\ StepsOf(a) < StepsOf(atomic[q])
                  /\ \A r \in Question : atomic'[r] = IF r = q THEN a ELSE atomic[r]
<1> USE DEF IInv
<1>1. UNCHANGED at /\ \E a, tr : Leaves(q, a, tr)
  BY QuestionLeaves
<1>2. PICK a, tr : Leaves(q, a, tr)
  BY <1>1
<1>3. atomic \in [Question -> Atomic] /\ atomic[q] \in Atomic
  BY DEF TypeOK
<1>4. atomic' = [atomic EXCEPT ![q] = a] /\ a \in Atomic
  BY <1>2 DEF Leaves
<1>5. \A r \in Question : atomic'[r] = IF r = q THEN a ELSE atomic[r]
  BY <1>3, <1>4
<1>6. ASSUME NEW node, Proceed(q, node) PROVE a.at = node
  <2>1. atomic'[q].at = node
    BY <1>3, <1>6 DEF Proceed, Atomic
  <2> QED
    BY <1>5, <2>1
<1>7. a.at \in Running \cup {"done", "raised"} /\ StepsOf(a) < StepsOf(atomic[q])
  <2>1. CASE Start(q)
    <3>1. atomic[q].at = "sent" /\ a.at = "retrieve_lessons"
      BY <1>6, <2>1 DEF Start, Doing
    <3> QED
      BY <3>1 DEF StepsOf, Running
  <2>2. CASE RetrieveLessons(q)
    <3>1. atomic[q].at = "retrieve_lessons" /\ a.at \in {"create_trace", "raised"}
      BY <1>6, <2>2 DEF RetrieveLessons, Doing
    <3> QED
      BY <3>1 DEF StepsOf, Running
  <2>3. CASE CreateTrace(q)
    <3>1. atomic[q].at = "create_trace" /\ a.at \in {"parse_question", "recover"}
      BY <1>6, <2>3 DEF CreateTrace, Doing
    <3> QED
      BY <3>1 DEF StepsOf, Running
  <2>4. CASE ParseQuestion(q)
    <3>1. PICK intent \in {"none", "document", "live"} :
            atomic' = [atomic EXCEPT ![q].intent = intent, ![q].at = "branches"]
      BY <2>4 DEF ParseQuestion
    <3>2. atomic'[q] = [atomic[q] EXCEPT !.intent = intent, !.at = "branches"]
      BY <1>3, <3>1
    <3>3. atomic[q].at = "parse_question" /\ a.at = "branches"
      BY <1>3, <1>5, <2>4, <3>2 DEF ParseQuestion, Doing, Atomic
    <3> QED
      BY <3>3 DEF StepsOf, Running
  <2>5. CASE ContextOn(q)
    <3>1. PICK b \in Outcomes(atomic[q].intent, "on") : atomic' = [atomic EXCEPT ![q].on = b]
      BY <2>5 DEF ContextOn
    <3>2. b # None
      BY BranchFacts DEF Outcomes
    <3>3. atomic'[q] = [atomic[q] EXCEPT !.on = b]
      BY <1>3, <3>1
    <3>4. /\ atomic[q].at = "branches" /\ atomic[q].on = None
          /\ a.at = "branches" /\ a.on # None /\ a.off = atomic[q].off
      BY <1>3, <1>5, <2>5, <3>2, <3>3 DEF ContextOn, Doing, Atomic
    <3> QED
      BY <3>4 DEF StepsOf, Running
  <2>6. CASE ContextOff(q)
    <3>1. PICK b \in Outcomes(atomic[q].intent, "off") : atomic' = [atomic EXCEPT ![q].off = b]
      BY <2>6 DEF ContextOff
    <3>2. b # None
      BY BranchFacts DEF Outcomes
    <3>3. atomic'[q] = [atomic[q] EXCEPT !.off = b]
      BY <1>3, <3>1
    <3>4. /\ atomic[q].at = "branches" /\ atomic[q].off = None
          /\ a.at = "branches" /\ a.off # None /\ a.on = atomic[q].on
      BY <1>3, <1>5, <2>6, <3>2, <3>3 DEF ContextOff, Doing, Atomic
    <3> QED
      BY <3>4 DEF StepsOf, Running
  <2>7. CASE ProofClassifier(q)
    <3>1. PICK comparable \in BOOLEAN :
            atomic' = [atomic EXCEPT ![q].comparable = comparable, ![q].at = "persist_trace_finalizer"]
      BY <2>7 DEF ProofClassifier
    <3>2. atomic'[q] = [atomic[q] EXCEPT !.comparable = comparable, !.at = "persist_trace_finalizer"]
      BY <1>3, <3>1
    <3>3. atomic[q].at = "branches" /\ a.at = "persist_trace_finalizer"
      BY <1>3, <1>5, <2>7, <3>2 DEF ProofClassifier, Doing, Atomic
    <3> QED
      BY <3>3 DEF StepsOf, Running
  <2>8. CASE PersistTrace(q)
    <3>1. atomic[q].at = "persist_trace_finalizer" /\ a.at \in {"done", "recover"}
      BY <1>6, <2>8 DEF PersistTrace, Doing
    <3> QED
      BY <3>1 DEF StepsOf, Running
  <2>9. CASE Recover(q)
    <3>1. \/ atomic' = [atomic EXCEPT ![q] = [Recovered(atomic[q]) EXCEPT !.at = "done"]]
          \/ Proceed(q, "raised")
      BY <2>9 DEF Recover
    <3>2. Recovered(atomic[q]).at \in {atomic[q].at} /\ [Recovered(atomic[q]) EXCEPT !.at = "done"].at = "done"
      BY <1>3 DEF Recovered, Atomic
    <3>3. a.at \in {"done", "raised"}
      <4>1. CASE atomic' = [atomic EXCEPT ![q] = [Recovered(atomic[q]) EXCEPT !.at = "done"]]
        BY <1>3, <1>5, <3>2, <4>1
      <4>2. CASE Proceed(q, "raised")
        BY <1>6, <4>2
      <4> QED
        BY <3>1, <4>1, <4>2
    <3>4. atomic[q].at = "recover"
      BY <2>9 DEF Recover, Doing
    <3> QED
      BY <3>3, <3>4 DEF StepsOf, Running
  <2> QED
    BY <2>1, <2>2, <2>3, <2>4, <2>5, <2>6, <2>7, <2>8, <2>9 DEF QuestionStep
<1> QED
  BY <1>1, <1>5, <1>7

LEMMA QuestionCounts ==
  ASSUME IInv, NEW q \in Question, QuestionStep(q)
  PROVE  StepsLeft' < StepsLeft
<1>1. /\ UNCHANGED at
      /\ \E a : /\ StepsOf(a) < StepsOf(atomic[q])
               /\ \A r \in Question : atomic'[r] = IF r = q THEN a ELSE atomic[r]
  BY QuestionGoesOn
<1> QED
  BY <1>1, FewerOfQuestions, StepsOfRange

LEMMA ProgressCounts ==
  ASSUME IInv, Progress
  PROVE  StepsLeft' < StepsLeft
<1>1. CASE Run \/ CreateQueryTrace \/ LeaveFanOut \/ JoinFanOut \/ FinalSynthesis \/ PersistFinalTrace \/ Fail
  <2>1. UNCHANGED atomic
    BY <1>1 DEF Run, CreateQueryTrace, LeaveFanOut, JoinFanOut, FinalSynthesis, PersistFinalTrace, Fail
  <2>2. StepsOfQuery' < StepsOfQuery
    BY <1>1 DEF Run, CreateQueryTrace, LeaveFanOut, JoinFanOut, FinalSynthesis, PersistFinalTrace, Fail,
                StepsOfQuery
  <2> QED
    BY <2>1, <2>2, FewerOfQuery, StepsOfRange
<1>2. CASE AtomizeQuestion
  <2>1. \A q \in Question : StepsOf(atomic'[q]) <= StepsOf(atomic[q])
    <3>1. CASE UNCHANGED atomic
      BY <3>1, StepsOfRange
    <3>2. CASE atomic' = [q \in Question |-> [Unsent EXCEPT !.at = IF q <= count' THEN "sent" ELSE "unsent"]]
      <4> SUFFICES ASSUME NEW q \in Question PROVE StepsOf(atomic'[q]) <= StepsOf(atomic[q])
        OBVIOUS
      <4>1. atomic[q].at = "unsent"
        <5>1. count = 0 /\ q > 0
          BY <1>2 DEF AtomizeQuestion, IInv, JoinInv, Question
        <5> QED
          BY <5>1 DEF IInv, QuestionInv
      <4>2. atomic'[q].at \in {"unsent", "sent"}
        BY <3>2 DEF Unsent
      <4> QED
        BY <4>1, <4>2 DEF StepsOf
    <3> QED
      BY <1>2, <3>1, <3>2 DEF AtomizeQuestion
  <2>2. StepsOfQuery' < StepsOfQuery
    BY <1>2 DEF AtomizeQuestion, StepsOfQuery
  <2> QED
    BY <2>1, <2>2, FewerOfQuery
<1>3. ASSUME NEW q \in Question, QuestionStep(q) PROVE StepsLeft' < StepsLeft
  BY <1>3, QuestionCounts
<1>4. CASE CancelSent
  <2>1. PICK p \in Question : atomic[p].at = "sent"
    BY <1>4 DEF CancelSent
  <2>2. \A q \in Question : atomic'[q] = IF atomic[q].at = "sent" THEN [atomic[q] EXCEPT !.at = "cancelled"]
                                                                 ELSE atomic[q]
    BY <1>4 DEF CancelSent
  <2>3. \A q \in Question : atomic[q].at = "sent" => atomic'[q].at = "cancelled"
    BY <2>2 DEF IInv, TypeOK, Atomic
  <2>4. \A q \in Question : StepsOf(atomic'[q]) <= StepsOf(atomic[q])
    <3> SUFFICES ASSUME NEW q \in Question PROVE StepsOf(atomic'[q]) <= StepsOf(atomic[q])
      OBVIOUS
    <3>1. CASE atomic[q].at = "sent"
      BY <2>3, <3>1 DEF StepsOf
    <3>2. CASE atomic[q].at # "sent"
      <4>1. atomic'[q] = atomic[q]
        BY <2>2, <3>2
      <4> QED
        BY <4>1, StepsOfRange
    <3> QED
      BY <3>1, <3>2
  <2>5. StepsOf(atomic'[p]) < StepsOf(atomic[p])
    BY <2>1, <2>3 DEF StepsOf
  <2>6. UNCHANGED at
    BY <1>4 DEF CancelSent, Rest
  <2> QED
    BY <2>4, <2>5, <2>6, FewerOfQuestions
<1> QED
  BY <1>1, <1>2, <1>3, <1>4 DEF Progress, QuestionStep

\* With every step of its own, a query has fewer left, and neither a crash nor the archiving
\* of the Workspace adds any: it takes nine per question and seven more at most, in whatever
\* order its threads run.
THEOREM QueryIsBounded ==
  Spec => [](StepsLeft \in 0 .. 9 * MaxQuestions + 7) /\ EachStepCounts
<1>1. StepsLeft \in 0 .. 9 * MaxQuestions + 7
  BY StepsOfRange, AheadIsFinite, QueryRuntimeAssumption DEF StepsLeft
<1>2. IInv /\ [Next]_vars =>
        [IF Progress THEN StepsLeft' < StepsLeft ELSE StepsLeft' <= StepsLeft]_vars
  <2> SUFFICES ASSUME IInv, Next, ~ Progress PROVE StepsLeft' <= StepsLeft
    BY ProgressCounts
  <2>1. UNCHANGED atomic /\ StepsOfQuery' <= StepsOfQuery
    BY StepsOfRange DEF Next, Archive, Crash, StepsOfQuery
  <2>2. Ahead' = Ahead
    BY <2>1 DEF Ahead, Question
  <2>3. StepsOfQuery \in Nat /\ StepsOfQuery' \in Nat /\ Cardinality(Ahead) \in Nat
    BY AheadIsFinite DEF StepsOfQuery
  <2> QED
    BY <2>1, <2>2, <2>3 DEF StepsLeft
<1> QED
  BY <1>1, <1>2, Inductive, PTL DEF Spec, EachStepCounts

\* A sequence without repetition is as long as its range is large.
LEMMA FullLength ==
  ASSUME NEW n \in Nat, NEW s \in Seq(1 .. n), IsInjective(s), 1 .. n \subseteq ToSet(s)
  PROVE  Len(s) = n
<1>1. Len(s) \in Nat /\ s \in [1 .. Len(s) -> 1 .. n]
  OBVIOUS
<1>2. s \in Injection(1 .. Len(s), 1 .. n)
  BY <1>1 DEF Injection, IsInjective
<1>3. s \in Surjection(1 .. Len(s), 1 .. n)
  BY <1>1 DEF Surjection, ToSet
<1>4. IsFiniteSet(1 .. n) /\ Cardinality(1 .. n) = n
  BY UpTo
<1>5. Cardinality(1 .. Len(s)) = Len(s)
  BY <1>1, UpTo
<1> QED
  BY <1>2, <1>3, <1>4, <1>5, FS_Injection

LEMMA CancelKeeps ==
  IInv /\ CancelInv /\ [Next]_vars => CancelInv'
<1> SUFFICES ASSUME IInv, CancelInv, [Next]_vars PROVE CancelInv'
  OBVIOUS
<1>1. CASE UNCHANGED atomic
  BY <1>1 DEF CancelInv, Broken
<1>2. CASE AtomizeQuestion /\ atomic' # atomic
  <2>1. \A q \in Question : atomic'[q].at \in {"unsent", "sent"}
    BY <1>2 DEF AtomizeQuestion, Unsent
  <2> QED
    BY <2>1 DEF CancelInv
<1>3. ASSUME NEW q \in Question, QuestionStep(q) PROVE CancelInv'
  <2>1. PICK a : /\ a.at \in Running \cup {"done", "raised"}
                 /\ \A r \in Question : atomic'[r] = IF r = q THEN a ELSE atomic[r]
    BY <1>3, QuestionGoesOn
  <2>2. atomic[q].at # "raised" /\ a.at # "cancelled"
    BY <1>3, <2>1, QuestionLeaves DEF Running
  <2> QED
    BY <2>1, <2>2 DEF CancelInv, Broken
<1>4. CASE CancelSent
  <2>1. \A q \in Question : atomic[q].at = "raised" => atomic'[q].at = "raised"
    BY <1>4 DEF CancelSent
  <2> QED
    BY <1>4, <2>1 DEF CancelSent, CancelInv, Broken
<1> QED
  BY <1>1, <1>2, <1>3, <1>4
  DEF Next, Progress, QuestionStep, Run, CreateQueryTrace, LeaveFanOut, JoinFanOut, FinalSynthesis,
      PersistFinalTrace, Fail, Archive, Crash, vars

\* A question is always at work, or may start, while the fan-out waits for one: the slots
\* are given back, the results come to be as many as the questions, and when one has raised
\* nothing is left that was not waited for.
THEOREM FanOutGoesOn ==
  Spec => []NobodyWaitsForever
<1>1. Init => CancelInv
  BY DEF Init, Unsent, CancelInv
<1>2. ASSUME IInv, CancelInv PROVE NobodyWaitsForever
  <2> SUFFICES ASSUME at = "answer_atomic_question",
                      \A q \in Question : atomic[q].at \notin Running
               PROVE  \/ /\ \E q \in Question : atomic[q].at = "sent"
                         /\ Cardinality({r \in Question : atomic[r].at \in Running}) < MaxConcurrency
                      \/ Len(results) = count
                      \/ Broken /\ \A q \in Question : atomic[q].at \notin Running \cup {"sent"}
    BY DEF NobodyWaitsForever
  <2>1. CASE \E q \in Question : atomic[q].at = "sent"
    <3>1. {r \in Question : atomic[r].at \in Running} = {}
      OBVIOUS
    <3>2. Cardinality({r \in Question : atomic[r].at \in Running}) = 0
      BY <3>1, FS_EmptySet
    <3> QED
      BY <2>1, <3>2, QueryRuntimeAssumption
  <2>2. CASE Broken /\ ~ \E q \in Question : atomic[q].at = "sent"
    BY <2>2
  <2>3. CASE ~Broken /\ ~ \E q \in Question : atomic[q].at = "sent"
    <3>1. \A q \in Question : atomic[q].at \in {"unsent", "done"}
      BY <1>2, <2>3 DEF CancelInv, Broken, IInv, TypeOK, Atomic
    <3>2. count \in Nat /\ 1 .. count \subseteq Question /\ results \in Seq(1 .. count) /\ IsInjective(results)
      BY <1>2, QueryRuntimeAssumption DEF IInv, TypeOK, Question
    <3>3. 1 .. count \subseteq ToSet(results)
      BY <1>2, <3>1, <3>2 DEF IInv, QuestionInv, Question
    <3>4. Len(results) = count
      BY <3>2, <3>3, FullLength
    <3> QED
      BY <3>4
  <2> QED
    BY <2>1, <2>2, <2>3
<1> QED
  BY <1>1, <1>2, CancelKeeps, Inductive, PTL DEF Spec
=============================================================================
