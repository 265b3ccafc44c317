------------------------------ MODULE Feedback ------------------------------
(***************************************************************************)
(* Feedback on answered questions of one Workspace: the row an actor keeps *)
(* per question in query_feedback, and the lessons that eligible feedback  *)
(* puts in the vector index, where later questions retrieve them as        *)
(* examples.  A submission reads, asks the model, writes the row and then  *)
(* indexes, each on its own; requests interleave and may end in between.   *)
(* The index is EvidenceIndex, which the ingestion workers fill as well.   *)
(***************************************************************************)
EXTENDS EvidenceIndex

CONSTANTS Trace,       \* queries (parent traces)
          Actor,       \* who rates
          Client,      \* requests being served at once
          None,
          MaxSubmits   \* bound: submissions

ASSUME FeedbackAssumption == None \notin Trace /\ MaxSubmits \in Nat

VARIABLES
  answered,   \* query_trace: the queries with a response
  row,        \* query_feedback, unique per trace and actor
  request,    \* FeedbackService.submit under way
  submits     \* counter

feedbackVars == <<answered, row, request, submits>>
vars == <<feedbackVars, indexVars>>

Row     == {r \in [rating : {"GOOD", "BAD"}, eligible : BOOLEAN] : r.rating = "GOOD" => r.eligible}
Request == [trace : Trace, actor : Actor, rating : {"GOOD", "BAD"}, comment : BOOLEAN,
            confidence : {"none", "low", "high"},
            no : 1 .. MaxSubmits, next : {"read", "analyse", "write", "index"}]

\* The document of a submission, which is named after it: no is its fresh uuid.
Lesson  == [trace : Trace, actor : Actor, rating : {"GOOD", "BAD"}, comment : BOOLEAN,
            confidence : {"none", "low", "high"}, no : 1 .. MaxSubmits]

\* Lessons have ids of their own.
ASSUME LessonAssumption ==
  /\ Lesson \subseteq Document \ Claim
  /\ None \notin Row /\ None \notin Request

TypeOK ==
  /\ answered \subseteq Trace
  /\ row \in [Trace \X Actor -> Row \cup {None}]
  /\ request \in [Client -> Request \cup {None}]
  /\ submits \in 0 .. MaxSubmits
  /\ IndexTypeOK

Init ==
  /\ answered = {}
  /\ row = [k \in Trace \X Actor |-> None]
  /\ request = [c \in Client |-> None]
  /\ submits = 0
  /\ IndexInit

\* The client's request, or None when it is through.
Serve(c, q) == request' = [request EXCEPT ![c] = q]

\* The runtime finishes a query: finish_trace sets its response.
Answer(t) ==
  /\ t \notin answered
  /\ answered' = answered \cup {t}
  /\ UNCHANGED <<row, request, submits, indexVars>>

Submit(c, t, a, rating, comment) ==
  /\ request[c] = None /\ submits < MaxSubmits
  /\ submits' = submits + 1
  /\ Serve(c, [trace |-> t, actor |-> a, rating |-> rating, comment |-> comment,
               confidence |-> "none", no |-> submits', next |-> "read"])
  /\ UNCHANGED <<answered, row, indexVars>>

\* A completed query of this Workspace.
Rateable(t) == t \in answered

\* AfterRead, had the lesson come before the row (a faulty variant).
AfterReadIndex(q) == "index"

\* Only a downvote without a comment needs the model.
AfterRead(q) == IF q.rating = "BAD" /\ ~q.comment THEN "analyse" ELSE "write"

ReadTrace(c) ==
  /\ request[c] # None /\ request[c].next = "read"
  /\ Serve(c, IF Rateable(request[c].trace)
                THEN [request[c] EXCEPT !.next = AfterRead(request[c])]
                ELSE None)
  /\ UNCHANGED <<answered, row, submits, indexVars>>

\* The model infers a critique and says how sure it is of it.
Analyse(c) ==
  /\ request[c] # None /\ request[c].next = "analyse"
  /\ \E confidence \in {"low", "high"} :
       Serve(c, [request[c] EXCEPT !.confidence = confidence, !.next = "write"])
  /\ UNCHANGED <<answered, row, submits, indexVars>>

\* Eligible, had any critique been good enough (a faulty variant).
EligibleWhenAnalysed(q) == q.rating = "GOOD" \/ q.comment \/ q.confidence # "none"

\* Eligible, had only critiques been lessons (a faulty variant).
EligibleCritique(q) == q.comment \/ q.confidence = "high"

\* Upvotes, commented downvotes, and inferred critiques of at least 0.70.
Eligible(q) == q.rating = "GOOD" \/ q.comment \/ q.confidence = "high"

\* The row after the write: inserted, or updated in place for the same trace and actor.
Upserted(q, old) == [rating |-> q.rating, eligible |-> Eligible(q)]

Write(c) ==
  /\ request[c] # None /\ request[c].next = "write"
  /\ LET q == request[c]
         k == <<q.trace, q.actor>>
     IN  /\ row' = [row EXCEPT ![k] = Upserted(q, row[k])]
         /\ Serve(c, IF Eligible(q) THEN [q EXCEPT !.next = "index"] ELSE None)
  /\ UNCHANGED <<answered, submits, indexVars>>

\* The document that a request indexes.
LessonOf(q) ==
  [trace |-> q.trace, actor |-> q.actor, rating |-> q.rating, comment |-> q.comment,
   confidence |-> q.confidence, no |-> q.no]

\* index() is called, and its outcome is the outcome of the request.
Index(c) ==
  /\ request[c] # None /\ request[c].next = "index"
  /\ Begin(LessonOf(request[c]))
  /\ Serve(c, None)
  /\ UNCHANGED <<answered, row, submits>>

\* The model or the database raises, or the process dies.
Abandon(c) ==
  /\ request[c] # None
  /\ Serve(c, None)
  /\ UNCHANGED <<answered, row, submits, indexVars>>

Next ==
  \/ \E t \in Trace : Answer(t)
  \/ \E c \in Client :
       \/ \E t \in Trace, a \in Actor, rating \in {"GOOD", "BAD"}, comment \in BOOLEAN :
            Submit(c, t, a, rating, comment)
       \/ ReadTrace(c) \/ Analyse(c) \/ Write(c) \/ Index(c) \/ Abandon(c)
  \/ IndexNext /\ UNCHANGED feedbackVars

Spec == Init /\ [][Next]_vars

-----------------------------------------------------------------------------
(* Properties *)

\* No request is about this row.
Settled(k) ==
  \A c \in Client : request[c] = None \/ <<request[c].trace, request[c].actor>> # k

\* retrieve: the lessons that a later question may be shown.
Lessons == {e.doc : e \in {x \in entries : x.doc \in Lesson}}

\* What later questions learn from was rated, on a query that had been answered:
\* however requests interleave and end early, a lesson has a row behind it.  And an
\* inferred critique the model is not sure of never becomes a lesson, not even by way
\* of a row that another submission made eligible.
LessonsAreSound ==
  \A l \in Lessons :
    /\ row[<<l.trace, l.actor>>] # None /\ l.trace \in answered
    /\ l.rating = "BAD" => l.comment \/ l.confidence = "high"

\* docs/IMPLEMENTATION_STATUS.md:32: "A downvoted answer is never treated as a positive
\* example".  So an actor who now rates the answer BAD has no lesson in the index that
\* presents it as GOOD.
DownvotedIsNeverPositive ==
  \A k \in Trace \X Actor :
    (Settled(k) /\ row[k] # None /\ row[k].rating = "BAD") =>
      ~ \E l \in Lessons : <<l.trace, l.actor>> = k /\ l.rating = "GOOD"
=============================================================================
