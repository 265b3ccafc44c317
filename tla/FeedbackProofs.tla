--------------------------- MODULE FeedbackProofs ---------------------------
(***************************************************************************)
(* Proofs about Feedback and the EvidenceIndex it extends, for all sets of *)
(* queries, actors, requests, documents and claims, every number of chunks *)
(* and every way in which files share chunk ids.                           *)
(*                                                                         *)
(* First the index: in the hosted store the ids of two documents never     *)
(* meet, and what is stored of a document is known in each phase of its    *)
(* call (PhaseInv), so that a clean-up takes exactly its own; in the local *)
(* index ids meet only between claims of one file, and then all of them    *)
(* do.  Then the requests: what a request has found out stays true while   *)
(* others go on, since a query that had been answered stays so and a row,  *)
(* once written, is only updated (RequestInv); so what was indexed has a   *)
(* row behind it (CallInv).                                                *)
(***************************************************************************)
EXTENDS Feedback, TLAPS

-----------------------------------------------------------------------------
(* The invariant of the index *)

\* What is stored of a document whose call has not come to its end.
PhaseInv ==
  /\ \A d \in Document :
       (d \notin DOMAIN call \/ call[d] \in {"clear", "store"}) => Nothing(d)
  /\ \A d \in DOMAIN call : call[d] = "save" =>
       Chunks(d, Ids(d)) \subseteq entries /\ References(d) = {}

\* The bridge is not used by the local index, nor are its phases.
LocalInv ==
  backend = "local" =>
    refs = {} /\ \A d \in DOMAIN call : call[d] \notin {"clear", "save"}

\* Evidence is that of a finished search.
SearchedInv == \A d \in Claim : evidence[d] # {} => Running(d, "searched")

IndexInv ==
  /\ IndexTypeOK
  /\ PhaseInv
  /\ LocalInv
  /\ SearchedInv
  /\ CallsAreHonest
  /\ EvidenceIsOwn

-----------------------------------------------------------------------------
(* Ids *)

\* In the hosted store every document has ids of its own.
LEMMA IdsApart ==
  ASSUME backend = "agentic_plane", NEW d \in Document, NEW e \in Document,
         NEW i \in Ids(d), i \in Ids(e)
  PROVE  d = e
  BY DEF Ids, Id

\* In the local index, documents that share an id share their key, ...
LEMMA IdsOfOneFile ==
  ASSUME backend = "local", NEW d \in Document, NEW e \in Document,
         NEW i \in Ids(d), i \in Ids(e)
  PROVE  ChunkKey[d] = ChunkKey[e]
  BY DEF Ids, Id

\* ... and those that share their key share all ids.
LEMMA IdsShared ==
  ASSUME backend = "local", NEW d \in Document, NEW e \in Document,
         ChunkKey[d] = ChunkKey[e]
  PROVE  Ids(d) = Ids(e)
<1>1. Size[d] = Size[e]
  BY EvidenceIndexAssumption DEF EvidenceIndexAssumption
<1> QED
  BY <1>1 DEF Ids, Id

\* The ids of a document only depend on the backend.
LEMMA IdsStay ==
  ASSUME UNCHANGED backend, NEW d
  PROVE  Ids(d)' = Ids(d)
  BY DEF Ids, Id

\* What a step of a call does to the phases.
LEMMA GoMoves ==
  ASSUME IndexTypeOK, NEW d, NEW phase, Go(d, phase)
  PROVE  /\ DOMAIN call' = DOMAIN call \cup {d}
         /\ call'[d] = phase
         /\ \A x \in DOMAIN call : x # d => call'[x] = call[x]
  BY DEF Go

-----------------------------------------------------------------------------
(* What a step leaves alone *)

\* A document stays whole if its entries and bridge rows do.
LEMMA WholeStays ==
  ASSUME IndexTypeOK, UNCHANGED backend, NEW d \in DOMAIN call, Whole(d),
         DOMAIN call \subseteq DOMAIN call',
         backend = "local" => entries \subseteq entries',
         {e \in entries : e.doc = d} \subseteq entries',
         References(d)' = References(d)
  PROVE  Whole(d)'
<1>1. PICK o \in DOMAIN call :
        /\ o = d \/ (backend = "local" /\ ChunkKey[o] = ChunkKey[d])
        /\ Chunks(o, Ids(o)) \subseteq entries
  BY DEF Whole
<1>2. Ids(o)' = Ids(o) /\ Ids(d)' = Ids(d)
  BY IdsStay
<1>3. Chunks(o, Ids(o)) \subseteq entries'
  BY <1>1 DEF Chunks
<1> QED
  BY <1>1, <1>2, <1>3 DEF Whole, Chunks

\* Evidence stays in the index if its entries do.
LEMMA EvidenceStays ==
  ASSUME IndexTypeOK, EvidenceIsOwn, UNCHANGED <<backend, evidence>>,
         \A d \in Claim : evidence[d] # {} => \A e \in entries :
           e.id \in evidence[d] /\ ChunkKey[e.doc] = ChunkKey[d] => e \in entries'
  PROVE  EvidenceIsOwn'
<1>1. \A d \in Claim : Ids(d)' = Ids(d)
  BY IdsStay
<1> QED
  BY <1>1 DEF EvidenceIsOwn

-----------------------------------------------------------------------------
(* Steps that store nothing *)

\* A call goes on, or ends, without having touched the store.
LEMMA StepAside ==
  ASSUME IndexInv, NEW d \in Document, NEW phase \in Phase,
         Go(d, phase), UNCHANGED <<backend, entries, refs, faulty, evidence>>,
         \/ /\ d \notin DOMAIN call
            /\ phase = IF backend = "local" THEN "store" ELSE "clear"
         \/ /\ d \in DOMAIN call
            /\ \/ phase = "raised" /\ Nothing(d)
               \/ phase = "store" /\ call[d] = "clear"
               \/ phase = "cut"
            /\ call[d] # "searched"
  PROVE  IndexInv'
<1>1. /\ DOMAIN call' = DOMAIN call \cup {d}
      /\ call'[d] = phase
      /\ \A x \in DOMAIN call : x # d => call'[x] = call[x]
  BY GoMoves DEF IndexInv
<1>2. \A x : Ids(x)' = Ids(x)
  BY IdsStay
<1>3. \A x : References(x)' = References(x) /\ Nothing(x)' = Nothing(x)
  BY DEF References, DocumentId, Nothing
<1>4. IndexTypeOK'
  BY <1>1, <1>2 DEF IndexInv, IndexTypeOK, Go
<1>5. PhaseInv'
  BY <1>1, <1>2, <1>3 DEF IndexInv, PhaseInv, Chunks
<1>6. LocalInv'
  BY <1>1 DEF IndexInv, LocalInv
<1>7. SearchedInv'
  <2> SUFFICES ASSUME NEW x \in Claim, evidence[x] # {} PROVE Running(x, "searched")'
    BY DEF SearchedInv
  <2>1. x \in DOMAIN call /\ call[x] = "searched"
    BY DEF IndexInv, SearchedInv, Running
  <2> QED
    BY <1>1, <2>1 DEF Running
<1>8. CallsAreHonest'
  <2> SUFFICES ASSUME NEW x \in DOMAIN call'
               PROVE  /\ call'[x] \in {"indexed", "searched"} => Whole(x)'
                      /\ call'[x] = "raised" /\ x \notin faulty' => Nothing(x)'
    BY DEF CallsAreHonest
  <2>1. CASE x = d
    BY <1>1, <1>3, <2>1
  <2>2. CASE x # d
    <3>1. x \in DOMAIN call /\ call'[x] = call[x]
      BY <1>1, <2>2
    <3>2. Whole(x) => Whole(x)'
      BY <1>1, <1>3, <3>1, WholeStays DEF IndexInv
    <3> QED
      BY <1>3, <3>1, <3>2 DEF IndexInv, CallsAreHonest
  <2> QED
    BY <2>1, <2>2
<1>9. EvidenceIsOwn'
  BY EvidenceStays DEF IndexInv
<1> QED
  BY <1>4, <1>5, <1>6, <1>7, <1>8, <1>9 DEF IndexInv

\* A claim's search only sets its evidence.
LEMMA StepSearch ==
  ASSUME IndexInv, NEW d \in Claim, Search(d)
  PROVE  IndexInv'
<1>0. d \in Document
  BY EvidenceIndexAssumption DEF EvidenceIndexAssumption
<1>1. /\ DOMAIN call' = DOMAIN call \cup {d}
      /\ call'[d] = "searched"
      /\ \A x \in DOMAIN call : x # d => call'[x] = call[x]
  BY GoMoves DEF IndexInv, Search
<1>2. d \in DOMAIN call /\ call[d] = "indexed"
  BY DEF Search, Running
<1>3. UNCHANGED <<backend, entries, refs, faulty>>
  BY DEF Search
<1>4. \A x : Ids(x)' = Ids(x)
  BY <1>3, IdsStay
<1>5. \A x : References(x)' = References(x) /\ Nothing(x)' = Nothing(x)
  BY <1>3 DEF References, DocumentId, Nothing
<1>6. PICK hits \in SUBSET Hits(d) : evidence' = [evidence EXCEPT ![d] = hits]
  BY DEF Search
<1>7. \A i \in hits : i \in Ids(d) /\ \E e \in entries : e.id = i /\ e.doc = d
  BY <1>6 DEF Hits, Matching, IndexInv, IndexTypeOK
<1>8. IndexTypeOK'
  <2>1. evidence' \in [Claim -> SUBSET UNION {Ids(x) : x \in Claim}]
    BY <1>6, <1>7 DEF IndexInv, IndexTypeOK
  <2>2. call' \in [DOMAIN call' -> Phase]
    BY <1>1, <1>2 DEF IndexInv, IndexTypeOK, Search, Go, Phase
  <2> QED
    BY <1>0, <1>1, <1>3, <1>4, <2>1, <2>2 DEF IndexInv, IndexTypeOK
<1>9. PhaseInv'
  BY <1>1, <1>2, <1>3, <1>4, <1>5 DEF IndexInv, PhaseInv, Chunks
<1>10. LocalInv'
  BY <1>1, <1>2, <1>3 DEF IndexInv, LocalInv
<1>11. SearchedInv'
  <2> SUFFICES ASSUME NEW x \in Claim, evidence'[x] # {} PROVE Running(x, "searched")'
    BY DEF SearchedInv
  <2>1. CASE x = d
    BY <1>1, <2>1 DEF Running
  <2>2. CASE x # d
    <3>1. evidence[x] # {}
      BY <1>6, <2>2 DEF IndexInv, IndexTypeOK
    <3> QED
      BY <1>1, <2>2, <3>1 DEF IndexInv, SearchedInv, Running
  <2> QED
    BY <2>1, <2>2
<1>12. CallsAreHonest'
  <2>1. \A x \in DOMAIN call : Whole(x) => Whole(x)'
    BY <1>1, <1>3, <1>5, WholeStays DEF IndexInv
  <2> QED
    BY <1>1, <1>2, <1>3, <1>5, <2>1 DEF IndexInv, CallsAreHonest
<1>13. EvidenceIsOwn'
  <2> SUFFICES ASSUME NEW x \in Claim
               PROVE  /\ evidence'[x] \subseteq Ids(x)'
                      /\ \A i \in evidence'[x] :
                           \E e \in entries' : e.id = i /\ ChunkKey[e.doc] = ChunkKey[x]
    BY DEF EvidenceIsOwn
  <2>1. CASE x = d
    <3>1. evidence'[x] = hits
      BY <1>6, <2>1 DEF IndexInv, IndexTypeOK
    <3> QED
      BY <1>3, <1>4, <1>7, <2>1, <3>1
  <2>2. CASE x # d
    <3>1. evidence'[x] = evidence[x]
      BY <1>6, <2>2 DEF IndexInv, IndexTypeOK
    <3> QED
      BY <1>3, <1>4, <3>1 DEF IndexInv, EvidenceIsOwn
  <2> QED
    BY <2>1, <2>2
<1> QED
  BY <1>8, <1>9, <1>10, <1>11, <1>12, <1>13 DEF IndexInv

-----------------------------------------------------------------------------
(* Steps that store something *)

\* A step of a call of the hosted store changes what is stored of its document only.
LEMMA StepHosted ==
  ASSUME IndexInv, backend = "agentic_plane", NEW d \in DOMAIN call, NEW phase,
         call[d] \in {"store", "save"}, phase \in {"save", "indexed", "raised"},
         Go(d, phase), UNCHANGED <<backend, evidence>>,
         {e \in entries' : e.doc # d} = {e \in entries : e.doc # d},
         \A e \in entries' : e.doc = d => e \in Chunks(d, Ids(d)),
         refs' \subseteq refs \cup Rows(d), refs \subseteq refs',
         faulty \subseteq faulty', faulty' \subseteq faulty \cup {d},
         phase = "save" => Chunks(d, Ids(d)) \subseteq entries' /\ References(d)' = {},
         phase = "indexed" =>
           Chunks(d, Ids(d)) \subseteq entries' /\ {r.id : r \in References(d)'} = Ids(d),
         phase = "raised" /\ d \notin faulty' => Nothing(d)'
  PROVE  IndexInv'
<1>0. d \in Document
  BY DEF IndexInv, IndexTypeOK
<1>1. /\ DOMAIN call' = DOMAIN call
      /\ call'[d] = phase
      /\ \A x \in DOMAIN call : x # d => call'[x] = call[x]
  <2>1. IndexTypeOK /\ d \in DOMAIN call /\ Go(d, phase)
    BY DEF IndexInv
  <2>2. DOMAIN call' = DOMAIN call \cup {d}
    BY ONLY <2>1, GoMoves
  <2> QED
    BY ONLY <2>1, <2>2, GoMoves
<1>2. \A x : Ids(x)' = Ids(x)
  BY IdsStay
<1>3. \A x \in Document : x # d => References(x)' = References(x)
  BY <1>0 DEF References, DocumentId, Rows
<1>4. \A x \in Document : x # d => Nothing(x)' = Nothing(x)
  BY <1>3 DEF Nothing
<1>5. IndexTypeOK'
  <2>1. \A e \in entries' : e \in [id : Ids(e.doc)', doc : DOMAIN call']
    <3> SUFFICES ASSUME NEW e \in entries' PROVE e \in [id : Ids(e.doc)', doc : DOMAIN call']
      OBVIOUS
    <3>1. CASE e.doc = d
      BY <1>1, <1>2, <3>1 DEF Chunks
    <3>2. CASE e.doc # d
      <4>1. e \in entries
        BY <3>2
      <4> QED
        BY <1>1, <1>2, <4>1 DEF IndexInv, IndexTypeOK
    <3> QED
      BY <3>1, <3>2
  <2>2. refs' \subseteq [document : Document, id : UNION {Ids(x) : x \in Document}]
    BY <1>0 DEF IndexInv, IndexTypeOK, Rows, DocumentId
  <2>3. call' \in [DOMAIN call' -> Phase]
    BY <1>1 DEF IndexInv, IndexTypeOK, Go, Phase
  <2> QED
    BY <1>1, <1>2, <2>1, <2>2, <2>3 DEF IndexInv, IndexTypeOK
<1>6. PhaseInv'
  <2>1. \A x \in Document :
          (x \notin DOMAIN call' \/ call'[x] \in {"clear", "store"}) => Nothing(x)'
    BY <1>1, <1>4 DEF IndexInv, PhaseInv
  <2>2. ASSUME NEW x \in DOMAIN call', call'[x] = "save"
        PROVE  Chunks(x, Ids(x))' \subseteq entries' /\ References(x)' = {}
    <3>1. CASE x = d
      BY <1>1, <1>2, <2>2, <3>1 DEF Chunks
    <3>2. CASE x # d
      <4>1. x \in Document /\ call[x] = "save"
        BY <1>1, <2>2, <3>2 DEF IndexInv, IndexTypeOK
      <4>2. Chunks(x, Ids(x)) \subseteq entries /\ References(x) = {}
        BY <1>1, <2>2, <4>1 DEF IndexInv, PhaseInv
      <4> QED
        BY <1>2, <1>3, <3>2, <4>1, <4>2 DEF Chunks
    <3> QED
      BY <3>1, <3>2
  <2> QED
    BY <2>1, <2>2 DEF PhaseInv, Chunks
<1>7. LocalInv'
  BY DEF LocalInv
<1>8. SearchedInv'
  <2>1. \A x : Running(x, "searched") => Running(x, "searched")'
    BY <1>1 DEF Running
  <2> QED
    BY <2>1 DEF IndexInv, SearchedInv
<1>9. CallsAreHonest'
  <2> SUFFICES ASSUME NEW x \in DOMAIN call'
               PROVE  /\ call'[x] \in {"indexed", "searched"} => Whole(x)'
                      /\ call'[x] = "raised" /\ x \notin faulty' => Nothing(x)'
    BY DEF CallsAreHonest
  <2>1. CASE x = d
    BY <1>1, <1>2, <2>1 DEF Whole, Chunks
  <2>2. CASE x # d
    <3>1. x \in Document /\ x \in DOMAIN call /\ call'[x] = call[x]
      BY <1>1, <2>2 DEF IndexInv, IndexTypeOK
    <3>2. Whole(x) => Whole(x)'
      BY <1>1, <1>3, <2>2, <3>1, WholeStays DEF IndexInv
    <3> QED
      BY <1>4, <2>2, <3>1, <3>2 DEF IndexInv, CallsAreHonest
  <2> QED
    BY <2>1, <2>2
<1>10. EvidenceIsOwn'
  <2>1. ASSUME NEW x \in Claim, evidence[x] # {}, NEW e \in entries, e.id \in evidence[x]
        PROVE  e \in entries'
    <3>1. x \in DOMAIN call /\ call[x] = "searched"
      BY <2>1 DEF IndexInv, SearchedInv, Running
    <3>2. x \in Document /\ e.doc \in Document /\ e.id \in Ids(x) /\ e.id \in Ids(e.doc)
      BY <2>1, EvidenceIndexAssumption
      DEF EvidenceIndexAssumption, IndexInv, IndexTypeOK, EvidenceIsOwn
    <3>3. e.doc = x
      BY <3>2, IdsApart
    <3> QED
      BY <3>1, <3>3
  <2> QED
    BY <2>1, EvidenceStays DEF IndexInv
<1> QED
  BY <1>5, <1>6, <1>7, <1>8, <1>9, <1>10 DEF IndexInv

\* The upsert of the local index takes over the chunks of its file, and no others.
LEMMA StepUpsert ==
  ASSUME IndexInv, NEW d \in DOMAIN call, Upsert(d)
  PROVE  IndexInv'
<1>0. /\ d \in Document /\ backend = "local" /\ call[d] = "store"
      /\ UNCHANGED <<backend, refs, faulty, evidence>>
      /\ entries' = {e \in entries : e.id \notin Ids(d)} \cup Chunks(d, Ids(d))
  BY DEF Upsert, Running, IndexInv, IndexTypeOK
<1>1. /\ DOMAIN call' = DOMAIN call
      /\ call'[d] = "indexed"
      /\ \A x \in DOMAIN call : x # d => call'[x] = call[x]
  <2>1. IndexTypeOK /\ Go(d, "indexed")
    BY DEF IndexInv, Upsert
  <2> QED
    BY ONLY <2>1, GoMoves
<1>2. \A x : Ids(x)' = Ids(x)
  BY <1>0, IdsStay
<1>3. \A x : References(x)' = {} /\ References(x) = {}
  BY <1>0 DEF References, IndexInv, LocalInv
<1>4. \A x \in Document : x # d /\ Nothing(x) => Nothing(x)'
  BY <1>0, <1>3 DEF Nothing, Chunks
<1>5. IndexTypeOK'
  <2>1. \A e \in entries' : e \in [id : Ids(e.doc)', doc : DOMAIN call']
    BY <1>0, <1>1, <1>2 DEF IndexInv, IndexTypeOK, Chunks
  <2>2. call' \in [DOMAIN call' -> Phase]
    BY <1>1 DEF IndexInv, IndexTypeOK, Upsert, Go, Phase
  <2> QED
    BY <1>0, <1>1, <1>2, <2>1, <2>2 DEF IndexInv, IndexTypeOK
<1>6. PhaseInv'
  BY <1>0, <1>1, <1>2, <1>3, <1>4 DEF IndexInv, PhaseInv, LocalInv
<1>7. LocalInv'
  BY <1>0, <1>1 DEF IndexInv, LocalInv
<1>8. SearchedInv'
  <2>1. \A x : Running(x, "searched") => Running(x, "searched")'
    BY <1>0, <1>1 DEF Running
  <2> QED
    BY <1>0, <2>1 DEF IndexInv, SearchedInv
<1>9. \A x \in DOMAIN call : Whole(x) => Whole(x)'
  <2> SUFFICES ASSUME NEW x \in DOMAIN call, Whole(x) PROVE Whole(x)'
    OBVIOUS
  <2>1. PICK o \in DOMAIN call :
          (o = x \/ ChunkKey[o] = ChunkKey[x]) /\ Chunks(o, Ids(o)) \subseteq entries
    BY DEF Whole
  <2>2. o \in Document /\ x \in Document
    BY DEF IndexInv, IndexTypeOK
  <2>3. CASE ChunkKey[o] = ChunkKey[d]
    <3>1. Chunks(d, Ids(d)) \subseteq entries' /\ ChunkKey[d] = ChunkKey[x]
      BY <1>0, <2>1, <2>3
    <3>2. Chunks(d, Ids(d))' \subseteq entries'
      BY <1>2, <3>1 DEF Chunks
    <3> QED
      BY <1>0, <1>1, <3>1, <3>2 DEF Whole
  <2>4. CASE ChunkKey[o] # ChunkKey[d]
    <3>1. \A i \in Ids(o) : i \notin Ids(d)
      BY <1>0, <2>2, <2>4, IdsOfOneFile
    <3>2. Chunks(o, Ids(o)) \subseteq entries'
      BY <1>0, <2>1, <3>1 DEF Chunks
    <3>3. Chunks(o, Ids(o))' \subseteq entries'
      BY <1>2, <3>2 DEF Chunks
    <3> QED
      BY <1>0, <1>1, <2>1, <3>3 DEF Whole
  <2> QED
    BY <2>3, <2>4
<1>10. CallsAreHonest'
  <2>1. Whole(d)'
    <3>1. Chunks(d, Ids(d))' \subseteq entries'
      BY <1>0, <1>2 DEF Chunks
    <3> QED
      BY <1>0, <1>1, <3>1 DEF Whole
  <2> QED
    BY <1>0, <1>1, <1>4, <1>9, <2>1 DEF IndexInv, IndexTypeOK, CallsAreHonest
<1>11. EvidenceIsOwn'
  <2> SUFFICES ASSUME NEW x \in Claim
               PROVE  /\ evidence'[x] \subseteq Ids(x)'
                      /\ \A i \in evidence'[x] :
                           \E e \in entries' : e.id = i /\ ChunkKey[e.doc] = ChunkKey[x]
    BY DEF EvidenceIsOwn
  <2>0. x \in Document /\ evidence[x] \subseteq Ids(x)
    BY EvidenceIndexAssumption DEF EvidenceIndexAssumption, IndexInv, EvidenceIsOwn
  <2>1. ASSUME NEW i \in evidence[x]
        PROVE  \E e \in entries' : e.id = i /\ ChunkKey[e.doc] = ChunkKey[x]
    <3>1. PICK e \in entries : e.id = i /\ ChunkKey[e.doc] = ChunkKey[x]
      BY DEF IndexInv, EvidenceIsOwn
    <3>2. CASE i \in Ids(d)
      <4>1. ChunkKey[d] = ChunkKey[x]
        BY <1>0, <2>0, <3>2, IdsOfOneFile
      <4>2. [id |-> i, doc |-> d] \in entries'
        BY <1>0, <3>2 DEF Chunks
      <4> QED
        BY <4>1, <4>2
    <3>3. CASE i \notin Ids(d)
      BY <1>0, <3>1, <3>3
    <3> QED
      BY <3>2, <3>3
  <2> QED
    BY <1>0, <1>2, <2>0, <2>1
<1> QED
  BY <1>5, <1>6, <1>7, <1>8, <1>10, <1>11 DEF IndexInv

-----------------------------------------------------------------------------
(* All steps *)

LEMMA IndexInitInv == IndexInit => IndexInv
<1> SUFFICES ASSUME IndexInit PROVE IndexInv
  OBVIOUS
<1>1. IndexTypeOK
  BY DEF IndexInit, IndexTypeOK, Phase
<1> QED
  BY <1>1 DEF IndexInit, IndexInv, PhaseInv, LocalInv, SearchedInv, CallsAreHonest,
              EvidenceIsOwn, Nothing, References, Running

\* A new call is of a document of which nothing is stored.
LEMMA StepBegin ==
  ASSUME IndexInv, NEW d \in Document, Begin(d)
  PROVE  IndexInv'
  BY StepAside DEF Begin, Phase

\* The steps of calls under way, and those of claims.
LEMMA IndexNextInv ==
  ASSUME IndexInv, IndexNext
  PROVE  IndexInv'
<1>1. ASSUME NEW d \in Claim, Begin(d) PROVE IndexInv'
  BY <1>1, StepBegin, EvidenceIndexAssumption DEF EvidenceIndexAssumption
<1>2. ASSUME NEW d \in Claim, Search(d) PROVE IndexInv'
  BY <1>2, StepSearch
<1>3. ASSUME NEW d \in DOMAIN call, Refuse(d) PROVE IndexInv'
  <2>1. d \in Document /\ Nothing(d) /\ call[d] # "searched"
    BY <1>3 DEF Refuse, Running, IndexInv, IndexTypeOK, PhaseInv
  <2> QED
    BY <1>3, <2>1, StepAside DEF Refuse, Phase
<1>4. ASSUME NEW d \in DOMAIN call, Clear(d) PROVE IndexInv'
  <2>1. d \in Document /\ call[d] = "clear" /\ References(d) = {}
    BY <1>4 DEF Clear, Running, IndexInv, IndexTypeOK, PhaseInv, Nothing
  <2>2. UNCHANGED <<backend, entries, refs, faulty, evidence>>
    BY <1>4, <2>1 DEF Clear
  <2> QED
    BY <1>4, <2>1, <2>2, StepAside DEF Clear, Phase
<1>5. ASSUME NEW d \in DOMAIN call, Cut(d) PROVE IndexInv'
  <2>1. d \in Document /\ call[d] # "searched"
    BY <1>5 DEF Cut, Running, IndexInv, IndexTypeOK
  <2> QED
    BY <1>5, <2>1, StepAside DEF Cut, Phase
<1>6. ASSUME NEW d \in DOMAIN call, StoreBatch(d) PROVE IndexInv'
  <2>1. call[d] = "store" /\ References(d) = {} /\ References(d)' = {}
    BY <1>6 DEF StoreBatch, Running, IndexInv, IndexTypeOK, PhaseInv, Nothing, References,
                DocumentId
  <2>2. /\ {e \in entries' : e.doc # d} = {e \in entries : e.doc # d}
        /\ \A e \in entries' : e.doc = d => e \in Chunks(d, Ids(d))
        /\ Chunks(d, Ids(d)) \subseteq entries'
    BY <1>6 DEF StoreBatch, Chunks, IndexInv, IndexTypeOK
  <2> QED
    BY <1>6, <2>1, <2>2, StepHosted DEF StoreBatch
<1>7. ASSUME NEW d \in DOMAIN call, StoreBatchLost(d) PROVE IndexInv'
  <2>1. call[d] = "store" /\ Nothing(d)
    BY <1>7 DEF StoreBatchLost, Running, IndexInv, IndexTypeOK, PhaseInv
  <2>2. PICK stored \in SUBSET Ids(d) :
          /\ entries' = entries \cup Chunks(d, stored)
          /\ faulty' = IF stored = {} THEN faulty ELSE faulty \cup {d}
    BY <1>7 DEF StoreBatchLost
  <2>3. /\ {e \in entries' : e.doc # d} = {e \in entries : e.doc # d}
        /\ \A e \in entries' : e.doc = d => e \in Chunks(d, Ids(d))
    BY <2>2 DEF Chunks, IndexInv, IndexTypeOK
  <2>4. d \notin faulty' => Nothing(d)'
    BY <1>7, <2>1, <2>2 DEF StoreBatchLost, Nothing, Chunks, References, DocumentId
  <2> QED
    BY <1>7, <2>1, <2>2, <2>3, <2>4, StepHosted DEF StoreBatchLost
<1>8. ASSUME NEW d \in DOMAIN call, NEW ids \in SUBSET Ids(d), Undo(d, ids),
             backend = "agentic_plane", call[d] \in {"store", "save"},
             UNCHANGED <<backend, refs, evidence>>, References(d) = {},
             \A e \in entries : e.doc = d => e.id \in ids
      PROVE  IndexInv'
  <2>1. PICK failed \in SUBSET ids :
          /\ entries' = (entries \ Chunks(d, ids)) \cup Chunks(d, failed)
          /\ faulty' = IF failed = {} THEN faulty ELSE faulty \cup {d}
          /\ Go(d, "raised")
    BY <1>8 DEF Undo, Left
  <2>2. /\ {e \in entries' : e.doc # d} = {e \in entries : e.doc # d}
        /\ \A e \in entries' : e.doc = d => e \in Chunks(d, Ids(d))
    <3>1. \A e \in entries : e.doc = d => e \in Chunks(d, Ids(d))
      BY DEF IndexInv, IndexTypeOK, Chunks
    <3>2. Chunks(d, failed) \subseteq Chunks(d, Ids(d))
      BY <1>8 DEF Chunks
    <3>3. \A e \in Chunks(d, ids) \cup Chunks(d, failed) : e.doc = d
      BY DEF Chunks
    <3> QED
      BY <2>1, <3>1, <3>2, <3>3
  <2>3. d \notin faulty' => Nothing(d)'
    <3>1. References(d)' = {}
      BY <1>8 DEF References, DocumentId
    <3> SUFFICES ASSUME failed = {}, NEW e \in entries', e.doc = d PROVE FALSE
      BY <2>1, <3>1 DEF Nothing
    <3>2. e \in entries /\ e \notin Chunks(d, ids)
      BY <2>1 DEF Chunks
    <3>3. e \in [id : Ids(e.doc), doc : DOMAIN call]
      BY <3>2 DEF IndexInv, IndexTypeOK
    <3> QED
      BY <1>8, <3>2, <3>3 DEF Chunks
  <2> QED
    BY <1>8, <2>1, <2>2, <2>3, StepHosted
<1>9. ASSUME NEW d \in DOMAIN call, StoreBatchMiscounts(d) PROVE IndexInv'
  <2>1. call[d] = "store" /\ Nothing(d) /\ backend = "agentic_plane"
    BY <1>9 DEF StoreBatchMiscounts, Running, IndexInv, IndexTypeOK, PhaseInv
  <2>2. PICK stored \in SUBSET Ids(d) : Undo(d, stored)
    BY <1>9 DEF StoreBatchMiscounts
  <2> QED
    BY <1>8, <1>9, <2>1, <2>2 DEF StoreBatchMiscounts, Nothing
<1>10. ASSUME NEW d \in DOMAIN call, SaveDocument(d) PROVE IndexInv'
  <2>1. /\ d \in Document /\ call[d] = "save" /\ backend = "agentic_plane"
        /\ Chunks(d, Ids(d)) \subseteq entries /\ References(d) = {}
    BY <1>10 DEF SaveDocument, Running, IndexInv, IndexTypeOK, PhaseInv, LocalInv
  <2>2. {r.id : r \in References(d)'} = Ids(d)
    <3>1. References(d)' = Rows(d)
      BY <1>10, <2>1 DEF SaveDocument, References, DocumentId, Rows
    <3>2. ASSUME NEW i \in Ids(d) PROVE \E r \in Rows(d) : r.id = i
      <4>1. [document |-> DocumentId(d), id |-> i] \in Rows(d)
        BY DEF Rows
      <4> QED
        BY <4>1
    <3>3. \A r \in Rows(d) : r.id \in Ids(d)
      BY DEF Rows
    <3> QED
      BY <3>1, <3>2, <3>3
  <2>3. \A e \in entries : e.doc = d => e \in Chunks(d, Ids(d))
    BY DEF IndexInv, IndexTypeOK, Chunks
  <2> QED
    BY <1>10, <2>1, <2>2, <2>3, StepHosted DEF SaveDocument
<1>11. ASSUME NEW d \in DOMAIN call, SaveFails(d) PROVE IndexInv'
  <2>1. call[d] = "save" /\ References(d) = {} /\ backend = "agentic_plane"
    BY <1>11 DEF SaveFails, Running, IndexInv, IndexTypeOK, PhaseInv, LocalInv
  <2> QED
    BY <1>8, <1>11, <2>1 DEF SaveFails, IndexInv, IndexTypeOK
<1>12. ASSUME NEW d \in DOMAIN call, SaveUnconfirmed(d) PROVE IndexInv'
  <2>1. call[d] = "save" /\ References(d) = {} /\ backend = "agentic_plane"
    BY <1>12 DEF SaveUnconfirmed, Running, IndexInv, IndexTypeOK, PhaseInv, LocalInv
  <2>2. PICK failed \in SUBSET Ids(d) :
          entries' = (entries \ Chunks(d, Ids(d))) \cup Chunks(d, failed)
    BY <1>12 DEF SaveUnconfirmed, Left
  <2>3. /\ {e \in entries' : e.doc # d} = {e \in entries : e.doc # d}
        /\ \A e \in entries' : e.doc = d => e \in Chunks(d, Ids(d))
    <3>1. \A e \in entries : e.doc = d => e \in Chunks(d, Ids(d))
      BY DEF IndexInv, IndexTypeOK, Chunks
    <3>2. Chunks(d, failed) \subseteq Chunks(d, Ids(d))
      BY DEF Chunks
    <3>3. \A e \in Chunks(d, Ids(d)) \cup Chunks(d, failed) : e.doc = d
      BY DEF Chunks
    <3> QED
      BY <2>2, <3>1, <3>2, <3>3
  <2>4. d \in faulty'
    BY <1>12 DEF SaveUnconfirmed
  <2> QED
    BY <1>12, <2>1, <2>3, <2>4, StepHosted DEF SaveUnconfirmed
<1>13. ASSUME NEW d \in DOMAIN call, Upsert(d) PROVE IndexInv'
  BY <1>13, StepUpsert
<1> QED
  BY <1>1, <1>2, <1>3, <1>4, <1>5, <1>6, <1>7, <1>9, <1>10, <1>11, <1>12, <1>13 DEF IndexNext

-----------------------------------------------------------------------------
(* The invariant of the requests *)

\* A lesson is rated, on an answered query, and good enough.
Sound(l) ==
  /\ row[<<l.trace, l.actor>>] # None /\ l.trace \in answered
  /\ l.rating = "BAD" => l.comment \/ l.confidence = "high"

RequestInv ==
  \A c \in Client : request[c] # None =>
    /\ request[c].next # "read" => request[c].trace \in answered
    /\ request[c].next = "index" =>
         row[<<request[c].trace, request[c].actor>>] # None /\ Eligible(request[c])

CallInv == \A l \in DOMAIN call : l \in Lesson => Sound(l)

IInv == TypeOK /\ RequestInv /\ CallInv /\ IndexInv

-----------------------------------------------------------------------------
\* The calls that the index begins of its own are those of claims.
LEMMA CallsOfClaims ==
  ASSUME IndexTypeOK, IndexNext
  PROVE  DOMAIN call' \subseteq DOMAIN call \cup Claim
<1>1. ASSUME NEW d, NEW phase, Go(d, phase) PROVE DOMAIN call' = DOMAIN call \cup {d}
  BY <1>1, GoMoves
<1>2. \A d \in Claim : Begin(d) \/ Search(d) => DOMAIN call' \subseteq DOMAIN call \cup Claim
  <2> TAKE d \in Claim
  <2>1. \A phase : Go(d, phase) => DOMAIN call' = DOMAIN call \cup {d}
    BY <1>1
  <2>2. Begin(d) => \E phase : Go(d, phase)
    BY DEF Begin
  <2>3. Search(d) => \E phase : Go(d, phase)
    BY DEF Search
  <2> QED
    BY <2>1, <2>2, <2>3
<1>3. \A d \in DOMAIN call :
        Refuse(d) \/ Clear(d) \/ StoreBatch(d) \/ StoreBatchLost(d) \/ StoreBatchMiscounts(d)
        \/ SaveDocument(d) \/ SaveFails(d) \/ SaveUnconfirmed(d) \/ Upsert(d) \/ Cut(d)
        => DOMAIN call' = DOMAIN call
  BY <1>1 DEF Refuse, Clear, StoreBatch, StoreBatchLost, StoreBatchMiscounts, SaveDocument,
              SaveFails, SaveUnconfirmed, Upsert, Cut, Undo
<1> QED
  BY <1>2, <1>3 DEF IndexNext

\* The index is not part of a submission before its last step.
LEMMA IndexStays == IndexInv /\ UNCHANGED indexVars => IndexInv'
<1> SUFFICES ASSUME IndexInv, UNCHANGED indexVars PROVE IndexInv'
  OBVIOUS
<1>1. UNCHANGED <<backend, entries, refs, call, faulty, evidence>>
  BY DEF indexVars
<1>2. \A x : Ids(x)' = Ids(x)
  BY <1>1, IdsStay
<1>3. \A x : References(x)' = References(x) /\ Nothing(x)' = Nothing(x)
  BY <1>1 DEF References, DocumentId, Nothing
<1>4. \A x : Whole(x)' = Whole(x)
  BY <1>1, <1>2, <1>3 DEF Whole, Chunks
<1> QED
  BY <1>1, <1>2, <1>3, <1>4
  DEF IndexInv, IndexTypeOK, PhaseInv, LocalInv, SearchedInv, Running, CallsAreHonest,
      EvidenceIsOwn, Chunks

LEMMA InitInv == Init => IInv
<1> SUFFICES ASSUME Init PROVE IInv
  OBVIOUS
<1>1. IndexInv
  BY IndexInitInv DEF Init
<1>2. TypeOK
  BY <1>1, FeedbackAssumption DEF FeedbackAssumption, Init, TypeOK, IndexInv
<1> QED
  BY <1>1, <1>2 DEF Init, IndexInit, IInv, RequestInv, CallInv

\* A request that takes its next step, none but it and no row being changed.
LEMMA RequestMoves ==
  ASSUME IInv, NEW c \in Client, NEW q \in Request \cup {None}, Serve(c, q),
         UNCHANGED <<answered, row, indexVars>>, submits' \in 0 .. MaxSubmits,
         q # None => /\ q.next # "index"
                     /\ q.next # "read" => q.trace \in answered
  PROVE  IInv'
<1>1. request' = [request EXCEPT ![c] = q]
  BY DEF Serve
<1>2. IndexInv'
  BY IndexStays DEF IInv
<1>3. TypeOK'
  BY <1>1, <1>2 DEF IInv, TypeOK, IndexInv
<1>4. RequestInv'
  <2> SUFFICES ASSUME NEW d \in Client, request'[d] # None
               PROVE  /\ request'[d].next # "read" => request'[d].trace \in answered'
                      /\ request'[d].next = "index" =>
                           /\ row'[<<request'[d].trace, request'[d].actor>>] # None
                           /\ Eligible(request'[d])
    BY DEF RequestInv, Eligible
  <2>1. CASE d = c
    BY <1>1, <2>1 DEF IInv, TypeOK
  <2>2. CASE d # c
    BY <1>1, <2>2 DEF IInv, TypeOK, RequestInv
  <2> QED
    BY <2>1, <2>2
<1>5. CallInv'
  BY DEF IInv, CallInv, Sound, indexVars
<1> QED
  BY <1>2, <1>3, <1>4, <1>5 DEF IInv

LEMMA NextInv == IInv /\ [Next]_vars => IInv'
<1> SUFFICES ASSUME IInv, [Next]_vars PROVE IInv'
  OBVIOUS
<1>0. submits \in 0 .. MaxSubmits
  BY DEF IInv, TypeOK
<1>1. ASSUME NEW t \in Trace, Answer(t) PROVE IInv'
  <2>1. IndexInv'
    BY <1>1, IndexStays DEF Answer, IInv
  <2>2. TypeOK'
    BY <1>1, <2>1 DEF Answer, IInv, TypeOK, IndexInv
  <2> QED
    BY <1>1, <2>1, <2>2 DEF Answer, IInv, RequestInv, CallInv, Sound, Eligible, indexVars
<1>2. ASSUME NEW c \in Client, NEW t \in Trace, NEW a \in Actor, NEW rating \in {"GOOD", "BAD"},
             NEW comment \in BOOLEAN, Submit(c, t, a, rating, comment)
      PROVE  IInv'
  <2> DEFINE q == [trace |-> t, actor |-> a, rating |-> rating, comment |-> comment,
                   confidence |-> "none", no |-> submits', next |-> "read"]
  <2>1. submits' \in 1 .. MaxSubmits
    BY <1>2, FeedbackAssumption DEF FeedbackAssumption, Submit, IInv, TypeOK
  <2>2. q \in Request /\ q.next = "read" /\ submits' \in 0 .. MaxSubmits
    BY <2>1, FeedbackAssumption DEF FeedbackAssumption, Request
  <2> HIDE DEF q
  <2>3. Serve(c, q) /\ UNCHANGED <<answered, row, indexVars>>
    BY <1>2 DEF Submit, q
  <2> QED
    BY <2>2, <2>3, RequestMoves
<1>3. ASSUME NEW c \in Client, ReadTrace(c) PROVE IInv'
  <2>1. request[c] \in Request
    BY <1>3 DEF ReadTrace, IInv, TypeOK
  <2>2. [request[c] EXCEPT !.next = AfterRead(request[c])] \in Request
    BY <2>1 DEF Request, AfterRead
  <2>3. AfterRead(request[c]) \in {"analyse", "write"}
    BY DEF AfterRead
  <2> QED
    BY <1>0, <1>3, <2>1, <2>2, <2>3, RequestMoves DEF ReadTrace, Rateable, Request
<1>4. ASSUME NEW c \in Client, Analyse(c) PROVE IInv'
  <2>1. request[c] \in Request /\ request[c].trace \in answered
    BY <1>4 DEF Analyse, IInv, TypeOK, RequestInv
  <2>2. PICK confidence \in {"low", "high"} :
          Serve(c, [request[c] EXCEPT !.confidence = confidence, !.next = "write"])
    BY <1>4 DEF Analyse
  <2> DEFINE q == [request[c] EXCEPT !.confidence = confidence, !.next = "write"]
  <2>3. q \in Request /\ q.next = "write" /\ q.trace = request[c].trace
    BY <2>1 DEF Request
  <2> QED
    BY <1>0, <1>4, <2>1, <2>2, <2>3, RequestMoves DEF Analyse
<1>5. ASSUME NEW c \in Client, Write(c) PROVE IInv'
  <2> DEFINE q == request[c]
             k == <<q.trace, q.actor>>
             new == IF Eligible(q) THEN [q EXCEPT !.next = "index"] ELSE None
  <2>1. q \in Request /\ q.trace \in answered /\ k \in Trace \X Actor
    BY <1>5 DEF Write, IInv, TypeOK, RequestInv, Request
  <2>2. /\ row' = [row EXCEPT ![k] = Upserted(q, row[k])]
        /\ request' = [request EXCEPT ![c] = new]
        /\ UNCHANGED <<answered, submits, indexVars>>
    BY <1>5 DEF Write, Serve
  <2>3. Upserted(q, row[k]) \in Row /\ Upserted(q, row[k]) # None
    <3>1. q.rating \in {"GOOD", "BAD"}
      BY <2>1 DEF Request
    <3>2. Eligible(q) \in BOOLEAN /\ (q.rating = "GOOD" => Eligible(q) = TRUE)
      BY DEF Eligible
    <3>3. Upserted(q, row[k]) \in Row
      BY <3>1, <3>2 DEF Upserted, Row
    <3> QED
      BY <3>3, LessonAssumption DEF LessonAssumption
  <2>4. new \in Request \cup {None}
    BY <2>1 DEF Request
  <2>5. new # None => /\ new.next = "index" /\ new.trace = q.trace /\ new.actor = q.actor
                      /\ Eligible(new)
    BY <2>1 DEF Request, Eligible
  <2> HIDE DEF new
  <2>6. \A x \in Trace \X Actor : row[x] # None => row'[x] # None
    BY <2>2, <2>3 DEF IInv, TypeOK
  <2>7. row'[k] # None
    BY <2>1, <2>2, <2>3 DEF IInv, TypeOK
  <2>8. IndexInv'
    BY <2>2, IndexStays DEF IInv
  <2>9. TypeOK'
    BY <2>1, <2>2, <2>3, <2>4, <2>8 DEF IInv, TypeOK, IndexInv
  <2>10. RequestInv'
    <3> SUFFICES ASSUME NEW d \in Client, request'[d] # None
                 PROVE  /\ request'[d].next # "read" => request'[d].trace \in answered'
                        /\ request'[d].next = "index" =>
                             /\ row'[<<request'[d].trace, request'[d].actor>>] # None
                             /\ Eligible(request'[d])
      BY DEF RequestInv, Eligible
    <3>1. CASE d = c
      <4>1. request'[d] = new
        BY <2>2, <3>1 DEF IInv, TypeOK
      <4> QED
        BY <2>1, <2>2, <2>5, <2>7, <4>1
    <3>2. CASE d # c
      <4>1. request'[d] = request[d] /\ request[d] \in Request
        BY <2>2, <3>2 DEF IInv, TypeOK
      <4>2. <<request[d].trace, request[d].actor>> \in Trace \X Actor
        BY <4>1 DEF Request
      <4> QED
        BY <2>2, <2>6, <4>1, <4>2 DEF IInv, RequestInv
    <3> QED
      BY <3>1, <3>2
  <2>11. CallInv'
    <3> SUFFICES ASSUME NEW l \in DOMAIN call, l \in Lesson PROVE Sound(l)'
      BY <2>2 DEF CallInv, indexVars
    <3>1. <<l.trace, l.actor>> \in Trace \X Actor
      BY DEF Lesson
    <3> QED
      BY <2>2, <2>6, <3>1 DEF IInv, CallInv, Sound
  <2> QED
    BY <2>8, <2>9, <2>10, <2>11 DEF IInv
<1>6. ASSUME NEW c \in Client, Index(c) PROVE IInv'
  <2> DEFINE q == request[c]
             l == LessonOf(q)
  <2>1. /\ q \in Request /\ q.trace \in answered /\ Eligible(q)
        /\ row[<<q.trace, q.actor>>] # None
    BY <1>6 DEF Index, IInv, TypeOK, RequestInv
  <2>2. l \in Lesson /\ l \in Document
    BY <2>1, LessonAssumption DEF LessonAssumption, LessonOf, Request, Lesson
  <2>3. Sound(l)
    BY <2>1 DEF Sound, LessonOf, Eligible, Request
  <2>4. /\ Begin(l) /\ UNCHANGED <<answered, row, submits>>
        /\ request' = [request EXCEPT ![c] = None]
    BY <1>6 DEF Index, Serve
  <2> HIDE DEF l
  <2>5. IndexInv'
    BY <2>2, <2>4, StepBegin DEF IInv
  <2>6. TypeOK'
    BY <2>4, <2>5 DEF IInv, TypeOK, IndexInv
  <2>7. RequestInv'
    BY <2>4 DEF IInv, TypeOK, RequestInv, Eligible
  <2>8. DOMAIN call' = DOMAIN call \cup {l}
    BY <2>4, GoMoves DEF IInv, IndexInv, Begin
  <2>9. CallInv'
    BY <2>3, <2>4, <2>8 DEF IInv, CallInv, Sound
  <2> QED
    BY <2>5, <2>6, <2>7, <2>9 DEF IInv
<1>7. ASSUME NEW c \in Client, Abandon(c) PROVE IInv'
  BY <1>0, <1>7, RequestMoves DEF Abandon
<1>8. ASSUME IndexNext, UNCHANGED feedbackVars PROVE IInv'
  <2>1. IndexInv'
    BY <1>8, IndexNextInv DEF IInv
  <2>2. TypeOK'
    BY <1>8, <2>1 DEF IInv, TypeOK, IndexInv, feedbackVars
  <2>3. CallInv'
    <3>1. DOMAIN call' \subseteq DOMAIN call \cup Claim
      BY <1>8, CallsOfClaims DEF IInv, IndexInv
    <3> QED
      BY <1>8, <3>1, LessonAssumption
      DEF LessonAssumption, IInv, CallInv, Sound, feedbackVars
  <2> QED
    BY <1>8, <2>1, <2>2, <2>3 DEF IInv, RequestInv, Eligible, feedbackVars
<1>9. CASE UNCHANGED vars
  <2>1. IndexInv'
    BY <1>9, IndexStays DEF IInv, vars
  <2>2. TypeOK'
    BY <1>9, <2>1 DEF IInv, TypeOK, IndexInv, vars, feedbackVars
  <2> QED
    BY <1>9, <2>1, <2>2
    DEF IInv, RequestInv, CallInv, Sound, Eligible, vars, feedbackVars, indexVars
<1> QED
  BY <1>1, <1>2, <1>3, <1>4, <1>5, <1>6, <1>7, <1>8, <1>9 DEF Next

LEMMA SpecInv == Spec => []IInv
  BY InitInv, NextInv, PTL DEF Spec

-----------------------------------------------------------------------------
(* Theorems *)

\* Every variable of the feedback service and of the index stays in its type.
THEOREM TypeCorrect == Spec => []TypeOK
<1>1. IInv => TypeOK
  BY DEF IInv
<1> QED
  BY <1>1, SpecInv, PTL

\* What later questions learn from was rated on an answered query, and no critique
\* that the model was unsure of is among it, for any number of overlapping requests.
THEOREM LessonsSound == Spec => []LessonsAreSound
<1>1. IInv => LessonsAreSound
  <2> SUFFICES ASSUME IInv, NEW e \in entries, e.doc \in Lesson PROVE Sound(e.doc)
    BY DEF LessonsAreSound, Lessons, Sound
  <2>1. e.doc \in DOMAIN call
    BY DEF IInv, IndexInv, IndexTypeOK
  <2> QED
    BY <2>1 DEF IInv, CallInv
<1> QED
  BY <1>1, SpecInv, PTL

\* index() tells what became of the document, whatever the other calls do and however
\* many chunks there are.
THEOREM CallsHonest == Spec => []CallsAreHonest
<1>1. IInv => CallsAreHonest
  BY DEF IInv, IndexInv
<1> QED
  BY <1>1, SpecInv, PTL

\* A claim goes on with its own evidence, and it remains in the index, however many
\* claims of the same file there are.
THEOREM EvidenceOwn == Spec => []EvidenceIsOwn
<1>1. IInv => EvidenceIsOwn
  BY DEF IInv, IndexInv
<1> QED
  BY <1>1, SpecInv, PTL
=============================================================================
