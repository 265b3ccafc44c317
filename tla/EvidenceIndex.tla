--------------------------- MODULE EvidenceIndex ---------------------------
(***************************************************************************)
(* The vector index behind its two clients.  AgenticPlaneClient keeps the  *)
(* chunks in a hosted memory store and, in the control database, a bridge  *)
(* row per chunk with the memory id it got: two systems and no transaction *)
(* over them.  LocalIndexClient upserts all chunks of a document in one    *)
(* transaction, under ids computed from what they hold.                    *)
(*                                                                         *)
(* A document is indexed once: the claims of source items carry the token  *)
(* of their claim and lessons a fresh id.  What is stored of a document is *)
(* told apart by its metadata, `doc` of an entry.                          *)
(***************************************************************************)
EXTENDS Naturals, FiniteSets

CONSTANTS
  Document,   \* document ids
  Claim,      \* those of a source item under a claim of its job
  ChunkKey,   \* what the chunk ids of a document are computed from: the native id
              \* of a parsed file, which its payload carries in its metadata, or
              \* else the document id
  Size,       \* number of chunks
  MaxIndexed  \* bound: documents

ASSUME EvidenceIndexAssumption ==
  /\ Claim \subseteq Document
  /\ Size \in [Document -> Nat \ {0}]
  /\ DOMAIN ChunkKey = Document
  /\ MaxIndexed \in Nat
  /\ \A d, e \in Document : ChunkKey[d] = ChunkKey[e] => Size[d] = Size[e]

VARIABLES
  backend,   \* CCE_INDEX_BACKEND, read at the start
  entries,   \* the chunks in the index
  refs,      \* cce_agentic_plane_memory
  call,      \* the documents whose index() was called, and where the call stands
  faulty,    \* history: documents of which a failed store or database left something
  evidence   \* the hits a claim goes on with, its memory ids

indexVars == <<backend, entries, refs, call, faulty, evidence>>

\* The number the server gives to a memory, or the chunk_id of payload_chunks.
Id(d, n) == <<IF backend = "local" THEN ChunkKey[d] ELSE d, n>>
Ids(d)   == {Id(d, n) : n \in 1 .. Size[d]}

\* The chunks of d with these ids, as the metadata of each tells.
Chunks(d, ids) == [id : ids, doc : {d}]

Phase == {"clear", "store", "save", "indexed", "searched", "raised", "cut"}

IndexTypeOK ==
  /\ backend \in {"local", "agentic_plane"}
  /\ DOMAIN call \subseteq Document
  /\ call \in [DOMAIN call -> Phase]
  /\ \A e \in entries : e \in [id : Ids(e.doc), doc : DOMAIN call]
  /\ refs \subseteq [document : Document, id : UNION {Ids(d) : d \in Document}]
  /\ faulty \subseteq DOMAIN call
  /\ evidence \in [Claim -> SUBSET UNION {Ids(d) : d \in Claim}]

IndexInit ==
  /\ backend \in {"local", "agentic_plane"}
  /\ entries = {} /\ refs = {}
  /\ call = [d \in {} |-> "clear"]
  /\ faulty = {}
  /\ evidence = [d \in Claim |-> {}]

Running(d, phase) == d \in DOMAIN call /\ call[d] = phase
Go(d, phase) == call' = [x \in DOMAIN call \cup {d} |-> IF x = d THEN phase ELSE call[x]]

-----------------------------------------------------------------------------
\* index() is called.
Begin(d) ==
  /\ d \notin DOMAIN call /\ Cardinality(DOMAIN call) < MaxIndexed
  /\ Go(d, IF backend = "local" THEN "store" ELSE "clear")
  /\ UNCHANGED <<backend, entries, refs, faulty, evidence>>

\* Before anything is stored: the embedding, the bridge or a delete raises.
Refuse(d) ==
  /\ Running(d, "clear") \/ (backend = "local" /\ Running(d, "store"))
  /\ Go(d, "raised")
  /\ UNCHANGED <<backend, entries, refs, faulty, evidence>>

\* DocumentId, had it been the name of the file (a faulty variant).
DocumentIdOfFile(d) == ChunkKey[d]

\* payload["document_id"]
DocumentId(d) == d

References(d) == {r \in refs : r.document = DocumentId(d)}

\* delete(): what an earlier index() of the document stored goes first.
Clear(d) ==
  /\ Running(d, "clear")
  /\ entries' = {e \in entries : e.id \notin {r.id : r \in References(d)}}
  /\ refs' = refs \ References(d)
  /\ Go(d, "store")
  /\ UNCHANGED <<backend, faulty, evidence>>

StoreBatch(d) ==
  /\ backend = "agentic_plane" /\ Running(d, "store")
  /\ entries' = entries \cup Chunks(d, Ids(d))
  /\ Go(d, "save")
  /\ UNCHANGED <<backend, refs, faulty, evidence>>

\* store_batch raises although the server may have stored some: their ids are lost.
StoreBatchLost(d) ==
  /\ backend = "agentic_plane" /\ Running(d, "store")
  /\ \E stored \in SUBSET Ids(d) :
       /\ entries' = entries \cup Chunks(d, stored)
       /\ faulty' = IF stored = {} THEN faulty ELSE faulty \cup {d}
  /\ Go(d, "raised")
  /\ UNCHANGED <<backend, refs, evidence>>

\* Left, without a clean-up (a faulty variant).
LeftAll(ids, failed) == ids

\* _delete_new_memories: what it leaves of these, some of its deletes failing.
Left(ids, failed) == failed

\* The new memories are deleted again, and the exception goes on.
Undo(d, ids) ==
  \E failed \in SUBSET ids :
    /\ entries' = (entries \ Chunks(d, ids)) \cup Chunks(d, Left(ids, failed))
    /\ faulty' = IF failed = {} THEN faulty ELSE faulty \cup {d}
    /\ Go(d, "raised")

\* store_batch returns fewer ids than it was given chunks.
StoreBatchMiscounts(d) ==
  /\ backend = "agentic_plane" /\ Running(d, "store")
  /\ \E stored \in SUBSET Ids(d) : stored # Ids(d) /\ Undo(d, stored)
  /\ UNCHANGED <<backend, refs, evidence>>

\* The bridge rows of a document.
Rows(d) == [document : {DocumentId(d)}, id : Ids(d)]

\* The rows are one transaction.  Extracting a graph from the chunks comes
\* after it and fails without effect.
SaveDocument(d) ==
  /\ Running(d, "save")
  /\ refs' = refs \cup Rows(d)
  /\ Go(d, "indexed")
  /\ UNCHANGED <<backend, entries, faulty, evidence>>

SaveFails(d) ==
  /\ Running(d, "save")
  /\ Undo(d, Ids(d))
  /\ UNCHANGED <<backend, refs, evidence>>

\* The commit of the rows took effect although it raised: the rows outlive the chunks,
\* and nothing but an index() of the same document deletes them.
SaveUnconfirmed(d) ==
  /\ Running(d, "save")
  /\ refs' = refs \cup Rows(d)
  /\ \E failed \in SUBSET Ids(d) :
       entries' = (entries \ Chunks(d, Ids(d))) \cup Chunks(d, Left(Ids(d), failed))
  /\ faulty' = faulty \cup {d}
  /\ Go(d, "raised")
  /\ UNCHANGED <<backend, evidence>>

\* LocalIndexClient.index: a chunk that is there under its id gets this metadata.
Upsert(d) ==
  /\ backend = "local" /\ Running(d, "store")
  /\ entries' = {e \in entries : e.id \notin Ids(d)} \cup Chunks(d, Ids(d))
  /\ Go(d, "indexed")
  /\ UNCHANGED <<backend, refs, faulty, evidence>>

\* The process dies in the call.
Cut(d) ==
  /\ \E phase \in {"clear", "store", "save"} : Running(d, phase)
  /\ Go(d, "cut")
  /\ UNCHANGED <<backend, entries, refs, faulty, evidence>>

\* Matching, had a claim looked for its file (a faulty variant).
MatchingFile(d) == {e \in entries : ChunkKey[e.doc] = ChunkKey[d]}

\* search: the entries whose metadata has all that the filter asks for.
Matching(d) == {e \in entries : e.doc = d}

\* The hits for the question of d, by their memory id.
Hits(d) == {e.id : e \in Matching(d)}

\* The claim searches what it has just indexed; some hits may be too far down or
\* below the threshold, and without a hit the item fails.
Search(d) ==
  /\ d \in Claim /\ Running(d, "indexed")
  /\ \E hits \in SUBSET Hits(d) :
       evidence' = [evidence EXCEPT ![d] = hits]
  /\ Go(d, "searched")
  /\ UNCHANGED <<backend, entries, refs, faulty>>

IndexNext ==
  \/ \E d \in Claim : Begin(d) \/ Search(d)
  \/ \E d \in DOMAIN call :
       \/ Refuse(d) \/ Clear(d)
       \/ StoreBatch(d) \/ StoreBatchLost(d) \/ StoreBatchMiscounts(d)
       \/ SaveDocument(d) \/ SaveFails(d) \/ SaveUnconfirmed(d)
       \/ Upsert(d) \/ Cut(d)

-----------------------------------------------------------------------------
(* Properties *)

\* All chunks of d are in the index, with their bridge rows.  The local index may
\* hold them as those of another claim of the same file, but then it does so of all.
Whole(d) ==
  /\ \E o \in DOMAIN call :
       /\ o = d \/ (backend = "local" /\ ChunkKey[o] = ChunkKey[d])
       /\ Chunks(o, Ids(o)) \subseteq entries
  /\ backend = "agentic_plane" => {r.id : r \in References(d)} = Ids(d)

\* No trace of d is left.
Nothing(d) == (\A e \in entries : e.doc # d) /\ References(d) = {}

\* index() tells what became of the document: when it returned the document is
\* there as a whole, and stays, and when it raised nothing is, however many of its
\* calls failed, unless the hosted store or the database itself failed to say or to
\* undo what it had done.
CallsAreHonest ==
  \A d \in DOMAIN call :
    /\ call[d] \in {"indexed", "searched"} => Whole(d)
    /\ call[d] = "raised" /\ d \notin faulty => Nothing(d)

\* What a claim goes on with is evidence that it indexed itself, never what an
\* expired claim of the same file left; and no later call takes it from the index,
\* where its text remains under the same id.
EvidenceIsOwn ==
  \A d \in Claim :
    /\ evidence[d] \subseteq Ids(d)
    /\ \A i \in evidence[d] : \E e \in entries : e.id = i /\ ChunkKey[e.doc] = ChunkKey[d]
=============================================================================
