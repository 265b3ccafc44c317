--------------------------- MODULE ChangePipeline ---------------------------
(***************************************************************************)
(* The synchronous change pipeline: run_pipeline asks a ConnectorAgent     *)
(* what changed in a source and carries every change event through the     *)
(* ingestion graph (fetch, persist, parse, normalize, classify, redact,    *)
(* emit, checkpoint) into the SDK's memory.                                *)
(*                                                                         *)
(* The agent's cursors, its set of handled keys and the schema cards are   *)
(* process memory and die with it; the checkpoint files, the metadata      *)
(* snapshots and the SDK's documents do not.  Sources change at any time,  *)
(* also between the listing of a change and the fetch of its content.      *)
(*                                                                         *)
(* A content is the revision of every object, 0 for an absent one.  past   *)
(* holds every content a source ever had: a lister's cursor is a position  *)
(* in it, and 0 stands for None.                                           *)
(***************************************************************************)
EXTENDS Naturals, FiniteSets, SequencesExt

CONSTANTS
  None,          \* nothing: no document, no file, no content
  Sources, Objects, MaxRev,
  Structured,    \* the sources observed by their schema card
  Incremental,   \* the adapters with the incremental_sync capability
  AdapterOf,     \* the adapter of every source
  FileOf,        \* the checkpoint file of <<source, object>>, names sanitized
  Blank,         \* the revisions with no content
  Sensitive,     \* the revisions in which a DLP pattern occurs
  MaxEdits, MaxCalls, MaxFaults   \* bounds of a run of the model

ASSUME PipelineAssumption ==
  /\ Structured \subseteq Sources
  /\ AdapterOf \in [Sources -> STRING]
  /\ Blank \subseteq 1..MaxRev /\ Sensitive \subseteq 1..MaxRev
  /\ IsFiniteSet(Objects) /\ MaxRev \in Nat /\ None \notin [Objects -> 0..MaxRev]
  /\ MaxEdits \in Nat /\ MaxCalls \in Nat /\ MaxFaults \in Nat

VARIABLES
  past,      \* external: the contents each source had, the last is live
  cursor,    \* CheckpointStore: source -> cursor
  seen,      \* InMemoryDedupStore: the keys handed off
  cards,     \* structured_metadata_store: source -> card versions
  endpoint,  \* whether CCE_SDK_ENDPOINT is configured, the same in every process
  given,     \* external: the last checkpoint run_pipeline returned for the source
  reply,     \* the last ConnectorResponse; refused: blocked, failed or an exception
  task,      \* run_pipeline: the source it works on, the events left, and the
             \* checkpoint its caller had before
  pc, run,   \* run_ingestion: the next node, and the IngestionState
  sdk,       \* external: the documents the SDK holds
  disk,      \* IngestionCheckpointStore: file -> outcome
  snap,      \* the latest metadata snapshot of a source
  handed,    \* history: the events handed off, by this process or one before it
  offered,   \* history: the keys handed off since the process started
  delivered, \* history: the events whose whole document the SDK accepted
  edits, calls, faults

memory  == <<cursor, seen, cards, endpoint>>
history == <<handed, offered, delivered>>
vars == <<past, memory, given, reply, task, pc, run, sdk, disk, snap, history,
          edits, calls, faults>>

Contents == [Objects -> 0..MaxRev]
Empty == [o \in Objects |-> 0]
Live(s) == Last(past[s])
Present(c) == {o \in Objects : c[o] > 0}

Events == [obj : Objects, ver : Nat, type : {"created", "updated", "deleted"}]
EventId(s, e) == <<s, e.obj, e.ver, e.type>>
NoRun == [ev |-> None]

TypeOK ==
  /\ past \in [Sources -> Seq(Contents)] /\ cards \in [Sources -> Seq(Contents)]
  /\ \A s \in Sources : Len(past[s]) \in 1..edits + 1
  /\ \A s \in Sources :
       cursor[s] \in 0..(IF s \in Structured THEN Len(cards[s]) ELSE Len(past[s]))
  /\ endpoint \in BOOLEAN
  /\ reply \in {"none", "connected", "observing", "refused"}
  /\ task \in [src : Sources, left : Seq(Events), before : Nat]
  /\ pc \in {"idle", "fetch", "persist", "parse", "normalize", "classify",
             "redact", "emit", "checkpoint"}
  /\ pc = "idle" \/ (task.left # <<>> /\ run.ev = Head(task.left))
  /\ \A f \in DOMAIN disk : disk[f] = None \/ disk[f].status \in {"success", "partial"}
  /\ edits \in 0..MaxEdits /\ calls \in 0..MaxCalls /\ faults \in 0..MaxFaults

Init ==
  /\ past = [s \in Sources |-> <<Empty>>]
  /\ cursor = [s \in Sources |-> 0] /\ seen = {}
  /\ cards = [s \in Sources |-> <<>>] /\ endpoint \in BOOLEAN
  /\ given = [s \in Sources |-> 0] /\ reply = "none"
  /\ task \in [src : Sources, left : {<<>>}, before : {0}]
  /\ pc = "idle" /\ run = NoRun
  /\ sdk = [s \in Sources |-> [o \in Objects |-> None]]
  /\ disk = [f \in {FileOf[p] : p \in Sources \X Objects} |-> None]
  /\ snap = [s \in Sources |-> None]
  /\ handed = {} /\ offered = {} /\ delivered = {}
  /\ edits = 0 /\ calls = 0 /\ faults = 0

\* Somebody writes or removes an object of the source.
Edit(s, o, r) ==
  /\ edits < MaxEdits /\ r # Live(s)[o]
  /\ past' = [past EXCEPT ![s] = Append(@, [Live(s) EXCEPT ![o] = r])]
  /\ edits' = edits + 1
  /\ UNCHANGED <<memory, given, reply, task, pc, run, sdk, disk, snap, history,
                 calls, faults>>

Fault == faults < MaxFaults /\ faults' = faults + 1

-----------------------------------------------------------------------------
(* ConnectorAgent.handle *)

\* A request is taken when run_pipeline has no event of the last one left; what its
\* runs returned went to the caller.
Request(s) ==
  /\ pc = "idle" /\ task.left = <<>> /\ calls < MaxCalls
  /\ calls' = calls + 1 /\ run' = NoRun
  /\ UNCHANGED <<past, pc, sdk, disk, snap, delivered, edits>>

\* The registry, the capabilities, the credential or the connection refuse, or the
\* connector raises what is not caught.
Refuse(s) ==
  /\ Request(s)
  /\ reply' = "refused"
  /\ UNCHANGED <<memory, given, task, handed, offered, faults>>

\* A request without an observation only proves the connection.
Connect(s) ==
  /\ Request(s)
  /\ reply' = "connected"
  /\ UNCHANGED <<memory, given, task, handed, offered, faults>>

\* resume without a stored checkpoint; a malformed listing; a lister that
\* raises, which nothing catches.  The cursor stays where it was.
ObservationFails(s) ==
  /\ Request(s)
  /\ reply' = "refused"
  /\ Fault \/ (cursor[s] = 0 /\ UNCHANGED faults)
  /\ UNCHANGED <<memory, given, task, handed, offered>>

\* The cursor an observation starts from: the caller's for start, else stored.
CheckpointIn(s) == {cursor[s], given[s], 0}

\* What the source looked like to the observer the last time.
Baseline(s, ck) ==
  IF s \in Structured
  THEN IF cards[s] = <<>> THEN Empty ELSE Last(cards[s])
  ELSE IF AdapterOf[s] \in Incremental /\ ck # 0 THEN past[s][ck] ELSE Empty

\* CheckpointOut, had next_version been computed twice over (a faulty variant).
CheckpointOutTwice(s) == IF s \in Structured THEN Len(cards[s]) + 2 ELSE Len(past[s])

CheckpointOut(s) == IF s \in Structured THEN Len(cards[s]) + 1 ELSE Len(past[s])

\* A document carries its revision, a schema entity its card's version.
Version(s, old, o) ==
  IF s \in Structured THEN CheckpointOut(s)
  ELSE IF Live(s)[o] > 0 THEN Live(s)[o] ELSE old[o]

\* The objects an observer reports with this type of change since old.
ChangedObjects(s, old, type) ==
  LET new == Live(s)
  IN CASE type = "created" -> Present(new) \ Present(old)
       [] type = "updated" -> {o \in Present(new) \cap Present(old) : new[o] # old[o]}
       [] type = "deleted" -> Present(old) \ Present(new)

Observed(s, old, type) ==
  {[obj |-> o, ver |-> Version(s, old, o), type |-> type] : o \in ChangedObjects(s, old, type)}

\* Key, without the version of the object (a faulty variant).
KeyOfObject(s, e) == <<AdapterOf[s], e.obj, e.type>>

\* The idempotency key, of one tenant.
Key(s, e) == <<AdapterOf[s], e.obj, e.ver, e.type>>

\* Marked, had the mark been set after the loop (a faulty variant).
MarkedLast(s, events) == IF events = <<>> THEN {} ELSE {Key(s, Last(events))}

\* What mark_handled adds for the events handed off.
Marked(s, events) == {Key(s, e) : e \in ToSet(events)}

\* What is new to the deduplication: what was added, then what changed, then what is gone.
HandedOff(s, old) ==
  LET fresh(type) == SetToSeq({e \in Observed(s, old, type) : Key(s, e) \notin seen})
  IN  fresh("created") \o fresh("updated") \o fresh("deleted")

\* Deduplicate, hand off, and only then advance the stored checkpoint.
Observe(s) ==
  /\ Request(s)
  /\ reply' = "observing"
  /\ \E ck \in CheckpointIn(s) :
       LET events == HandedOff(s, Baseline(s, ck))
       IN /\ task' = [src |-> s, left |-> events, before |-> given[s]]
          /\ seen' = seen \cup Marked(s, events)
          /\ offered' = offered \cup {Key(s, e) : e \in ToSet(events)}
          /\ handed' = handed \cup {EventId(s, e) : e \in ToSet(events)}
  /\ cards' = IF s \in Structured THEN [cards EXCEPT ![s] = Append(@, Live(s))]
              ELSE cards
  /\ cursor' = [cursor EXCEPT ![s] = CheckpointOut(s)]
  /\ given' = [given EXCEPT ![s] = CheckpointOut(s)]
  /\ UNCHANGED <<endpoint, faults>>

-----------------------------------------------------------------------------
(* run_ingestion: one event through the graph *)

Src == task.src
Event == run.ev
Lane == IF Src \in Structured THEN "structured" ELSE "unstructured"

\* A node moves the state on; what it does not set stays.
Node(at, next) ==
  /\ pc = at /\ pc' = next
  /\ UNCHANGED <<past, memory, given, reply, handed, offered, edits, calls>>

\* A node that raised leaves its mark and the graph goes on.
WithError(r) == [r EXCEPT !.errors = TRUE]
WithWarning(r) == [r EXCEPT !.warned = TRUE]

\* The state run_ingestion starts an event with.
Begun(e) ==
  [ev |-> e, raw |-> None, parsed |-> "none", normal |-> "none",
   verdict |-> "none", redacted |-> "none", errors |-> FALSE, warned |-> FALSE,
   ready |-> FALSE, snapshot |-> FALSE]

\* The next event is taken; a deletion has nothing to fetch.
RouteBySource ==
  /\ task.left # <<>>
  /\ run' = Begun(Head(task.left))
  /\ Node("idle", IF run'.ev.type = "deleted" THEN "emit" ELSE "fetch")
  /\ UNCHANGED <<task, sdk, disk, snap, delivered, faults>>

\* What a fetch for the event reads now: one object, or the whole schema.
Fetched ==
  IF Lane = "structured" THEN Live(Src)
  ELSE [o \in Objects |-> IF o = Event.obj THEN Live(Src)[o] ELSE 0]

\* There is something to parse: the fetch answered, and not with no bytes.
HasContent ==
  run.raw # None /\ (Lane = "structured" \/ run.raw[Event.obj] \notin Blank)

Fetch ==
  /\ Node("fetch", IF Lane = "structured" THEN "persist" ELSE "parse")
  /\ \/ /\ Lane = "structured" \/ Live(Src)[Event.obj] > 0
        /\ run' = [run EXCEPT !.raw = Fetched]
        /\ UNCHANGED faults
     \/ /\ Lane = "unstructured" /\ Live(Src)[Event.obj] = 0
        /\ run' = WithError(run)
        /\ UNCHANGED faults
     \/ Fault /\ run' = WithError(run)
  /\ UNCHANGED <<task, sdk, disk, snap, delivered>>

\* The snapshot of the card with the rows of these tables.
Snapshot(tables) == [card |-> run.raw, saved |-> tables]

\* The card becomes a new snapshot: its row first, marked SUCCESS, then the rows
\* of its tables, every one in a transaction of its own.
PersistMetadata ==
  /\ Node("persist", "normalize")
  /\ \/ run.raw = None /\ UNCHANGED <<run, snap, faults>>
     \/ /\ run.raw # None
        /\ snap' = [snap EXCEPT ![Src] = Snapshot(Present(run.raw))]
        /\ run' = [run EXCEPT !.snapshot = TRUE]
        /\ UNCHANGED faults
     \/ /\ run.raw # None /\ Fault
        /\ run' = WithWarning(run)
        /\ \/ UNCHANGED snap
           \/ \E done \in SUBSET Present(run.raw) :
                snap' = [snap EXCEPT ![Src] = Snapshot(done)]
  /\ UNCHANGED <<task, sdk, disk, delivered>>

\* A parser that stops half-way keeps the document and records an error.
Parse ==
  /\ Node("parse", "normalize")
  /\ \/ ~HasContent /\ UNCHANGED <<run, faults>>
     \/ HasContent /\ run' = [run EXCEPT !.parsed = "full"] /\ UNCHANGED faults
     \/ /\ HasContent /\ Fault
        /\ run' \in {WithError(run), WithError([run EXCEPT !.parsed = "part"]),
                     WithWarning([run EXCEPT !.parsed = "full"])}
  /\ UNCHANGED <<task, sdk, disk, snap, delivered>>

\* A parsed document is passed through; a schema card is converted.
Payload ==
  IF Lane = "unstructured" THEN run.parsed ELSE IF run.raw = None THEN "none" ELSE "full"

Normalize ==
  /\ Node("normalize", "classify")
  /\ \/ run' = [run EXCEPT !.normal = Payload] /\ UNCHANGED faults
     \/ Lane = "structured" /\ run.raw # None /\ Fault /\ run' = WithError(run)
  /\ UNCHANGED <<task, sdk, disk, snap, delivered>>

\* A classification that fails never blocks: INTERNAL, and no block verdict.
Classify ==
  /\ Node("classify", "redact")
  /\ \/ run.normal = "none" /\ UNCHANGED <<run, faults>>
     \/ /\ run.normal # "none"
        /\ run' = [run EXCEPT !.verdict = "blocks"]
        /\ UNCHANGED faults
     \/ /\ run.normal # "none" /\ Fault
        /\ run' = WithWarning([run EXCEPT !.verdict = "default"])
  /\ UNCHANGED <<task, sdk, disk, snap, delivered>>

\* Only the blocks with a verdict are redacted; a failure keeps the document.
Redaction == IF run.normal = "none" THEN "none"
             ELSE IF run.verdict = "blocks" THEN "clean" ELSE "raw"

Redact ==
  /\ Node("redact", "emit")
  /\ \/ run' = [run EXCEPT !.redacted = Redaction] /\ UNCHANGED faults
     \/ /\ run.normal # "none" /\ Fault
        /\ run' = WithWarning([run EXCEPT !.redacted = "raw"])
  /\ UNCHANGED <<task, sdk, disk, snap, delivered>>

\* A tombstone has no blocks, and neither has a document that was not read.
Document ==
  [ver |-> Event.ver, type |-> Event.type, blocks |-> run.normal,
   leaks |-> run.redacted = "raw" /\ \E o \in Objects : run.raw[o] \in Sensitive]

\* Nothing of the event's content is missing in the document.
Whole(r) == \/ r.ev.type = "deleted"
            \/ r.normal = "full"
            \/ Lane = "unstructured" /\ r.raw # None /\ r.raw[r.ev.obj] \in Blank

Accept ==
  /\ sdk' = [sdk EXCEPT ![Src][Event.obj] = Document]
  /\ delivered' = IF Whole(run) THEN delivered \cup {EventId(Src, Event)} ELSE delivered

\* The SDK accepts, or refuses, or accepts and the answer is lost; with no endpoint the
\* emit is a dry run, which counts as ready.
Emit ==
  /\ Node("emit", "checkpoint")
  /\ \/ /\ IF endpoint THEN Accept ELSE UNCHANGED <<sdk, delivered>>
        /\ run' = [run EXCEPT !.ready = TRUE]
        /\ UNCHANGED faults
     \/ /\ endpoint /\ Fault /\ run' = WithError(run)
        /\ Accept \/ UNCHANGED <<sdk, delivered>>
  /\ UNCHANGED <<task, disk, snap>>

\* Status, had only the answer of the SDK counted (a faulty variant).
StatusIfReady(r) == IF r.ready THEN "success" ELSE "partial"

\* Warnings do not count: success is "no node recorded an error".
Status(r) == IF r.errors THEN "partial" ELSE "success"

Outcome ==
  [src |-> Src, obj |-> Event.obj, ver |-> Event.ver, type |-> Event.type,
   status |-> Status(run), warned |-> run.warned, ready |-> run.ready]

\* The file of the object, shared with objects of the same name once sanitized.
File == FileOf[<<Src, Event.obj>>]

\* The outcome file is written, or its write fails half-way.
Checkpoint ==
  /\ Node("checkpoint", "idle")
  /\ \/ /\ disk' = [disk EXCEPT ![File] = Outcome]
        /\ UNCHANGED <<run, faults>>
     \/ /\ Fault /\ run' = WithWarning(run)
        /\ disk' \in {disk, [disk EXCEPT ![File] = None]}
  /\ task' = [task EXCEPT !.left = Tail(@)]
  /\ UNCHANGED <<sdk, snap, delivered>>

-----------------------------------------------------------------------------
\* The process dies, and its stores start empty.  A caller that was still waiting
\* for run_pipeline never gets its checkpoint.
Crash ==
  /\ Fault
  /\ given' = IF task.left = <<>> THEN given ELSE [given EXCEPT ![Src] = task.before]
  /\ cursor' = [s \in Sources |-> 0] /\ seen' = {}
  /\ cards' = [s \in Sources |-> <<>>]
  /\ task' = [task EXCEPT !.left = <<>>]
  /\ pc' = "idle" /\ run' = NoRun /\ reply' = "none" /\ offered' = {}
  /\ UNCHANGED <<past, endpoint, sdk, disk, snap, handed, delivered, edits, calls>>

Next ==
  \/ \E s \in Sources, o \in Objects, r \in 0..MaxRev : Edit(s, o, r)
  \/ \E s \in Sources : Refuse(s) \/ Connect(s) \/ ObservationFails(s) \/ Observe(s)
  \/ RouteBySource \/ Fetch \/ PersistMetadata \/ Parse \/ Normalize
  \/ Classify \/ Redact \/ Emit \/ Checkpoint
  \/ Crash

Spec == Init /\ [][Next]_vars

-----------------------------------------------------------------------------
\* The <<object, version>> with which a sequence of cards records something new.
Recorded(versions) ==
  {p \in Objects \X DOMAIN versions :
     LET card(v) == IF v = 0 THEN Empty ELSE versions[v]
     IN card(p[2])[p[1]] \notin {0, card(p[2] - 1)[p[1]]}}

\* What no observer of s reports again, <<object, version>>: the revisions that stand in
\* the content its stored cursor names, or all that its schema cards have recorded.
Passed(s) ==
  IF s \in Structured THEN Recorded(cards[s])
  ELSE LET known == Baseline(s, cursor[s])
       IN {<<o, known[o]>> : o \in Present(known)}

\* Somebody was given the object in this version, by a source of the adapter of s.
HandedFor(s, o, v) ==
  \E t \in Sources, type \in {"created", "updated"} :
    AdapterOf[t] = AdapterOf[s] /\ <<t, o, v, type>> \in handed

\* The order of agent.py:184, deduplicate, hand off, and only then advance: whatever
\* modes and old checkpoints callers use and whenever the process dies, a cursor or a
\* card passes no version of an object that was never handed off for its adapter.  It
\* may pass one that was not handed off for its source, or not since the object returned
\* to that version: the deduplication takes both for handled, as their key is the same.
CursorFollowsHandoffs ==
  \A s \in Sources : \A p \in Passed(s) : HandedFor(s, p[1], p[2])

\* A change event with the same idempotency key is not handed off twice by
\* one process, whatever checkpoint the caller starts from.
NeverHandedTwice ==
  [][task'.left # task.left /\ calls' # calls =>
       \A e \in ToSet(task'.left) : Key(task'.src, e) \notin offered]_vars

\* What a run reports is so, however many nodes failed before its emit:
\*  - unless all emits are dry runs, a file says success only of an event whose whole
\*    document the SDK has accepted, also when another object writes the same file;
\*  - sensitive text left unredacted is never without a warning;
\*  - a run names a metadata snapshot only if every table of it is stored.
SuccessIsDelivered ==
  \A f \in DOMAIN disk :
    endpoint /\ disk[f] # None /\ disk[f].status = "success" =>
      <<disk[f].src, disk[f].obj, disk[f].ver, disk[f].type>> \in delivered

LeaksAreWarnedOf ==
  pc = "checkpoint" /\ Document.leaks => run.warned

SnapshotsAreWhole ==
  pc # "idle" /\ run.snapshot =>
    snap[Src] = [card |-> run.raw, saved |-> Present(run.raw)]

OutcomesAreHonest == SuccessIsDelivered /\ LeaksAreWarnedOf /\ SnapshotsAreWhole
=============================================================================
