------------------------ MODULE ChangePipelineProofs ------------------------
(***************************************************************************)
(* Proofs about ChangePipeline, for any sources, objects and revisions and *)
(* any number of changes, requests and faults.                             *)
(*                                                                         *)
(* Three arguments, which only share the types: what the deduplication has *)
(* seen (SeenInv); what was handed off of the contents that a cursor of    *)
(* the agent or of a caller names (HandedInv); and what each node of the   *)
(* graph leaves behind when none before it failed (RunInv).                *)
(***************************************************************************)
EXTENDS ChangePipeline, FiniteSetTheorems, TLAPS

ChangeType == {"created", "updated", "deleted"}

Run == [ev : Events, raw : Contents \cup {None}, parsed : {"none", "part", "full"},
        normal : {"none", "part", "full"}, verdict : {"none", "blocks", "default"},
        redacted : {"none", "clean", "raw"}, errors : BOOLEAN, warned : BOOLEAN,
        ready : BOOLEAN, snapshot : BOOLEAN]

Typed ==
  /\ TypeOK
  /\ cursor \in [Sources -> Nat] /\ given \in [Sources -> Nat] /\ DOMAIN snap = Sources
  /\ \A s \in Sources \ Structured :
       /\ given[s] <= Len(past[s])
       /\ task.src = s => task.before <= Len(past[s])
  /\ pc # "idle" => run \in Run


-----------------------------------------------------------------------------
(* The events handed off *)

LEMMA SetToSeqElements ==
  ASSUME NEW S, IsFiniteSet(S)
  PROVE  SetToSeq(S) \in Seq(S) /\ ToSet(SetToSeq(S)) = S
<1> DEFINE n == Cardinality(S)
<1>1. n \in Nat /\ ExistsBijection(1 .. n, S)
  BY FS_CardinalityType
<1>2. IsFiniteSet(1 .. n) /\ Cardinality(1 .. n) = n
  BY <1>1, FS_Interval
<1>3. \E f \in [1 .. n -> S] : IsInjective(f)
  BY <1>1 DEF ExistsBijection, Bijection, Injection
<1>4. SetToSeq(S) \in [1 .. n -> S] /\ IsInjective(SetToSeq(S))
  BY <1>3 DEF SetToSeq
<1> HIDE DEF n
<1>5. SetToSeq(S) \in Injection(1 .. n, S)
  BY <1>4 DEF Injection, IsInjective
<1>6. SetToSeq(S) \in Surjection(1 .. n, S)
  BY <1>2, <1>5, FS_Injection DEF n
<1>7. SetToSeq(S) \in Seq(S) /\ DOMAIN SetToSeq(S) = 1 .. n
  BY <1>1, <1>4
<1>8. ToSet(SetToSeq(S)) = S
  BY <1>4, <1>6, <1>7 DEF Surjection, ToSet
<1> QED
  BY <1>7, <1>8

LEMMA ToSetOfConcatenation ==
  ASSUME NEW S, NEW s \in Seq(S), NEW t \in Seq(S)
  PROVE  s \o t \in Seq(S) /\ ToSet(s \o t) = ToSet(s) \cup ToSet(t)
<1> DEFINE r == s \o t
<1>1. /\ r \in Seq(S) /\ DOMAIN r = 1 .. Len(s) + Len(t)
      /\ DOMAIN s = 1 .. Len(s) /\ DOMAIN t = 1 .. Len(t)
      /\ Len(s) \in Nat /\ Len(t) \in Nat
  OBVIOUS
<1>2. \A i \in 1 .. Len(s) + Len(t) : r[i] = IF i <= Len(s) THEN s[i] ELSE t[i - Len(s)]
  OBVIOUS
<1> HIDE DEF r
<1>3. ASSUME NEW x \in ToSet(r) PROVE x \in ToSet(s) \cup ToSet(t)
  <2>1. PICK i \in 1 .. Len(s) + Len(t) : x = r[i]
    BY <1>1, <1>3 DEF ToSet
  <2>2. CASE i <= Len(s)
    <3>1. i \in 1 .. Len(s) /\ x = s[i]
      BY <1>1, <1>2, <2>1, <2>2
    <3> QED
      BY <1>1, <3>1 DEF ToSet
  <2>3. CASE i > Len(s)
    <3>1. i - Len(s) \in 1 .. Len(t) /\ x = t[i - Len(s)]
      BY <1>1, <1>2, <2>1, <2>3
    <3> QED
      BY <1>1, <3>1 DEF ToSet
  <2> QED
    BY <1>1, <2>2, <2>3
<1>4. ASSUME NEW x \in ToSet(s) PROVE x \in ToSet(r)
  <2>1. PICK i \in 1 .. Len(s) : x = s[i]
    BY <1>1, <1>4 DEF ToSet
  <2>2. i \in 1 .. Len(s) + Len(t) /\ r[i] = x
    BY <1>1, <1>2, <2>1
  <2> QED
    BY <1>1, <2>2 DEF ToSet
<1>5. ASSUME NEW x \in ToSet(t) PROVE x \in ToSet(r)
  <2>1. PICK i \in 1 .. Len(t) : x = t[i]
    BY <1>1, <1>5 DEF ToSet
  <2>2. i + Len(s) \in 1 .. Len(s) + Len(t) /\ r[i + Len(s)] = x
    BY <1>1, <1>2, <2>1
  <2> QED
    BY <1>1, <2>2 DEF ToSet
<1>6. r \in Seq(S) /\ ToSet(r) = ToSet(s) \cup ToSet(t)
  BY <1>1, <1>3, <1>4, <1>5
<1> QED
  BY <1>6 DEF r

\* What is handed off of source s when old is its baseline.
Fresh(s, old) == {e \in UNION {Observed(s, old, type) : type \in ChangeType} : Key(s, e) \notin seen}

LEMMA LiveContent ==
  ASSUME Typed, NEW s \in Sources
  PROVE  /\ past[s] \in Seq(Contents) /\ Len(past[s]) \in Nat \ {0}
         /\ Live(s) \in Contents /\ Live(s) = past[s][Len(past[s])]
         /\ \A i \in 1 .. Len(past[s]) : past[s][i] \in Contents
<1>1. past[s] \in Seq(Contents) /\ Len(past[s]) \in Nat \ {0}
  BY PipelineAssumption DEF PipelineAssumption, Typed, TypeOK
<1>2. \A i \in 1 .. Len(past[s]) : past[s][i] \in Contents
  BY <1>1
<1>3. Len(past[s]) \in 1 .. Len(past[s])
  BY <1>1
<1> QED
  BY <1>1, <1>2, <1>3 DEF Live, Last

LEMMA CardContent ==
  ASSUME Typed, NEW s \in Sources
  PROVE  /\ cards[s] \in Seq(Contents) /\ Len(cards[s]) \in Nat
         /\ cards[s] # <<>> => Last(cards[s]) \in Contents
<1>1. cards[s] \in Seq(Contents)
  BY DEF Typed, TypeOK
<1>2. cards[s] # <<>> => Len(cards[s]) \in 1 .. Len(cards[s])
  BY <1>1
<1>3. cards[s] # <<>> => cards[s][Len(cards[s])] \in Contents
  BY <1>1, <1>2
<1> QED
  BY <1>1, <1>3 DEF Last

LEMMA ObservedEvents ==
  ASSUME Typed, NEW s \in Sources, NEW old \in Contents, NEW type \in ChangeType
  PROVE  IsFiniteSet(Observed(s, old, type)) /\ Observed(s, old, type) \subseteq Events
<1> DEFINE X == ChangedObjects(s, old, type)
           event(o) == [obj |-> o, ver |-> Version(s, old, o), type |-> type]
           f == [o \in X |-> event(o)]
<1>1. X \subseteq Objects
  BY DEF ChangedObjects, Present, ChangeType
<1>2. IsFiniteSet(X)
  BY <1>1, PipelineAssumption, FS_Subset DEF PipelineAssumption
<1>3. f \in Surjection(X, Observed(s, old, type))
  BY DEF Surjection, Observed
<1>4. IsFiniteSet(Observed(s, old, type))
  BY <1>2, <1>3, FS_Surjection
<1>5. ASSUME NEW o \in X PROVE Version(s, old, o) \in Nat
  <2>1. Live(s)[o] \in Nat /\ old[o] \in Nat
    BY <1>1, LiveContent, PipelineAssumption DEF PipelineAssumption, Contents
  <2>2. CheckpointOut(s) \in Nat
    BY LiveContent, CardContent DEF CheckpointOut
  <2> QED
    BY <2>1, <2>2 DEF Version
<1>6. \A o \in X : event(o) \in Events
  BY <1>1, <1>5 DEF Events, ChangeType
<1> QED
  BY <1>4, <1>6 DEF Observed

LEMMA HandedOffEvents ==
  ASSUME Typed, NEW s \in Sources, NEW old \in Contents
  PROVE  /\ HandedOff(s, old) \in Seq(Events)
         /\ ToSet(HandedOff(s, old)) = Fresh(s, old)
         /\ Fresh(s, old) \subseteq Events
<1> DEFINE new(type) == {e \in Observed(s, old, type) : Key(s, e) \notin seen}
<1>1. ASSUME NEW type \in ChangeType
      PROVE  SetToSeq(new(type)) \in Seq(Events) /\ ToSet(SetToSeq(new(type))) = new(type)
  <2>1. IsFiniteSet(Observed(s, old, type)) /\ Observed(s, old, type) \subseteq Events
    BY ObservedEvents
  <2>2. IsFiniteSet(new(type)) /\ new(type) \subseteq Events
    BY <2>1, FS_Subset
  <2> HIDE DEF new
  <2>3. SetToSeq(new(type)) \in Seq(new(type)) /\ ToSet(SetToSeq(new(type))) = new(type)
    BY <2>2, SetToSeqElements
  <2> QED
    BY <2>2, <2>3
<1> DEFINE c == SetToSeq(new("created"))
           u == SetToSeq(new("updated"))
           d == SetToSeq(new("deleted"))
<1>2. /\ c \in Seq(Events) /\ ToSet(c) = new("created")
      /\ u \in Seq(Events) /\ ToSet(u) = new("updated")
      /\ d \in Seq(Events) /\ ToSet(d) = new("deleted")
  BY <1>1 DEF ChangeType
<1>3. HandedOff(s, old) = (c \o u) \o d
  BY DEF HandedOff
<1>4. Fresh(s, old) = (new("created") \cup new("updated")) \cup new("deleted")
  BY DEF Fresh, ChangeType
<1> HIDE DEF c, u, d, new
<1>5. c \o u \in Seq(Events) /\ ToSet(c \o u) = new("created") \cup new("updated")
  BY <1>2, ToSetOfConcatenation
<1> DEFINE cu == c \o u
<1>6. cu \in Seq(Events) /\ ToSet(cu) = new("created") \cup new("updated")
  BY <1>5
<1> HIDE DEF cu
<1>7. cu \o d \in Seq(Events) /\ ToSet(cu \o d) = ToSet(cu) \cup ToSet(d)
  BY <1>2, <1>6, ToSetOfConcatenation
<1>8. Fresh(s, old) \subseteq Events
  BY ObservedEvents DEF Fresh
<1> QED
  BY <1>2, <1>3, <1>4, <1>6, <1>7, <1>8 DEF cu

\* The content an observation compares with is one the source had.
LEMMA BaselineContent ==
  ASSUME Typed, NEW s \in Sources, NEW ck \in Nat,
         s \notin Structured /\ ck # 0 /\ AdapterOf[s] \in Incremental => ck <= Len(past[s])
  PROVE  Baseline(s, ck) \in Contents
<1>1. Empty \in Contents
  BY PipelineAssumption DEF PipelineAssumption, Empty, Contents
<1>2. s \notin Structured /\ ck # 0 /\ AdapterOf[s] \in Incremental => past[s][ck] \in Contents
  BY LiveContent
<1> QED
  BY <1>1, <1>2, CardContent DEF Baseline

-----------------------------------------------------------------------------
(* Types *)

LEMMA InitTyped == Init => Typed
<1> SUFFICES ASSUME Init PROVE Typed
  OBVIOUS
<1>1. Empty \in Contents
  BY PipelineAssumption DEF PipelineAssumption, Empty, Contents
<1>2. past \in [Sources -> Seq(Contents)] /\ \A s \in Sources : Len(past[s]) = 1
  BY <1>1 DEF Init
<1>3. TypeOK
  <2>1. cards \in [Sources -> Seq(Contents)] /\ \A s \in Sources : Len(cards[s]) = 0
    BY DEF Init
  <2>2. \A s \in Sources :
          /\ Len(past[s]) \in 1 .. edits + 1
          /\ cursor[s] \in 0 .. (IF s \in Structured THEN Len(cards[s]) ELSE Len(past[s]))
    BY <1>2, <2>1 DEF Init
  <2>3. task \in [src : Sources, left : Seq(Events), before : Nat]
    <3>1. {<<>>} \subseteq Seq(Events) /\ {0} \subseteq Nat
      OBVIOUS
    <3>2. task \in [src : Sources, left : {<<>>}, before : {0}]
      BY DEF Init
    <3> HIDE DEF Events
    <3> QED
      BY <3>1, <3>2
  <2>4. \A f \in DOMAIN disk : disk[f] = None
    BY DEF Init
  <2>5. edits \in 0 .. MaxEdits /\ calls \in 0 .. MaxCalls /\ faults \in 0 .. MaxFaults
    BY PipelineAssumption DEF PipelineAssumption, Init
  <2> QED
    BY <1>2, <2>1, <2>2, <2>3, <2>4, <2>5 DEF Init, TypeOK
<1>4. \A s \in Sources : given[s] = 0 /\ task.before = 0
  BY DEF Init
<1> QED
  BY <1>2, <1>3, <1>4 DEF Init, Typed

\* A node leaves a state of the right shape for the same event.
LEMMA NodeTyped ==
  ASSUME Typed, pc # "idle", UNCHANGED <<past, memory, given, reply, task, edits, calls>>,
         run' \in Run, run'.ev = run.ev, faults' \in {faults, faults + 1}, faults' <= MaxFaults,
         pc' \in {"persist", "parse", "normalize", "classify", "redact", "emit", "checkpoint"},
         DOMAIN snap' = DOMAIN snap, UNCHANGED disk
  PROVE  Typed'
<1>1. faults' \in 0 .. MaxFaults
  BY PipelineAssumption DEF PipelineAssumption, Typed, TypeOK
<1>2. TypeOK'
  BY <1>1 DEF Typed, TypeOK, memory
<1> QED
  BY <1>2 DEF Typed, memory

\* The nodes between taking an event and its outcome file.
NodeStep == Fetch \/ PersistMetadata \/ Parse \/ Normalize \/ Classify \/ Redact \/ Emit

\* What each node makes of a state of the right shape.
Updated(r, u) == u \in Run /\ u.ev = r.ev

LEMMA RunUpdates ==
  ASSUME NEW r \in Run
  PROVE  /\ \A c \in Contents \cup {None} : Updated(r, [r EXCEPT !.raw = c])
         /\ \A p \in {"none", "part", "full"} : Updated(r, [r EXCEPT !.parsed = p])
         /\ \A p \in {"none", "part", "full"} : Updated(r, [r EXCEPT !.normal = p])
         /\ \A v \in {"none", "blocks", "default"} : Updated(r, [r EXCEPT !.verdict = v])
         /\ \A d \in {"none", "clean", "raw"} : Updated(r, [r EXCEPT !.redacted = d])
         /\ Updated(r, [r EXCEPT !.snapshot = TRUE]) /\ Updated(r, [r EXCEPT !.ready = TRUE])
         /\ Updated(r, WithError(r)) /\ Updated(r, WithWarning(r))
  BY DEF Run, WithError, WithWarning, Updated

LEMMA FetchedContent == ASSUME Typed, pc # "idle" PROVE Fetched \in Contents
<1>1. Src \in Sources /\ run.ev \in Events
  BY DEF Typed, TypeOK, Src, Run
<1>2. Live(Src) \in [Objects -> 0 .. MaxRev]
  BY <1>1, LiveContent DEF Contents
<1> QED
  BY <1>2, PipelineAssumption DEF PipelineAssumption, Fetched, Contents, Event

LEMMA NodeStepTyped == Typed /\ NodeStep => Typed' /\ run' \in Run /\ run'.ev = run.ev
<1> SUFFICES ASSUME Typed, NodeStep PROVE Typed' /\ run' \in Run /\ run'.ev = run.ev
  OBVIOUS
<1> DEFINE good == run' \in Run /\ run'.ev = run.ev /\ DOMAIN snap' = DOMAIN snap
<1>1. /\ pc # "idle" /\ UNCHANGED <<past, memory, given, reply, task, edits, calls, disk>>
      /\ pc' \in {"persist", "parse", "normalize", "classify", "redact", "emit", "checkpoint"}
  BY DEF NodeStep, Fetch, PersistMetadata, Parse, Normalize, Classify, Redact, Emit, Node
<1>2. faults \in Nat /\ faults <= MaxFaults /\ MaxFaults \in Nat /\ run \in Run
  BY <1>1, PipelineAssumption DEF PipelineAssumption, Typed, TypeOK
<1>3. faults' \in {faults, faults + 1} /\ faults' <= MaxFaults
  BY <1>2 DEF NodeStep, Fetch, PersistMetadata, Parse, Normalize, Classify, Redact, Emit, Fault
<1>4. ASSUME Fetch PROVE good
  <2>1. run' \in {[run EXCEPT !.raw = Fetched], WithError(run)} /\ UNCHANGED snap
    BY <1>4 DEF Fetch
  <2>2. Fetched \in Contents
    BY <1>1, FetchedContent
  <2>3. Updated(run, [run EXCEPT !.raw = Fetched]) /\ Updated(run, WithError(run))
    BY <1>2, <2>2, RunUpdates
  <2> QED
    BY <2>1, <2>3 DEF Updated
<1>5. ASSUME PersistMetadata PROVE good
  <2>1. /\ run' \in {run, [run EXCEPT !.snapshot = TRUE], WithWarning(run)}
        /\ DOMAIN snap' = DOMAIN snap
    BY <1>5 DEF PersistMetadata
  <2> QED
    BY <1>2, <2>1, RunUpdates DEF Updated
<1>6. ASSUME Parse PROVE good
  <2>1. /\ run' \in {run, [run EXCEPT !.parsed = "full"], WithError(run),
                     WithError([run EXCEPT !.parsed = "part"]),
                     WithWarning([run EXCEPT !.parsed = "full"])}
        /\ UNCHANGED snap
    BY <1>6 DEF Parse
  <2>2. \A p \in {"part", "full"} : Updated(run, [run EXCEPT !.parsed = p])
    BY <1>2, RunUpdates
  <2>3. \A r \in Run : Updated(r, WithError(r)) /\ Updated(r, WithWarning(r))
    BY RunUpdates
  <2> QED
    BY <1>2, <2>1, <2>2, <2>3 DEF Updated
<1>7. ASSUME Normalize PROVE good
  <2>1. run' \in {[run EXCEPT !.normal = Payload], WithError(run)} /\ UNCHANGED snap
    BY <1>7 DEF Normalize
  <2>2. Payload \in {"none", "part", "full"}
    BY <1>2 DEF Payload, Run
  <2>3. Updated(run, [run EXCEPT !.normal = Payload]) /\ Updated(run, WithError(run))
    BY <1>2, <2>2, RunUpdates
  <2> QED
    BY <2>1, <2>3 DEF Updated
<1>8. ASSUME Classify PROVE good
  <2>1. /\ run' \in {run, [run EXCEPT !.verdict = "blocks"],
                     WithWarning([run EXCEPT !.verdict = "default"])}
        /\ UNCHANGED snap
    BY <1>8 DEF Classify
  <2>2. \A v \in {"blocks", "default"} : Updated(run, [run EXCEPT !.verdict = v])
    BY <1>2, RunUpdates
  <2>3. \A r \in Run : Updated(r, WithWarning(r))
    BY RunUpdates
  <2> QED
    BY <1>2, <2>1, <2>2, <2>3, RunUpdates DEF Updated
<1>9. ASSUME Redact PROVE good
  <2>1. /\ run' \in {[run EXCEPT !.redacted = Redaction],
                     WithWarning([run EXCEPT !.redacted = "raw"])}
        /\ UNCHANGED snap
    BY <1>9 DEF Redact
  <2>2. Redaction \in {"none", "clean", "raw"}
    BY DEF Redaction
  <2>3. \A d \in {"none", "clean", "raw"} : Updated(run, [run EXCEPT !.redacted = d])
    BY <1>2, RunUpdates
  <2>4. \A r \in Run : Updated(r, WithWarning(r))
    BY RunUpdates
  <2> QED
    BY <1>2, <2>1, <2>2, <2>3, <2>4 DEF Updated
<1>10. ASSUME Emit PROVE good
  <2>1. run' \in {[run EXCEPT !.ready = TRUE], WithError(run)} /\ UNCHANGED snap
    BY <1>10 DEF Emit
  <2> QED
    BY <1>2, <2>1, RunUpdates DEF Updated
<1>11. good
  BY <1>4, <1>5, <1>6, <1>7, <1>8, <1>9, <1>10 DEF NodeStep
<1> QED
  BY <1>1, <1>3, <1>11, NodeTyped

LEMMA EditTyped ==
  ASSUME Typed, NEW s \in Sources, NEW o \in Objects, NEW r \in 0 .. MaxRev, Edit(s, o, r)
  PROVE  Typed'
<1>1. /\ past' = [past EXCEPT ![s] = Append(past[s], [Live(s) EXCEPT ![o] = r])]
      /\ edits' = edits + 1 /\ edits < MaxEdits
      /\ UNCHANGED <<memory, given, reply, task, pc, run, sdk, disk, snap, calls, faults>>
  BY DEF Edit
<1>2. [Live(s) EXCEPT ![o] = r] \in Contents
  BY LiveContent DEF Contents
<1>3. past' \in [Sources -> Seq(Contents)]
  BY <1>1, <1>2, LiveContent DEF Typed, TypeOK
<1>4. \A t \in Sources : Len(past'[t]) = IF t = s THEN Len(past[t]) + 1 ELSE Len(past[t])
  BY <1>1, <1>2, LiveContent DEF Typed, TypeOK
<1>5. edits \in Nat /\ edits' \in 0 .. MaxEdits
  BY <1>1, PipelineAssumption DEF PipelineAssumption, Typed, TypeOK
<1>6. \A t \in Sources : Len(past[t]) \in Nat /\ Len(cards[t]) \in Nat /\ cursor[t] \in Nat
  BY LiveContent, CardContent DEF Typed
<1>7. \A t \in Sources :
        /\ Len(past'[t]) \in 1 .. edits' + 1
        /\ cursor[t] \in 0 .. (IF t \in Structured THEN Len(cards[t]) ELSE Len(past'[t]))
  <2> SUFFICES ASSUME NEW t \in Sources
               PROVE  /\ Len(past'[t]) \in 1 .. edits' + 1
                      /\ cursor[t] \in 0 .. (IF t \in Structured THEN Len(cards[t]) ELSE Len(past'[t]))
    OBVIOUS
  <2>1. /\ Len(past[t]) \in 1 .. edits + 1
        /\ cursor[t] \in 0 .. (IF t \in Structured THEN Len(cards[t]) ELSE Len(past[t]))
    BY DEF Typed, TypeOK
  <2> QED
    BY <1>1, <1>4, <1>5, <1>6, <2>1
<1>8. TypeOK'
  BY <1>1, <1>3, <1>5, <1>7 DEF Typed, TypeOK, memory
<1>9. \A t \in Sources \ Structured : /\ given[t] <= Len(past'[t])
                                      /\ task.src = t => task.before <= Len(past'[t])
  <2> SUFFICES ASSUME NEW t \in Sources \ Structured
               PROVE  /\ given[t] <= Len(past'[t])
                      /\ task.src = t => task.before <= Len(past'[t])
    OBVIOUS
  <2>1. given[t] \in Nat /\ task.before \in Nat
    BY DEF Typed, TypeOK
  <2>2. given[t] <= Len(past[t]) /\ (task.src = t => task.before <= Len(past[t]))
    BY DEF Typed
  <2> QED
    BY <1>4, <1>6, <2>1, <2>2
<1> QED
  BY <1>1, <1>8, <1>9 DEF Typed, memory

\* A request that observes nothing.
LEMMA RequestTyped ==
  ASSUME Typed, NEW s \in Sources, Refuse(s) \/ Connect(s) \/ ObservationFails(s)
  PROVE  /\ Typed' /\ pc = "idle"
         /\ UNCHANGED <<past, memory, given, task, pc, disk, snap, history>>
<1>1. pc = "idle" /\ UNCHANGED <<past, memory, given, task, pc, disk, snap, history, edits>>
  BY DEF Refuse, Connect, ObservationFails, Request, history
<1>2. reply' \in {"connected", "refused"} /\ calls' \in 0 .. MaxCalls
  <2>1. reply' \in {"connected", "refused"}
    BY DEF Refuse, Connect, ObservationFails
  <2>2. calls < MaxCalls /\ calls' = calls + 1
    BY DEF Refuse, Connect, ObservationFails, Request
  <2> QED
    BY <2>1, <2>2, PipelineAssumption DEF PipelineAssumption, Typed, TypeOK
<1>3. faults' \in 0 .. MaxFaults
  BY PipelineAssumption
     DEF PipelineAssumption, Typed, TypeOK, Refuse, Connect, ObservationFails, Fault
<1>4. TypeOK'
  BY <1>1, <1>2, <1>3 DEF Typed, TypeOK, memory
<1> QED
  BY <1>1, <1>4 DEF Typed, memory

LEMMA CheckpointInRange ==
  ASSUME Typed, NEW s \in Sources, NEW ck \in CheckpointIn(s)
  PROVE  ck \in Nat /\ (s \notin Structured => ck <= Len(past[s]))
<1>1. cursor[s] \in Nat /\ given[s] \in Nat /\ Len(past[s]) \in Nat
  BY LiveContent DEF Typed
<1>2. s \notin Structured => cursor[s] <= Len(past[s]) /\ given[s] <= Len(past[s])
  BY <1>1 DEF Typed, TypeOK
<1> QED
  BY <1>1, <1>2 DEF CheckpointIn

LEMMA ObserveTyped ==
  ASSUME Typed, NEW s \in Sources, Observe(s)
  PROVE  Typed'
<1>0. PICK ck \in CheckpointIn(s) :
        /\ task' = [src |-> s, left |-> HandedOff(s, Baseline(s, ck)), before |-> given[s]]
        /\ seen' = seen \cup Marked(s, HandedOff(s, Baseline(s, ck)))
  BY DEF Observe
<1>1. /\ pc = "idle" /\ calls < MaxCalls /\ calls' = calls + 1 /\ reply' = "observing"
      /\ UNCHANGED <<past, endpoint, pc, disk, snap, edits, faults>>
      /\ cards' = IF s \in Structured THEN [cards EXCEPT ![s] = Append(cards[s], Live(s))]
                  ELSE cards
      /\ cursor' = [cursor EXCEPT ![s] = CheckpointOut(s)]
      /\ given' = [given EXCEPT ![s] = CheckpointOut(s)]
  BY DEF Observe, Request
<1>2. /\ CheckpointOut(s) \in Nat /\ given[s] \in Nat
      /\ s \notin Structured => CheckpointOut(s) = Len(past[s])
      /\ s \in Structured => CheckpointOut(s) = Len(cards[s]) + 1
  BY LiveContent, CardContent DEF CheckpointOut, Typed
<1>3. cards' \in [Sources -> Seq(Contents)]
  <2>1. Append(cards[s], Live(s)) \in Seq(Contents)
    BY LiveContent, CardContent
  <2> HIDE DEF Contents
  <2> QED
    BY <1>1, <2>1 DEF Typed, TypeOK
<1>4. \A t \in Sources :
        Len(cards'[t]) = IF t = s /\ s \in Structured THEN Len(cards[t]) + 1 ELSE Len(cards[t])
  <2>1. Len(Append(cards[s], Live(s))) = Len(cards[s]) + 1
    BY LiveContent, CardContent
  <2>2. s \in Structured => \A t \in Sources :
          cards'[t] = IF t = s THEN Append(cards[s], Live(s)) ELSE cards[t]
    BY <1>1 DEF Typed, TypeOK
  <2>3. CASE s \in Structured
    <3> SUFFICES ASSUME NEW t \in Sources
                 PROVE  Len(cards'[t]) = IF t = s THEN Len(cards[t]) + 1 ELSE Len(cards[t])
      BY <2>3
    <3> QED
      BY <2>1, <2>2, <2>3
  <2>4. CASE s \notin Structured
    BY <1>1, <2>4
  <2> QED
    BY <2>3, <2>4
<1>5. cursor' \in [Sources -> Nat] /\ given' \in [Sources -> Nat]
  BY <1>1, <1>2 DEF Typed
<1>6. \A t \in Sources :
        cursor'[t] \in 0 .. (IF t \in Structured THEN Len(cards'[t]) ELSE Len(past[t]))
  <2> SUFFICES ASSUME NEW t \in Sources
               PROVE  cursor'[t] \in 0 .. (IF t \in Structured THEN Len(cards'[t]) ELSE Len(past[t]))
    OBVIOUS
  <2>1. CASE t = s
    BY <1>1, <1>2, <1>4, <2>1 DEF Typed
  <2>2. CASE t # s
    BY <1>1, <1>4, <2>2 DEF Typed, TypeOK
  <2> QED
    BY <2>1, <2>2
<1>7. task' \in [src : Sources, left : Seq(Events), before : Nat]
  <2>1. Baseline(s, ck) \in Contents
    BY CheckpointInRange, BaselineContent
  <2>2. HandedOff(s, Baseline(s, ck)) \in Seq(Events)
    BY <2>1, HandedOffEvents
  <2> QED
    BY <1>0, <1>2, <2>2
<1>8. calls' \in 0 .. MaxCalls
  BY <1>1, PipelineAssumption DEF PipelineAssumption, Typed, TypeOK
<1>9. TypeOK'
  BY <1>1, <1>3, <1>6, <1>7, <1>8 DEF Typed, TypeOK
<1>10. \A t \in Sources \ Structured : /\ given'[t] <= Len(past[t])
                                       /\ task'.src = t => task'.before <= Len(past[t])
  <2>1. \A t \in Sources \ Structured : given[t] <= Len(past[t])
    BY DEF Typed
  <2>2. \A t \in Sources \ Structured : given'[t] <= Len(past[t])
    BY <1>1, <1>2, <2>1, LiveContent DEF Typed
  <2>3. task'.src = s /\ task'.before = given[s]
    BY <1>0
  <2> QED
    BY <2>1, <2>2, <2>3
<1> QED
  BY <1>1, <1>5, <1>9, <1>10 DEF Typed

LEMMA RouteTyped == Typed /\ RouteBySource => Typed'
<1> SUFFICES ASSUME Typed, RouteBySource PROVE Typed'
  OBVIOUS
<1>1. /\ task.left # <<>> /\ run' = Begun(Head(task.left))
      /\ UNCHANGED <<past, memory, given, reply, task, disk, snap, edits, calls, faults>>
      /\ pc' \in {"emit", "fetch"}
  BY DEF RouteBySource, Node
<1>2. Head(task.left) \in Events
  BY <1>1 DEF Typed, TypeOK
<1>3. run' \in Run /\ run'.ev = Head(task.left)
  BY <1>1, <1>2 DEF Begun, Run
<1>4. TypeOK'
  BY <1>1, <1>3 DEF Typed, TypeOK, memory
<1> QED
  BY <1>1, <1>3, <1>4 DEF Typed, memory

LEMMA CheckpointTyped == Typed /\ Checkpoint => Typed'
<1> SUFFICES ASSUME Typed, Checkpoint PROVE Typed'
  OBVIOUS
<1>1. /\ pc = "checkpoint" /\ pc' = "idle" /\ task' = [task EXCEPT !.left = Tail(task.left)]
      /\ UNCHANGED <<past, memory, given, reply, snap, edits, calls>>
  BY DEF Checkpoint, Node
<1>2. task.left # <<>> /\ task \in [src : Sources, left : Seq(Events), before : Nat]
  BY <1>1 DEF Typed, TypeOK
<1>3. /\ task' \in [src : Sources, left : Seq(Events), before : Nat]
      /\ task'.src = task.src /\ task'.before = task.before
  <2>1. Tail(task.left) \in Seq(Events)
    BY <1>2
  <2> HIDE DEF Events
  <2> QED
    BY <1>1, <1>2, <2>1
<1>4. \A f \in DOMAIN disk' : disk'[f] = None \/ disk'[f].status \in {"success", "partial"}
  <2>1. Outcome.status \in {"success", "partial"}
    BY DEF Outcome, Status
  <2>2. disk' \in {disk, [disk EXCEPT ![File] = Outcome], [disk EXCEPT ![File] = None]}
    BY DEF Checkpoint
  <2> HIDE DEF Outcome, File
  <2> QED
    BY <2>1, <2>2 DEF Typed, TypeOK
<1>5. faults' \in 0 .. MaxFaults
  BY PipelineAssumption DEF PipelineAssumption, Typed, TypeOK, Checkpoint, Fault
<1>6. TypeOK'
  BY <1>1, <1>3, <1>4, <1>5 DEF Typed, TypeOK, memory
<1> QED
  BY <1>1, <1>3, <1>6 DEF Typed, memory

LEMMA CrashTyped == Typed /\ Crash => Typed'
<1> SUFFICES ASSUME Typed, Crash PROVE Typed'
  OBVIOUS
<1>1. /\ given' = IF task.left = <<>> THEN given ELSE [given EXCEPT ![Src] = task.before]
      /\ cursor' = [s \in Sources |-> 0] /\ cards' = [s \in Sources |-> <<>>]
      /\ task' = [task EXCEPT !.left = <<>>] /\ pc' = "idle" /\ reply' = "none"
      /\ UNCHANGED <<past, endpoint, disk, snap, edits, calls>>
  BY DEF Crash
<1>2. task \in [src : Sources, left : Seq(Events), before : Nat]
  BY DEF Typed, TypeOK
<1>3. /\ task' \in [src : Sources, left : Seq(Events), before : Nat]
      /\ task'.src = task.src /\ task'.before = task.before
  <2>1. <<>> \in Seq(Events)
    OBVIOUS
  <2> HIDE DEF Events
  <2> QED
    BY <1>1, <1>2, <2>1
<1>4. faults' \in 0 .. MaxFaults
  BY PipelineAssumption DEF PipelineAssumption, Typed, TypeOK, Crash, Fault
<1>5. cards' \in [Sources -> Seq(Contents)] /\ \A s \in Sources : Len(cards'[s]) = 0
  BY <1>1
<1>6. \A s \in Sources :
        cursor'[s] \in 0 .. (IF s \in Structured THEN Len(cards'[s]) ELSE Len(past[s]))
  BY <1>1, <1>5, LiveContent
<1>7. TypeOK'
  BY <1>1, <1>3, <1>4, <1>5, <1>6 DEF Typed, TypeOK
<1>8. given' \in [Sources -> Nat] /\ cursor' \in [Sources -> Nat]
  BY <1>1, <1>2 DEF Typed, Src
<1>9. \A s \in Sources \ Structured : given'[s] <= Len(past[s])
  BY <1>1 DEF Typed, Src
<1> QED
  BY <1>1, <1>3, <1>7, <1>8, <1>9 DEF Typed

LEMMA NextTyped == Typed /\ [Next]_vars => Typed'
<1> SUFFICES ASSUME Typed, [Next]_vars PROVE Typed'
  OBVIOUS
<1>1. CASE UNCHANGED vars
  BY <1>1 DEF vars, memory, Typed, TypeOK
<1>2. CASE NodeStep
  BY <1>2, NodeStepTyped
<1> QED
  BY <1>1, <1>2, EditTyped, RequestTyped, ObserveTyped, RouteTyped, CheckpointTyped, CrashTyped
  DEF Next, NodeStep

-----------------------------------------------------------------------------
(* What a run reports *)

AfterFetch     == {"persist", "parse", "normalize", "classify", "redact", "emit", "checkpoint"}
AfterParse     == {"normalize", "classify", "redact", "emit", "checkpoint"}
AfterNormalize == {"classify", "redact", "emit", "checkpoint"}

\* As long as no node recorded an error, each has left what it was to leave.
Flawless ==
  /\ pc \in AfterFetch /\ run.ev.type # "deleted" => run.raw # None
  /\ pc \in AfterParse /\ run.ev.type # "deleted" /\ Lane = "unstructured" =>
       run.parsed = "full" \/ run.raw[run.ev.obj] \in Blank
  /\ pc \in AfterNormalize => Whole(run)
  /\ pc = "checkpoint" /\ endpoint => EventId(Src, Event) \in delivered

RunInv ==
  pc # "idle" =>
    /\ pc = "persist" => Lane = "structured"
    /\ ~run.errors => Flawless
    /\ pc = "redact" /\ run.normal # "none" => run.verdict = "blocks" \/ run.warned
    /\ pc \in {"emit", "checkpoint"} /\ run.redacted = "raw" => run.warned
    /\ run.snapshot =>
         /\ pc \notin {"fetch", "persist"}
         /\ snap[Src] = [card |-> run.raw, saved |-> Present(run.raw)]

OutcomeInv == RunInv /\ SuccessIsDelivered

\* The process that succeeds a crashed one has the same endpoint.
LEMMA EndpointStays == [Next]_vars => UNCHANGED endpoint
  BY DEF Next, vars, memory, Edit, Request, Refuse, Connect, ObservationFails, Observe, RouteBySource,
         Fetch, PersistMetadata, Parse, Normalize, Classify, Redact, Emit, Checkpoint, Crash, Node

LEMMA RouteRun == Typed /\ RouteBySource => RunInv'
<1> SUFFICES ASSUME Typed, RouteBySource PROVE RunInv'
  OBVIOUS
<1>1. /\ run' = Begun(Head(task.left))
      /\ pc' = IF run'.ev.type = "deleted" THEN "emit" ELSE "fetch"
  BY DEF RouteBySource, Node
<1>2. /\ run'.ev = Head(task.left) /\ ~run'.snapshot /\ run'.redacted = "none"
      /\ run'.errors = FALSE
  BY <1>1 DEF Begun
<1>3. CASE run'.ev.type = "deleted"
  <2>1. pc' = "emit" /\ Whole(run)'
    BY <1>1, <1>3 DEF Whole
  <2>2. Flawless'
    BY <1>3, <2>1 DEF Flawless
  <2> QED
    BY <1>2, <2>1, <2>2 DEF RunInv
<1>4. CASE run'.ev.type # "deleted"
  <2>1. pc' = "fetch"
    BY <1>1, <1>4
  <2>2. Flawless'
    BY <2>1 DEF Flawless, AfterFetch, AfterParse, AfterNormalize
  <2> QED
    BY <1>2, <2>1, <2>2 DEF RunInv
<1> QED
  BY <1>3, <1>4

\* What all nodes have in common.
LEMMA NodeFrame ==
  ASSUME Typed, NodeStep
  PROVE  /\ pc # "idle" /\ pc' # "idle" /\ run \in Run /\ run' \in Run /\ run'.ev = run.ev
         /\ UNCHANGED <<task, disk, endpoint>> /\ Src' = Src /\ Lane' = Lane /\ Event' = Event
         /\ delivered \subseteq delivered' /\ Src \in Sources /\ Event = run.ev
<1>1. run' \in Run /\ run'.ev = run.ev
  BY NodeStepTyped
<1>2. /\ pc # "idle" /\ pc' # "idle" /\ UNCHANGED <<task, disk, endpoint>>
      /\ delivered \subseteq delivered'
  BY DEF NodeStep, Fetch, PersistMetadata, Parse, Normalize, Classify, Redact, Emit, Node, Accept, memory
<1> QED
  BY <1>1, <1>2 DEF Src, Lane, Event, Typed, TypeOK

LEMMA FetchRun == Typed /\ RunInv /\ Fetch => RunInv'
<1> SUFFICES ASSUME Typed, RunInv, Fetch PROVE RunInv'
  OBVIOUS
<1>0. run \in Run /\ run' \in Run /\ pc = "fetch" /\ pc' \in {"persist", "parse"} /\ NodeStep
  BY NodeFrame DEF Fetch, Node, NodeStep
<1>1. ~run.snapshot
  BY <1>0 DEF RunInv
<1>2. run' = [run EXCEPT !.raw = Fetched] \/ run' = WithError(run)
  BY DEF Fetch
<1>3. ~run'.snapshot
  BY <1>0, <1>1, <1>2 DEF Run, WithError
<1>4. ~run'.errors => run'.raw # None
  <2>1. CASE run' = [run EXCEPT !.raw = Fetched]
    <3>1. Fetched # None
      BY <1>0, FetchedContent, PipelineAssumption DEF PipelineAssumption, Contents
    <3> QED
      BY <1>0, <2>1, <3>1 DEF Run
  <2>2. CASE run' = WithError(run)
    BY <1>0, <2>2, RunUpdates DEF Run, WithError
  <2> QED
    BY <1>2, <2>1, <2>2
<1>5. ~run'.errors => Flawless'
  BY <1>0, <1>4 DEF Flawless, AfterFetch, AfterParse, AfterNormalize
<1>6. pc' = "persist" => Lane' = "structured"
  BY <1>0, NodeFrame DEF Fetch, Node
<1> QED
  BY <1>0, <1>3, <1>5, <1>6 DEF RunInv

LEMMA PersistRun == Typed /\ RunInv /\ PersistMetadata => RunInv'
<1> SUFFICES ASSUME Typed, RunInv, PersistMetadata PROVE RunInv'
  OBVIOUS
<1>0. run \in Run /\ run' \in Run /\ pc = "persist" /\ pc' = "normalize" /\ NodeStep
  BY NodeFrame DEF PersistMetadata, Node, NodeStep
<1>1. ~run.snapshot /\ Src \in Sources /\ Src' = Src /\ Lane = "structured" /\ Lane' = Lane
  BY <1>0, NodeFrame DEF RunInv
<1>2. run' \in {run, [run EXCEPT !.snapshot = TRUE], WithWarning(run)}
  BY DEF PersistMetadata
<1>3. /\ run'.raw = run.raw /\ run'.ev = run.ev
      /\ run'.errors <=> run.errors
  BY <1>0, <1>2 DEF Run, WithWarning
<1>4. ~run'.errors => Flawless'
  BY <1>0, <1>1, <1>3 DEF RunInv, Flawless, AfterFetch, AfterParse, AfterNormalize
<1>5. ASSUME run'.snapshot
      PROVE  snap'[Src] = [card |-> run.raw, saved |-> Present(run.raw)]
  <2>1. run' # run /\ run' # WithWarning(run)
    BY <1>0, <1>1, <1>5 DEF Run, WithWarning
  <2>2. snap' = [snap EXCEPT ![Src] = Snapshot(Present(run.raw))]
    BY <2>1 DEF PersistMetadata
  <2> QED
    BY <1>1, <2>2 DEF Snapshot, Typed
<1> QED
  BY <1>0, <1>1, <1>3, <1>4, <1>5 DEF RunInv

\* The snapshot of a run stays what the run says it is.
LEMMA SnapshotKept ==
  ASSUME Typed, RunInv, NodeStep, pc \notin {"fetch", "persist"},
         run'.raw = run.raw, run'.snapshot <=> run.snapshot
  PROVE  run'.snapshot =>
           /\ pc' \notin {"fetch", "persist"}
           /\ snap'[Src'] = [card |-> run'.raw, saved |-> Present(run'.raw)]
<1>1. UNCHANGED snap /\ pc' \notin {"fetch", "persist"}
  BY DEF NodeStep, Fetch, PersistMetadata, Parse, Normalize, Classify, Redact, Emit, Node
<1>2. Src' = Src /\ pc # "idle"
  BY NodeFrame
<1> QED
  BY <1>1, <1>2 DEF RunInv

LEMMA ParseRun == Typed /\ RunInv /\ Parse => RunInv'
<1> SUFFICES ASSUME Typed, RunInv, Parse PROVE RunInv'
  OBVIOUS
<1>0. run \in Run /\ run' \in Run /\ pc = "parse" /\ pc' = "normalize" /\ NodeStep
  BY NodeFrame DEF Parse, Node, NodeStep
<1>1. run' \in {run, [run EXCEPT !.parsed = "full"], WithError(run),
                WithError([run EXCEPT !.parsed = "part"]),
                WithWarning([run EXCEPT !.parsed = "full"])}
  BY DEF Parse
<1>2. run'.raw = run.raw /\ run'.ev = run.ev /\ (run'.snapshot <=> run.snapshot)
  BY <1>0, <1>1 DEF Run, WithError, WithWarning
<1>3. ASSUME ~run'.errors PROVE Flawless'
  <2>1. ~run.errors /\ (HasContent => run'.parsed = "full")
    <3>1. run' # WithError(run) /\ run' # WithError([run EXCEPT !.parsed = "part"])
      BY <1>0, <1>3 DEF Run, WithError
    <3>2. CASE HasContent
      BY <1>0, <1>3, <3>1, <3>2 DEF Parse, Run, WithWarning
    <3>3. CASE ~HasContent
      BY <1>3, <3>3 DEF Parse
    <3> QED
      BY <3>2, <3>3
  <2>2. run.ev.type # "deleted" => run.raw # None
    BY <1>0, <2>1 DEF RunInv, Flawless, AfterFetch
  <2>3. /\ run.ev.type # "deleted" /\ Lane = "unstructured" =>
             run'.parsed = "full" \/ run.raw[run.ev.obj] \in Blank
        /\ Lane' = Lane
    BY <1>0, <2>1, <2>2, NodeFrame DEF HasContent, Event
  <2> QED
    BY <1>0, <1>2, <2>2, <2>3 DEF Flawless, AfterNormalize
<1>4. run'.snapshot => /\ pc' \notin {"fetch", "persist"}
                       /\ snap'[Src'] = [card |-> run'.raw, saved |-> Present(run'.raw)]
  BY <1>0, <1>2, SnapshotKept
<1> QED
  BY <1>0, <1>3, <1>4 DEF RunInv

LEMMA NormalizeRun == Typed /\ RunInv /\ Normalize => RunInv'
<1> SUFFICES ASSUME Typed, RunInv, Normalize PROVE RunInv'
  OBVIOUS
<1>0. run \in Run /\ run' \in Run /\ pc = "normalize" /\ pc' = "classify" /\ NodeStep
  BY NodeFrame DEF Normalize, Node, NodeStep
<1>1. run' \in {[run EXCEPT !.normal = Payload], WithError(run)}
  BY DEF Normalize
<1>2. /\ run'.raw = run.raw /\ run'.ev = run.ev /\ run'.parsed = run.parsed
      /\ run'.snapshot <=> run.snapshot
  BY <1>0, <1>1 DEF Run, WithError
<1>3. ASSUME ~run'.errors PROVE Flawless'
  <2>1. run' = [run EXCEPT !.normal = Payload] /\ ~run.errors
    BY <1>0, <1>1, <1>3 DEF Run, WithError
  <2>2. run'.normal = Payload
    BY <1>0, <2>1 DEF Run
  <2>3. /\ run.ev.type # "deleted" => run.raw # None
        /\ run.ev.type # "deleted" /\ Lane = "unstructured" =>
             run.parsed = "full" \/ run.raw[run.ev.obj] \in Blank
    BY <1>0, <2>1 DEF RunInv, Flawless, AfterFetch, AfterParse
  <2>4. Lane' = Lane /\ Lane \in {"structured", "unstructured"}
    BY <1>0, NodeFrame DEF Lane
  <2>5. Whole(run)'
    BY <1>2, <2>2, <2>3, <2>4 DEF Whole, Payload
  <2> QED
    BY <1>0, <1>2, <2>3, <2>4, <2>5 DEF Flawless
<1>4. run'.snapshot => /\ pc' \notin {"fetch", "persist"}
                       /\ snap'[Src'] = [card |-> run'.raw, saved |-> Present(run'.raw)]
  BY <1>0, <1>2, SnapshotKept
<1> QED
  BY <1>0, <1>3, <1>4 DEF RunInv

\* From classify on, what the run has of the event is settled.
LEMMA FlawlessKept ==
  ASSUME Typed, RunInv, NodeStep, pc \in {"classify", "redact"}, pc' \in {"redact", "emit"},
         run'.raw = run.raw, run'.ev = run.ev, run'.parsed = run.parsed, run'.normal = run.normal,
         ~run.errors
  PROVE  Flawless'
<1>1. Flawless /\ Lane' = Lane
  BY NodeFrame DEF RunInv
<1> QED
  BY <1>1 DEF Flawless, AfterFetch, AfterParse, AfterNormalize, Whole

LEMMA ClassifyRun == Typed /\ RunInv /\ Classify => RunInv'
<1> SUFFICES ASSUME Typed, RunInv, Classify PROVE RunInv'
  OBVIOUS
<1>0. run \in Run /\ run' \in Run /\ pc = "classify" /\ pc' = "redact" /\ NodeStep
  BY NodeFrame DEF Classify, Node, NodeStep
<1>1. run' \in {run, [run EXCEPT !.verdict = "blocks"], WithWarning([run EXCEPT !.verdict = "default"])}
  BY DEF Classify
<1>2. /\ run'.raw = run.raw /\ run'.ev = run.ev /\ run'.parsed = run.parsed
      /\ run'.normal = run.normal
      /\ (run'.snapshot <=> run.snapshot) /\ (run'.errors <=> run.errors)
  BY <1>0, <1>1 DEF Run, WithWarning
<1>3. ~run'.errors => Flawless'
  BY <1>0, <1>2, FlawlessKept
<1>4. run.normal # "none" => run'.verdict = "blocks" \/ run'.warned
  BY <1>0 DEF Classify, Run, WithWarning
<1>5. run'.snapshot => /\ pc' \notin {"fetch", "persist"}
                       /\ snap'[Src'] = [card |-> run'.raw, saved |-> Present(run'.raw)]
  BY <1>0, <1>2, SnapshotKept
<1> QED
  BY <1>0, <1>2, <1>3, <1>4, <1>5 DEF RunInv

LEMMA RedactRun == Typed /\ RunInv /\ Redact => RunInv'
<1> SUFFICES ASSUME Typed, RunInv, Redact PROVE RunInv'
  OBVIOUS
<1>0. run \in Run /\ run' \in Run /\ pc = "redact" /\ pc' = "emit" /\ NodeStep
  BY NodeFrame DEF Redact, Node, NodeStep
<1>1. run' \in {[run EXCEPT !.redacted = Redaction], WithWarning([run EXCEPT !.redacted = "raw"])}
  BY DEF Redact
<1>2. /\ run'.raw = run.raw /\ run'.ev = run.ev /\ run'.parsed = run.parsed
      /\ run'.normal = run.normal
      /\ (run'.snapshot <=> run.snapshot) /\ (run'.errors <=> run.errors)
  BY <1>0, <1>1 DEF Run, WithWarning
<1>3. ~run'.errors => Flawless'
  BY <1>0, <1>2, FlawlessKept
<1>4. run'.redacted = "raw" => run'.warned
  <2>1. CASE run' = [run EXCEPT !.redacted = Redaction]
    <3>1. run'.redacted = Redaction /\ (run'.warned <=> run.warned)
      BY <1>0, <2>1 DEF Run
    <3>2. Redaction = "raw" => run.normal # "none" /\ run.verdict # "blocks"
      BY DEF Redaction
    <3> QED
      BY <1>0, <3>1, <3>2 DEF RunInv
  <2>2. CASE run' = WithWarning([run EXCEPT !.redacted = "raw"])
    BY <1>0, <2>2 DEF Run, WithWarning
  <2> QED
    BY <1>1, <2>1, <2>2
<1>5. run'.snapshot => /\ pc' \notin {"fetch", "persist"}
                       /\ snap'[Src'] = [card |-> run'.raw, saved |-> Present(run'.raw)]
  BY <1>0, <1>2, SnapshotKept
<1> QED
  BY <1>0, <1>3, <1>4, <1>5 DEF RunInv

LEMMA EmitRun == Typed /\ RunInv /\ Emit => RunInv'
<1> SUFFICES ASSUME Typed, RunInv, Emit PROVE RunInv'
  OBVIOUS
<1>0. run \in Run /\ run' \in Run /\ pc = "emit" /\ pc' = "checkpoint" /\ NodeStep
  BY NodeFrame DEF Emit, Node, NodeStep
<1>1. run' \in {[run EXCEPT !.ready = TRUE], WithError(run)}
  BY DEF Emit
<1>2. /\ run'.raw = run.raw /\ run'.ev = run.ev /\ run'.parsed = run.parsed
      /\ run'.normal = run.normal /\ run'.redacted = run.redacted
      /\ (run'.snapshot <=> run.snapshot) /\ (run'.warned <=> run.warned)
  BY <1>0, <1>1 DEF Run, WithError
<1>3. ASSUME ~run'.errors PROVE Flawless'
  <2>1. run' # WithError(run) /\ ~run.errors
    BY <1>0, <1>1, <1>3 DEF Run, WithError
  <2>2. /\ Flawless /\ Lane' = Lane /\ Src' = Src /\ Event' = Event
        /\ UNCHANGED endpoint
    BY <1>0, <2>1, NodeFrame DEF RunInv
  <2>3. Whole(run)
    BY <1>0, <2>2 DEF Flawless, AfterNormalize
  <2>4. endpoint => delivered' = delivered \cup {EventId(Src, Event)}
    BY <2>1, <2>3 DEF Emit, Accept
  <2> QED
    BY <1>0, <1>2, <2>2, <2>3, <2>4
    DEF Flawless, AfterFetch, AfterParse, AfterNormalize, Whole
<1>4. run'.snapshot => /\ pc' \notin {"fetch", "persist"}
                       /\ snap'[Src'] = [card |-> run'.raw, saved |-> Present(run'.raw)]
  BY <1>0, <1>2, SnapshotKept
<1>5. run'.redacted = "raw" => run'.warned
  BY <1>0, <1>2 DEF RunInv
<1> QED
  BY <1>0, <1>3, <1>4, <1>5 DEF RunInv

LEMMA CheckpointOutcome == Typed /\ OutcomeInv /\ Checkpoint => OutcomeInv'
<1> SUFFICES ASSUME Typed, OutcomeInv, Checkpoint PROVE OutcomeInv'
  OBVIOUS
<1>0. pc = "checkpoint" /\ pc' = "idle" /\ UNCHANGED <<delivered, endpoint>>
  BY DEF Checkpoint, Node, memory
<1>1. disk' \in {disk, [disk EXCEPT ![File] = Outcome], [disk EXCEPT ![File] = None]}
  BY DEF Checkpoint
<1>2. ASSUME endpoint, Outcome.status = "success"
      PROVE  <<Outcome.src, Outcome.obj, Outcome.ver, Outcome.type>> \in delivered
  <2>1. ~run.errors
    BY <1>2 DEF Outcome, Status
  <2>2. EventId(Src, Event) \in delivered
    BY <1>0, <1>2, <2>1 DEF OutcomeInv, RunInv, Flawless
  <2> QED
    BY <2>2 DEF EventId, Outcome
<1> HIDE DEF Outcome, File
<1>3. SuccessIsDelivered'
  <2> SUFFICES ASSUME endpoint, NEW f \in DOMAIN disk', disk'[f] # None,
                      disk'[f].status = "success"
               PROVE  <<disk'[f].src, disk'[f].obj, disk'[f].ver, disk'[f].type>> \in delivered
    BY <1>0 DEF SuccessIsDelivered
  <2>1. f \in DOMAIN disk /\ disk'[f] \in {disk[f], Outcome, None}
    BY <1>1
  <2> QED
    BY <1>2, <2>1 DEF OutcomeInv, SuccessIsDelivered
<1> QED
  BY <1>0, <1>3 DEF OutcomeInv, RunInv

LEMMA NextOutcome == Typed /\ OutcomeInv /\ [Next]_vars => OutcomeInv'
<1> SUFFICES ASSUME Typed, OutcomeInv, [Next]_vars PROVE OutcomeInv'
  OBVIOUS
<1>1. CASE NodeStep
  <2>1. RunInv'
    BY <1>1, FetchRun, PersistRun, ParseRun, NormalizeRun, ClassifyRun, RedactRun, EmitRun
    DEF NodeStep, OutcomeInv
  <2>2. SuccessIsDelivered'
    BY <1>1, NodeFrame DEF OutcomeInv, SuccessIsDelivered
  <2> QED
    BY <2>1, <2>2 DEF OutcomeInv
<1>2. CASE RouteBySource
  <2>1. RunInv'
    BY <1>2, RouteRun
  <2>2. UNCHANGED <<disk, delivered, endpoint>>
    BY <1>2, EndpointStays DEF RouteBySource
  <2> QED
    BY <2>1, <2>2 DEF OutcomeInv, SuccessIsDelivered
<1>3. CASE Checkpoint
  BY <1>3, CheckpointOutcome
<1>4. ASSUME UNCHANGED <<disk, delivered, endpoint>>, \/ pc' = "idle"
                                                      \/ UNCHANGED <<task, pc, run, snap>>
      PROVE  OutcomeInv'
  <2>1. SuccessIsDelivered'
    BY <1>4 DEF OutcomeInv, SuccessIsDelivered
  <2>2. RunInv'
    BY <1>4 DEF OutcomeInv, RunInv, Flawless, Lane, Src, Whole, Event
  <2> QED
    BY <2>1, <2>2 DEF OutcomeInv
<1>5. ASSUME NEW s \in Sources, Refuse(s) \/ Connect(s) \/ ObservationFails(s) \/ Observe(s)
      PROVE  OutcomeInv'
  BY <1>4, <1>5, EndpointStays DEF Refuse, Connect, ObservationFails, Observe, Request
<1>6. ASSUME NEW s \in Sources, NEW o \in Objects, NEW r \in 0 .. MaxRev, Edit(s, o, r)
      PROVE  OutcomeInv'
  BY <1>4, <1>6, EndpointStays DEF Edit, history
<1>7. CASE Crash
  BY <1>4, <1>7, EndpointStays DEF Crash
<1>8. CASE UNCHANGED vars
  BY <1>4, <1>8, EndpointStays DEF vars, history
<1> QED
  BY <1>1, <1>2, <1>3, <1>5, <1>6, <1>7, <1>8 DEF Next, NodeStep

-----------------------------------------------------------------------------
(* What was handed off *)

\* A step hands off nothing unless it observes, and forgets nothing unless it crashes.
LEMMA NothingHanded ==
  ASSUME Typed, [Next]_vars, ~Crash, \A s \in Sources : ~Observe(s)
  PROVE  /\ UNCHANGED <<cursor, seen, cards, given, handed, offered>>
         /\ task'.src = task.src /\ task'.before = task.before
         /\ task'.left = task.left \/ calls' = calls
         /\ \A s \in Sources : /\ Len(past[s]) <= Len(past'[s])
                               /\ \A i \in 1 .. Len(past[s]) : past'[s][i] = past[s][i]
<1> DEFINE Quiet == /\ UNCHANGED <<cursor, seen, cards, given, handed, offered>>
                    /\ task'.src = task.src /\ task'.before = task.before
                    /\ task'.left = task.left \/ calls' = calls
           Kept == \A s \in Sources : /\ Len(past[s]) <= Len(past'[s])
                                      /\ \A i \in 1 .. Len(past[s]) : past'[s][i] = past[s][i]
<1>0. UNCHANGED past => Kept
  BY LiveContent
<1>1. CASE NodeStep \/ RouteBySource
  BY <1>0, <1>1 DEF NodeStep, RouteBySource, Fetch, PersistMetadata, Parse, Normalize, Classify,
     Redact, Emit, Node, memory
<1>2. CASE Checkpoint
  <2>1. /\ UNCHANGED <<past, cursor, seen, cards, given, handed, offered, calls>>
        /\ task' = [task EXCEPT !.left = Tail(task.left)]
    BY <1>2 DEF Checkpoint, Node, memory
  <2> QED
    BY <1>0, <2>1 DEF Typed, TypeOK
<1>3. ASSUME NEW s \in Sources, Refuse(s) \/ Connect(s) \/ ObservationFails(s) PROVE Quiet /\ Kept
  BY <1>0, <1>3, RequestTyped DEF memory, history
<1>4. ASSUME NEW s \in Sources, NEW o \in Objects, NEW r \in 0 .. MaxRev, Edit(s, o, r)
      PROVE  Quiet /\ Kept
  <2>1. Quiet
    BY <1>4 DEF Edit, memory, history
  <2>2. past' = [past EXCEPT ![s] = Append(past[s], [Live(s) EXCEPT ![o] = r])]
    BY <1>4 DEF Edit
  <2>3. Kept
    <3> SUFFICES ASSUME NEW t \in Sources
                 PROVE  /\ Len(past[t]) <= Len(past'[t])
                        /\ \A i \in 1 .. Len(past[t]) : past'[t][i] = past[t][i]
      OBVIOUS
    <3>1. past[t] \in Seq(Contents) /\ Len(past[t]) \in Nat
      BY LiveContent
    <3>2. CASE t = s
      <4>1. past'[t] = Append(past[t], [Live(s) EXCEPT ![o] = r])
        BY <2>2, <3>2 DEF Typed, TypeOK
      <4> QED
        BY <3>1, <4>1
    <3>3. CASE t # s
      BY <2>2, <3>1, <3>3 DEF Typed, TypeOK
    <3> QED
      BY <3>2, <3>3
  <2> QED
    BY <2>1, <2>3
<1>5. CASE UNCHANGED vars
  BY <1>0, <1>5 DEF vars, memory, history
<1> QED
  BY <1>1, <1>2, <1>3, <1>4, <1>5 DEF Next, NodeStep

\* What the deduplication would drop has been handed off for some source of the adapter.
SeenInv ==
  \A s \in Sources, o \in Objects, v \in Nat, type \in {"created", "updated"} :
    <<AdapterOf[s], o, v, type>> \in seen => HandedFor(s, o, v)

\* Every revision of the content c of source s has been handed off for its adapter.
Done(s, c) == \A o \in Present(c) : HandedFor(s, o, c[o])

\* The checkpoints of source s from which an observation may start, now or after a crash.
Checkpoints(s) == {cursor[s], given[s]} \cup (IF task.src = s THEN {task.before} ELSE {})

\* What no observer reports again, from whichever of these checkpoints, was handed off.
HandedInv ==
  \A s \in Sources :
    IF s \in Structured THEN \A p \in Passed(s) : HandedFor(s, p[1], p[2])
    ELSE \A ck \in Checkpoints(s) : ck # 0 => Done(s, past[s][ck])

\* An event that was handed off stays so.
LEMMA HandedForGrows ==
  ASSUME handed \subseteq handed', NEW s, NEW o, NEW v, HandedFor(s, o, v)
  PROVE  HandedFor(s, o, v)'
  BY DEF HandedFor

\* A source observed by its listing starts from a content that was handed off.
LEMMA BaselineDone ==
  ASSUME Typed, HandedInv, NEW s \in Sources \ Structured, NEW ck \in CheckpointIn(s)
  PROVE  Done(s, Baseline(s, ck))
<1>1. Done(s, Empty)
  BY DEF Done, Empty, Present
<1> QED
  BY <1>1 DEF HandedInv, Baseline, CheckpointIn, Checkpoints

\* The version of an object that is there, in an event of it.
LEMMA VersionOf ==
  ASSUME Typed, NEW s \in Sources, NEW old \in Contents, NEW type \in ChangeType,
         NEW e \in Observed(s, old, type)
  PROVE  /\ e \in Events /\ e.type = type /\ e.obj \in ChangedObjects(s, old, type)
         /\ s \in Structured => e.ver = Len(cards[s]) + 1
         /\ s \notin Structured /\ type # "deleted" => e.ver = Live(s)[e.obj]
<1>1. PICK o \in ChangedObjects(s, old, type) :
        e = [obj |-> o, ver |-> Version(s, old, o), type |-> type]
  BY DEF Observed
<1>2. e \in Events
  BY ObservedEvents
<1>3. type # "deleted" => o \in Present(Live(s))
  BY DEF ChangedObjects, ChangeType
<1> QED
  BY <1>1, <1>2, <1>3 DEF Version, CheckpointOut, Present

\* What an observation does to the memory of the process and of its caller.
Observes(s, ck) ==
  /\ task' = [src |-> s, left |-> HandedOff(s, Baseline(s, ck)), before |-> given[s]]
  /\ seen' = seen \cup {Key(s, e) : e \in Fresh(s, Baseline(s, ck))}
  /\ offered' = offered \cup {Key(s, e) : e \in Fresh(s, Baseline(s, ck))}
  /\ handed' = handed \cup {EventId(s, e) : e \in Fresh(s, Baseline(s, ck))}
  /\ cards' = IF s \in Structured THEN [cards EXCEPT ![s] = Append(cards[s], Live(s))] ELSE cards
  /\ cursor' = [cursor EXCEPT ![s] = CheckpointOut(s)]
  /\ given' = [given EXCEPT ![s] = CheckpointOut(s)]
  /\ UNCHANGED past
  /\ ToSet(task'.left) = Fresh(s, Baseline(s, ck))

LEMMA ObserveObserves ==
  ASSUME Typed, NEW s \in Sources, Observe(s)
  PROVE  \E ck \in CheckpointIn(s) : Observes(s, ck)
<1> DEFINE events(ck) == HandedOff(s, Baseline(s, ck))
<1>1. PICK ck \in CheckpointIn(s) :
        /\ task' = [src |-> s, left |-> events(ck), before |-> given[s]]
        /\ seen' = seen \cup Marked(s, events(ck))
        /\ offered' = offered \cup {Key(s, e) : e \in ToSet(events(ck))}
        /\ handed' = handed \cup {EventId(s, e) : e \in ToSet(events(ck))}
  BY DEF Observe
<1>2. Baseline(s, ck) \in Contents
  BY CheckpointInRange, BaselineContent
<1>3. ToSet(events(ck)) = Fresh(s, Baseline(s, ck))
  BY <1>2, HandedOffEvents
<1>4. task'.left = events(ck)
  BY <1>1
<1>5. Marked(s, events(ck)) = {Key(s, e) : e \in Fresh(s, Baseline(s, ck))}
  BY <1>3 DEF Marked
<1>6. /\ cards' = IF s \in Structured THEN [cards EXCEPT ![s] = Append(cards[s], Live(s))] ELSE cards
      /\ cursor' = [cursor EXCEPT ![s] = CheckpointOut(s)]
      /\ given' = [given EXCEPT ![s] = CheckpointOut(s)]
      /\ UNCHANGED past
  BY DEF Observe, Request
<1> HIDE DEF events
<1>7. Observes(s, ck)
  <2>1. /\ ToSet(task'.left) = Fresh(s, Baseline(s, ck))
        /\ seen' = seen \cup {Key(s, e) : e \in Fresh(s, Baseline(s, ck))}
        /\ offered' = offered \cup {Key(s, e) : e \in Fresh(s, Baseline(s, ck))}
        /\ handed' = handed \cup {EventId(s, e) : e \in Fresh(s, Baseline(s, ck))}
    BY <1>1, <1>3, <1>4, <1>5
  <2> QED
    BY <1>1, <1>6, <2>1 DEF Observes, events
<1> QED
  BY <1>7

\* After an observation whatever differs from the baseline has been handed off, in the
\* version that an event of it bears.
LEMMA ObserveHands ==
  ASSUME Typed, SeenInv, NEW s \in Sources, NEW ck \in CheckpointIn(s), Observes(s, ck),
         NEW o \in Present(Live(s)), Live(s)[o] # Baseline(s, ck)[o],
         NEW v, v = IF s \in Structured THEN Len(cards[s]) + 1 ELSE Live(s)[o]
  PROVE  HandedFor(s, o, v)'
<1> DEFINE old == Baseline(s, ck)
<1>0. old \in Contents
  BY CheckpointInRange, BaselineContent
<1>1. o \in Objects /\ handed \subseteq handed'
  BY DEF Present, Observes
<1>2. PICK type \in {"created", "updated"} : o \in ChangedObjects(s, old, type)
  BY DEF ChangedObjects
<1> DEFINE e == [obj |-> o, ver |-> Version(s, old, o), type |-> type]
<1>3. e \in Observed(s, old, type) /\ type \in ChangeType
  BY <1>2 DEF Observed, ChangeType
<1>4. e.ver \in Nat /\ e.ver = v /\ e.obj = o /\ e.type = type
  BY <1>0, <1>3, VersionOf DEF Events
<1> HIDE DEF e
<1>5. CASE Key(s, e) \notin seen
  <2>1. e \in Fresh(s, old)
    BY <1>3, <1>5 DEF Fresh
  <2>2. <<s, o, v, type>> \in handed'
    BY <1>4, <2>1 DEF Observes, EventId
  <2> QED
    BY <2>2 DEF HandedFor
<1>6. CASE Key(s, e) \in seen
  <2>1. HandedFor(s, o, v)
    BY <1>1, <1>4, <1>6 DEF SeenInv, Key
  <2> QED
    BY <1>1, <2>1, HandedForGrows
<1> QED
  BY <1>5, <1>6

LEMMA ObserveSeen ==
  ASSUME Typed, SeenInv, NEW s \in Sources, NEW ck \in CheckpointIn(s), Observes(s, ck)
  PROVE  SeenInv'
<1> SUFFICES ASSUME NEW t \in Sources, NEW o \in Objects, NEW v \in Nat,
                    NEW type \in {"created", "updated"},
                    <<AdapterOf[t], o, v, type>> \in seen'
             PROVE  HandedFor(t, o, v)'
  BY DEF SeenInv
<1>1. CASE <<AdapterOf[t], o, v, type>> \in seen
  <2>1. HandedFor(t, o, v) /\ handed \subseteq handed'
    BY <1>1 DEF SeenInv, Observes
  <2> QED
    BY <2>1, HandedForGrows
<1>2. CASE <<AdapterOf[t], o, v, type>> \notin seen
  <2>1. PICK e \in Fresh(s, Baseline(s, ck)) : <<AdapterOf[t], o, v, type>> = Key(s, e)
    BY <1>2 DEF Observes
  <2>2. AdapterOf[s] = AdapterOf[t] /\ EventId(s, e) = <<s, o, v, type>>
    BY <2>1 DEF Key, EventId
  <2>3. EventId(s, e) \in handed'
    BY DEF Observes
  <2> QED
    BY <2>2, <2>3 DEF HandedFor
<1> QED
  BY <1>1, <1>2

\* A new card records what differs from the card before it, or from nothing.
LEMMA RecordedNext ==
  ASSUME NEW c \in Seq(Contents), NEW new \in Contents, NEW o \in Objects,
         NEW v, <<o, v>> \in Recorded(Append(c, new))
  PROVE  \/ <<o, v>> \in Recorded(c)
         \/ /\ v = Len(c) + 1 /\ o \in Present(new)
            /\ new[o] # (IF c = <<>> THEN Empty ELSE Last(c))[o]
<1> DEFINE card(d, w) == IF w = 0 THEN Empty ELSE d[w]
           both == Append(c, new)
<1>1. /\ Len(c) \in Nat /\ DOMAIN c = 1 .. Len(c) /\ DOMAIN both = 1 .. Len(c) + 1
      /\ both[Len(c) + 1] = new /\ \A w \in 1 .. Len(c) : both[w] = c[w]
  OBVIOUS
<1>2. v \in 1 .. Len(c) + 1 /\ card(both, v)[o] \notin {0, card(both, v - 1)[o]}
  BY <1>1 DEF Recorded
<1> HIDE DEF both
<1>3. CASE v \in 1 .. Len(c)
  <2>1. card(both, v) = card(c, v) /\ card(both, v - 1) = card(c, v - 1)
    BY <1>1, <1>3
  <2> QED
    BY <1>1, <1>2, <1>3, <2>1 DEF Recorded
<1>4. CASE v = Len(c) + 1
  <2>1. new[o] # 0 /\ new[o] \in Nat /\ o \in Present(new)
    BY <1>1, <1>2, <1>4, PipelineAssumption DEF Present, Contents
  <2>2. card(both, v - 1) = IF c = <<>> THEN Empty ELSE Last(c)
    <3>1. CASE c = <<>>
      BY <1>1, <1>4, <3>1
    <3>2. CASE c # <<>>
      BY <1>1, <1>4, <3>2 DEF Last
    <3> QED
      BY <3>1, <3>2
  <2> QED
    BY <1>1, <1>2, <1>4, <2>1, <2>2
<1> QED
  BY <1>2, <1>1, <1>3, <1>4

LEMMA ObserveHanded ==
  ASSUME Typed, SeenInv, HandedInv, NEW s \in Sources, NEW ck \in CheckpointIn(s), Observes(s, ck)
  PROVE  HandedInv'
<1>1. handed \subseteq handed' /\ UNCHANGED past
  BY DEF Observes
<1> SUFFICES ASSUME NEW t \in Sources
             PROVE  (IF t \in Structured THEN \A p \in Passed(t) : HandedFor(t, p[1], p[2])
                     ELSE \A c \in Checkpoints(t) : c # 0 => Done(t, past[t][c]))'
  BY DEF HandedInv
<1>2. CASE t \in Structured
  <2>1. Passed(t) = Recorded(cards[t]) /\ Passed(t)' = Recorded(cards'[t])
    BY <1>2 DEF Passed
  <2> SUFFICES ASSUME NEW o \in Objects, NEW v, <<o, v>> \in Recorded(cards'[t])
               PROVE  HandedFor(t, o, v)'
    BY <1>2, <2>1 DEF Recorded
  <2>2. CASE <<o, v>> \in Recorded(cards[t])
    <3>1. HandedFor(t, o, v)
      BY <1>2, <2>1, <2>2 DEF HandedInv
    <3> QED
      BY <1>1, <3>1, HandedForGrows
  <2>3. CASE t # s
    <3>1. cards'[t] = cards[t]
      BY <2>3 DEF Observes, Typed, TypeOK
    <3> QED
      BY <2>2, <3>1
  <2>4. CASE t = s /\ <<o, v>> \notin Recorded(cards[s])
    <3>1. cards'[s] = Append(cards[s], Live(s)) /\ Live(s) \in Contents /\ cards[s] \in Seq(Contents)
      BY <1>2, <2>4, LiveContent, CardContent DEF Observes, Typed, TypeOK
    <3>2. /\ v = Len(cards[s]) + 1 /\ o \in Present(Live(s))
          /\ Live(s)[o] # (IF cards[s] = <<>> THEN Empty ELSE Last(cards[s]))[o]
      BY <2>4, <3>1, RecordedNext
    <3>3. Live(s)[o] # Baseline(s, ck)[o]
      BY <1>2, <2>4, <3>2 DEF Baseline
    <3> QED
      BY <1>2, <2>4, <3>2, <3>3, ObserveHands
  <2> QED
    BY <2>2, <2>3, <2>4
<1>3. CASE t \notin Structured /\ t = s
  <2>1. cursor'[s] = Len(past[s]) /\ given'[s] = Len(past[s])
    BY <1>3 DEF Observes, CheckpointOut, Typed
  <2>2. task'.src = s /\ task'.before = given[s]
    BY DEF Observes
  <2>3. Checkpoints(s)' = {Len(past[s]), given[s]}
    BY <2>1, <2>2 DEF Checkpoints
  <2>4. past[s][Len(past[s])] = Live(s) /\ Live(s) \in Contents
    BY LiveContent
  <2>5. Done(s, Baseline(s, ck)) /\ Baseline(s, ck) \in Contents
    BY <1>3, BaselineDone, CheckpointInRange, BaselineContent
  <2>6. ASSUME NEW o \in Present(Live(s)) PROVE HandedFor(s, o, Live(s)[o])'
    <3>1. o \in Objects /\ Live(s)' = Live(s)
      BY <1>1 DEF Present, Live
    <3> DEFINE v == Live(s)[o]
    <3>2. CASE v # Baseline(s, ck)[o]
      <4>1. \A w : w = v => HandedFor(s, o, w)'
        BY <1>3, <3>2, ObserveHands
      <4> QED
        BY <3>1, <4>1 DEF HandedFor
    <3>3. CASE v = Baseline(s, ck)[o]
      <4>1. o \in Present(Baseline(s, ck))
        BY <3>1, <3>3 DEF Present
      <4>2. HandedFor(s, o, v)
        BY <2>5, <3>3, <4>1 DEF Done
      <4> QED
        BY <1>1, <3>1, <4>2 DEF HandedFor
    <3> QED
      BY <3>2, <3>3
  <2>7. given[s] # 0 => Done(s, past[s][given[s]])
    BY <1>3 DEF HandedInv, Checkpoints
  <2>8. ASSUME NEW c \in Checkpoints(s)', c # 0 PROVE Done(s, past[s][c])'
    <3>1. CASE c = Len(past[s])
      <4>1. past'[s][c] = Live(s) /\ Live(s)' = Live(s)
        BY <1>1, <2>4, <3>1 DEF Live
      <4> QED
        BY <2>6, <4>1 DEF Done, HandedFor
    <3>2. CASE c = given[s]
      BY <1>1, <2>7, <2>8, <3>2 DEF Done, HandedFor
    <3> QED
      BY <2>3, <2>8, <3>1, <3>2
  <2> QED
    BY <1>3, <2>8
<1>4. CASE t \notin Structured /\ t # s
  <2>1. cursor'[t] = cursor[t] /\ given'[t] = given[t] /\ task'.src = s
    BY <1>4 DEF Observes, Typed
  <2>2. Checkpoints(t)' \subseteq Checkpoints(t)
    BY <1>4, <2>1 DEF Checkpoints
  <2>3. \A c \in Checkpoints(t) : c # 0 => Done(t, past[t][c])
    BY <1>4 DEF HandedInv
  <2>4. \A c \in Checkpoints(t)' : c # 0 => Done(t, past[t][c])'
    BY <1>1, <2>2, <2>3 DEF Done, HandedFor
  <2> QED
    BY <1>4, <2>4
<1> QED
  BY <1>2, <1>3, <1>4

LEMMA QuietHanded ==
  ASSUME Typed, SeenInv, HandedInv, [Next]_vars, ~Crash, \A s \in Sources : ~Observe(s)
  PROVE  SeenInv' /\ HandedInv'
<1>1. /\ UNCHANGED <<cursor, seen, cards, given, handed>>
      /\ task'.src = task.src /\ task'.before = task.before
      /\ \A s \in Sources : /\ Len(past[s]) <= Len(past'[s])
                            /\ \A i \in 1 .. Len(past[s]) : past'[s][i] = past[s][i]
  BY NothingHanded
<1>2. SeenInv'
  BY <1>1 DEF SeenInv, HandedFor
<1>3. ASSUME NEW s \in Sources, s \notin Structured, NEW c \in Checkpoints(s), c # 0
      PROVE  past'[s][c] = past[s][c]
  <2>1. cursor[s] \in Nat /\ given[s] \in Nat /\ task.before \in Nat /\ Len(past[s]) \in Nat
    BY LiveContent DEF Typed, TypeOK
  <2>2. cursor[s] <= Len(past[s]) /\ given[s] <= Len(past[s])
    BY <1>3, <2>1 DEF Typed, TypeOK
  <2>3. task.src = s => task.before <= Len(past[s])
    BY <1>3 DEF Typed
  <2>4. c \in 1 .. Len(past[s])
    BY <1>3, <2>1, <2>2, <2>3 DEF Checkpoints
  <2> QED
    BY <1>1, <2>4
<1>4. \A s \in Sources : Checkpoints(s)' = Checkpoints(s)
  BY <1>1 DEF Checkpoints
<1>5. ASSUME NEW s \in Sources
      PROVE  (IF s \in Structured THEN \A p \in Passed(s) : HandedFor(s, p[1], p[2])
              ELSE \A ck \in Checkpoints(s) : ck # 0 => Done(s, past[s][ck]))'
  <2>1. CASE s \in Structured
    BY <1>1, <2>1 DEF HandedInv, Passed, HandedFor
  <2>2. CASE s \notin Structured
    <3>1. \A ck \in Checkpoints(s) : ck # 0 => Done(s, past[s][ck])
      BY <2>2 DEF HandedInv
    <3>2. \A ck \in Checkpoints(s) : ck # 0 => past'[s][ck] = past[s][ck]
      BY <1>3, <2>2
    <3>3. \A c : Done(s, c) => \A o \in Present(c) : HandedFor(s, o, c[o])'
      BY <1>1 DEF Done, HandedFor
    <3>4. \A ck \in Checkpoints(s)' : ck # 0 => Done(s, past[s][ck])'
      BY <1>4, <3>1, <3>2, <3>3 DEF Done
    <3> QED
      BY <2>2, <3>4
  <2> QED
    BY <2>1, <2>2
<1> QED
  BY <1>2, <1>5 DEF HandedInv

LEMMA CrashHanded == Typed /\ HandedInv /\ Crash => SeenInv' /\ HandedInv'
<1> SUFFICES ASSUME Typed, HandedInv, Crash PROVE SeenInv' /\ HandedInv'
  OBVIOUS
<1>1. /\ given' = IF task.left = <<>> THEN given ELSE [given EXCEPT ![Src] = task.before]
      /\ cursor' = [s \in Sources |-> 0] /\ cards' = [s \in Sources |-> <<>>] /\ seen' = {}
      /\ task' = [task EXCEPT !.left = <<>>]
      /\ UNCHANGED <<past, handed>>
  BY DEF Crash
<1>2. task'.src = task.src /\ task'.before = task.before
  BY <1>1 DEF Typed, TypeOK
<1>3. SeenInv'
  BY <1>1 DEF SeenInv
<1>4. ASSUME NEW s \in Sources PROVE Checkpoints(s)' \subseteq Checkpoints(s) \cup {0}
  <2>1. cursor'[s] = 0
    BY <1>1
  <2>2. given'[s] = given[s] \/ (task.src = s /\ given'[s] = task.before)
    BY <1>1 DEF Typed, Src
  <2> QED
    BY <1>2, <2>1, <2>2 DEF Checkpoints
<1>5. ASSUME NEW s \in Sources
      PROVE  (IF s \in Structured THEN \A p \in Passed(s) : HandedFor(s, p[1], p[2])
              ELSE \A ck \in Checkpoints(s) : ck # 0 => Done(s, past[s][ck]))'
  <2>1. CASE s \in Structured
    BY <1>1, <2>1 DEF Passed, Recorded
  <2>2. CASE s \notin Structured
    <3>1. \A ck \in Checkpoints(s) : ck # 0 => Done(s, past[s][ck])
      BY <2>2 DEF HandedInv
    <3>2. \A ck \in Checkpoints(s)' : ck # 0 => Done(s, past[s][ck])'
      BY <1>1, <1>4, <3>1 DEF Done, HandedFor
    <3> QED
      BY <2>2, <3>2
  <2> QED
    BY <2>1, <2>2
<1> QED
  BY <1>3, <1>5 DEF HandedInv

-----------------------------------------------------------------------------
(* Theorems *)

IInv == Typed /\ OutcomeInv /\ offered \subseteq seen

\* The inductive invariant: types, what a run has to show for itself, and that what was
\* offered has been marked.
THEOREM Inductive == Spec => []IInv
<1>1. Init => IInv
  <2> SUFFICES ASSUME Init PROVE IInv
    OBVIOUS
  <2>1. OutcomeInv /\ offered \subseteq seen
    BY DEF Init, OutcomeInv, RunInv, SuccessIsDelivered
  <2> QED
    BY <2>1, InitTyped DEF IInv
<1>2. IInv /\ [Next]_vars => IInv'
  <2> SUFFICES ASSUME IInv, [Next]_vars PROVE IInv'
    OBVIOUS
  <2>1. Typed' /\ OutcomeInv'
    BY NextTyped, NextOutcome DEF IInv
  <2>2. (offered \subseteq seen)'
    <3>1. CASE Crash
      BY <3>1 DEF Crash
    <3>2. ASSUME NEW s \in Sources, Observe(s) PROVE (offered \subseteq seen)'
      <4>1. PICK ck \in CheckpointIn(s) : Observes(s, ck)
        BY <3>2, ObserveObserves DEF IInv
      <4> QED
        BY <4>1 DEF IInv, Observes
    <3>3. CASE ~Crash /\ \A s \in Sources : ~Observe(s)
      BY <3>3, NothingHanded DEF IInv
    <3> QED
      BY <3>1, <3>2, <3>3
  <2> QED
    BY <2>1, <2>2 DEF IInv
<1> QED
  BY <1>1, <1>2, PTL DEF Spec

\* Sources, cursors, cards, the state of a run and its bounds have their types; a cursor
\* never names a content or a card that there has not been.
THEOREM TypeCorrect == Spec => []TypeOK
<1>1. IInv => TypeOK
  BY DEF IInv, Typed
<1> QED
  BY <1>1, Inductive, PTL

\* However many nodes fail and in whatever order the sources change: a success in an
\* outcome file is of a whole document that the SDK has, sensitive text is not let through
\* without a warning, and a run that names a snapshot has stored all of it.
THEOREM HonestOutcomes == Spec => []OutcomesAreHonest
<1>1. IInv => OutcomesAreHonest
  <2> SUFFICES ASSUME IInv PROVE OutcomesAreHonest
    OBVIOUS
  <2>1. SuccessIsDelivered
    BY DEF IInv, OutcomeInv
  <2>2. LeaksAreWarnedOf
    BY DEF IInv, OutcomeInv, RunInv, LeaksAreWarnedOf, Document
  <2>3. SnapshotsAreWhole
    BY DEF IInv, OutcomeInv, RunInv, SnapshotsAreWhole
  <2> QED
    BY <2>1, <2>2, <2>3 DEF OutcomesAreHonest
<1> QED
  BY <1>1, Inductive, PTL

\* No change event is handed off twice by one process, whatever checkpoints its callers
\* start from and however many sources share an adapter.
THEOREM HandedOnce == Spec => NeverHandedTwice
<1>1. IInv /\ [Next]_vars =>
        (task'.left # task.left /\ calls' # calls =>
           \A e \in ToSet(task'.left) : Key(task'.src, e) \notin offered)
  <2> SUFFICES ASSUME IInv, [Next]_vars, task'.left # task.left, calls' # calls
               PROVE  \A e \in ToSet(task'.left) : Key(task'.src, e) \notin offered
    OBVIOUS
  <2>1. ~Crash
    BY DEF Crash
  <2>2. PICK s \in Sources : Observe(s)
    BY <2>1, NothingHanded DEF IInv
  <2>3. PICK ck \in CheckpointIn(s) : Observes(s, ck)
    BY <2>2, ObserveObserves DEF IInv
  <2>4. ToSet(task'.left) = Fresh(s, Baseline(s, ck)) /\ task'.src = s
    BY <2>3 DEF Observes
  <2>5. \A e \in Fresh(s, Baseline(s, ck)) : Key(s, e) \notin seen
    BY DEF Fresh
  <2> QED
    BY <2>4, <2>5 DEF IInv
<1>2. IInv /\ [Next]_vars =>
        [task'.left # task.left /\ calls' # calls =>
           \A e \in ToSet(task'.left) : Key(task'.src, e) \notin offered]_vars
  BY <1>1
<1> QED
  BY <1>2, Inductive, PTL DEF Spec, NeverHandedTwice

\* Whatever a cursor or card will not report again has been handed off for the adapter of
\* its source, through any crashes, modes and checkpoints of callers and however many
\* sources share that adapter.
THEOREM CursorFollows == Spec => []CursorFollowsHandoffs
<1> DEFINE J == SeenInv /\ HandedInv
<1>1. Init => J
  <2> SUFFICES ASSUME Init PROVE J
    OBVIOUS
  <2>1. SeenInv
    BY DEF Init, SeenInv
  <2>2. HandedInv
    BY DEF Init, HandedInv, Checkpoints, Passed, Recorded
  <2> QED
    BY <2>1, <2>2
<1>2. IInv /\ J /\ [Next]_vars => J'
  <2> SUFFICES ASSUME IInv, J, [Next]_vars PROVE J'
    OBVIOUS
  <2>1. Typed
    BY DEF IInv
  <2>2. CASE Crash
    BY <2>1, <2>2, CrashHanded
  <2>3. ASSUME NEW s \in Sources, Observe(s) PROVE J'
    <3>1. PICK ck \in CheckpointIn(s) : Observes(s, ck)
      BY <2>1, <2>3, ObserveObserves
    <3> QED
      BY <2>1, <3>1, ObserveSeen, ObserveHanded
  <2>4. CASE ~Crash /\ \A s \in Sources : ~Observe(s)
    BY <2>1, <2>4, QuietHanded
  <2> QED
    BY <2>2, <2>3, <2>4
<1>3. IInv /\ J => CursorFollowsHandoffs
  <2> SUFFICES ASSUME IInv, J, NEW s \in Sources, NEW p \in Passed(s)
               PROVE  HandedFor(s, p[1], p[2])
    BY DEF CursorFollowsHandoffs
  <2>1. CASE s \in Structured
    BY <2>1 DEF HandedInv
  <2>2. CASE s \notin Structured
    <3>1. Done(s, Baseline(s, cursor[s]))
      BY <2>2, BaselineDone DEF IInv, CheckpointIn
    <3> QED
      BY <2>2, <3>1 DEF Passed, Done
  <2> QED
    BY <2>1, <2>2
<1> HIDE DEF J
<1> QED
  BY <1>1, <1>2, <1>3, Inductive, PTL DEF Spec
=============================================================================
