------------------------- MODULE ContextGraphProofs -------------------------
(***************************************************************************)
(* Proofs about ContextGraph, for any identities, payloads and batches and *)
(* any number of versions, seeds and hops.                                 *)
(*                                                                         *)
(* The rows of the graph follow from an invariant of the builds: an edge   *)
(* has the ends that its relationship names, so each manifest picks its    *)
(* own (GraphInv).  The expansion is a loop over these rows.  What it      *)
(* computes is found by induction on the hops and on the rounds, which is  *)
(* the pigeonhole principle here (Induction): a set that is closed under   *)
(* the successor and lacks a number could be shifted into itself less 0.   *)
(***************************************************************************)
EXTENDS ContextGraph, FiniteSetTheorems, TLAPS

-----------------------------------------------------------------------------
(* Induction and recursive functions *)

\* What holds of 0 and passes from each number to the next holds up to n.
LEMMA Induction ==
  ASSUME NEW n \in Nat, NEW S, 0 \in S,
         \A k \in 0 .. n : k \in S /\ k < n => k + 1 \in S
  PROVE  0 .. n \subseteq S
<1> SUFFICES ASSUME NEW gap \in 0 .. n, gap \notin S PROVE FALSE
  OBVIOUS
<1> DEFINE below   == {k \in 0 .. n : k \in S /\ k < gap}
           above0  == below \ {0}
           shift   == [k \in below |-> k + 1]
<1>1. 0 \in below
  <2>1. gap \in Nat /\ gap # 0
    OBVIOUS
  <2> QED
    BY <2>1
<1>2. IsFiniteSet(below) /\ IsFiniteSet(above0)
  <2>1. IsFiniteSet(0 .. n)
    BY FS_Interval
  <2>2. below \in SUBSET (0 .. n) /\ above0 \in SUBSET (0 .. n)
    OBVIOUS
  <2> QED
    BY <2>1, <2>2, FS_Subset
<1>3. \A k \in below : k + 1 \in above0
  <2> SUFFICES ASSUME NEW k \in below PROVE k + 1 \in above0
    OBVIOUS
  <2>1. k \in Nat /\ k \in S /\ k < gap /\ gap \in Nat /\ gap <= n
    OBVIOUS
  <2>2. k + 1 \in S
    BY <2>1
  <2>3. k + 1 # gap
    BY <2>2
  <2>4. k + 1 \in 0 .. n /\ k + 1 < gap /\ k + 1 # 0
    BY <2>1, <2>3
  <2> QED
    BY <2>2, <2>4
<1>4. shift \in Injection(below, above0)
  <2>1. shift \in [below -> above0]
    BY <1>3
  <2>2. \A j, k \in below : j + 1 = k + 1 => j = k
    OBVIOUS
  <2> QED
    BY <2>1, <2>2 DEF Injection, IsInjective
<1>5. Cardinality(above0) = Cardinality(below) - 1 /\ Cardinality(below) \in Nat
  BY <1>1, <1>2, FS_RemoveElement, FS_CardinalityType
<1> HIDE DEF below, above0, shift
<1>6. Cardinality(below) <= Cardinality(above0)
  BY <1>2, <1>4, FS_Injection
<1> QED
  BY <1>5, <1>6

\* What a recursion over 0 .. n from base by step defines, a function to D.
Recursive(n, D, base, step) ==
  {f \in [0 .. n -> D] : \A k \in 0 .. n : f[k] = IF k = 0 THEN base ELSE step[f[k - 1]]}

LEMMA Recursion ==
  ASSUME NEW n \in Nat, NEW D, NEW base \in D, NEW step \in [D -> D]
  PROVE  Recursive(n, D, base, step) # {}
<1> DEFINE Begun(k, f) == f[0] = base /\ \A j \in 1 .. k : f[j] = step[f[j - 1]]
           S == {k \in 0 .. n : \E f \in [0 .. k -> D] : Begun(k, f)}
<1>1. 0 \in S
  <2> DEFINE f == [k \in 0 .. 0 |-> base]
  <2>1. f \in [0 .. 0 -> D] /\ Begun(0, f)
    OBVIOUS
  <2>2. 0 \in 0 .. n
    OBVIOUS
  <2> HIDE DEF f, Begun
  <2> QED
    BY <2>1, <2>2
<1>2. ASSUME NEW k \in 0 .. n, k \in S, k < n PROVE k + 1 \in S
  <2>1. PICK f \in [0 .. k -> D] : Begun(k, f)
    BY <1>2
  <2> DEFINE g == [j \in 0 .. k + 1 |-> IF j <= k THEN f[j] ELSE step[f[k]]]
  <2>2. k \in Nat /\ k + 1 \in 0 .. n /\ f[k] \in D
    BY <1>2
  <2>3. g \in [0 .. k + 1 -> D]
    BY <2>2
  <2>4. g[0] = base
    BY <2>1, <2>2
  <2>5. ASSUME NEW j \in 1 .. k + 1 PROVE g[j] = step[g[j - 1]]
    <3>1. g[j - 1] = f[j - 1]
      BY <2>2
    <3>2. CASE j <= k
      <4>1. j \in 1 .. k /\ g[j] = f[j]
        BY <2>2, <3>2
      <4> HIDE DEF g
      <4> QED
        BY <2>1, <3>1, <4>1
    <3>3. CASE j = k + 1
      BY <2>2, <3>1, <3>3
    <3> QED
      BY <2>2, <3>2, <3>3
  <2> HIDE DEF g
  <2>6. Begun(k + 1, g)
    BY <2>4, <2>5
  <2> QED
    BY <2>2, <2>3, <2>6
<1>3. n \in S
  <2> HIDE DEF S
  <2>1. 0 .. n \subseteq S
    BY <1>1, <1>2, Induction
  <2> QED
    BY <2>1
<1>4. PICK f \in [0 .. n -> D] : Begun(n, f)
  BY <1>3
<1>5. \A k \in 0 .. n : f[k] = IF k = 0 THEN base ELSE step[f[k - 1]]
  BY <1>4
<1> QED
  BY <1>5 DEF Recursive
-----------------------------------------------------------------------------
(* Entities near a key *)

Chain(m, keys, len, path) ==
  /\ path \in [1 .. len -> OfKind(m, "ENTITY")]
  /\ KeyOf[path[1].identity] \in keys
  /\ \A k \in 1 .. len - 1 : Linked(m, path[k], path[k + 1])

LEMMA NearByChain ==
  ASSUME NEW m, NEW keys, NEW n \in Int
  PROVE  \A a : a \in Near(m, keys, n) <=>
           \E len \in 1 .. n + 1 : \E path : Chain(m, keys, len, path) /\ path[len] = a
<1> TAKE a
<1>1. ASSUME a \in Near(m, keys, n)
      PROVE  \E len \in 1 .. n + 1 : \E path : Chain(m, keys, len, path) /\ path[len] = a
  BY <1>1 DEF Near, Chain
<1>2. ASSUME NEW len \in 1 .. n + 1, NEW path, Chain(m, keys, len, path), path[len] = a
      PROVE  a \in Near(m, keys, n)
  <2>1. path \in [1 .. len -> OfKind(m, "ENTITY")] /\ len \in 1 .. len
    BY <1>2 DEF Chain
  <2>2. a \in OfKind(m, "ENTITY")
    BY <1>2, <2>1
  <2> QED
    BY <1>2, <2>1, <2>2 DEF Near, Chain
<1> QED
  BY <1>1, <1>2

LEMMA NearNone ==
  ASSUME NEW m, NEW keys
  PROVE  Near(m, keys, 0 - 1) = {}
<1>1. 0 - 1 \in Int /\ 1 .. (0 - 1) + 1 = {}
  OBVIOUS
<1> QED
  BY <1>1, NearByChain

\* No hop takes a walk no further than the entities with one of the keys.
LEMMA NearStart ==
  ASSUME NEW m, NEW keys
  PROVE  Near(m, keys, 0) = {a \in OfKind(m, "ENTITY") : KeyOf[a.identity] \in keys}
<1>1. ASSUME NEW a \in Near(m, keys, 0) PROVE a \in OfKind(m, "ENTITY") /\ KeyOf[a.identity] \in keys
  <2>1. PICK len \in 1 .. 0 + 1 : \E path : Chain(m, keys, len, path) /\ path[len] = a
    BY <1>1, NearByChain
  <2>2. len = 1
    OBVIOUS
  <2> QED
    BY <2>1, <2>2 DEF Chain
<1>2. ASSUME NEW a \in OfKind(m, "ENTITY"), KeyOf[a.identity] \in keys PROVE a \in Near(m, keys, 0)
  <2> DEFINE path == [k \in 1 .. 1 |-> a]
  <2>1. Chain(m, keys, 1, path) /\ path[1] = a /\ 1 \in 1 .. 0 + 1
    BY <1>2 DEF Chain
  <2> HIDE DEF path
  <2> QED
    BY <2>1, NearByChain
<1> QED
  BY <1>1, <1>2

\* Each further hop adds what is linked to what was reached before.
LEMMA NearNext ==
  ASSUME NEW m, NEW keys, NEW n \in Nat
  PROVE  Near(m, keys, n + 1) = Near(m, keys, n) \cup
           {b \in OfKind(m, "ENTITY") : \E a \in Near(m, keys, n) : Linked(m, a, b)}
<1>0. n + 1 \in Int /\ n \in Int
  OBVIOUS
<1>1. ASSUME NEW b \in Near(m, keys, n + 1), b \notin Near(m, keys, n)
      PROVE  b \in OfKind(m, "ENTITY") /\ \E a \in Near(m, keys, n) : Linked(m, a, b)
  <2>1. PICK len \in 1 .. (n + 1) + 1 : \E path : Chain(m, keys, len, path) /\ path[len] = b
    BY <1>0, <1>1, NearByChain
  <2>2. PICK path : Chain(m, keys, len, path) /\ path[len] = b
    BY <2>1
  <2>3. len = n + 2
    <3>1. len \notin 1 .. n + 1
      BY <1>0, <1>1, <2>2, NearByChain
    <3> QED
      BY <3>1
  <2> DEFINE short == [k \in 1 .. n + 1 |-> path[k]]
  <2>4. /\ path \in [1 .. n + 2 -> OfKind(m, "ENTITY")] /\ KeyOf[path[1].identity] \in keys
        /\ \A k \in 1 .. n + 1 : Linked(m, path[k], path[k + 1])
    BY <2>2, <2>3 DEF Chain
  <2>5. Chain(m, keys, n + 1, short)
    <3>1. short \in [1 .. n + 1 -> OfKind(m, "ENTITY")]
      BY <2>4
    <3>2. short[1] = path[1]
      OBVIOUS
    <3>3. \A k \in 1 .. (n + 1) - 1 : short[k] = path[k] /\ short[k + 1] = path[k + 1] /\ k \in 1 .. n + 1
      OBVIOUS
    <3> HIDE DEF short
    <3> QED
      BY <2>4, <3>1, <3>2, <3>3 DEF Chain
  <2>6. short[n + 1] = path[n + 1] /\ n + 1 \in 1 .. n + 1
    OBVIOUS
  <2>7. path[n + 1] \in Near(m, keys, n)
    <3> HIDE DEF short
    <3> QED
      BY <1>0, <2>5, <2>6, NearByChain
  <2>8. Linked(m, path[n + 1], path[(n + 1) + 1]) /\ (n + 1) + 1 = len
    BY <2>3, <2>4, <2>6
  <2>9. b \in OfKind(m, "ENTITY")
    BY <2>2, <2>3, <2>4
  <2> QED
    BY <2>2, <2>7, <2>8, <2>9
<1>2. ASSUME NEW b \in Near(m, keys, n) PROVE b \in Near(m, keys, n + 1)
  <2>1. 1 .. n + 1 \subseteq 1 .. (n + 1) + 1
    OBVIOUS
  <2> QED
    BY <1>0, <1>2, <2>1, NearByChain
<1>3. ASSUME NEW b \in OfKind(m, "ENTITY"), NEW a \in Near(m, keys, n), Linked(m, a, b)
      PROVE  b \in Near(m, keys, n + 1)
  <2>1. PICK len \in 1 .. n + 1 : \E path : Chain(m, keys, len, path) /\ path[len] = a
    BY <1>0, <1>3, NearByChain
  <2>2. PICK path : Chain(m, keys, len, path) /\ path[len] = a
    BY <2>1
  <2> DEFINE long == [k \in 1 .. len + 1 |-> IF k = len + 1 THEN b ELSE path[k]]
  <2>3. len \in Nat /\ len >= 1 /\ len + 1 \in 1 .. (n + 1) + 1
    BY <2>1
  <2>4. \A k \in 1 .. len : long[k] = path[k] /\ k \in 1 .. len + 1
    BY <2>3
  <2>5. long[len + 1] = b
    BY <2>3
  <2>6. long \in [1 .. len + 1 -> OfKind(m, "ENTITY")]
    <3>1. \A k \in 1 .. len + 1 : k = len + 1 \/ k \in 1 .. len
      BY <2>3
    <3> QED
      BY <1>3, <2>2, <3>1 DEF Chain
  <2> HIDE DEF long
  <2>7. \A k \in 1 .. (len + 1) - 1 : Linked(m, long[k], long[k + 1])
    <3> SUFFICES ASSUME NEW k \in 1 .. len PROVE Linked(m, long[k], long[k + 1])
      BY <2>3
    <3>1. CASE k = len
      BY <1>3, <2>2, <2>4, <2>5, <3>1
    <3>2. CASE k # len
      <4>1. k \in 1 .. len - 1 /\ k + 1 \in 1 .. len
        BY <2>3, <3>2
      <4> QED
        BY <2>2, <2>4, <4>1 DEF Chain
    <3> QED
      BY <3>1, <3>2
  <2>8. Chain(m, keys, len + 1, long)
    <3>1. long[1] = path[1]
      BY <2>3, <2>4
    <3> QED
      BY <2>2, <2>6, <2>7, <3>1 DEF Chain
  <2> QED
    BY <1>0, <2>3, <2>5, <2>8, NearByChain
<1> QED
  BY <1>1, <1>2, <1>3


-----------------------------------------------------------------------------
(* The walk along the edges *)

Functional(m) == \A r, s \in m : r.identity = s.identity => r = s

\* What the rows of the graph tell of manifest m when they are an exact projection.
Projected(m) ==
  /\ m \subseteq Revision /\ Functional(m)
  /\ EntitiesIn(m) = OfKind(m, "ENTITY")
  /\ \A e \in EdgesIn(m) :
       /\ e.by \in OfKind(m, "RELATIONSHIP")
       /\ KeyOf[e.from.identity] = e.by.payload.ends[1]
       /\ KeyOf[e.to.identity] = e.by.payload.ends[2]
  /\ \A r \in OfKind(m, "RELATIONSHIP") : \E e \in EdgesIn(m) : e.by = r

\* The relationships of m that have an end near the keys.
Crossed(m, keys, n) ==
  {r \in OfKind(m, "RELATIONSHIP") :
     \E a \in Near(m, keys, n) : KeyOf[a.identity] \in {r.payload.ends[1], r.payload.ends[2]}}

\* The walk after n hops.
Reached(m, seeds, n) ==
  LET keys == SeedKeys(seeds)
  IN  [visited  |-> Near(m, keys, n),
       frontier |-> Near(m, keys, n) \ Near(m, keys, n - 1),
       selected |-> seeds \cup Crossed(m, keys, n - 1)]

\* A manifest has one entity of a key.
LEMMA OneEntity ==
  ASSUME NEW m \in SUBSET Revision, Functional(m),
         NEW r \in OfKind(m, "ENTITY"), NEW s \in OfKind(m, "ENTITY"),
         KeyOf[r.identity] = KeyOf[s.identity]
  PROVE  r = s
<1>1. r \in m /\ s \in m /\ Kind[r.identity] = "ENTITY" /\ Kind[s.identity] = "ENTITY"
  BY DEF OfKind
<1>2. r.identity \in Identity /\ s.identity \in Identity
  BY <1>1 DEF Revision
<1>3. r.identity = s.identity
  BY <1>1, <1>2, ContextGraphAssumption
<1> QED
  BY <1>1, <1>3 DEF Functional

LEMMA NearIsOfKind ==
  ASSUME NEW m, NEW keys, NEW n
  PROVE  Near(m, keys, n) \subseteq OfKind(m, "ENTITY")
BY DEF Near

LEMMA NearGrows ==
  ASSUME NEW m, NEW keys, NEW n \in Nat
  PROVE  Near(m, keys, n - 1) \subseteq Near(m, keys, n)
<1>1. CASE n = 0
  BY <1>1, NearNone
<1>2. CASE n # 0
  <2>1. n - 1 \in Nat /\ (n - 1) + 1 = n
    BY <1>2
  <2>2. Near(m, keys, (n - 1) + 1) =
          Near(m, keys, n - 1) \cup
            {b \in OfKind(m, "ENTITY") : \E a \in Near(m, keys, n - 1) : Linked(m, a, b)}
    BY <2>1, NearNext
  <2> QED
    BY <2>1, <2>2
<1> QED
  BY <1>1, <1>2

\* The edges that a manifest reads link exactly what its relationships link.
LEMMA LinkedByEdge ==
  ASSUME NEW m, Projected(m), NEW a \in OfKind(m, "ENTITY"), NEW b \in OfKind(m, "ENTITY")
  PROVE  Linked(m, a, b) <=>
           \E e \in EdgesIn(m) : (e.from = a /\ e.to = b) \/ (e.from = b /\ e.to = a)
<1>1. m \in SUBSET Revision /\ Functional(m)
  BY DEF Projected
<1>2. \A e \in EdgesIn(m) : e.from \in OfKind(m, "ENTITY") /\ e.to \in OfKind(m, "ENTITY")
  BY DEF Projected, EdgesIn
<1>3. ASSUME NEW e \in EdgesIn(m), (e.from = a /\ e.to = b) \/ (e.from = b /\ e.to = a)
      PROVE  Linked(m, a, b)
  BY <1>3 DEF Projected, Linked
<1>4. ASSUME Linked(m, a, b)
      PROVE  \E e \in EdgesIn(m) : (e.from = a /\ e.to = b) \/ (e.from = b /\ e.to = a)
  <2>1. PICK r \in OfKind(m, "RELATIONSHIP") :
          {KeyOf[a.identity], KeyOf[b.identity]} = {r.payload.ends[1], r.payload.ends[2]}
    BY <1>4 DEF Linked
  <2>2. PICK e \in EdgesIn(m) : e.by = r
    BY DEF Projected
  <2>3. KeyOf[e.from.identity] = r.payload.ends[1] /\ KeyOf[e.to.identity] = r.payload.ends[2]
    BY <2>2 DEF Projected
  <2>4. \/ KeyOf[e.from.identity] = KeyOf[a.identity] /\ KeyOf[e.to.identity] = KeyOf[b.identity]
        \/ KeyOf[e.from.identity] = KeyOf[b.identity] /\ KeyOf[e.to.identity] = KeyOf[a.identity]
    BY <2>1, <2>3
  <2> QED
    BY <1>1, <1>2, <2>4, OneEntity
<1> QED
  BY <1>3, <1>4

LEMMA StartReached ==
  ASSUME NEW m, Projected(m), NEW seeds
  PROVE  Start(m, seeds) = Reached(m, seeds, 0)
<1> DEFINE keys == SeedKeys(seeds)
<1>1. Near(m, keys, 0 - 1) = {}
  BY NearNone
<1>2. Near(m, keys, 0) = {a \in OfKind(m, "ENTITY") : KeyOf[a.identity] \in keys}
  BY NearStart
<1>3. Crossed(m, keys, 0 - 1) = {}
  BY <1>1 DEF Crossed
<1>4. {r \in EntitiesIn(m) : KeyOf[r.identity] \in keys} = Near(m, keys, 0)
  BY <1>2 DEF Projected
<1> QED
  BY <1>1, <1>3, <1>4 DEF Start, Reached

\* A hop from all that n hops reach, though it follows the last frontier only, reaches
\* all that n + 1 hops reach.
LEMMA HopReaches ==
  ASSUME NEW m, Projected(m), NEW seeds, NEW n \in Nat
  PROVE  Hop(m, Reached(m, seeds, n)) = Reached(m, seeds, n + 1)
<1> DEFINE keys      == SeedKeys(seeds)
           now       == Near(m, keys, n)
           earlier   == Near(m, keys, n - 1)
           next      == Near(m, keys, n + 1)
           touched   == Touched(m, now \ earlier)
           following == {e.from : e \in touched} \cup {e.to : e \in touched}
<1>1. /\ next = now \cup {b \in OfKind(m, "ENTITY") : \E a \in now : Linked(m, a, b)}
      /\ now \subseteq OfKind(m, "ENTITY")
      /\ earlier \subseteq now
  BY NearNext, NearIsOfKind, NearGrows
<1>2. \A e \in touched : /\ e \in EdgesIn(m) /\ (e.from \in now \ earlier \/ e.to \in now \ earlier)
                         /\ e.from \in OfKind(m, "ENTITY") /\ e.to \in OfKind(m, "ENTITY")
  BY DEF Touched, EdgesIn, Projected
<1>3. \A e \in EdgesIn(m) : (e.from \in now \ earlier \/ e.to \in now \ earlier) => e \in touched
  BY DEF Touched
<1> HIDE DEF touched
<1>4. \A a \in earlier, b \in OfKind(m, "ENTITY") : Linked(m, a, b) => b \in now
  <2>1. CASE n = 0
    BY <2>1, NearNone
  <2>2. CASE n # 0
    <3>1. n - 1 \in Nat /\ (n - 1) + 1 = n
      BY <2>2
    <3>2. Near(m, keys, (n - 1) + 1) =
            earlier \cup {b \in OfKind(m, "ENTITY") : \E a \in earlier : Linked(m, a, b)}
      BY <3>1, NearNext
    <3> QED
      BY <3>1, <3>2
  <2> QED
    BY <2>1, <2>2
<1>5. now \cup following = next
  <2> HIDE DEF now, earlier, next, keys
  <2>1. ASSUME NEW e \in touched PROVE e.from \in next /\ e.to \in next
    <3>1. Linked(m, e.from, e.to) /\ Linked(m, e.to, e.from)
      BY <1>2, LinkedByEdge
    <3> QED
      BY <1>1, <1>2, <3>1
  <2>2. ASSUME NEW b \in next, b \notin now PROVE b \in following
    <3>1. PICK a \in now : b \in OfKind(m, "ENTITY") /\ Linked(m, a, b)
      BY <1>1, <2>2
    <3>2. a \notin earlier
      BY <1>4, <2>2, <3>1
    <3>3. PICK e \in EdgesIn(m) : (e.from = a /\ e.to = b) \/ (e.from = b /\ e.to = a)
      BY <1>1, <3>1, LinkedByEdge
    <3>4. e \in touched
      BY <1>3, <3>1, <3>2, <3>3
    <3> QED
      BY <3>3, <3>4
  <2> QED
    BY <1>1, <2>1, <2>2
<1>6. following \ now = next \ now
  BY <1>5
<1>7. Crossed(m, keys, n - 1) \cup {e.by : e \in touched} = Crossed(m, keys, n)
  <2>1. Crossed(m, keys, n - 1) \subseteq Crossed(m, keys, n)
    BY <1>1 DEF Crossed
  <2>2. ASSUME NEW e \in touched PROVE e.by \in Crossed(m, keys, n)
    BY <1>2 DEF Crossed, Projected
  <2>3. ASSUME NEW r \in Crossed(m, keys, n), r \notin Crossed(m, keys, n - 1)
        PROVE  r \in {e.by : e \in touched}
    <3>1. PICK a \in now : KeyOf[a.identity] \in {r.payload.ends[1], r.payload.ends[2]}
      BY DEF Crossed
    <3>2. r \in OfKind(m, "RELATIONSHIP") /\ a \notin earlier
      BY <2>3, <3>1 DEF Crossed
    <3>3. PICK e \in EdgesIn(m) : e.by = r
      BY <3>2 DEF Projected
    <3>4. /\ KeyOf[e.from.identity] = r.payload.ends[1] /\ KeyOf[e.to.identity] = r.payload.ends[2]
          /\ e.from \in OfKind(m, "ENTITY") /\ e.to \in OfKind(m, "ENTITY")
          /\ m \in SUBSET Revision /\ Functional(m)
      BY <3>3 DEF Projected, EdgesIn
    <3>5. e.from = a \/ e.to = a
      <4> HIDE DEF now
      <4> QED
        BY <1>1, <3>1, <3>4, OneEntity
    <3>6. e \in touched
      BY <1>3, <3>1, <3>2, <3>5
    <3> QED
      BY <3>3, <3>6
  <2> QED
    BY <2>1, <2>2, <2>3
<1>8. /\ Reached(m, seeds, n) = [visited |-> now, frontier |-> now \ earlier,
                                selected |-> seeds \cup Crossed(m, keys, n - 1)]
      /\ (n + 1) - 1 = n
      /\ Reached(m, seeds, n + 1) = [visited |-> next, frontier |-> next \ now,
                                    selected |-> seeds \cup Crossed(m, keys, n)]
  BY DEF Reached
<1>9. Hop(m, Reached(m, seeds, n)) =
        [visited |-> now \cup following, frontier |-> following \ now,
         selected |-> (seeds \cup Crossed(m, keys, n - 1)) \cup {e.by : e \in touched}]
  BY <1>8 DEF Hop, touched
<1> QED
  BY <1>5, <1>6, <1>7, <1>8, <1>9

\* The walk selects the seeds, the entities within its hops and the relationships that
\* the hops cross.
LEMMA WalkReaches ==
  ASSUME NEW m, Projected(m), NEW seeds, NEW hops \in Nat
  PROVE  Walk(m, seeds, hops) =
           (seeds \cup Crossed(m, SeedKeys(seeds), hops - 1)) \cup Near(m, SeedKeys(seeds), hops)
<1> DEFINE Equation(f) == f = [n \in 0 .. hops |-> IF n = 0 THEN Start(m, seeds) ELSE Hop(m, f[n - 1])]
           reached     == [n \in 0 .. hops |-> Reached(m, seeds, n)]
           after       == CHOOSE f : Equation(f)
<1>1. Equation(reached)
  <2>1. ASSUME NEW n \in 0 .. hops
        PROVE  reached[n] = IF n = 0 THEN Start(m, seeds) ELSE Hop(m, reached[n - 1])
    <3>1. CASE n = 0
      BY <3>1, StartReached
    <3>2. CASE n # 0
      <4>1. n - 1 \in Nat /\ n - 1 \in 0 .. hops /\ (n - 1) + 1 = n
        BY <3>2
      <4>2. Hop(m, Reached(m, seeds, n - 1)) = Reached(m, seeds, (n - 1) + 1)
        BY <4>1, HopReaches
      <4> QED
        BY <3>2, <4>1, <4>2
    <3> QED
      BY <3>1, <3>2
  <2> QED
    BY <2>1
<1>2. Equation(after)
  <2> HIDE DEF Equation, reached
  <2> QED
    BY <1>1
<1>3. \A n \in 0 .. hops : after[n] = IF n = 0 THEN Start(m, seeds) ELSE Hop(m, after[n - 1])
  <2> HIDE DEF after
  <2> QED
    BY <1>2
<1>4. after[hops] = Reached(m, seeds, hops)
  <2> HIDE DEF after
  <2> DEFINE S == {n \in 0 .. hops : after[n] = Reached(m, seeds, n)}
  <2>1. 0 \in S
    BY <1>3, StartReached
  <2>2. ASSUME NEW n \in 0 .. hops, n \in S, n < hops PROVE n + 1 \in S
    <3>1. n \in Nat /\ n + 1 \in 0 .. hops /\ n + 1 # 0 /\ (n + 1) - 1 = n
      BY <2>2
    <3>2. after[n + 1] = Hop(m, after[n])
      BY <1>3, <3>1
    <3> QED
      BY <2>2, <3>1, <3>2, HopReaches
  <2>3. 0 .. hops \subseteq S
    <3> HIDE DEF S
    <3> QED
      BY <2>1, <2>2, Induction
  <2> QED
    BY <2>3
<1>5. Walk(m, seeds, hops) = after[hops].selected \cup after[hops].visited
  BY DEF Walk
<1> QED
  BY <1>4, <1>5 DEF Reached

-----------------------------------------------------------------------------
(* The loop that adds dependencies *)

Needed(m, some) == {d \in m : \E s \in some : KeyOf[d.identity] \in s.payload.needs}

LEMMA RoundAdds ==
  ASSUME NEW m, NEW some
  PROVE  Round(m, some) = some \cup Needed(m, some)
BY DEF Round, Needed

\* What is complete with some assets has all that they need.
LEMMA CompletedByNeeded ==
  ASSUME NEW m, NEW some, NEW result \in SUBSET m,
         some \subseteq result, Needed(m, result) \subseteq result,
         \A all \in SUBSET m : (some \subseteq all /\ Needed(m, all) \subseteq all) => result \subseteq all
  PROVE  Completed(m, some) = result
<1>1. \A all : (\A s \in all : {d \in m : KeyOf[d.identity] \in s.payload.needs} \subseteq all)
               <=> Needed(m, all) \subseteq all
  BY DEF Needed
<1> QED
  BY <1>1 DEF Completed

\* As many rounds as the manifest has assets are enough: a round that adds nothing is the
\* last one to matter, and each before it added an asset.
LEMMA RoundsComplete ==
  ASSUME NEW m, IsFiniteSet(m), NEW some \in SUBSET m
  PROVE  WithDependencies(m, some) = Completed(m, some)
<1> DEFINE size        == Cardinality(m)
           Equation(f) == f = [n \in 0 .. size |-> IF n = 0 THEN some ELSE Round(m, f[n - 1])]
           round       == CHOOSE f : Equation(f)
<1>1. size \in Nat
  BY FS_CardinalityType
<1>2. \A all \in SUBSET m : Round(m, all) \in SUBSET m
  BY RoundAdds DEF Needed
<1>3. \E f : Equation(f)
  <2> DEFINE step  == [all \in SUBSET m |-> Round(m, all)]
             parts == SUBSET m
  <2>1. some \in parts /\ step \in [parts -> parts]
    BY <1>2
  <2> HIDE DEF size
  <2>2. PICK f \in [0 .. size -> parts] :
          \A n \in 0 .. size : f[n] = IF n = 0 THEN some ELSE step[f[n - 1]]
    <3> HIDE DEF step, parts
    <3>1. Recursive(size, parts, some, step) # {}
      BY <1>1, <2>1, Recursion
    <3> QED
      BY <3>1 DEF Recursive
  <2>3. \A n \in 0 .. size : n # 0 => f[n - 1] \in SUBSET m
    BY <1>1
  <2>4. \A n \in 0 .. size : n # 0 => step[f[n - 1]] = Round(m, f[n - 1])
    BY <2>3
  <2>5. \A n \in 0 .. size : f[n] = IF n = 0 THEN some ELSE Round(m, f[n - 1])
    <3> HIDE DEF step
    <3> QED
      BY <2>2, <2>4
  <2>6. Equation(f)
    <3> HIDE DEF step
    <3> QED
      BY <2>5
  <2> QED
    BY <2>6
<1>4. Equation(round)
  <2> HIDE DEF Equation
  <2> QED
    BY <1>3
<1>5. round[0] = some
  <2> HIDE DEF round, size
  <2> QED
    BY <1>1, <1>4
<1>6. \A n \in 0 .. size : n < size => round[n + 1] = round[n] \cup Needed(m, round[n])
  <2> SUFFICES ASSUME NEW n \in 0 .. size, n < size
               PROVE  round[n + 1] = round[n] \cup Needed(m, round[n])
    OBVIOUS
  <2>1. n + 1 \in 0 .. size /\ n + 1 # 0 /\ (n + 1) - 1 = n
    <3> HIDE DEF size, round
    <3> QED
      BY <1>1
  <2>2. round[n + 1] = Round(m, round[n])
    <3> HIDE DEF round, size
    <3> QED
      BY <1>4, <2>1
  <2> HIDE DEF round, size
  <2> QED
    BY <2>2, RoundAdds
<1>7. WithDependencies(m, some) = round[size]
  BY DEF WithDependencies
<1> HIDE DEF size, round, Equation
<1> DEFINE Complete(all) == Needed(m, all) \subseteq all
           S == {n \in 0 .. size :
                   /\ round[n] \in SUBSET m /\ some \subseteq round[n]
                   /\ \A all \in SUBSET m : (some \subseteq all /\ Complete(all)) => round[n] \subseteq all
                   /\ Complete(round[n]) \/ Cardinality(round[n]) >= n}
<1>8. 0 \in S
  <2>1. Cardinality(some) >= 0
    BY FS_Subset, FS_CardinalityType
  <2> HIDE DEF Complete
  <2> QED
    BY <1>1, <1>5, <2>1
<1>9. ASSUME NEW n \in 0 .. size, n \in S, n < size PROVE n + 1 \in S
  <2>1. n \in Nat /\ n + 1 \in 0 .. size
    BY <1>1, <1>9
  <2>2. round[n + 1] = round[n] \cup Needed(m, round[n])
    BY <1>6, <1>9
  <2>3. round[n] \in SUBSET m /\ some \subseteq round[n]
    BY <1>9
  <2>4. round[n + 1] \in SUBSET m /\ some \subseteq round[n + 1]
    BY <2>2, <2>3 DEF Needed
  <2>5. ASSUME NEW all \in SUBSET m, some \subseteq all, Complete(all) PROVE round[n + 1] \subseteq all
    <3>1. round[n] \subseteq all
      BY <1>9, <2>5
    <3>2. Needed(m, round[n]) \subseteq Needed(m, all)
      BY <3>1 DEF Needed
    <3> QED
      BY <2>2, <2>5, <3>1, <3>2
  <2>6. Complete(round[n + 1]) \/ Cardinality(round[n + 1]) >= n + 1
    <3>1. CASE Complete(round[n])
      <4>1. round[n + 1] = round[n]
        BY <2>2, <3>1
      <4> QED
        BY <3>1, <4>1
    <3>2. CASE ~Complete(round[n])
      <4>1. round[n + 1] # round[n] /\ round[n] \in SUBSET round[n + 1]
        BY <2>2, <3>2
      <4>2. IsFiniteSet(round[n + 1])
        BY <2>4, FS_Subset
      <4>3. /\ IsFiniteSet(round[n])
            /\ Cardinality(round[n]) <= Cardinality(round[n + 1])
            /\ Cardinality(round[n + 1]) # Cardinality(round[n])
        BY <4>1, <4>2, FS_Subset
      <4>4. Cardinality(round[n]) \in Nat /\ Cardinality(round[n + 1]) \in Nat
        BY <4>2, <4>3, FS_CardinalityType
      <4>5. Cardinality(round[n]) >= n
        BY <1>9, <3>2
      <4> QED
        BY <2>1, <4>3, <4>4, <4>5
    <3> QED
      BY <3>1, <3>2
  <2> HIDE DEF Complete
  <2> QED
    BY <2>1, <2>4, <2>5, <2>6
<1>10. size \in S
  <2> HIDE DEF S
  <2>1. 0 .. size \subseteq S
    BY <1>1, <1>8, <1>9, Induction
  <2> QED
    BY <1>1, <2>1
<1>11. Complete(round[size])
  <2>1. CASE Cardinality(round[size]) >= size
    <3>1. Cardinality(round[size]) = size /\ round[size] \in SUBSET m
      <4>1. round[size] \in SUBSET m
        BY <1>10
      <4>2. IsFiniteSet(round[size]) /\ Cardinality(round[size]) <= size
        BY <4>1, FS_Subset DEF size
      <4>3. Cardinality(round[size]) \in Nat
        BY <4>2, FS_CardinalityType
      <4> QED
        BY <1>1, <2>1, <4>1, <4>2, <4>3
    <3>2. round[size] = m
      BY <3>1, FS_Subset DEF size
    <3> QED
      BY <3>2 DEF Needed
  <2> QED
    BY <1>10, <2>1
<1>12. Completed(m, some) = round[size]
  <2>1. round[size] \in SUBSET m /\ some \subseteq round[size] /\ Needed(m, round[size]) \subseteq round[size]
    BY <1>10, <1>11
  <2>2. \A all \in SUBSET m : (some \subseteq all /\ Needed(m, all) \subseteq all) => round[size] \subseteq all
    BY <1>10
  <2> QED
    BY <2>1, <2>2, CompletedByNeeded
<1> QED
  BY <1>7, <1>12

\* An expansion over an exact projection is the one that the manifest alone determines.
LEMMA ExpansionOfManifest ==
  ASSUME NEW m, Projected(m), IsFiniteSet(m), NEW seeds \in SUBSET m, NEW hops \in Nat
  PROVE  WithDependencies(m, Walk(m, seeds, hops)) =
           Completed(m, seeds \cup Near(m, SeedKeys(seeds), hops) \cup
                        Crossed(m, SeedKeys(seeds), hops - 1))
<1>1. Walk(m, seeds, hops) = seeds \cup Near(m, SeedKeys(seeds), hops) \cup
                               Crossed(m, SeedKeys(seeds), hops - 1)
  BY WalkReaches
<1>2. Walk(m, seeds, hops) \in SUBSET m
  BY <1>1 DEF Near, Crossed, OfKind
<1> QED
  BY <1>1, <1>2, RoundsComplete

-----------------------------------------------------------------------------
(* The invariant *)

Own(i) == {r \in revisions : r.identity = i}

\* No revision of an asset has a number beyond the count of its revisions, so the next
\* number is new; a build adds at most one of each asset.
RevisionsInv ==
  /\ IsFiniteSet(revisions)
  /\ \A i \in Identity : Cardinality(Own(i)) <= Len(versions) /\ \A r \in Own(i) : r.no <= Cardinality(Own(i))
  /\ \A r \in OfKind(revisions, "RELATIONSHIP") : DOMAIN r.payload.ends = {1, 2}

\* Each manifest has one revision of an asset and passed the validation.
ManifestsInv == \A v \in 1 .. Len(versions) : Functional(versions[v]) /\ Valid(versions[v])

\* The rows that a build added are still there, and an edge says what its relationship says.
GraphInv ==
  /\ entities = OfKind(entities, "ENTITY")
  /\ \A e \in edges : /\ Kind[e.by.identity] = "RELATIONSHIP"
                      /\ KeyOf[e.from.identity] = e.by.payload.ends[1]
                      /\ KeyOf[e.to.identity] = e.by.payload.ends[2]
  /\ \A v \in 1 .. Len(versions) :
       OfKind(versions[v], "ENTITY") \subseteq entities /\ EdgesOf(versions[v]) \subseteq edges

IInv == TypeOK /\ RevisionsInv /\ ManifestsInv /\ GraphInv /\ ExpansionIsOfItsVersion

LEMMA InitInv ==
  Init => IInv
<1> SUFFICES ASSUME Init PROVE IInv
  OBVIOUS
<1>1. TypeOK
  BY DEF Init, TypeOK
<1>2. RevisionsInv
  <2>1. \A i \in Identity : Own(i) = {}
    BY DEF Init, Own
  <2> QED
    BY <2>1, FS_EmptySet DEF Init, RevisionsInv, OfKind
<1>3. ManifestsInv
  BY DEF Init, ManifestsInv
<1>4. GraphInv
  BY DEF Init, GraphInv, OfKind
<1>5. ExpansionIsOfItsVersion
  BY DEF Init, ExpansionIsOfItsVersion
<1> QED
  BY <1>1, <1>2, <1>3, <1>4, <1>5 DEF IInv

LEMMA OneEntityOfKey ==
  ASSUME NEW m, NEW k \in Keys(OfKind(m, "ENTITY"))
  PROVE  EntityOf(m, k) \in OfKind(m, "ENTITY") /\ KeyOf[EntityOf(m, k).identity] = k
<1>1. \E r \in OfKind(m, "ENTITY") : KeyOf[r.identity] = k
  BY DEF Keys
<1> HIDE DEF OfKind
<1> QED
  BY <1>1 DEF EntityOf

\* In a manifest that passed the validation every relationship has an edge between the
\* entities it names.
LEMMA EdgesOfManifest ==
  ASSUME NEW m, Valid(m), \A r \in OfKind(m, "RELATIONSHIP") : DOMAIN r.payload.ends = {1, 2}
  PROVE  /\ \A e \in EdgesOf(m) : /\ e \in [by : m, from : OfKind(m, "ENTITY"), to : OfKind(m, "ENTITY")]
                                  /\ e.by \in OfKind(m, "RELATIONSHIP")
                                  /\ KeyOf[e.from.identity] = e.by.payload.ends[1]
                                  /\ KeyOf[e.to.identity] = e.by.payload.ends[2]
         /\ \A r \in OfKind(m, "RELATIONSHIP") : \E e \in EdgesOf(m) : e.by = r
<1>1. ASSUME NEW r \in OfKind(m, "RELATIONSHIP"), NEW k \in {1, 2}
      PROVE  /\ r \in m
             /\ EntityOf(m, r.payload.ends[k]) \in OfKind(m, "ENTITY")
             /\ KeyOf[EntityOf(m, r.payload.ends[k]).identity] = r.payload.ends[k]
  <2>1. r \in m
    BY DEF OfKind
  <2>2. r.payload.ends[k] \in Keys(OfKind(m, "ENTITY"))
    BY <2>1 DEF Valid
  <2> QED
    BY <2>1, <2>2, OneEntityOfKey
<1>2. ASSUME NEW e \in EdgesOf(m)
      PROVE  /\ e \in [by : m, from : OfKind(m, "ENTITY"), to : OfKind(m, "ENTITY")]
             /\ e.by \in OfKind(m, "RELATIONSHIP")
             /\ KeyOf[e.from.identity] = e.by.payload.ends[1]
             /\ KeyOf[e.to.identity] = e.by.payload.ends[2]
  <2>1. PICK r \in OfKind(m, "RELATIONSHIP") :
          e = [by |-> r, from |-> EntityOf(m, r.payload.ends[1]), to |-> EntityOf(m, r.payload.ends[2])]
    BY DEF EdgesOf
  <2> QED
    BY <1>1, <2>1
<1>3. ASSUME NEW r \in OfKind(m, "RELATIONSHIP") PROVE \E e \in EdgesOf(m) : e.by = r
  <2> DEFINE e == [by |-> r, from |-> EntityOf(m, r.payload.ends[1]), to |-> EntityOf(m, r.payload.ends[2])]
  <2>1. e \in EdgesOf(m)
    BY DEF EdgesOf
  <2>2. e.by = r
    OBVIOUS
  <2> HIDE DEF e
  <2> QED
    BY <2>1, <2>2
<1> QED
  BY <1>2, <1>3

LEMMA VersionsAreProjected ==
  ASSUME IInv, NEW v \in 1 .. Len(versions)
  PROVE  Projected(versions[v]) /\ versions[v] \in SUBSET revisions /\ IsFiniteSet(versions[v])
<1> DEFINE m == versions[v]
<1>1. m \in SUBSET revisions
  BY DEF IInv, TypeOK
<1>2. m \subseteq Revision /\ IsFiniteSet(m) /\ Functional(m) /\ Valid(m)
  BY <1>1, FS_Subset DEF IInv, TypeOK, RevisionsInv, ManifestsInv
<1>3. \A r \in OfKind(m, "RELATIONSHIP") : DOMAIN r.payload.ends = {1, 2}
  BY <1>1 DEF IInv, RevisionsInv, OfKind
<1>4. OfKind(m, "ENTITY") \subseteq entities /\ EdgesOf(m) \subseteq edges
  BY DEF IInv, GraphInv
<1> HIDE DEF m
<1>5. EntitiesIn(m) = OfKind(m, "ENTITY")
  BY <1>4 DEF IInv, GraphInv, EntitiesIn, OfKind
<1>6. \A e \in EdgesIn(m) : /\ e.by \in OfKind(m, "RELATIONSHIP")
                            /\ KeyOf[e.from.identity] = e.by.payload.ends[1]
                            /\ KeyOf[e.to.identity] = e.by.payload.ends[2]
  BY DEF IInv, GraphInv, EdgesIn, OfKind
<1>7. ASSUME NEW r \in OfKind(m, "RELATIONSHIP") PROVE \E e \in EdgesIn(m) : e.by = r
  <2>1. PICK e \in EdgesOf(m) : e.by = r
    BY <1>2, <1>3, EdgesOfManifest
  <2>2. e.by \in m /\ e.from \in EntitiesIn(m) /\ e.to \in EntitiesIn(m)
    BY <1>2, <1>3, <1>5, EdgesOfManifest
  <2> QED
    BY <1>4, <2>1, <2>2 DEF EdgesIn
<1>8. Projected(m)
  BY <1>2, <1>5, <1>6, <1>7 DEF Projected
<1> QED
  BY <1>1, <1>2, <1>8 DEF m

-----------------------------------------------------------------------------
(* The steps *)

LEMMA ActiveFacts ==
  ASSUME IInv
  PROVE  Active \in SUBSET revisions /\ Functional(Active)
<1>1. CASE versions = <<>>
  BY <1>1 DEF Active, Functional
<1>2. CASE versions # <<>>
  <2>1. Len(versions) \in 1 .. Len(versions)
    BY <1>2 DEF IInv, TypeOK
  <2> QED
    BY <1>2, <2>1 DEF IInv, TypeOK, ManifestsInv, Active
<1> QED
  BY <1>1, <1>2

LEMMA OwnFacts ==
  ASSUME IInv, NEW i \in Identity
  PROVE  /\ IsFiniteSet(Own(i)) /\ Cardinality(Own(i)) \in Nat
         /\ Cardinality(Own(i)) <= Len(versions) /\ Len(versions) \in Nat
         /\ NextNo(i) = Cardinality(Own(i)) + 1
         /\ \A r \in Own(i) : r.no \in Nat /\ r.no < NextNo(i)
<1>1. Own(i) \in SUBSET revisions
  BY DEF Own
<1>2. IsFiniteSet(Own(i)) /\ Cardinality(Own(i)) \in Nat
  BY <1>1, FS_Subset, FS_CardinalityType DEF IInv, RevisionsInv
<1>3. Cardinality(Own(i)) <= Len(versions) /\ Len(versions) \in Nat
  BY DEF IInv, TypeOK, RevisionsInv
<1>4. NextNo(i) = Cardinality(Own(i)) + 1
  BY <1>2 DEF NextNo, Own
<1>5. \A r \in Own(i) : r.no \in Nat /\ r.no <= Cardinality(Own(i))
  BY <1>1 DEF IInv, TypeOK, RevisionsInv, Revision
<1> QED
  BY <1>2, <1>3, <1>4, <1>5

LEMMA BuildStep ==
  ASSUME IInv, Build
  PROVE  IInv'
<1> USE DEF IInv
<1>1. PICK b \in Batches :
        LET fresh == {[identity |-> i, no |-> NextNo(i), payload |-> b[i]] :
                        i \in {j \in DOMAIN b : b[j] # None}}
            m     == {r \in Active : r.identity \notin DOMAIN b} \cup fresh
        IN  /\ Valid(m)
            /\ revisions' = revisions \cup fresh
            /\ versions' = Append(versions, m)
            /\ entities' = entities \cup OfKind(m, "ENTITY")
            /\ edges' = edges \cup EdgesOf(m)
  BY DEF Build
<1> DEFINE fresh == {[identity |-> i, no |-> NextNo(i), payload |-> b[i]] :
                       i \in {j \in DOMAIN b : b[j] # None}}
           m     == {r \in Active : r.identity \notin DOMAIN b} \cup fresh
<1>2. /\ Valid(m) /\ revisions' = revisions \cup fresh /\ versions' = Append(versions, m)
      /\ entities' = entities \cup OfKind(m, "ENTITY") /\ edges' = edges \cup EdgesOf(m)
  BY <1>1
<1>3. query' = query /\ Len(versions) < MaxVersions
  BY DEF Build
<1>4. \A r \in fresh : /\ r.identity \in DOMAIN b /\ r.identity \in Identity
                       /\ b[r.identity] # None /\ r.payload = b[r.identity]
                       /\ r.no = NextNo(r.identity)
                       /\ r = [identity |-> r.identity, no |-> NextNo(r.identity), payload |-> b[r.identity]]
  BY ContextGraphAssumption
<1>5. fresh \subseteq Revision
  <2> SUFFICES ASSUME NEW r \in fresh PROVE r \in Revision
    OBVIOUS
  <2>1. b[r.identity] \in Payload
    BY <1>4, ContextGraphAssumption
  <2>2. NextNo(r.identity) \in 1 .. MaxVersions
    BY <1>3, <1>4, OwnFacts, ContextGraphAssumption
  <2> HIDE DEF fresh
  <2> QED
    BY <1>4, <2>1, <2>2 DEF Revision
<1>6. \A r \in OfKind(fresh, "RELATIONSHIP") : DOMAIN r.payload.ends = {1, 2}
  <2> SUFFICES ASSUME NEW r \in fresh, Kind[r.identity] = "RELATIONSHIP" PROVE DOMAIN r.payload.ends = {1, 2}
    BY DEF OfKind
  <2>1. r.identity \in DOMAIN b /\ b[r.identity] # None /\ r.payload = b[r.identity]
    BY <1>4
  <2> HIDE DEF fresh
  <2> QED
    BY <2>1, ContextGraphAssumption
<1> HIDE DEF fresh
<1>7. Functional(fresh)
  BY <1>4 DEF Functional
<1>8. IsFiniteSet(fresh)
  <2> DEFINE identity == [r \in fresh |-> r.identity]
  <2>1. identity \in Injection(fresh, DOMAIN b)
    BY <1>4, <1>7 DEF Functional, Injection, IsInjective
  <2>2. IsFiniteSet(DOMAIN b)
    BY ContextGraphAssumption
  <2> HIDE DEF identity
  <2> QED
    BY <2>1, <2>2, FS_Injection
<1>9. m \in SUBSET revisions' /\ Functional(m)
  BY <1>2, <1>4, <1>7, ActiveFacts DEF Functional
<1> HIDE DEF m
<1>10. revisions' \subseteq Revision /\ IsFiniteSet(revisions')
  BY <1>2, <1>5, <1>8, FS_Union DEF TypeOK, RevisionsInv
<1>11. \A r \in OfKind(revisions', "RELATIONSHIP") : DOMAIN r.payload.ends = {1, 2}
  BY <1>2, <1>6 DEF RevisionsInv, OfKind
<1>12. /\ Len(versions') = Len(versions) + 1 /\ Len(versions) \in Nat
       /\ versions'[Len(versions) + 1] = m
       /\ \A v \in 1 .. Len(versions) : versions'[v] = versions[v]
  BY <1>2 DEF TypeOK
<1>13. \A v \in 1 .. Len(versions') : v \in 1 .. Len(versions) \/ v = Len(versions) + 1
  BY <1>12
<1>14. ASSUME NEW r \in fresh, NEW s \in revisions, r.identity = s.identity PROVE s.no < r.no
  <2>1. r.identity \in Identity /\ s \in Own(r.identity)
    BY <1>4, <1>14 DEF Own
  <2> QED
    BY <1>4, <2>1, OwnFacts
<1>15. TypeOK'
  <2>1. \A r, s \in revisions' : (r.identity = s.identity /\ r.no = s.no) => r = s
    <3> SUFFICES ASSUME NEW r \in revisions', NEW s \in revisions', r.identity = s.identity, r.no = s.no
                 PROVE  r = s
      OBVIOUS
    <3>1. r.no \in Nat /\ s.no \in Nat
      BY <1>10, ContextGraphAssumption DEF Revision
    <3>2. CASE r \in fresh /\ s \in fresh
      BY <1>7, <3>2 DEF Functional
    <3>3. CASE r \in revisions /\ s \in revisions
      BY <3>3 DEF TypeOK
    <3>4. CASE r \in fresh /\ s \in revisions
      BY <1>14, <3>1, <3>4
    <3>5. CASE r \in revisions /\ s \in fresh
      BY <1>14, <3>1, <3>5
    <3> QED
      BY <1>2, <3>2, <3>3, <3>4, <3>5
  <2>2. versions' \in Seq(SUBSET revisions')
    <3>1. versions \in Seq(SUBSET revisions')
      BY <1>2 DEF TypeOK
    <3> QED
      BY <1>2, <1>9, <3>1
  <2>3. entities' \subseteq revisions'
    BY <1>2, <1>9 DEF TypeOK, OfKind
  <2>4. edges' \subseteq [by : revisions', from : entities', to : entities']
    <3>1. \A r \in OfKind(m, "RELATIONSHIP") : DOMAIN r.payload.ends = {1, 2}
      BY <1>9, <1>11 DEF OfKind
    <3>2. EdgesOf(m) \subseteq [by : m, from : OfKind(m, "ENTITY"), to : OfKind(m, "ENTITY")]
      BY <1>2, <3>1, EdgesOfManifest
    <3>3. EdgesOf(m) \subseteq [by : revisions', from : entities', to : entities']
      BY <1>2, <1>9, <3>2
    <3>4. edges \subseteq [by : revisions', from : entities', to : entities']
      BY <1>2 DEF TypeOK
    <3> QED
      BY <1>2, <3>3, <3>4
  <2>5. \/ query' = None
        \/ /\ query' \in [version : 1 .. Len(versions'), seeds : SUBSET revisions',
                          hops : 0 .. MaxHops, assets : (SUBSET revisions') \cup {None}]
           /\ query'.seeds \subseteq versions'[query'.version]
    <3> SUFFICES ASSUME query # None
                 PROVE  /\ query \in [version : 1 .. Len(versions'), seeds : SUBSET revisions',
                                      hops : 0 .. MaxHops, assets : (SUBSET revisions') \cup {None}]
                        /\ query.seeds \subseteq versions'[query.version]
      BY <1>3
    <3>1. /\ query \in [version : 1 .. Len(versions), seeds : SUBSET revisions,
                        hops : 0 .. MaxHops, assets : (SUBSET revisions) \cup {None}]
          /\ query.seeds \subseteq versions[query.version]
      BY DEF TypeOK
    <3>2. 1 .. Len(versions) \subseteq 1 .. Len(versions') /\ revisions \subseteq revisions'
      BY <1>2, <1>12
    <3> QED
      BY <1>12, <3>1, <3>2
  <2> QED
    BY <1>10, <2>1, <2>2, <2>3, <2>4, <2>5 DEF TypeOK
<1>16. RevisionsInv'
  <2>1. ASSUME NEW i \in Identity
        PROVE  Cardinality(Own(i)') <= Len(versions') /\ \A r \in Own(i)' : r.no <= Cardinality(Own(i)')
    <3>1. Own(i)' = Own(i) \cup {r \in fresh : r.identity = i}
      BY <1>2 DEF Own
    <3>2. CASE \A r \in fresh : r.identity # i
      <4>1. Own(i)' = Own(i)
        BY <3>1, <3>2
      <4> QED
        BY <1>12, <4>1, OwnFacts DEF RevisionsInv
    <3>3. ASSUME NEW r \in fresh, r.identity = i
          PROVE  Cardinality(Own(i)') <= Len(versions') /\ \A s \in Own(i)' : s.no <= Cardinality(Own(i)')
      <4>1. Own(i)' = Own(i) \cup {r}
        <5>1. {s \in fresh : s.identity = i} = {r}
          BY <1>7, <3>3 DEF Functional
        <5> QED
          BY <3>1, <5>1
      <4>2. r \notin Own(i) /\ r.no = Cardinality(Own(i)) + 1
        BY <1>4, <3>3, OwnFacts
      <4>3. Cardinality(Own(i)') = Cardinality(Own(i)) + 1
        <5>1. IsFiniteSet(Own(i))
          BY OwnFacts
        <5>2. Cardinality(Own(i) \cup {r}) = Cardinality(Own(i)) + 1
          BY <4>2, <5>1, FS_AddElement
        <5> QED
          BY <4>1, <5>2
      <4> QED
        <5>1. /\ Cardinality(Own(i)) \in Nat /\ Cardinality(Own(i)) <= Len(versions)
              /\ \A s \in Own(i) : s.no \in Nat /\ s.no < Cardinality(Own(i)) + 1
          BY OwnFacts
        <5>2. ASSUME NEW s \in Own(i)' PROVE s.no <= Cardinality(Own(i)')
          <6>1. s \in Own(i) \/ s = r
            BY <4>1
          <6> QED
            BY <4>2, <4>3, <5>1, <6>1
        <5> QED
          BY <1>12, <4>3, <5>1, <5>2
    <3> QED
      BY <3>2, <3>3
  <2> QED
    BY <1>10, <1>11, <2>1 DEF RevisionsInv
<1>17. ManifestsInv'
  BY <1>2, <1>9, <1>12, <1>13 DEF ManifestsInv
<1>18. GraphInv'
  <2>1. entities' = OfKind(entities', "ENTITY")
    BY <1>2 DEF GraphInv, OfKind
  <2>2. \A e \in edges' : /\ Kind[e.by.identity] = "RELATIONSHIP"
                          /\ KeyOf[e.from.identity] = e.by.payload.ends[1]
                          /\ KeyOf[e.to.identity] = e.by.payload.ends[2]
    <3>1. \A r \in OfKind(m, "RELATIONSHIP") : DOMAIN r.payload.ends = {1, 2}
      BY <1>9, <1>11 DEF OfKind
    <3>2. \A e \in EdgesOf(m) : /\ Kind[e.by.identity] = "RELATIONSHIP"
                                /\ KeyOf[e.from.identity] = e.by.payload.ends[1]
                                /\ KeyOf[e.to.identity] = e.by.payload.ends[2]
      BY <1>2, <3>1, EdgesOfManifest DEF OfKind
    <3> QED
      BY <1>2, <3>2 DEF GraphInv
  <2>3. \A v \in 1 .. Len(versions') :
          OfKind(versions'[v], "ENTITY") \subseteq entities' /\ EdgesOf(versions'[v]) \subseteq edges'
    BY <1>2, <1>12, <1>13 DEF GraphInv
  <2> QED
    BY <2>1, <2>2, <2>3 DEF GraphInv
<1>19. ExpansionIsOfItsVersion'
  <2>1. query # None => versions'[query.version] = versions[query.version]
    BY <1>12 DEF TypeOK
  <2> QED
    BY <1>3, <2>1 DEF ExpansionIsOfItsVersion
<1> QED
  BY <1>15, <1>16, <1>17, <1>18, <1>19

LEMMA StartQueryStep ==
  ASSUME IInv, StartQuery
  PROVE  IInv'
<1> USE DEF IInv
<1>1. UNCHANGED <<revisions, versions, entities, edges>> /\ versions # <<>>
  BY DEF StartQuery
<1>2. PICK seeds \in SUBSET Active, hops \in 0 .. MaxHops :
        query' = [version |-> Len(versions), seeds |-> seeds, hops |-> hops, assets |-> None]
  BY DEF StartQuery
<1>3. TypeOK'
  <2>1. Len(versions) \in 1 .. Len(versions) /\ Active = versions[Len(versions)]
    BY <1>1 DEF TypeOK, Active
  <2>2. seeds \in SUBSET revisions
    BY ActiveFacts
  <2>3. /\ query' \in [version : 1 .. Len(versions), seeds : SUBSET revisions,
                       hops : 0 .. MaxHops, assets : (SUBSET revisions) \cup {None}]
        /\ query'.seeds \subseteq versions[query'.version]
    BY <1>2, <2>1, <2>2
  <2> QED
    BY <1>1, <2>3 DEF TypeOK
<1>4. RevisionsInv' /\ ManifestsInv' /\ GraphInv'
  BY <1>1 DEF RevisionsInv, Own, ManifestsInv, GraphInv
<1>5. ExpansionIsOfItsVersion'
  BY <1>2 DEF ExpansionIsOfItsVersion
<1> QED
  BY <1>3, <1>4, <1>5

LEMMA ExpandStep ==
  ASSUME IInv, Expand
  PROVE  IInv'
<1> USE DEF IInv
<1> DEFINE m    == versions[query.version]
           keys == SeedKeys(query.seeds)
           all  == query.seeds \cup Near(m, keys, query.hops) \cup Crossed(m, keys, query.hops - 1)
<1>1. UNCHANGED <<revisions, versions, entities, edges>>
  BY DEF Expand
<1>2. /\ query \in [version : 1 .. Len(versions), seeds : SUBSET revisions,
                    hops : 0 .. MaxHops, assets : (SUBSET revisions) \cup {None}]
      /\ query.seeds \subseteq m
  BY DEF Expand, TypeOK
<1>3. query.version \in 1 .. Len(versions) /\ query.hops \in Nat /\ query.seeds \in SUBSET m
  BY <1>2, ContextGraphAssumption
<1>4. Projected(m) /\ m \in SUBSET revisions /\ IsFiniteSet(m)
  BY <1>3, VersionsAreProjected
<1>5. query' = [query EXCEPT !.assets = WithDependencies(m, Walk(m, query.seeds, query.hops))]
  BY DEF Expand
<1> HIDE DEF m
<1>6. WithDependencies(m, Walk(m, query.seeds, query.hops)) = Completed(m, all)
  BY <1>3, <1>4, ExpansionOfManifest
<1> HIDE DEF all, keys
<1>7. query' = [query EXCEPT !.assets = Completed(m, all)]
  BY <1>5, <1>6
<1>8. /\ query'.version = query.version /\ query'.seeds = query.seeds /\ query'.hops = query.hops
      /\ query'.assets = Completed(m, all)
  BY <1>2, <1>7
<1>9. TypeOK'
  <2>1. Completed(m, all) \in SUBSET revisions
    BY <1>4 DEF Completed
  <2>2. query' \in [version : 1 .. Len(versions), seeds : SUBSET revisions,
                    hops : 0 .. MaxHops, assets : (SUBSET revisions) \cup {None}]
    BY <1>2, <1>7, <2>1
  <2>3. query'.seeds \subseteq versions[query'.version]
    BY <1>2, <1>8 DEF m
  <2> QED
    BY <1>1, <2>2, <2>3 DEF TypeOK
<1>10. RevisionsInv' /\ ManifestsInv' /\ GraphInv'
  BY <1>1 DEF RevisionsInv, Own, ManifestsInv, GraphInv
<1>11. ExpansionIsOfItsVersion'
  <2>1. versions'[query'.version] = m
    BY <1>1, <1>8 DEF m
  <2>2. query'.assets = Completed(m,
          query'.seeds \cup Near(m, SeedKeys(query'.seeds), query'.hops) \cup
          {r \in OfKind(m, "RELATIONSHIP") :
             \E a \in Near(m, SeedKeys(query'.seeds), query'.hops - 1) :
               KeyOf[a.identity] \in {r.payload.ends[1], r.payload.ends[2]}})
    BY <1>8 DEF all, keys, Crossed
  <2> QED
    BY <2>1, <2>2 DEF ExpansionIsOfItsVersion
<1> QED
  BY <1>9, <1>10, <1>11

\* IInv holds in every reachable state: rows are only added, and a query is answered from
\* the rows of the version it holds.
THEOREM Inductive ==
  Spec => []IInv
<1>1. ASSUME IInv, [Next]_vars PROVE IInv'
  <2>1. CASE Build
    BY <1>1, <2>1, BuildStep
  <2>2. CASE StartQuery
    BY <1>1, <2>2, StartQueryStep
  <2>3. CASE Expand
    BY <1>1, <2>3, ExpandStep
  <2>4. CASE UNCHANGED vars
    BY <1>1, <2>4 DEF vars, IInv, TypeOK, RevisionsInv, Own, ManifestsInv, GraphInv, ExpansionIsOfItsVersion
  <2> QED
    BY <1>1, <2>1, <2>2, <2>3, <2>4 DEF Next
<1> QED
  BY <1>1, InitInv, PTL DEF Spec

-----------------------------------------------------------------------------
(* The theorems *)

\* The numbering of PackageBuilder.build never gives two revisions of an asset the same
\* number, and manifests, graph rows and answers only name revisions that are stored.
THEOREM TypeCorrect ==
  Spec => []TypeOK
BY Inductive, PTL DEF IInv

\* "Historical graph rows remain addressable by old manifests": every version that was ever
\* built reads its entities and one edge per relationship, between its own entities.
THEOREM ExactProjection ==
  Spec => []ProjectionIsExact
<1>1. ASSUME IInv, NEW v \in 1 .. Len(versions)
      PROVE  LET m == versions[v]
             IN  /\ EntitiesIn(m) = OfKind(m, "ENTITY")
                 /\ \A r \in OfKind(m, "RELATIONSHIP") :
                      \E e \in EdgesIn(m) :
                        /\ {d \in EdgesIn(m) : d.by = r} = {e}
                        /\ KeyOf[e.from.identity] = r.payload.ends[1]
                        /\ KeyOf[e.to.identity] = r.payload.ends[2]
  <2> DEFINE m == versions[v]
  <2>1. Projected(m)
    BY <1>1, VersionsAreProjected
  <2>2. edges \subseteq [by : revisions, from : entities, to : entities]
    BY <1>1 DEF IInv, TypeOK
  <2> HIDE DEF m
  <2>3. ASSUME NEW r \in OfKind(m, "RELATIONSHIP")
        PROVE  \E e \in EdgesIn(m) : /\ {d \in EdgesIn(m) : d.by = r} = {e}
                                     /\ KeyOf[e.from.identity] = r.payload.ends[1]
                                     /\ KeyOf[e.to.identity] = r.payload.ends[2]
    <3>1. PICK e \in EdgesIn(m) : e.by = r
      BY <2>1 DEF Projected
    <3>2. ASSUME NEW d \in EdgesIn(m), d.by = r PROVE d = e
      <4>1. /\ KeyOf[d.from.identity] = KeyOf[e.from.identity]
            /\ KeyOf[d.to.identity] = KeyOf[e.to.identity]
        BY <2>1, <3>1, <3>2 DEF Projected
      <4>2. /\ d.from \in OfKind(m, "ENTITY") /\ d.to \in OfKind(m, "ENTITY")
            /\ e.from \in OfKind(m, "ENTITY") /\ e.to \in OfKind(m, "ENTITY")
        BY <2>1 DEF Projected, EdgesIn
      <4>3. d.from = e.from /\ d.to = e.to
        BY <2>1, <4>1, <4>2, OneEntity DEF Projected
      <4>4. d \in [by : revisions, from : entities, to : entities]
            /\ e \in [by : revisions, from : entities, to : entities]
        BY <2>2 DEF EdgesIn
      <4> QED
        BY <3>1, <3>2, <4>3, <4>4
    <3>3. {d \in EdgesIn(m) : d.by = r} = {e}
      BY <3>1, <3>2
    <3> QED
      BY <2>1, <3>1, <3>3 DEF Projected
  <2>4. EntitiesIn(m) = OfKind(m, "ENTITY")
    BY <2>1 DEF Projected
  <2> QED
    BY <2>3, <2>4 DEF m
<1>2. IInv => ProjectionIsExact
  BY <1>1 DEF ProjectionIsExact
<1> QED
  BY <1>2, Inductive, PTL

\* Whatever is built between the start of a query and its expansion, ContextRepository.expand
\* gives it what the manifest it began with determines: the walk stops after the given hops,
\* the dependencies are complete, and nothing else is in it.
THEOREM ExpandedOwnVersion ==
  Spec => []ExpansionIsOfItsVersion
BY Inductive, PTL DEF IInv
=============================================================================
