----------------------------- MODULE ReadsProofs -----------------------------
(***************************************************************************)
(* Reads at a sequence number, for any keys, any batches, any number of     *)
(* Snapshots and any limits: the order of the sources, and that Get, with   *)
(* and without a Snapshot, implements SnapshotStore.  The proof turns Get   *)
(* into a read of one set of versions, and shows what a compaction may drop *)
(* from that set without any open Snapshot seeing it.                       *)
(***************************************************************************)
EXTENDS VersionedReads, FiniteSetTheorems, TLAPS

-----------------------------------------------------------------------------
(* Extremal elements *)

\* A non-empty set of numbers has a least element: Min is one of them (the oldest
\* registered sequence, the smallest key of a table).
LEMMA MinInSet ==
  ASSUME NEW S \in SUBSET Nat, S # {}
  PROVE  Min(S) \in S /\ \A x \in S : Min(S) <= x
<1>1. PICK m \in S : \A x \in S : <<x, m>> \notin OpToRel(<, Nat)
  BY WFMin, NatLessThanWellFounded, Zenon
<1>2. \A x \in S : m <= x
  <2> TAKE x \in S
  <2>1. <<x, m>> \notin OpToRel(<, Nat)
    BY <1>1, Zenon
  <2> QED
    BY <2>1 DEF OpToRel
<1> QED
  BY <1>2, Zenon DEF Min

\* A non-empty set of numbers below a bound has a largest one.
LEMMA BoundedMax ==
  ASSUME NEW S \in SUBSET Nat, S # {}, NEW n \in Nat, \A x \in S : x <= n
  PROVE  \E m \in S : \A x \in S : x <= m
<1> DEFINE T == {n - x : x \in S}
<1>1. T \subseteq Nat /\ T # {}
  <2>1. \A x \in S : n - x \in Nat
    OBVIOUS
  <2>2. T # {}
    BY Zenon
  <2> QED
    BY <2>1, <2>2
<1>2. Min(T) \in T /\ \A t \in T : Min(T) <= t
  <2> HIDE DEF T
  <2> QED
    BY <1>1, MinInSet
<1>3. PICK m \in S : Min(T) = n - m
  BY <1>2, Zenon
<1>4. \A x \in S : x <= m
  <2> TAKE x \in S
  <2>1. n - x \in T
    OBVIOUS
  <2>2. n - m <= n - x
    BY <2>1, <1>2, <1>3, Zenon
  <2> QED
    BY <2>2
<1> QED
  BY <1>4

\* Finite sets without a bound, from which a smallest one is taken.
Unbounded(n) ==
  \E S \in SUBSET Nat : IsFiniteSet(S) /\ Cardinality(S) = n
                        /\ ~ \E b \in Nat : \A x \in S : x <= b

\* A finite set of numbers has a bound.
LEMMA FiniteBounded ==
  ASSUME NEW S \in SUBSET Nat, IsFiniteSet(S)
  PROVE  \E b \in Nat : \A x \in S : x <= b
<1> SUFFICES ASSUME ~ \E b \in Nat : \A x \in S : x <= b
             PROVE  FALSE
  OBVIOUS
<1> DEFINE T == {n \in Nat : Unbounded(n)}
<1>1. T \subseteq Nat /\ T # {}
  <2>1. Cardinality(S) \in Nat
    BY FS_CardinalityType
  <2> QED
    BY <2>1 DEF Unbounded
<1>2. Min(T) \in T /\ \A t \in T : Min(T) <= t
  <2> HIDE DEF T
  <2> QED
    BY <1>1, MinInSet
<1>3. PICK U \in SUBSET Nat : /\ IsFiniteSet(U) /\ Cardinality(U) = Min(T)
                              /\ ~ \E b \in Nat : \A x \in U : x <= b
  BY <1>2, Zenon DEF Unbounded
<1>4. PICK u \in U : TRUE
  BY <1>3
<1>5. /\ IsFiniteSet(U \ {u}) /\ Cardinality(U \ {u}) = Min(T) - 1
      /\ Min(T) - 1 \in Nat
  <2>1. IsFiniteSet(U \ {u}) /\ Cardinality(U \ {u}) = Cardinality(U) - 1
    BY <1>3, <1>4, FS_RemoveElement
  <2>2. Cardinality(U \ {u}) \in Nat
    BY <2>1, FS_CardinalityType
  <2> QED
    BY <2>1, <2>2, <1>3
<1>6. Min(T) - 1 \notin T
  <2>1. Min(T) \in Nat
    BY <1>1, <1>2
  <2> HIDE DEF T
  <2> QED
    BY <1>2, <2>1
<1>7. PICK b \in Nat : \A x \in U \ {u} : x <= b
  <2>1. ~Unbounded(Min(T) - 1)
    BY <1>5, <1>6
  <2> QED
    BY <2>1, <1>5, Zenon DEF Unbounded
<1>8. \A x \in U : x <= b + u
  BY <1>7, <1>4
<1>9. b + u \in Nat
  BY <1>4
<1> QED
  BY <1>3, <1>8, <1>9

\* So Max of a finite set is its largest element: the largest key of a table, the
\* last sequence of a flushed MemTable.
LEMMA MaxInSet ==
  ASSUME NEW S \in SUBSET Nat, S # {}, IsFiniteSet(S)
  PROVE  Max(S) \in S /\ \A x \in S : x <= Max(S)
<1>1. PICK b \in Nat : \A x \in S : x <= b
  BY FiniteBounded
<1>2. \E m \in S : \A x \in S : m >= x
  <2>1. PICK m \in S : \A x \in S : x <= m
    BY <1>1, BoundedMax, Zenon
  <2> QED
    BY <2>1
<1>3. Max(S) \in S /\ \A x \in S : Max(S) >= x
  BY <1>2, Zenon DEF Max
<1> QED
  BY <1>3

-----------------------------------------------------------------------------
(* A read of a set of versions *)

\* No sequence number is given to two versions.
Unique(V) == \A v, w \in V : v.seq = w.seq => v = w

\* The newest of a set of versions is the only one that none is newer than.
LEMMA NewestIs ==
  ASSUME NEW V \in SUBSET Version, Unique(V), NEW v \in V, \A w \in V : w.seq <= v.seq
  PROVE  Newest(V) = v
<1>1. Newest(V) \in V /\ \A w \in V : w.seq <= Newest(V).seq
  BY Zenon DEF Newest
<1>2. Newest(V).seq <= v.seq /\ v.seq <= Newest(V).seq
  BY <1>1
<1>3. Newest(V).seq \in Nat /\ v.seq \in Nat
  BY <1>1, ReadsAssumption DEF Version
<1>4. Newest(V).seq = v.seq
  BY <1>2, <1>3
<1> QED
  BY <1>1, <1>4 DEF Unique

\* A non-empty set of versions has a newest one.
LEMMA NewestExists ==
  ASSUME NEW V \in SUBSET Version, V # {}
  PROVE  \E v \in V : \A w \in V : w.seq <= v.seq
<1> DEFINE S == {v.seq : v \in V}
<1>1. S \in SUBSET Nat /\ S # {} /\ \A x \in S : x <= MaxSequence
  <2>1. \A v \in V : v.seq \in Nat /\ v.seq <= MaxSequence
    BY ReadsAssumption DEF Version
  <2>2. S # {}
    BY Zenon
  <2> QED
    BY <2>1, <2>2
<1>2. PICK m \in S : \A x \in S : x <= m
  <2>1. MaxSequence \in Nat
    BY ReadsAssumption
  <2> HIDE DEF S
  <2> QED
    BY <1>1, <2>1, BoundedMax, Zenon
<1> QED
  BY <1>2

\* What a read of k at seq returns when all versions are in one set.
ValueIn(V, k, seq) ==
  LET visible == Visible(V, k, seq)
  IN  IF visible = {} \/ Newest(visible).tombstone THEN Absent ELSE Newest(visible).seq

\* v is what a read at seq finds for its key in V.
Tops(V, v, seq) ==
  v.seq <= seq /\ \A w \in V : w.key = v.key /\ w.seq <= seq => w.seq <= v.seq

\* For a read at seq, B may take the place of A, of which it is a part: it has what
\* the read finds, or that is a tombstone and B shows nothing of the key.
Stands(B, A, seq) ==
  \A v \in A : Tops(A, v, seq) =>
    v \in B \/ (v.tombstone /\ \A w \in B : w.key = v.key => ~(w.seq <= seq))

\* The visible versions of a key are versions, one per sequence number.
LEMMA VisibleOf ==
  ASSUME NEW V \in SUBSET Version, Unique(V), NEW k, NEW seq
  PROVE  Visible(V, k, seq) \in SUBSET Version /\ Unique(Visible(V, k, seq))
BY DEF Visible, Unique

\* A version that tops its key gives the value of the read.
LEMMA ValueOfTop ==
  ASSUME NEW V \in SUBSET Version, Unique(V), NEW seq, NEW v \in V, Tops(V, v, seq)
  PROVE  ValueIn(V, v.key, seq) = IF v.tombstone THEN Absent ELSE v.seq
<1> DEFINE X == Visible(V, v.key, seq)
<1>1. X \in SUBSET Version /\ Unique(X)
  BY VisibleOf
<1>2. v \in X /\ \A w \in X : w.seq <= v.seq
  BY DEF Visible, Tops
<1>3. Newest(X) = v
  <2> HIDE DEF X
  <2> QED
    BY <1>1, <1>2, NewestIs
<1> QED
  BY <1>2, <1>3 DEF ValueIn

\* A key of which nothing is visible reads as absent; otherwise a version tops it.
LEMMA TopOrAbsent ==
  ASSUME NEW V \in SUBSET Version, NEW k, NEW seq
  PROVE  \/ Visible(V, k, seq) = {} /\ ValueIn(V, k, seq) = Absent
         \/ \E v \in V : v.key = k /\ Tops(V, v, seq)
<1>1. CASE Visible(V, k, seq) = {}
  BY <1>1 DEF ValueIn
<1>2. CASE Visible(V, k, seq) # {}
  <2>1. Visible(V, k, seq) \in SUBSET Version
    BY DEF Visible
  <2>2. PICK v \in Visible(V, k, seq) : \A w \in Visible(V, k, seq) : w.seq <= v.seq
    BY <1>2, <2>1, NewestExists
  <2> QED
    BY <2>2 DEF Visible, Tops
<1> QED
  BY <1>1, <1>2

\* A set that stands for another gives the same values.
LEMMA StandsReads ==
  ASSUME NEW A \in SUBSET Version, Unique(A), NEW B \in SUBSET A, NEW seq,
         Stands(B, A, seq), NEW k
  PROVE  ValueIn(B, k, seq) = ValueIn(A, k, seq)
<1>0. B \in SUBSET Version /\ Unique(B)
  BY DEF Unique
<1>1. CASE Visible(A, k, seq) = {}
  <2>1. Visible(B, k, seq) = {}
    BY <1>1 DEF Visible
  <2> QED
    BY <1>1, <2>1 DEF ValueIn
<1>2. CASE Visible(A, k, seq) # {}
  <2>1. PICK v \in A : v.key = k /\ Tops(A, v, seq)
    BY <1>2, TopOrAbsent
  <2>2. ValueIn(A, k, seq) = IF v.tombstone THEN Absent ELSE v.seq
    BY <2>1, ValueOfTop
  <2>3. CASE v \in B
    <3>1. Tops(B, v, seq)
      BY <2>1 DEF Tops
    <3>2. ValueIn(B, v.key, seq) = IF v.tombstone THEN Absent ELSE v.seq
      BY <2>3, <3>1, <1>0, ValueOfTop
    <3> QED
      BY <3>2, <2>1, <2>2
  <2>4. CASE v \notin B
    <3>1. v.tombstone /\ \A w \in B : w.key = v.key => ~(w.seq <= seq)
      BY <2>1, <2>4 DEF Stands
    <3>2. Visible(B, k, seq) = {}
      BY <3>1, <2>1 DEF Visible
    <3> QED
      BY <3>1, <3>2, <2>2 DEF ValueIn
  <2> QED
    BY <2>3, <2>4
<1> QED
  BY <1>1, <1>2

\* Below newer versions, what stands for the older ones stands for all of them.
LEMMA StandsBelow ==
  ASSUME NEW A \in SUBSET Version, NEW B \in SUBSET A, NEW C \in SUBSET Version,
         NEW seq \in Nat, \A v \in A, w \in C : v.seq < w.seq, Stands(B, A, seq)
  PROVE  Stands(B \cup C, A \cup C, seq)
<1> SUFFICES ASSUME NEW v \in A \cup C, Tops(A \cup C, v, seq), v \notin B \cup C
             PROVE  v.tombstone /\ \A w \in B \cup C : w.key = v.key => ~(w.seq <= seq)
  BY DEF Stands
<1>1. v \in A /\ Tops(A, v, seq)
  BY DEF Tops
<1>2. v.tombstone /\ \A w \in B : w.key = v.key => ~(w.seq <= seq)
  BY <1>1 DEF Stands
<1>3. ASSUME NEW w \in C, w.key = v.key
      PROVE  ~(w.seq <= seq)
  <2>1. v.seq < w.seq /\ v.seq \in Nat /\ w.seq \in Nat
    BY <1>1, ReadsAssumption DEF Version
  <2>2. w.seq <= seq => w.seq <= v.seq
    BY <1>3 DEF Tops
  <2> QED
    BY <2>1, <2>2
<1> QED
  BY <1>2, <1>3

\* A full compaction at a watermark stands for its inputs for a read at seq that is
\* past them all (the latest read, a Snapshot that is being taken), or that is not
\* below the watermark.
LEMMA RetainStands ==
  ASSUME NEW A \in SUBSET Version, Unique(A), NEW mark \in 0 .. NoSnapshot,
         NEW seq \in Nat,
         (\A v \in A : v.seq <= seq) \/ (mark # NoSnapshot /\ mark <= seq)
  PROVE  Stands({v \in A : Retain(v, A, mark)}, A, seq)
<1> DEFINE B == {v \in A : Retain(v, A, mark)}
<1>0. /\ MaxSequence \in Nat /\ mark \in Nat
      /\ \A v \in A : v.seq \in Nat /\ v.tombstone \in BOOLEAN
  BY ReadsAssumption DEF Version, NoSnapshot
<1> SUFFICES ASSUME NEW v \in A, Tops(A, v, seq), v \notin B
             PROVE  v.tombstone /\ \A w \in B : w.key = v.key => ~(w.seq <= seq)
  BY DEF Stands
<1>1. CASE mark = NoSnapshot
  <2>1. \A w \in A : w.key = v.key => w.seq <= v.seq
    BY <1>1 DEF Tops
  <2>2. v.tombstone
    BY <1>1, <2>1 DEF Retain
  <2>3. ASSUME NEW w \in B, w.key = v.key
        PROVE  FALSE
    <3>1. w \in A /\ ~w.tombstone /\ v.seq <= w.seq
      BY <1>1, <2>3 DEF Retain
    <3>2. w.seq <= v.seq
      BY <2>1, <2>3, <3>1
    <3>3. w = v
      <4>1. w.seq = v.seq
        BY <3>1, <3>2, <1>0
      <4> QED
        BY <4>1, <3>1 DEF Unique
    <3> QED
      BY <2>2, <3>1, <3>3
  <2> QED
    BY <2>2, <2>3
<1>2. CASE mark # NoSnapshot
  <2>1. v.seq <= mark
    BY <1>0, <1>2 DEF Retain
  <2>2. ASSUME NEW w \in A, w.key = v.key, w.seq <= mark
        PROVE  w.seq <= v.seq
    <3>1. w.seq <= seq
      BY <2>2, <1>0
    <3> QED
      BY <2>2, <3>1 DEF Tops
  <2> QED
    BY <1>2, <2>2 DEF Retain
<1> QED
  BY <1>1, <1>2

-----------------------------------------------------------------------------
(* The sources: MemTable m, immutable MemTable i and tables t *)

Disk(t) == UNION {t[j] : j \in DOMAIN t}
Versions(m, i, t) == Disk(t) \cup i \cup m

\* Get, of the sources it reads.
GetOf(m, i, t, k, seq) ==
  LET found == Find(m, k, seq) \cup Find(i, k, seq) \cup
               UNION {Find(t[j], k, seq) : j \in {l \in DOMAIN t : MayHold(t[l], k)}}
  IN  IF found = {} \/ Newest(found).tombstone THEN Absent ELSE Newest(found).seq

\* The range of keys that a table is opened with covers the keys in it.
LEMMA MayHoldKeys ==
  ASSUME NEW V \in SUBSET Version, IsFiniteSet(V), NEW v \in V
  PROVE  MayHold(V, v.key)
<1> DEFINE S == {w.key : w \in V}
<1>1. S \in SUBSET Nat /\ v.key \in S
  <2>1. \A w \in V : w.key \in Nat
    BY ReadsAssumption, Zenon DEF Version
  <2> QED
    BY <2>1
<1>2. IsFiniteSet(S)
  <2> DEFINE g == [w \in V |-> w.key]
  <2>1. g \in Surjection(V, S)
    BY DEF Surjection
  <2> QED
    BY <2>1, FS_Surjection
<1>3. Min(S) <= v.key /\ v.key <= Max(S)
  <2> HIDE DEF S
  <2>1. S # {}
    BY <1>1
  <2> QED
    BY <2>1, <1>1, <1>2, MinInSet, MaxInSet, Zenon
<1> QED
  BY <1>3 DEF MayHold, Smallest, Largest

\* What one source finds is the version that tops the key, when the source has it.
LEMMA FindTop ==
  ASSUME NEW V, V \subseteq Version, Unique(V), NEW A, A \subseteq V, NEW seq,
         NEW v \in A, Tops(V, v, seq)
  PROVE  v \in Find(A, v.key, seq)
<1> DEFINE X == Visible(A, v.key, seq)
<1>1. X \in SUBSET Version /\ Unique(X)
  BY DEF Visible, Unique
<1>2. v \in X /\ \A w \in X : w.seq <= v.seq
  BY DEF Visible, Tops
<1>3. Newest(X) = v
  <2> HIDE DEF X
  <2> QED
    BY <1>1, <1>2, NewestIs
<1> QED
  BY <1>2, <1>3 DEF Find

\* A source finds only visible versions of the key.
LEMMA FindVisible ==
  ASSUME NEW A \in SUBSET Version, NEW k, NEW seq
  PROVE  Find(A, k, seq) \subseteq Visible(A, k, seq)
<1>1. CASE Visible(A, k, seq) = {}
  BY <1>1 DEF Find
<1>2. CASE Visible(A, k, seq) # {}
  <2>1. Visible(A, k, seq) \in SUBSET Version
    BY DEF Visible
  <2>2. \E v \in Visible(A, k, seq) : \A w \in Visible(A, k, seq) : w.seq <= v.seq
    BY <1>2, <2>1, NewestExists
  <2>3. Newest(Visible(A, k, seq)) \in Visible(A, k, seq)
    BY <2>2, Zenon DEF Newest
  <2> QED
    BY <1>2, <2>3 DEF Find
<1> QED
  BY <1>1, <1>2

\* DB::Impl::Get, which asks the MemTables and the tables whose key range covers the
\* key, reads the set of all versions.
LEMMA GetReads ==
  ASSUME NEW m \in SUBSET Version, NEW i \in SUBSET Version,
         NEW t \in Seq(SUBSET Version), Unique(Versions(m, i, t)),
         IsFiniteSet(Versions(m, i, t)), NEW k, NEW seq
  PROVE  GetOf(m, i, t, k, seq) = ValueIn(Versions(m, i, t), k, seq)
<1> DEFINE V == Versions(m, i, t)
           J == {l \in DOMAIN t : MayHold(t[l], k)}
           found == Find(m, k, seq) \cup Find(i, k, seq)
                    \cup UNION {Find(t[j], k, seq) : j \in J}
<1>1. /\ V \in SUBSET Version /\ m \in SUBSET V /\ i \in SUBSET V
      /\ \A j \in DOMAIN t : t[j] \in SUBSET V
      /\ \A v \in V : v \in m \/ v \in i \/ \E j \in DOMAIN t : v \in t[j]
  BY DEF Versions, Disk
<1>2. found \subseteq Visible(V, k, seq)
  <2>1. \A A \in SUBSET V : Find(A, k, seq) \subseteq Visible(V, k, seq)
    <3> TAKE A \in SUBSET V
    <3>1. Find(A, k, seq) \subseteq Visible(A, k, seq)
      <4> HIDE DEF V
      <4> QED
        BY <1>1, FindVisible
    <3> QED
      BY <3>1 DEF Visible
  <2> HIDE DEF V
  <2> QED
    BY <1>1, <2>1
<1>3. CASE Visible(V, k, seq) = {}
  <2>1. found = {}
    BY <1>2, <1>3
  <2>2. GetOf(m, i, t, k, seq) = Absent
    BY <2>1 DEF GetOf
  <2>3. ValueIn(V, k, seq) = Absent
    BY <1>3 DEF ValueIn
  <2> QED
    BY <2>2, <2>3
<1>4. CASE Visible(V, k, seq) # {}
  <2> HIDE DEF V
  <2>1. PICK v \in V : v.key = k /\ Tops(V, v, seq)
    BY <1>1, <1>4, TopOrAbsent
  <2>2. \A A \in SUBSET V : v \in A => v \in Find(A, k, seq)
    <3>1. Unique(V)
      BY DEF V
    <3> SUFFICES ASSUME NEW A \in SUBSET V, v \in A
                 PROVE  v \in Find(A, v.key, seq)
      BY <2>1
    <3>2. QED
      <4>1. V \subseteq Version /\ A \subseteq V /\ Tops(V, v, seq)
        BY <1>1, <2>1
      <4> QED
        BY <3>1, <4>1, FindTop
  <2>3. v \in found
    <3>1. CASE v \in m
      BY <3>1, <2>2, <1>1
    <3>2. CASE v \in i
      BY <3>2, <2>2, <1>1
    <3>3. ASSUME NEW j \in DOMAIN t, v \in t[j]
          PROVE  v \in found
      <4>1. t[j] \in SUBSET V /\ IsFiniteSet(t[j])
        BY <1>1, FS_Subset DEF V
      <4>2. j \in J
        BY <4>1, <3>3, <2>1, <1>1, MayHoldKeys
      <4>3. v \in Find(t[j], k, seq)
        BY <4>1, <3>3, <2>2
      <4> HIDE DEF J
      <4> QED
        BY <4>2, <4>3
    <3> HIDE DEF found
    <3> QED
      BY <3>1, <3>2, <3>3, <1>1
  <2>4. found \in SUBSET Version /\ Unique(found) /\ \A w \in found : w.seq <= v.seq
    <3> HIDE DEF found
    <3>1. found \in SUBSET V /\ \A w \in found : w.key = k /\ w.seq <= seq
      BY <1>2 DEF Visible
    <3> QED
      BY <3>1, <1>1, <2>1 DEF Tops, Unique, V
  <2>5. Newest(found) = v
    <3> HIDE DEF found
    <3> QED
      BY <2>3, <2>4, NewestIs
  <2>6. GetOf(m, i, t, k, seq) = IF v.tombstone THEN Absent ELSE v.seq
    <3>1. GetOf(m, i, t, k, seq)
            = IF found = {} \/ Newest(found).tombstone THEN Absent ELSE Newest(found).seq
      BY DEF GetOf
    <3> HIDE DEF found
    <3> QED
      BY <3>1, <2>3, <2>5
  <2>7. ValueIn(V, k, seq) = IF v.tombstone THEN Absent ELSE v.seq
    BY <1>1, <2>1, ValueOfTop DEF V
  <2> QED
    BY <2>6, <2>7 DEF V
<1> QED
  BY <1>3, <1>4

\* The sources in order, with the next sequence n and the MANIFEST's last sequence f.
Layered(m, i, t, n, f) ==
  /\ m \in SUBSET Version /\ i \in SUBSET Version /\ t \in Seq(SUBSET Version)
  /\ n \in 1 .. NoSnapshot /\ f \in 0 .. MaxSequence /\ f < n
  /\ \A v \in Disk(t) : v.seq <= f
  /\ \A v \in i \cup m : f < v.seq /\ v.seq < n
  /\ \A v \in i, w \in m : v.seq < w.seq
  /\ \A j \in DOMAIN t : t[j] # {}
  /\ \A j, l \in DOMAIN t : j < l => \A v \in t[j], w \in t[l] : v.seq < w.seq
  /\ Unique(Versions(m, i, t)) /\ IsFiniteSet(Versions(m, i, t))

\* All versions are below next_sequence_.
LEMMA LayeredBelow ==
  ASSUME NEW m, NEW i, NEW t, NEW n, NEW f, Layered(m, i, t, n, f)
  PROVE  /\ Versions(m, i, t) \in SUBSET Version
         /\ \A v \in Versions(m, i, t) : v.seq \in Nat /\ v.seq < n
<1>1. Versions(m, i, t) \in SUBSET Version
  BY DEF Layered, Versions, Disk
<1>2. ASSUME NEW v \in Versions(m, i, t)
      PROVE  v.seq \in Nat /\ v.seq < n
  <2>1. v.seq \in Nat /\ n \in Nat /\ f \in Nat /\ f < n
    BY <1>1, ReadsAssumption DEF Layered, Version, NoSnapshot
  <2>2. v.seq <= f \/ v.seq < n
    BY DEF Layered, Versions
  <2> QED
    BY <2>1, <2>2
<1> QED
  BY <1>1, <1>2

\* Get of sources in order reads the set of all versions.
LEMMA LayeredReads ==
  ASSUME NEW m, NEW i, NEW t, NEW n, NEW f, Layered(m, i, t, n, f), NEW k, NEW seq
  PROVE  GetOf(m, i, t, k, seq) = ValueIn(Versions(m, i, t), k, seq)
BY GetReads DEF Layered

Rotates(m, i, t, n, f, rm, ri) ==
  /\ Rotated([mem |-> m, imm |-> i]) = [mem |-> rm, imm |-> ri]
  /\ Layered(rm, ri, t, n, f)
  /\ Versions(rm, ri, t) = Versions(m, i, t)

\* A rotation moves versions from one MemTable to the other.
LEMMA RotatedLayers ==
  ASSUME NEW m, NEW i, NEW t, NEW n, NEW f, Layered(m, i, t, n, f)
  PROVE  \E rm, ri : Rotates(m, i, t, n, f, rm, ri)
<1>1. CASE Full(m) /\ i = {}
  <2>1. Rotated([mem |-> m, imm |-> i]) = [mem |-> {}, imm |-> m]
    BY <1>1 DEF Rotated
  <2>2. Versions({}, m, t) = Versions(m, i, t)
    BY <1>1 DEF Versions
  <2>3. Layered({}, m, t, n, f)
    BY <1>1, <2>2 DEF Layered
  <2> QED
    BY <2>1, <2>2, <2>3 DEF Rotates
<1>2. CASE ~(Full(m) /\ i = {})
  <2>1. Rotated([mem |-> m, imm |-> i]) = [mem |-> m, imm |-> i]
    BY <1>2 DEF Rotated
  <2> QED
    BY <2>1 DEF Rotates
<1> QED
  BY <1>1, <1>2

\* The versions a batch writes from sequence n on.
Written(batch, n) ==
  {[key |-> batch[j].key, seq |-> n + j - 1, tombstone |-> batch[j].tombstone]
     : j \in DOMAIN batch}

\* The versions of a batch are numbered from n on, each number once.
LEMMA WrittenFits ==
  ASSUME NEW batch \in Batches, NEW n \in 1 .. NoSnapshot,
         n + Len(batch) <= MaxSequence + 1
  PROVE  /\ Written(batch, n) \in SUBSET Version /\ IsFiniteSet(Written(batch, n))
         /\ Unique(Written(batch, n)) /\ n + Len(batch) \in 1 .. NoSnapshot
         /\ n <= n + Len(batch)
         /\ \A v \in Written(batch, n) : n <= v.seq /\ v.seq < n + Len(batch)
<1>1. /\ batch \in Seq([key : Keys, tombstone : BOOLEAN]) /\ MaxSequence \in Nat
      /\ n \in Nat /\ 1 <= n
  <2>1. batch \in Seq([key : Keys, tombstone : BOOLEAN])
    BY ReadsAssumption, Zenon
  <2>2. MaxSequence \in Nat
    BY ReadsAssumption
  <2> QED
    BY <2>1, <2>2 DEF NoSnapshot
<1>2. Len(batch) \in Nat /\ DOMAIN batch = 1 .. Len(batch)
  BY <1>1
<1>3. \A j \in DOMAIN batch : batch[j].key \in Keys /\ batch[j].tombstone \in BOOLEAN
  <2> DEFINE Entry == [key : Keys, tombstone : BOOLEAN]
  <2>1. \A j \in DOMAIN batch : batch[j] \in Entry
    <3> HIDE DEF Entry
    <3>1. batch \in Seq(Entry)
      BY <1>1 DEF Entry
    <3> QED
      BY <3>1
  <2> QED
    BY <2>1
<1>4. \A j \in DOMAIN batch : n + j - 1 \in 1 .. MaxSequence
  BY <1>1, <1>2
<1>5. Written(batch, n) \in SUBSET Version
  <2>1. ASSUME NEW j \in DOMAIN batch
        PROVE  [key |-> batch[j].key, seq |-> n + j - 1,
                tombstone |-> batch[j].tombstone] \in Version
    BY <1>3, <1>4 DEF Version
  <2> QED
    BY <2>1 DEF Written
<1>6. Unique(Written(batch, n))
  BY <1>1, <1>2 DEF Written, Unique
<1>7. IsFiniteSet(Written(batch, n))
  <2> DEFINE g == [j \in DOMAIN batch |->
                     [key |-> batch[j].key, seq |-> n + j - 1,
                      tombstone |-> batch[j].tombstone]]
  <2>1. g \in Surjection(DOMAIN batch, Written(batch, n))
    BY DEF Surjection, Written
  <2>2. IsFiniteSet(DOMAIN batch)
    BY <1>2, FS_Interval
  <2> QED
    BY <2>1, <2>2, FS_Surjection
<1>8. \A v \in Written(batch, n) : n <= v.seq /\ v.seq < n + Len(batch)
  BY <1>1, <1>2 DEF Written
<1> QED
  BY <1>1, <1>2, <1>5, <1>6, <1>7, <1>8 DEF NoSnapshot

Writes(m, i, t, n, f, batch) ==
  /\ Layered(m \cup Written(batch, n), i, t, n + Len(batch), f)
  /\ Versions(m \cup Written(batch, n), i, t) = Versions(m, i, t) \cup Written(batch, n)

\* A write into the MemTable.
LEMMA WrittenLayers ==
  ASSUME NEW m, NEW i, NEW t, NEW n, NEW f, Layered(m, i, t, n, f),
         NEW batch \in Batches, n + Len(batch) <= MaxSequence + 1
  PROVE  Writes(m, i, t, n, f, batch)
<1> DEFINE W == Written(batch, n)
           n2 == n + Len(batch)
<1>1. n \in 1 .. NoSnapshot /\ n \in Nat /\ f \in Nat /\ f < n
  BY ReadsAssumption DEF Layered, NoSnapshot
<1>2. /\ W \in SUBSET Version /\ IsFiniteSet(W) /\ Unique(W)
      /\ n2 \in 1 .. NoSnapshot /\ n <= n2 /\ n2 \in Nat
      /\ \A v \in W : n <= v.seq /\ v.seq < n2
  <2>1. /\ W \in SUBSET Version /\ IsFiniteSet(W) /\ Unique(W)
        /\ n2 \in 1 .. NoSnapshot /\ n <= n2
        /\ \A v \in W : n <= v.seq /\ v.seq < n2
    BY <1>1, WrittenFits
  <2> HIDE DEF n2
  <2> QED
    BY <2>1
<1> HIDE DEF W, n2
<1>3. \A v \in W : v.seq \in Nat
  BY <1>2, ReadsAssumption DEF Version
<1>4. Versions(m \cup W, i, t) = Versions(m, i, t) \cup W
  BY DEF Versions
<1>5. /\ Versions(m, i, t) \in SUBSET Version
      /\ \A v \in Versions(m, i, t) : v.seq \in Nat /\ v.seq < n
  BY LayeredBelow
<1>6. Unique(Versions(m, i, t) \cup W)
  <2>1. Unique(Versions(m, i, t))
    BY DEF Layered
  <2>2. \A v \in Versions(m, i, t), w \in W : v.seq # w.seq
    BY <1>1, <1>2, <1>3, <1>5
  <2> QED
    BY <2>1, <2>2, <1>2 DEF Unique
<1>7. IsFiniteSet(Versions(m, i, t) \cup W)
  BY <1>2, FS_Union, Zenon DEF Layered
<1>8. m \subseteq Versions(m, i, t) /\ i \subseteq Versions(m, i, t)
  BY DEF Versions
<1>9. \A v \in i \cup (m \cup W) : f < v.seq /\ v.seq < n2
  <2>1. \A v \in i \cup m : f < v.seq /\ v.seq < n /\ v.seq \in Nat
    BY <1>5, <1>8 DEF Layered
  <2> QED
    BY <2>1, <1>1, <1>2, <1>3
<1>10. \A v \in i, w \in m \cup W : v.seq < w.seq
  <2>1. \A v \in i, w \in m : v.seq < w.seq
    BY DEF Layered
  <2>2. \A v \in i, w \in W : v.seq < w.seq
    BY <1>1, <1>2, <1>3, <1>5, <1>8
  <2> QED
    BY <2>1, <2>2
<1>11. f < n2
  BY <1>1, <1>2
<1> QED
  BY <1>2, <1>4, <1>6, <1>7, <1>9, <1>10, <1>11, Zenon DEF Layered, Writes, W, n2

\* A flush makes the immutable MemTable the newest table.
LEMMA FlushedLayers ==
  ASSUME NEW m, NEW i, NEW t, NEW n, NEW f, Layered(m, i, t, n, f), i # {}
  PROVE  /\ Layered(m, {}, Append(t, i), n, Max({v.seq : v \in i}))
         /\ Versions(m, {}, Append(t, i)) = Versions(m, i, t)
<1> DEFINE S == {v.seq : v \in i}
           r == Append(t, i)
<1>0. /\ m \in SUBSET Version /\ i \in SUBSET Version /\ t \in Seq(SUBSET Version)
      /\ n \in Nat /\ f \in Nat /\ f < n
      /\ n \in 1 .. NoSnapshot /\ NoSnapshot = MaxSequence + 1 /\ MaxSequence \in Nat
      /\ \A v \in i \cup m : v.seq \in 1 .. MaxSequence
  BY ReadsAssumption DEF Layered, NoSnapshot, Version
<1>1. /\ r \in Seq(SUBSET Version) /\ DOMAIN r = 1 .. Len(t) + 1
      /\ DOMAIN t = 1 .. Len(t) /\ Len(t) \in Nat
      /\ \A j \in DOMAIN t : j \in DOMAIN r /\ r[j] = t[j]
      /\ r[Len(t) + 1] = i
  BY <1>0
<1> HIDE DEF r
<1>2. \A j \in DOMAIN r : j \in DOMAIN t \/ j = Len(t) + 1
  BY <1>1
<1>3. Disk(r) = Disk(t) \cup i
  <2>1. Disk(r) \subseteq Disk(t) \cup i
    BY <1>1, <1>2 DEF Disk
  <2>2. Disk(t) \subseteq Disk(r)
    BY <1>1 DEF Disk
  <2>3. i \subseteq Disk(r)
    <3>1. Len(t) + 1 \in DOMAIN r
      BY <1>1
    <3> QED
      BY <3>1, <1>1 DEF Disk
  <2> QED
    BY <2>1, <2>2, <2>3
<1>4. Versions(m, {}, r) = Versions(m, i, t)
  BY <1>3 DEF Versions
<1>5. Max(S) \in S /\ \A x \in S : x <= Max(S)
  <2>1. S \in SUBSET Nat /\ S # {}
    <3>1. \A v \in i : v.seq \in Nat
      BY <1>0
    <3>2. S # {}
      BY Zenon
    <3> QED
      BY <3>1, <3>2
  <2>2. IsFiniteSet(S)
    <3>1. S \in SUBSET (1 .. MaxSequence)
      BY <1>0
    <3>2. IsFiniteSet(1 .. MaxSequence)
      BY <1>0, FS_Interval
    <3> QED
      BY <3>1, <3>2, FS_Subset, Zenon
  <2> HIDE DEF S
  <2> QED
    BY <2>1, <2>2, MaxInSet
<1>6. PICK top \in i : Max(S) = top.seq
  BY <1>5
<1>7. \A v \in i : v.seq <= top.seq
  BY <1>5, <1>6
<1>8. top.seq \in 0 .. MaxSequence /\ top.seq < n /\ f < top.seq
  BY <1>0 DEF Layered
<1>9. \A v \in Disk(r) : v.seq <= top.seq
  <2>1. \A v \in Disk(t) : v.seq <= f
    BY DEF Layered
  <2>2. Disk(t) \in SUBSET Version
    BY <1>0 DEF Disk
  <2>3. \A v \in Disk(t) : v.seq \in Nat
    BY <2>2, ReadsAssumption DEF Version
  <2>4. \A v \in Disk(t) : v.seq <= top.seq
    BY <2>1, <2>3, <1>8, <1>0
  <2> QED
    BY <2>4, <1>3, <1>7
<1>10. \A v \in {} \cup m : top.seq < v.seq /\ v.seq < n
  BY DEF Layered
<1>11. \A j \in DOMAIN r : r[j] # {}
  BY <1>1, <1>2 DEF Layered
<1>12. \A j, l \in DOMAIN r : j < l => \A v \in r[j], w \in r[l] : v.seq < w.seq
  <2> SUFFICES ASSUME NEW j \in DOMAIN r, NEW l \in DOMAIN r, j < l,
                      NEW v \in r[j], NEW w \in r[l]
               PROVE  v.seq < w.seq
    OBVIOUS
  <2>1. j \in DOMAIN t /\ r[j] = t[j]
    BY <1>1, <1>2
  <2>2. CASE l \in DOMAIN t
    BY <2>1, <2>2, <1>1 DEF Layered
  <2>3. CASE l = Len(t) + 1
    <3>1. w \in i /\ v \in Disk(t)
      BY <2>1, <2>3, <1>1 DEF Disk
    <3>2. v.seq <= f /\ f < w.seq
      BY <3>1 DEF Layered
    <3>3. v.seq \in Nat /\ w.seq \in Nat
      <4>1. v \in Version
        BY <3>1, <1>0 DEF Disk
      <4> QED
        BY <4>1, <3>1, <1>0, ReadsAssumption DEF Version
    <3> QED
      BY <3>2, <3>3, <1>0
  <2> QED
    BY <2>2, <2>3, <1>2
<1>13. Unique(Versions(m, {}, r)) /\ IsFiniteSet(Versions(m, {}, r))
  BY <1>4 DEF Layered
<1>14. Layered(m, {}, r, n, top.seq)
  BY <1>0, <1>1, <1>8, <1>9, <1>10, <1>11, <1>12, <1>13 DEF Layered
<1> QED
  BY <1>4, <1>6, <1>14 DEF r

\* The versions of the first n tables, and of everything above them.
First(t, n) == UNION {t[j] : j \in 1 .. n}
Above(m, i, t, n) == (UNION {t[j] : j \in n + 1 .. Len(t)}) \cup i \cup m

\* The tables after a compaction of the first n of them.
Installed(t, n, output) ==
  (IF output = {} THEN <<>> ELSE <<output>>) \o SubSeq(t, n + 1, Len(t))

\* The tables r after a compaction of the first n: d tables of output, then the others.
IsInstalled(r, t, n, output, d) ==
  /\ r \in Seq(SUBSET Version) /\ DOMAIN r = 1 .. Len(t) - n + d
  /\ d = 0 <=> output = {}
  /\ d = 1 => r[1] = output
  /\ \A j \in 1 .. Len(t) - n : r[d + j] = t[n + j]

\* The tables of an installed compaction: the output, unless it is empty, and the tables
\* after the inputs in their order.
LEMMA InstalledTables ==
  ASSUME NEW t \in Seq(SUBSET Version), NEW n \in 1 .. Len(t),
         NEW output \in SUBSET Version
  PROVE  \E d \in {0, 1} : IsInstalled(Installed(t, n, output), t, n, output, d)
<1>1. /\ Len(t) \in Nat /\ n \in Nat /\ n <= Len(t)
      /\ DOMAIN t = 1 .. Len(t)
  OBVIOUS
<1> DEFINE rest == SubSeq(t, n + 1, Len(t))
<1>2. /\ rest \in Seq(SUBSET Version) /\ Len(rest) = Len(t) - n
      /\ \A j \in 1 .. Len(t) - n : rest[j] = t[n + j]
  <2>1. n + 1 \in 1 .. Len(t) + 1 /\ Len(t) \in (n + 1) - 1 .. Len(t)
    BY <1>1
  <2>2. /\ rest \in Seq(SUBSET Version) /\ Len(rest) = Len(t) - (n + 1) + 1
        /\ \A j \in 1 .. Len(t) - (n + 1) + 1 : rest[j] = t[(n + 1) + j - 1]
    BY <2>1
  <2>3. Len(t) - (n + 1) + 1 = Len(t) - n
    BY <1>1
  <2>4. \A j \in 1 .. Len(t) - n : (n + 1) + j - 1 = n + j
    BY <1>1
  <2> HIDE DEF rest
  <2> QED
    BY <2>2, <2>3, <2>4
<1> HIDE DEF rest
<1>3. CASE output = {}
  <2>1. Installed(t, n, output) = rest
    BY <1>2, <1>3 DEF Installed, rest
  <2>2. DOMAIN rest = 1 .. Len(t) - n + 0
    BY <1>1, <1>2
  <2>3. \A j \in 1 .. Len(t) - n : rest[0 + j] = t[n + j]
    BY <1>1, <1>2
  <2> WITNESS 0 \in {0, 1}
  <2> QED
    BY <1>2, <1>3, <2>1, <2>2, <2>3 DEF IsInstalled
<1>4. CASE output # {}
  <2> DEFINE r == <<output>> \o rest
  <2>1. Installed(t, n, output) = r
    BY <1>4, Zenon DEF Installed, rest
  <2>2. /\ r \in Seq(SUBSET Version) /\ Len(r) = 1 + (Len(t) - n) /\ r[1] = output
        /\ \A j \in 1 .. Len(rest) : r[1 + j] = rest[j]
    BY <1>1, <1>2
  <2> HIDE DEF r
  <2>3. DOMAIN r = 1 .. Len(t) - n + 1
    BY <1>1, <2>2
  <2>4. \A j \in 1 .. Len(t) - n : r[1 + j] = t[n + j]
    BY <1>2, <2>2
  <2> WITNESS 1 \in {0, 1}
  <2> QED
    BY <1>4, <2>1, <2>2, <2>3, <2>4 DEF IsInstalled
<1> QED
  BY <1>3, <1>4

\* An installed compaction whose output is a part of its inputs keeps the order.
LEMMA InstalledLayers ==
  ASSUME NEW m, NEW i, NEW t, NEW n, NEW f, Layered(m, i, t, n, f),
         NEW c \in 1 .. Len(t), NEW output, output \subseteq First(t, c)
  PROVE  /\ Layered(m, i, Installed(t, c, output), n, f)
         /\ Versions(m, i, Installed(t, c, output)) = output \cup Above(m, i, t, c)
         /\ Versions(m, i, t) = First(t, c) \cup Above(m, i, t, c)
         /\ \A v \in First(t, c), w \in Above(m, i, t, c) : v.seq < w.seq
<1>0. /\ m \in SUBSET Version /\ i \in SUBSET Version /\ t \in Seq(SUBSET Version)
      /\ f \in Nat /\ Len(t) \in Nat /\ DOMAIN t = 1 .. Len(t) /\ c \in DOMAIN t
      /\ c \in Nat /\ 1 <= c /\ c <= Len(t)
  BY ReadsAssumption DEF Layered
<1>1. output \in SUBSET Version
  BY <1>0 DEF First
<1>2. PICK d \in {0, 1} : IsInstalled(Installed(t, c, output), t, c, output, d)
  BY <1>0, <1>1, InstalledTables, Zenon
<1> DEFINE r == Installed(t, c, output)
<1>3. /\ r \in Seq(SUBSET Version) /\ DOMAIN r = 1 .. Len(t) - c + d
      /\ d = 0 <=> output = {}
      /\ d = 1 => r[1] = output
      /\ \A j \in 1 .. Len(t) - c : r[d + j] = t[c + j]
  BY <1>2 DEF IsInstalled
<1> HIDE DEF r
<1>4. \A j \in DOMAIN r : \/ j = 1 /\ d = 1 /\ r[j] = output
                          \/ /\ j - d + c \in DOMAIN t /\ c < j - d + c
                             /\ r[j] = t[j - d + c]
  <2> TAKE j \in DOMAIN r
  <2>1. CASE j = 1 /\ d = 1
    BY <2>1, <1>3
  <2>2. CASE ~(j = 1 /\ d = 1)
    <3>1. j - d \in 1 .. Len(t) - c /\ d + (j - d) = j /\ c + (j - d) = j - d + c
      BY <2>2, <1>3, <1>0
    <3>2. r[j] = t[j - d + c]
      BY <3>1, <1>3, Zenon
    <3> QED
      BY <3>1, <3>2, <1>0
  <2> QED
    BY <2>1, <2>2
<1>5. Disk(r) = output \cup UNION {t[j] : j \in c + 1 .. Len(t)}
  <2>1. \A j \in DOMAIN r : r[j] \subseteq output \cup UNION {t[l] : l \in c + 1 .. Len(t)}
    <3> TAKE j \in DOMAIN r
    <3>1. CASE r[j] = output
      BY <3>1
    <3>2. CASE j - d + c \in DOMAIN t /\ c < j - d + c /\ r[j] = t[j - d + c]
      <4>1. j - d + c \in c + 1 .. Len(t)
        BY <3>2, <1>0, <1>3
      <4> QED
        BY <4>1, <3>2
    <3> QED
      BY <3>1, <3>2, <1>4
  <2>2. output \subseteq Disk(r)
    <3>1. CASE d = 0
      BY <3>1, <1>3
    <3>2. CASE d = 1
      <4>1. 1 \in DOMAIN r
        BY <3>2, <1>3, <1>0
      <4> QED
        BY <4>1, <3>2, <1>3 DEF Disk
    <3> QED
      BY <3>1, <3>2
  <2>3. ASSUME NEW j \in c + 1 .. Len(t)
        PROVE  t[j] \subseteq Disk(r)
    <3>1. /\ j - c \in 1 .. Len(t) - c /\ c + (j - c) = j
          /\ d + (j - c) \in 1 .. Len(t) - c + d
      BY <1>0
    <3>3. d + (j - c) \in DOMAIN r
      BY <1>3, <3>1, Zenon
    <3>2. r[d + (j - c)] = t[j]
      BY <3>1, <1>3, Zenon
    <3> QED
      BY <3>2, <3>3 DEF Disk
  <2>4. Disk(r) \subseteq output \cup UNION {t[l] : l \in c + 1 .. Len(t)}
    BY <2>1 DEF Disk
  <2> QED
    BY <2>2, <2>3, <2>4
<1>6. Versions(m, i, r) = output \cup Above(m, i, t, c)
  BY <1>5 DEF Versions, Above
<1>7. Versions(m, i, t) = First(t, c) \cup Above(m, i, t, c)
  <2>1. \A j \in DOMAIN t : j \in 1 .. c \/ j \in c + 1 .. Len(t)
    BY <1>0
  <2>2. (1 .. c) \subseteq DOMAIN t /\ (c + 1 .. Len(t)) \subseteq DOMAIN t
    BY <1>0
  <2>3. Disk(t) = First(t, c) \cup UNION {t[j] : j \in c + 1 .. Len(t)}
    BY <2>1, <2>2 DEF Disk, First
  <2> QED
    BY <2>3 DEF Versions, Above
<1>8. \A j, l \in DOMAIN t : j < l => \A v \in t[j], w \in t[l] : v.seq < w.seq
  BY DEF Layered
<1>9. \A v \in First(t, c), j \in DOMAIN t : c < j => \A w \in t[j] : v.seq < w.seq
  <2> SUFFICES ASSUME NEW l \in 1 .. c, NEW v \in t[l], NEW j \in DOMAIN t, c < j,
                      NEW w \in t[j]
               PROVE  v.seq < w.seq
    BY DEF First
  <2>1. l \in DOMAIN t /\ l < j
    BY <1>0
  <2> QED
    BY <2>1, <1>8
<1>10. \A v \in First(t, c), w \in Above(m, i, t, c) : v.seq < w.seq
  <2> SUFFICES ASSUME NEW v \in First(t, c), NEW w \in Above(m, i, t, c)
               PROVE  v.seq < w.seq
    OBVIOUS
  <2>1. CASE w \in i \cup m
    <3>1. v \in Disk(t) /\ v \in Version /\ w \in Version
      BY <1>0, <2>1 DEF First, Disk
    <3>2. v.seq <= f /\ f < w.seq
      BY <3>1, <2>1 DEF Layered
    <3>3. v.seq \in Nat /\ w.seq \in Nat
      BY <3>1, ReadsAssumption DEF Version
    <3> QED
      BY <3>2, <3>3, <1>0
  <2>2. ASSUME NEW j \in c + 1 .. Len(t), w \in t[j]
        PROVE  v.seq < w.seq
    <3>1. j \in DOMAIN t /\ c < j
      BY <1>0
    <3> QED
      BY <3>1, <2>2, <1>9
  <2> QED
    BY <2>1, <2>2 DEF Above
<1>11. Versions(m, i, r) \subseteq Versions(m, i, t) /\ Disk(r) \subseteq Disk(t)
  <2>1. Disk(r) \subseteq Disk(t)
    <3>1. (1 .. c) \subseteq DOMAIN t /\ (c + 1 .. Len(t)) \subseteq DOMAIN t
      BY <1>0
    <3> QED
      BY <3>1, <1>5, Zenon DEF Disk, First
  <2> QED
    BY <2>1 DEF Versions
<1>12. Unique(Versions(m, i, r)) /\ IsFiniteSet(Versions(m, i, r))
  <2>1. Unique(Versions(m, i, t)) /\ IsFiniteSet(Versions(m, i, t))
    BY DEF Layered
  <2>2. Unique(Versions(m, i, r))
    BY <2>1, <1>11 DEF Unique
  <2> QED
    BY <2>1, <2>2, <1>11, FS_Subset
<1>13. \A j \in DOMAIN r : r[j] # {}
  BY <1>3, <1>4 DEF Layered
<1>14. \A j, l \in DOMAIN r : j < l => \A v \in r[j], w \in r[l] : v.seq < w.seq
  <2> SUFFICES ASSUME NEW j \in DOMAIN r, NEW l \in DOMAIN r, j < l,
                      NEW v \in r[j], NEW w \in r[l]
               PROVE  v.seq < w.seq
    OBVIOUS
  <2>1. /\ l - d + c \in DOMAIN t /\ c < l - d + c
        /\ r[l] = t[l - d + c]
    BY <1>3, <1>4, <1>0
  <2>2. CASE j = 1 /\ d = 1 /\ r[j] = output
    BY <2>1, <2>2, <1>9
  <2>3. CASE j - d + c \in DOMAIN t /\ r[j] = t[j - d + c]
    <3>1. j - d + c < l - d + c
      BY <1>0, <1>3
    <3> QED
      BY <3>1, <2>1, <2>3, <1>8
  <2> QED
    BY <2>2, <2>3, <1>4
<1>15. Layered(m, i, r, n, f)
  <2>1. \A v \in Disk(r) : v.seq <= f
    BY <1>11 DEF Layered
  <2> QED
    BY <2>1, <1>3, <1>12, <1>13, <1>14 DEF Layered
<1> QED
  BY <1>6, <1>7, <1>10, <1>15 DEF r

\* Sequence r is the largest that recovery finds.
Recovers(m, i, t, f, r) ==
  /\ Layered(m, i, t, r + 1, f) /\ r \in 0 .. MaxSequence
  /\ \A v \in Versions(m, i, t) : v.seq <= r
  /\ f <= r /\ (r = f \/ \E v \in m \cup i : v.seq = r)

\* Recovery finds the last sequence that was given out to a version that is still there.
LEMMA RecoveredLayers ==
  ASSUME NEW m, NEW i, NEW t, NEW n, NEW f, Layered(m, i, t, n, f),
         NEW last, last = Max({f} \cup {v.seq : v \in m \cup i})
  PROVE  Recovers(m, i, t, f, last)
<1> DEFINE S == {f} \cup {v.seq : v \in m \cup i}
<1>0. /\ m \in SUBSET Version /\ i \in SUBSET Version /\ t \in Seq(SUBSET Version)
      /\ f \in 0 .. MaxSequence /\ f \in Nat /\ MaxSequence \in Nat
      /\ \A v \in m \cup i : v.seq \in 1 .. MaxSequence
  BY ReadsAssumption DEF Layered, Version
<1>1. S \in SUBSET (0 .. MaxSequence) /\ S # {}
  <2>1. \A v \in m \cup i : v.seq \in 0 .. MaxSequence
    BY <1>0
  <2> QED
    BY <2>1, <1>0
<1>2. last \in S /\ \A x \in S : x <= last
  <2> HIDE DEF S
  <2>1. IsFiniteSet(0 .. MaxSequence)
    BY <1>0, FS_Interval
  <2>2. IsFiniteSet(S)
    BY <2>1, <1>1, FS_Subset, Zenon
  <2>3. Max(S) \in S /\ \A x \in S : x <= Max(S)
    <3>1. S \in SUBSET Nat
      BY <1>1
    <3> QED
      BY <3>1, <2>2, <1>1, MaxInSet
  <2> QED
    BY <2>3, Zenon DEF S
<1>3. last \in 0 .. MaxSequence /\ last \in Nat
  BY <1>1, <1>2, <1>0
<1>4. f <= last /\ \A v \in m \cup i : v.seq <= last
  BY <1>2
<1>5. \A v \in Versions(m, i, t) : v.seq <= last
  <2> TAKE v \in Versions(m, i, t)
  <2>1. v.seq \in Nat
    BY LayeredBelow
  <2>2. v.seq <= f \/ v.seq <= last
    BY <1>4 DEF Versions, Layered
  <2> QED
    BY <2>1, <2>2, <1>0, <1>3, <1>4
<1>6. \A v \in i \cup m : f < v.seq /\ v.seq < last + 1
  <2>1. \A v \in i \cup m : f < v.seq
    BY DEF Layered
  <2>2. \A v \in i \cup m : v.seq < last + 1
    BY <1>0, <1>3, <1>4
  <2> QED
    BY <2>1, <2>2
<1>7. last + 1 \in 1 .. NoSnapshot /\ f < last + 1
  BY <1>0, <1>3, <1>4 DEF NoSnapshot
<1>8. last = f \/ \E v \in m \cup i : v.seq = last
  BY <1>2
<1> QED
  BY <1>3, <1>4, <1>5, <1>6, <1>7, <1>8 DEF Layered, Recovers

-----------------------------------------------------------------------------
(* The inductive invariant *)

Holders(q) == {h \in Handles : handle[h].state = "open" /\ handle[h].seq = q}

\* The sequences somebody reads at, now or when GetSnapshot has returned.
Pinned ==
  {next - 1} \cup {handle[h].seq : h \in {g \in Handles : handle[g].state # "none"}}

\* The output may take the place of the first n tables for reads at the sequences in pins.
Fits(t, n, output, pins) ==
  output \subseteq First(t, n) /\ \A q \in pins : Stands(output, First(t, n), q)

HandlesOK ==
  /\ handle \in [Handles -> [state : {"none", "reading", "open"}, seq : 0 .. MaxSequence]]
  /\ \A h \in Handles : /\ handle[h].state = "reading" => handle[h].seq = next - 1
                        /\ handle[h].state = "open" => handle[h].seq < next

\* The registry counts the open Snapshots of every sequence.
Counted ==
  /\ registry \in [0 .. MaxSequence -> Nat]
  /\ \A q \in 0 .. MaxSequence :
       IsFiniteSet(Holders(q)) /\ registry[q] = Cardinality(Holders(q))

\* The inputs of a running compaction are still the oldest tables, and all of them if they
\* were when it began; what it wrote fits every sequence that is read at, although
\* Snapshots were taken and released since it read the watermark.
JobOK ==
  \/ job = Idle
  \/ /\ Trigger <= Len(tables)
     /\ \/ job = [stage |-> "selected", inputs |-> SubSeq(tables, 1, Trigger),
                  full |-> Trigger = Len(tables), output |-> {}]
        \/ /\ job = [stage |-> "merged", inputs |-> SubSeq(tables, 1, Trigger),
                     full |-> Trigger = Len(tables), output |-> job.output]
           /\ Fits(tables, Trigger, job.output, Pinned)

ReadsInv ==
  Layered(mem, imm, tables, next, floor) /\ HandlesOK /\ Counted /\ JobOK

\* Every sequence that is read at is a number below next_sequence_.
LEMMA PinnedType ==
  ASSUME ReadsInv
  PROVE  /\ next \in Nat /\ next - 1 \in Nat /\ MaxSequence \in Nat
         /\ \A q \in Pinned : q \in 0 .. MaxSequence /\ q < next
<1>1. next \in 1 .. NoSnapshot /\ MaxSequence \in Nat
  BY ReadsAssumption DEF ReadsInv, Layered
<1>2. next \in Nat /\ next - 1 \in 0 .. MaxSequence /\ next - 1 < next
  BY <1>1 DEF NoSnapshot
<1>3. ASSUME NEW h \in Handles, handle[h].state # "none"
      PROVE  handle[h].seq \in 0 .. MaxSequence /\ handle[h].seq < next
  <2>1. handle[h] \in [state : {"none", "reading", "open"}, seq : 0 .. MaxSequence]
    BY DEF ReadsInv, HandlesOK
  <2>2. handle[h].seq = next - 1 \/ handle[h].seq < next
    BY <1>3, <2>1 DEF ReadsInv, HandlesOK
  <2> QED
    BY <2>1, <2>2, <1>2
<1> QED
  BY <1>1, <1>2, <1>3 DEF Pinned

\* What stands for A at a sequence past all of A stands for it at every later one.
LEMMA StandsPast ==
  ASSUME NEW A \in SUBSET Version, NEW B \in SUBSET A, NEW p \in Nat, NEW q \in Nat,
         p <= q, \A v \in A : v.seq <= p, Stands(B, A, p)
  PROVE  Stands(B, A, q)
<1>1. \A v \in A : v.seq \in Nat
  BY ReadsAssumption DEF Version
<1>2. \A v \in A : v.seq <= p /\ v.seq <= q
  BY <1>1
<1> SUFFICES ASSUME NEW v \in A, Tops(A, v, q), v \notin B
             PROVE  v.tombstone /\ \A w \in B : w.key = v.key => ~(w.seq <= q)
  BY DEF Stands
<1>3. Tops(A, v, p)
  BY <1>2 DEF Tops
<1>4. v.tombstone /\ \A w \in B : w.key = v.key => ~(w.seq <= p)
  BY <1>3 DEF Stands
<1> QED
  BY <1>2, <1>4

\* The inputs of a compaction are among the versions that are there.
LEMMA FirstVersions ==
  ASSUME NEW m, NEW i, NEW t, NEW n, NEW f, Layered(m, i, t, n, f),
         NEW c \in 1 .. Len(t)
  PROVE  /\ First(t, c) \in SUBSET Version /\ Unique(First(t, c))
         /\ First(t, c) \subseteq Versions(m, i, t)
         /\ \A v \in First(t, c) : v.seq \in Nat /\ v.seq < n
<1>1. First(t, c) \subseteq Versions(m, i, t)
  <2>1. t \in Seq(SUBSET Version)
    BY DEF Layered
  <2>2. (1 .. c) \subseteq DOMAIN t
    BY <2>1
  <2> QED
    BY <2>2 DEF First, Versions, Disk
<1>2. /\ Versions(m, i, t) \in SUBSET Version
      /\ \A v \in Versions(m, i, t) : v.seq \in Nat /\ v.seq < n
  BY LayeredBelow
<1>3. Unique(Versions(m, i, t))
  BY DEF Layered
<1> QED
  BY <1>1, <1>2, <1>3 DEF Unique

\* The watermark is not above the sequence of any open Snapshot.
LEMMA OldestBelow ==
  ASSUME ReadsInv
  PROVE  /\ Oldest \in 0 .. NoSnapshot
         /\ \A h \in Handles : handle[h].state = "open" =>
              Oldest # NoSnapshot /\ Oldest <= handle[h].seq
<1>0. /\ MaxSequence \in Nat /\ NoSnapshot = MaxSequence + 1
      /\ registry \in [0 .. MaxSequence -> Nat]
  BY ReadsAssumption DEF ReadsInv, Counted, NoSnapshot
<1>1. Registered \subseteq 0 .. MaxSequence /\ Registered \in SUBSET Nat
  BY <1>0 DEF Registered
<1>2. Registered # {} =>
        /\ Oldest \in Registered /\ \A q \in Registered : Oldest <= q
  <2>1. ASSUME Registered # {}
        PROVE  Min(Registered) \in Registered /\ \A q \in Registered : Min(Registered) <= q
    BY <1>1, <2>1, MinInSet
  <2> QED
    BY <2>1 DEF Oldest
<1>3. ASSUME NEW h \in Handles, handle[h].state = "open"
      PROVE  handle[h].seq \in Registered
  <2>1. handle[h].seq \in 0 .. MaxSequence
    BY DEF ReadsInv, HandlesOK
  <2>2. h \in Holders(handle[h].seq)
    BY <1>3 DEF Holders
  <2>3. /\ IsFiniteSet(Holders(handle[h].seq))
        /\ registry[handle[h].seq] = Cardinality(Holders(handle[h].seq))
    BY <2>1 DEF ReadsInv, Counted
  <2>4. Cardinality(Holders(handle[h].seq)) # 0
    BY <2>2, <2>3, FS_EmptySet
  <2>5. registry[handle[h].seq] \in Nat
    BY <1>0, <2>1
  <2> QED
    BY <1>0, <2>1, <2>3, <2>4, <2>5 DEF Registered
<1>4. Oldest \in 0 .. NoSnapshot
  <2>1. CASE Registered = {}
    BY <2>1, <1>0 DEF Oldest
  <2>2. CASE Registered # {}
    <3>1. Oldest \in 0 .. MaxSequence
      BY <2>2, <1>1, <1>2, Zenon
    <3> QED
      BY <3>1, <1>0
  <2> QED
    BY <2>1, <2>2
<1>5. Registered # {} => Oldest # NoSnapshot
  BY <1>0, <1>1, <1>2
<1> QED
  BY <1>2, <1>3, <1>4, <1>5

\* What a compaction of the oldest c tables writes fits every sequence that is read at:
\* those of open Snapshots are not below the watermark, and the latest one and those of
\* Snapshots about to be registered are past all tables.
LEMMA CompactedFits ==
  ASSUME ReadsInv, NEW c \in 1 .. Len(tables)
  PROVE  Fits(tables, c, Compacted(SubSeq(tables, 1, c), c = Len(tables), Oldest), Pinned)
<1> DEFINE A == First(tables, c)
           B == {v \in A : c = Len(tables) => Retain(v, A, Oldest)}
<1>0. tables \in Seq(SUBSET Version)
  BY DEF ReadsInv, Layered
<1>1. UNION Range(SubSeq(tables, 1, c)) = A
  <2>1. /\ DOMAIN SubSeq(tables, 1, c) = 1 .. c
        /\ \A j \in 1 .. c : SubSeq(tables, 1, c)[j] = tables[j]
    BY <1>0
  <2> QED
    BY <2>1 DEF Range, First
<1>2. Compacted(SubSeq(tables, 1, c), c = Len(tables), Oldest) = B
  BY <1>1, Zenon DEF Compacted
<1>3. /\ A \in SUBSET Version /\ Unique(A)
      /\ \A v \in A : v.seq \in Nat /\ v.seq < next
  BY FirstVersions DEF ReadsInv
<1>4. ASSUME NEW q \in Pinned
      PROVE  Stands(B, A, q)
  <2>1. q \in Nat /\ next \in Nat /\ next - 1 \in Nat
    BY PinnedType
  <2>2. CASE c # Len(tables)
    <3>1. B = A
      BY <2>2
    <3> QED
      BY <3>1 DEF Stands
  <2>3. CASE c = Len(tables)
    <3>1. B = {v \in A : Retain(v, A, Oldest)}
      BY <2>3
    <3>2. (\A v \in A : v.seq <= q) \/ (Oldest # NoSnapshot /\ Oldest <= q)
      <4>1. CASE q = next - 1
        BY <4>1, <1>3, <2>1
      <4>2. ASSUME NEW h \in Handles, handle[h].state # "none", q = handle[h].seq
            PROVE  q = next - 1 \/ (Oldest # NoSnapshot /\ Oldest <= q)
        <5>1. handle[h].state \in {"none", "reading", "open"}
          BY DEF ReadsInv, HandlesOK
        <5> QED
          BY <4>2, <5>1, OldestBelow DEF ReadsInv, HandlesOK
      <4> HIDE DEF A
      <4> QED
        BY <4>1, <4>2 DEF Pinned
    <3>3. Oldest \in 0 .. NoSnapshot
      BY OldestBelow
    <3> HIDE DEF A
    <3>4. Stands({v \in A : Retain(v, A, Oldest)}, A, q)
      BY <1>3, <2>1, <3>2, <3>3, RetainStands
    <3> QED
      BY <3>1, <3>4, Zenon
  <2> QED
    BY <2>2, <2>3
<1> HIDE DEF A
<1>5. B \subseteq A
  OBVIOUS
<1> QED
  BY <1>2, <1>4, <1>5 DEF Fits, A

\* Installing an output that fits changes no read at those sequences.
LEMMA InstalledReads ==
  ASSUME NEW m, NEW i, NEW t, NEW n, NEW f, Layered(m, i, t, n, f),
         NEW c \in 1 .. Len(t), NEW output, NEW pins, Fits(t, c, output, pins),
         NEW q \in pins, q \in Nat, NEW k
  PROVE  /\ Layered(m, i, Installed(t, c, output), n, f)
         /\ GetOf(m, i, Installed(t, c, output), k, q) = GetOf(m, i, t, k, q)
<1> DEFINE A == First(t, c)
           C == Above(m, i, t, c)
           r == Installed(t, c, output)
<1>1. output \subseteq A /\ Stands(output, A, q)
  BY DEF Fits
<1>2. /\ Layered(m, i, r, n, f)
      /\ Versions(m, i, r) = output \cup C
      /\ Versions(m, i, t) = A \cup C
      /\ \A v \in A, w \in C : v.seq < w.seq
  BY <1>1, InstalledLayers
<1>3. A \cup C \in SUBSET Version /\ Unique(A \cup C)
  BY <1>2, LayeredBelow, Zenon DEF Layered
<1>4. Stands(output \cup C, A \cup C, q)
  <2> HIDE DEF A, C
  <2>1. A \in SUBSET Version /\ C \in SUBSET Version /\ output \in SUBSET A
    BY <1>1, <1>3
  <2> QED
    BY <2>1, <1>1, <1>2, StandsBelow, Zenon
<1>5. ValueIn(output \cup C, k, q) = ValueIn(A \cup C, k, q)
  <2> HIDE DEF A, C
  <2>1. output \cup C \in SUBSET (A \cup C)
    BY <1>1
  <2> QED
    BY <2>1, <1>3, <1>4, StandsReads
<1>6. GetOf(m, i, t, k, q) = ValueIn(Versions(m, i, t), k, q)
  BY LayeredReads
<1>7. GetOf(m, i, r, k, q) = ValueIn(Versions(m, i, r), k, q)
  <2>1. Layered(m, i, r, n, f)
    BY <1>2
  <2> HIDE DEF r
  <2> QED
    BY <2>1, LayeredReads, Zenon
<1> QED
  BY <1>2, <1>5, <1>6, <1>7

-----------------------------------------------------------------------------
(* The steps *)

\* Reads at the sequences in pins return what they did before the step.
SameReads(pins) ==
  \A q \in pins, k \in Keys :
    GetOf(mem', imm', tables', k, q) = GetOf(mem, imm, tables, k, q)

\* Without a change to Snapshots and registry, only next_sequence_ matters to them.
LEMMA SameHandles ==
  ASSUME ReadsInv, handle' = handle, registry' = registry,
         next' = next \/ (Exclusive /\ next' \in Nat /\ next <= next')
  PROVE  HandlesOK' /\ Counted'
<1>1. HandlesOK'
  <2>1. next \in Nat /\ MaxSequence \in Nat
    BY PinnedType
  <2>2. \A h \in Handles : handle[h].seq \in Nat
    BY <2>1 DEF ReadsInv, HandlesOK
  <2>3. CASE next' = next
    BY <2>3 DEF ReadsInv, HandlesOK
  <2>4. CASE Exclusive /\ next' \in Nat /\ next <= next'
    <3>1. ASSUME NEW h \in Handles
          PROVE  /\ handle[h].state # "reading"
                 /\ handle[h].state = "open" => handle[h].seq < next'
      BY <2>1, <2>2, <2>4 DEF ReadsInv, HandlesOK, Exclusive
    <3> QED
      BY <3>1 DEF ReadsInv, HandlesOK
  <2> QED
    BY <2>3, <2>4
<1>2. Counted'
  BY DEF ReadsInv, Counted, Holders
<1> QED
  BY <1>1, <1>2

\* ApplyWriteGroup: new versions are past every sequence that is read at, and a
\* compaction that has merged fits the new latest sequence too.
LEMMA WriteStep ==
  ASSUME ReadsInv, NEW batch \in Batches, Write(batch)
  PROVE  /\ ReadsInv' /\ SameReads({q \in Nat : q < next})
         /\ next' = next + Len(batch) /\ floor' = floor
         /\ Versions(mem', imm', tables') = Versions(mem, imm, tables) \cup Written(batch, next)
<1> DEFINE W == Written(batch, next)
           n2 == next + Len(batch)
<1>0. Layered(mem, imm, tables, next, floor) /\ n2 <= MaxSequence + 1
  BY DEF ReadsInv, Write
<1>1. PICK bm, bi : Rotates(mem, imm, tables, next, floor, bm, bi)
  BY <1>0, RotatedLayers, Zenon
<1>2. /\ Layered(bm \cup W, bi, tables, n2, floor)
      /\ Versions(bm \cup W, bi, tables) = Versions(bm, bi, tables) \cup W
  <2>1. Writes(bm, bi, tables, next, floor, batch)
    BY <1>0, <1>1, WrittenLayers DEF Rotates
  <2> QED
    BY <2>1, Zenon DEF Writes
<1>3. PICK am, ai : Rotates(bm \cup W, bi, tables, n2, floor, am, ai)
  <2> HIDE DEF W, n2
  <2> QED
    BY <1>2, RotatedLayers, Zenon
<1>4. /\ mem' = am /\ imm' = ai /\ next' = n2 /\ Exclusive
      /\ UNCHANGED <<tables, floor, handle, registry, job>>
  <2> DEFINE before == Rotated([mem |-> mem, imm |-> imm])
  <2>1. [before EXCEPT !.mem = @ \cup W] = [mem |-> bm \cup W, imm |-> bi]
    <3>1. before = [mem |-> bm, imm |-> bi]
      BY <1>1 DEF Rotates
    <3> HIDE DEF W, before
    <3> QED
      BY <3>1
  <2>2. /\ mem' = Rotated([before EXCEPT !.mem = @ \cup W]).mem
        /\ imm' = Rotated([before EXCEPT !.mem = @ \cup W]).imm
        /\ next' = n2 /\ Exclusive
        /\ UNCHANGED <<tables, floor, handle, registry, job>>
    BY DEF Write, Written
  <2> HIDE DEF before, W, n2
  <2> QED
    BY <2>1, <2>2, <1>3 DEF Rotates
<1>5. Layered(mem', imm', tables', next', floor')
  BY <1>3, <1>4 DEF Rotates
<1>6. Versions(mem', imm', tables') = Versions(mem, imm, tables) \cup W
  BY <1>1, <1>2, <1>3, <1>4, Zenon DEF Rotates
<1>7. /\ \A v \in W : next <= v.seq
      /\ next <= next' /\ next \in Nat /\ next' \in Nat
      /\ W \in SUBSET Version
  <2>1. next \in 1 .. NoSnapshot /\ next \in Nat
    BY PinnedType, Zenon DEF ReadsInv, Layered
  <2>2. /\ W \in SUBSET Version /\ n2 \in 1 .. NoSnapshot /\ next <= n2
        /\ \A v \in W : next <= v.seq
    BY <2>1, <1>0, WrittenFits
  <2>3. next' = n2
    BY <1>4
  <2> HIDE DEF n2, W
  <2> QED
    BY <2>1, <2>2, <2>3
<1> HIDE DEF W, n2
<1>8. SameReads({q \in Nat : q < next})
  <2> SUFFICES ASSUME NEW q \in Nat, q < next, NEW k \in Keys
               PROVE  GetOf(mem', imm', tables', k, q) = GetOf(mem, imm, tables, k, q)
    BY DEF SameReads
  <2>1. \A v \in W : ~(v.seq <= q)
    <3>1. \A v \in W : v.seq \in Nat
      BY <1>7, ReadsAssumption DEF Version
    <3> QED
      BY <3>1, <1>7
  <2>2. Visible(Versions(mem', imm', tables'), k, q) = Visible(Versions(mem, imm, tables), k, q)
    BY <2>1, <1>6 DEF Visible
  <2>3. ValueIn(Versions(mem', imm', tables'), k, q) = ValueIn(Versions(mem, imm, tables), k, q)
    BY <2>2 DEF ValueIn
  <2>4. GetOf(mem', imm', tables', k, q) = ValueIn(Versions(mem', imm', tables'), k, q)
    BY <1>5, LayeredReads
  <2>5. GetOf(mem, imm, tables, k, q) = ValueIn(Versions(mem, imm, tables), k, q)
    BY <1>0, LayeredReads
  <2> QED
    BY <2>3, <2>4, <2>5
<1>9. HandlesOK' /\ Counted'
  BY <1>4, <1>7, SameHandles
<1>10. JobOK'
  <2>1. CASE ~(Trigger <= Len(tables) /\ Fits(tables, Trigger, job.output, Pinned))
    BY <2>1, <1>4 DEF ReadsInv, JobOK
  <2>2. CASE Trigger <= Len(tables) /\ Fits(tables, Trigger, job.output, Pinned)
    <3>1. Trigger \in 1 .. Len(tables)
      <4>1. tables \in Seq(SUBSET Version)
        BY <1>0 DEF Layered
      <4> QED
        BY <4>1, <2>2, ReadsAssumption
    <3>2. /\ First(tables, Trigger) \in SUBSET Version
          /\ \A v \in First(tables, Trigger) : v.seq \in Nat /\ v.seq < next
      BY <1>0, <3>1, FirstVersions
    <3>3. /\ job.output \in SUBSET First(tables, Trigger)
          /\ Stands(job.output, First(tables, Trigger), next - 1)
      BY <2>2, Zenon DEF Fits, Pinned
    <3>4. next - 1 \in Nat /\ next' - 1 \in Nat /\ next - 1 <= next' - 1
      <4>1. 1 <= next
        <5>1. next - 1 \in Nat /\ next \in Nat
          BY PinnedType, Zenon
        <5> QED
          BY <5>1
      <4>2. next <= next' /\ next \in Nat /\ next' \in Nat
        BY <1>7
      <4> DEFINE n3 == next'
      <4>3. next <= n3 /\ n3 \in Nat
        BY <4>2
      <4> HIDE DEF n3
      <4>4. next - 1 \in Nat /\ n3 - 1 \in Nat /\ next - 1 <= n3 - 1
        BY <4>1, <4>2, <4>3
      <4> QED
        BY <4>4 DEF n3
    <3>5. \A v \in First(tables, Trigger) : v.seq <= next - 1
      BY <3>2, <3>4, <1>7
    <3>6. Stands(job.output, First(tables, Trigger), next' - 1)
      BY <3>2, <3>3, <3>4, <3>5, StandsPast
    <3>7. \A q \in Pinned' : q = next' - 1 \/ q \in Pinned
      BY <1>4 DEF Pinned
    <3>8. Fits(tables, Trigger, job.output, Pinned')
      BY <2>2, <3>6, <3>7 DEF Fits
    <3> QED
      BY <3>8, <1>4 DEF ReadsInv, JobOK
  <2> QED
    BY <2>1, <2>2
<1> QED
  BY <1>4, <1>5, <1>6, <1>8, <1>9, <1>10 DEF ReadsInv, W, n2

\* A flush moves the versions of the immutable MemTable to a table.
LEMMA FlushStep ==
  ASSUME ReadsInv, Flush
  PROVE  ReadsInv' /\ next' = next /\ SameReads(Nat)
<1>0. Layered(mem, imm, tables, next, floor) /\ imm # {}
  BY DEF ReadsInv, Flush
<1>1. /\ tables' = Append(tables, imm) /\ imm' = {} /\ mem' = mem /\ next' = next
      /\ floor' = Max({v.seq : v \in imm}) /\ job' = job /\ job.stage = "idle"
      /\ handle' = handle /\ registry' = registry
  BY DEF Flush
<1>2. /\ Layered(mem', imm', tables', next', floor')
      /\ Versions(mem', imm', tables') = Versions(mem, imm, tables)
  BY <1>0, <1>1, FlushedLayers
<1>3. SameReads(Nat)
  <2> SUFFICES ASSUME NEW q \in Nat, NEW k \in Keys
               PROVE  GetOf(mem', imm', tables', k, q) = GetOf(mem, imm, tables, k, q)
    BY DEF SameReads
  <2>1. GetOf(mem', imm', tables', k, q) = ValueIn(Versions(mem', imm', tables'), k, q)
    BY <1>2, LayeredReads
  <2>2. GetOf(mem, imm, tables, k, q) = ValueIn(Versions(mem, imm, tables), k, q)
    BY <1>0, LayeredReads
  <2> QED
    BY <2>1, <2>2, <1>2
<1>4. HandlesOK' /\ Counted'
  BY <1>1, SameHandles
<1>5. JobOK'
  BY <1>1 DEF ReadsInv, JobOK, Idle
<1> QED
  BY <1>1, <1>2, <1>3, <1>4, <1>5 DEF ReadsInv

\* A compaction that fits goes on fitting while no new sequence is read at.
LEMMA JobKept ==
  ASSUME ReadsInv, job' = job, tables' = tables, Pinned' \subseteq Pinned
  PROVE  JobOK'
<1>1. Fits(tables, Trigger, job.output, Pinned) => Fits(tables, Trigger, job.output, Pinned')
  BY DEF Fits
<1> QED
  BY <1>1 DEF ReadsInv, JobOK

Sources == <<mem, imm, tables, next, floor>>

\* A step that leaves the sources alone leaves every read alone.
LEMMA SourcesKept ==
  ASSUME ReadsInv, UNCHANGED Sources
  PROVE  Layered(mem, imm, tables, next, floor)' /\ SameReads(Nat)
BY DEF ReadsInv, SameReads, Sources

\* GetSnapshot reads next_sequence_, which the latest read pins already.
LEMMA SnapshotReadsStep ==
  ASSUME ReadsInv, NEW h \in Handles, SnapshotReads(h)
  PROVE  ReadsInv'
<1> DEFINE reading == [state |-> "reading", seq |-> next - 1]
<1>0. /\ handle[h].state = "none" /\ handle' = [handle EXCEPT ![h] = reading]
      /\ UNCHANGED Sources /\ registry' = registry /\ job' = job
  BY DEF SnapshotReads, Sources
<1>1. /\ handle \in [Handles -> [state : {"none", "reading", "open"},
                                 seq : 0 .. MaxSequence]]
      /\ next - 1 \in 0 .. MaxSequence /\ next' = next
  BY <1>0, PinnedType, Zenon DEF ReadsInv, HandlesOK, Pinned, Sources
<1>2. /\ handle'[h] = reading
      /\ \A g \in Handles : g # h => handle'[g] = handle[g]
  BY <1>0, <1>1
<1>3. HandlesOK'
  <2>1. handle' \in [Handles -> [state : {"none", "reading", "open"},
                                 seq : 0 .. MaxSequence]]
    BY <1>0, <1>1
  <2> QED
    BY <2>1, <1>1, <1>2 DEF ReadsInv, HandlesOK
<1>4. \A q : Holders(q)' = Holders(q)
  BY <1>0, <1>2 DEF Holders
<1>5. Counted'
  BY <1>0, <1>4 DEF ReadsInv, Counted
<1>6. Pinned' \subseteq Pinned
  <2>1. ASSUME NEW g \in Handles, handle'[g].state # "none"
        PROVE  handle'[g].seq \in Pinned
    <3>1. CASE g = h
      BY <3>1, <1>2 DEF Pinned
    <3>2. CASE g # h
      BY <2>1, <3>2, <1>2 DEF Pinned
    <3> QED
      BY <3>1, <3>2
  <2> QED
    BY <2>1, <1>1 DEF Pinned
<1>7. JobOK'
  BY <1>0, <1>6, JobKept DEF Sources
<1> QED
  BY <1>0, <1>3, <1>5, <1>7, SourcesKept DEF ReadsInv

\* A Snapshot that ends, or that the limit refuses, pins nothing any more.
LEMMA DroppedHandle ==
  ASSUME ReadsInv, NEW h \in Handles, handle' = [handle EXCEPT ![h] = NoHandle],
         UNCHANGED Sources
  PROVE  /\ HandlesOK' /\ Pinned' \subseteq Pinned
         /\ \A q : Holders(q)' = Holders(q) \ {h}
<1>1. /\ handle \in [Handles -> [state : {"none", "reading", "open"},
                                 seq : 0 .. MaxSequence]]
      /\ 0 \in 0 .. MaxSequence /\ next' = next
  BY PinnedType DEF ReadsInv, HandlesOK, Sources
<1>2. /\ handle'[h].state = "none" /\ handle'[h].seq = 0
      /\ \A g \in Handles : g # h => handle'[g] = handle[g]
  BY <1>1 DEF NoHandle
<1>3. HandlesOK'
  <2>1. handle' \in [Handles -> [state : {"none", "reading", "open"},
                                 seq : 0 .. MaxSequence]]
    BY <1>1 DEF NoHandle
  <2> QED
    BY <2>1, <1>1, <1>2 DEF ReadsInv, HandlesOK
<1>4. Pinned' \subseteq Pinned
  <2>1. ASSUME NEW g \in Handles, handle'[g].state # "none"
        PROVE  handle'[g].seq \in Pinned
    BY <2>1, <1>2 DEF Pinned
  <2> QED
    BY <2>1, <1>1 DEF Pinned
<1>5. \A q : Holders(q)' = Holders(q) \ {h}
  BY <1>2 DEF Holders
<1> QED
  BY <1>3, <1>4, <1>5

\* TryRegister: the refused Snapshot is gone, the other one is counted.
LEMMA SnapshotRegistersStep ==
  ASSUME ReadsInv, NEW h \in Handles, SnapshotRegisters(h)
  PROVE  /\ ReadsInv'
         /\ \/ handle' = [handle EXCEPT ![h] = NoHandle]
            \/ handle' = [handle EXCEPT ![h].state = "open"]
<1>0. /\ handle[h].state = "reading" /\ UNCHANGED Sources /\ job' = job
      /\ \/ handle' = [handle EXCEPT ![h] = NoHandle] /\ registry' = registry
         \/ /\ handle' = [handle EXCEPT ![h].state = "open"]
            /\ registry' = [registry EXCEPT ![handle[h].seq] = @ + 1]
  BY Zenon DEF SnapshotRegisters, Sources
<1>1. /\ handle \in [Handles -> [state : {"none", "reading", "open"},
                                 seq : 0 .. MaxSequence]]
      /\ registry \in [0 .. MaxSequence -> Nat]
      /\ next' = next /\ next \in Nat /\ handle[h].seq = next - 1
  BY <1>0, PinnedType DEF ReadsInv, HandlesOK, Counted, Sources
<1>2. CASE handle' = [handle EXCEPT ![h] = NoHandle] /\ registry' = registry
  <2>1. /\ HandlesOK' /\ Pinned' \subseteq Pinned
        /\ \A q : Holders(q)' = Holders(q) \ {h}
    BY <1>0, <1>2, DroppedHandle, Zenon
  <2>2. \A q : Holders(q)' = Holders(q)
    BY <1>0, <2>1 DEF Holders
  <2>3. Counted'
    BY <1>2, <2>2 DEF ReadsInv, Counted
  <2>4. JobOK'
    BY <1>0, <2>1, JobKept DEF Sources
  <2> QED
    BY <1>0, <1>2, <2>1, <2>3, <2>4, SourcesKept DEF ReadsInv
<1>3. CASE /\ handle' = [handle EXCEPT ![h].state = "open"]
           /\ registry' = [registry EXCEPT ![handle[h].seq] = @ + 1]
  <2>1. /\ handle'[h].state = "open" /\ handle'[h].seq = handle[h].seq
        /\ \A g \in Handles : g # h => handle'[g] = handle[g]
    BY <1>1, <1>3
  <2>2. HandlesOK'
    <3>1. handle' \in [Handles -> [state : {"none", "reading", "open"},
                                   seq : 0 .. MaxSequence]]
      BY <1>1, <1>3
    <3>2. handle[h].seq < next
      BY <1>1
    <3> QED
      BY <2>1, <3>1, <3>2, <1>1, Zenon DEF ReadsInv, HandlesOK
  <2>3. Pinned' \subseteq Pinned
    <3>1. ASSUME NEW g \in Handles, handle'[g].state # "none"
          PROVE  handle'[g].seq \in Pinned
      BY <3>1, <2>1, <1>0 DEF Pinned
    <3> QED
      BY <3>1, <1>1 DEF Pinned
  <2>4. Counted'
    <3> DEFINE s == handle[h].seq
    <3>1. s \in 0 .. MaxSequence
      BY <1>1
    <3>2. /\ \A q : q = s => Holders(q)' = Holders(s) \cup {h}
          /\ h \notin Holders(s)
      BY <2>1, <1>0 DEF Holders
    <3>3. \A q : q # s => Holders(q)' = Holders(q)
      BY <2>1, <1>0 DEF Holders
    <3>4. /\ registry' \in [0 .. MaxSequence -> Nat]
          /\ registry'[s] = registry[s] + 1
          /\ \A q \in 0 .. MaxSequence : q # s => registry'[q] = registry[q]
      BY <1>1, <1>3, <3>1
    <3>5. \A q \in 0 .. MaxSequence :
            IsFiniteSet(Holders(q)) /\ registry[q] = Cardinality(Holders(q))
      BY DEF ReadsInv, Counted
    <3> HIDE DEF s
    <3>6. /\ IsFiniteSet(Holders(s) \cup {h})
          /\ Cardinality(Holders(s) \cup {h}) = Cardinality(Holders(s)) + 1
      BY <3>1, <3>2, <3>5, FS_AddElement
    <3>7. ASSUME NEW q \in 0 .. MaxSequence
          PROVE  IsFiniteSet(Holders(q)') /\ registry'[q] = Cardinality(Holders(q)')
      <4>1. CASE q = s
        <5>1. Holders(q)' = Holders(s) \cup {h}
          BY <4>1, <3>2
        <5> QED
          BY <4>1, <5>1, <3>1, <3>4, <3>5, <3>6
      <4>2. CASE q # s
        <5>1. Holders(q)' = Holders(q) /\ registry'[q] = registry[q]
          BY <4>2, <3>3, <3>4
        <5> QED
          BY <5>1, <3>5
      <4> QED
        BY <4>1, <4>2
    <3> QED
      BY <3>4, <3>7 DEF Counted
  <2>5. JobOK'
    BY <1>0, <2>3, JobKept DEF Sources
  <2> QED
    BY <1>0, <1>3, <2>2, <2>4, <2>5, SourcesKept DEF ReadsInv
<1> QED
  BY <1>0, <1>2, <1>3

\* ~Snapshot: its sequence stays registered as long as another Snapshot has it.
LEMMA ReleaseStep ==
  ASSUME ReadsInv, NEW h \in Handles, Release(h)
  PROVE  ReadsInv'
<1> DEFINE s == handle[h].seq
<1>0. /\ handle[h].state = "open" /\ UNCHANGED Sources /\ job' = job
      /\ handle' = [handle EXCEPT ![h] = NoHandle]
      /\ registry' = [registry EXCEPT ![s] = @ - 1]
  BY DEF Release, Unregister, Sources
<1>1. /\ handle \in [Handles -> [state : {"none", "reading", "open"},
                                 seq : 0 .. MaxSequence]]
      /\ registry \in [0 .. MaxSequence -> Nat] /\ s \in 0 .. MaxSequence
  BY DEF ReadsInv, HandlesOK, Counted
<1>2. /\ HandlesOK' /\ Pinned' \subseteq Pinned
      /\ \A q : Holders(q)' = Holders(q) \ {h}
  BY <1>0, DroppedHandle, Zenon
<1>3. h \in Holders(s) /\ \A q : q # s => h \notin Holders(q)
  BY <1>0 DEF Holders
<1>4. /\ registry'[s] = registry[s] - 1
      /\ \A q \in 0 .. MaxSequence : q # s => registry'[q] = registry[q]
      /\ DOMAIN registry' = 0 .. MaxSequence
      /\ registry' = [q \in 0 .. MaxSequence |-> registry'[q]]
  BY <1>0, <1>1, Zenon
<1>5. \A q \in 0 .. MaxSequence :
        IsFiniteSet(Holders(q)) /\ registry[q] = Cardinality(Holders(q))
  BY DEF ReadsInv, Counted
<1> HIDE DEF s
<1>6. /\ IsFiniteSet(Holders(s) \ {h}) /\ Cardinality(Holders(s) \ {h}) \in Nat
      /\ Cardinality(Holders(s) \ {h}) = Cardinality(Holders(s)) - 1
  <2>1. /\ IsFiniteSet(Holders(s) \ {h})
        /\ Cardinality(Holders(s) \ {h}) = Cardinality(Holders(s)) - 1
    BY <1>1, <1>3, <1>5, FS_RemoveElement, Zenon
  <2> QED
    BY <2>1, FS_CardinalityType
<1>7. ASSUME NEW q \in 0 .. MaxSequence
      PROVE  /\ IsFiniteSet(Holders(q)') /\ registry'[q] = Cardinality(Holders(q)')
             /\ registry'[q] \in Nat
  <2>1. CASE q = s
    <3>1. Holders(q)' = Holders(s) \ {h}
      BY <2>1, <1>2
    <3> QED
      BY <2>1, <3>1, <1>1, <1>4, <1>5, <1>6
  <2>2. CASE q # s
    <3>1. Holders(q)' = Holders(q)
      BY <2>2, <1>2, <1>3
    <3> QED
      BY <2>2, <3>1, <1>1, <1>4, <1>5
  <2> QED
    BY <2>1, <2>2
<1>8. registry' \in [0 .. MaxSequence -> Nat]
  BY <1>4, <1>7
<1>9. Counted'
  BY <1>7, <1>8 DEF Counted
<1>10. JobOK'
  BY <1>0, <1>2, JobKept DEF Sources
<1> QED
  BY <1>0, <1>2, <1>9, <1>10, SourcesKept DEF ReadsInv

\* The worker selects the oldest tables.
LEMMA CompactSelectsStep ==
  ASSUME ReadsInv, CompactSelects
  PROVE  ReadsInv'
<1>1. /\ UNCHANGED <<Sources, handle, registry>> /\ Trigger <= Len(tables)
      /\ job' = [stage |-> "selected", inputs |-> SubSeq(tables, 1, Trigger),
                 full |-> Trigger = Len(tables), output |-> {}]
  BY ReadsAssumption DEF CompactSelects, Sources, ReadsInv, Layered
<1>2. HandlesOK' /\ Counted'
  BY <1>1, SameHandles DEF Sources
<1>3. JobOK'
  BY <1>1 DEF JobOK, Sources
<1> QED
  BY <1>1, <1>2, <1>3, SourcesKept DEF ReadsInv

\* It reads the watermark and merges, while Snapshots come and go.
LEMMA CompactMergesStep ==
  ASSUME ReadsInv, CompactMerges
  PROVE  ReadsInv'
<1> DEFINE output == Compacted(SubSeq(tables, 1, Trigger), Trigger = Len(tables), Oldest)
<1>1. /\ UNCHANGED <<Sources, handle, registry>> /\ job.stage = "selected"
      /\ job' = [job EXCEPT !.stage = "merged",
                            !.output = Compacted(job.inputs, job.full, Oldest)]
  BY DEF CompactMerges, Sources
<1>2. /\ Trigger <= Len(tables)
      /\ job = [stage |-> "selected", inputs |-> SubSeq(tables, 1, Trigger),
                full |-> Trigger = Len(tables), output |-> {}]
  <2>1. job # Idle /\ job.stage # "merged"
    BY <1>1 DEF Idle
  <2> QED
    BY <2>1 DEF ReadsInv, JobOK
<1>3. job.inputs = SubSeq(tables, 1, Trigger) /\ job.full = (Trigger = Len(tables))
  BY <1>2, Zenon
<1>4. Compacted(job.inputs, job.full, Oldest) = output
  BY <1>3
<1>5. job' = [stage |-> "merged", inputs |-> SubSeq(tables, 1, Trigger),
              full |-> Trigger = Len(tables), output |-> output]
  <2> HIDE DEF output
  <2> QED
    BY <1>1, <1>2, <1>4, Zenon
<1>6. job'.output = output
  BY <1>5
<1>7. Fits(tables, Trigger, output, Pinned)
  <2>1. Trigger \in 1 .. Len(tables)
    <3>1. tables \in Seq(SUBSET Version)
      BY DEF ReadsInv, Layered
    <3> QED
      BY <3>1, <1>2, ReadsAssumption
  <2> QED
    BY <2>1, CompactedFits
<1>8. Pinned' = Pinned
  BY <1>1 DEF Pinned, Sources
<1>9. JobOK'
  <2> HIDE DEF output
  <2> QED
    BY <1>1, <1>2, <1>5, <1>6, <1>7, <1>8, Zenon DEF JobOK, Sources
<1>10. HandlesOK' /\ Counted'
  BY <1>1, SameHandles DEF Sources
<1> QED
  BY <1>1, <1>9, <1>10, SourcesKept DEF ReadsInv

\* Installing an output that fits, by the worker or by Compact().
LEMMA InstallStep ==
  ASSUME ReadsInv, NEW c \in 1 .. Len(tables), NEW output,
         Fits(tables, c, output, Pinned), tables' = Installed(tables, c, output),
         UNCHANGED <<mem, imm, next, floor, handle, registry>>, job' = Idle
  PROVE  ReadsInv' /\ SameReads(Pinned)
<1>0. Layered(mem, imm, tables, next, floor)
  BY DEF ReadsInv
<1>1. ASSUME NEW q \in Pinned, NEW k \in Keys
      PROVE  GetOf(mem, imm, Installed(tables, c, output), k, q)
               = GetOf(mem, imm, tables, k, q)
  <2>1. q \in Nat
    BY PinnedType
  <2> QED
    BY <1>0, <2>1, InstalledReads
<1>2. SameReads(Pinned)
  BY <1>1 DEF SameReads
<1>3. Layered(mem, imm, Installed(tables, c, output), next, floor)
  <2>1. output \subseteq First(tables, c)
    BY DEF Fits
  <2> QED
    BY <1>0, <2>1, InstalledLayers
<1>4. Layered(mem, imm, tables, next, floor)'
  BY <1>3
<1>5. HandlesOK' /\ Counted'
  BY SameHandles
<1>6. JobOK'
  BY DEF JobOK, Idle
<1> QED
  BY <1>2, <1>4, <1>5, <1>6 DEF ReadsInv

\* The background compaction installs what it merged.
LEMMA CompactInstallsStep ==
  ASSUME ReadsInv, CompactInstalls
  PROVE  ReadsInv' /\ SameReads(Pinned)
<1>1. /\ tables' = Installed(tables, Trigger, job.output) /\ job.stage = "merged"
      /\ UNCHANGED <<mem, imm, next, floor, handle, registry>> /\ job' = Idle
  BY DEF CompactInstalls, Replaced, Installed
<1>2. Trigger <= Len(tables) /\ Fits(tables, Trigger, job.output, Pinned)
  <2>1. job # Idle /\ job.stage # "selected"
    BY <1>1 DEF Idle
  <2> QED
    BY <2>1 DEF ReadsInv, JobOK
<1>3. Trigger \in 1 .. Len(tables)
  <2>1. tables \in Seq(SUBSET Version)
    BY DEF ReadsInv, Layered
  <2> QED
    BY <2>1, <1>2, ReadsAssumption
<1> QED
  BY <1>1, <1>2, <1>3, InstallStep

\* An explicit Compact() selects, merges and installs under one lock.
LEMMA CompactWholeStep ==
  ASSUME ReadsInv, Compact
  PROVE  ReadsInv' /\ SameReads(Pinned) /\ UNCHANGED <<next, handle>>
<1>1. PICK c \in 1 .. Len(tables) :
        /\ job.stage = "idle"
        /\ tables' = Replaced(c, Compacted(SubSeq(tables, 1, c), c = Len(tables), Oldest))
        /\ UNCHANGED <<mem, imm, next, floor, handle, limit, registry, job, reopens>>
  BY DEF Compact
<1> DEFINE output == Compacted(SubSeq(tables, 1, c), c = Len(tables), Oldest)
<1>2. tables' = Installed(tables, c, output)
  BY <1>1 DEF Replaced, Installed
<1>3. Fits(tables, c, output, Pinned)
  BY CompactedFits
<1>4. job' = Idle
  BY <1>1 DEF ReadsInv, JobOK
<1> HIDE DEF output
<1> QED
  BY <1>1, <1>2, <1>3, <1>4, InstallStep

\* A reopened database shows the same latest state.
LEMMA ReopenStep ==
  ASSUME ReadsInv, Reopen
  PROVE  /\ ReadsInv' /\ Open' = {}
         /\ \A k \in Keys : GetOf(mem', imm', tables', k, next' - 1)
                              = GetOf(mem, imm, tables, k, next - 1)
<1>0. /\ Layered(mem, imm, tables, next, floor)
      /\ registry \in [0 .. MaxSequence -> Nat] /\ MaxSequence \in Nat
  BY PinnedType DEF ReadsInv, Counted
<1>1. /\ UNCHANGED <<mem, imm, tables, floor>> /\ job' = Idle
      /\ registry' = [q \in 0 .. MaxSequence |-> 0]
      /\ next' = RecoveredMax + 1 /\ handle' = [h \in Handles |-> NoHandle]
  BY <1>0 DEF Reopen
<1>2. /\ Layered(mem, imm, tables, RecoveredMax + 1, floor)
      /\ RecoveredMax \in 0 .. MaxSequence
      /\ \A v \in Versions(mem, imm, tables) : v.seq <= RecoveredMax
  <2>1. Recovers(mem, imm, tables, floor, RecoveredMax)
    BY <1>0, RecoveredLayers, Zenon DEF RecoveredMax
  <2> QED
    BY <2>1, Zenon DEF Recovers
<1>3. Layered(mem, imm, tables, next, floor)'
  BY <1>1, <1>2
<1>4. \A h \in Handles : handle'[h].state = "none" /\ handle'[h].seq = 0
  BY <1>1 DEF NoHandle
<1>5. HandlesOK'
  <2>1. handle' \in [Handles -> [state : {"none", "reading", "open"},
                                 seq : 0 .. MaxSequence]]
    BY <1>0, <1>1 DEF NoHandle
  <2> QED
    BY <2>1, <1>4 DEF HandlesOK
<1>6. Counted'
  <2>1. \A q : Holders(q)' = {}
    BY <1>4 DEF Holders
  <2>2. IsFiniteSet({}) /\ Cardinality({}) = 0
    BY FS_EmptySet
  <2> QED
    BY <2>1, <2>2, <1>1, Zenon DEF Counted
<1>7. JobOK'
  BY <1>1 DEF JobOK, Idle
<1>8. Open' = {}
  BY <1>4 DEF Open
<1>9. ASSUME NEW k \in Keys
      PROVE  GetOf(mem, imm, tables, k, next' - 1) = GetOf(mem, imm, tables, k, next - 1)
  <2> DEFINE V == Versions(mem, imm, tables)
  <2>1. next' - 1 = RecoveredMax
    BY <1>1, <1>2
  <2>2. \A v \in V : v.seq \in Nat /\ v.seq < next
    BY <1>0, LayeredBelow
  <2>3. next \in Nat
    BY PinnedType
  <2> HIDE DEF V
  <2>4. \A v \in V : v.seq <= next - 1
    BY <2>2, <2>3
  <2>5. \A v \in V : v.seq <= next' - 1
    BY <1>2, <2>1 DEF V
  <2>6. Visible(V, k, next' - 1) = Visible(V, k, next - 1)
    BY <2>4, <2>5 DEF Visible
  <2>7. ValueIn(V, k, next' - 1) = ValueIn(V, k, next - 1)
    BY <2>6 DEF ValueIn
  <2> QED
    BY <2>7, <1>0, LayeredReads DEF V
<1> QED
  BY <1>1, <1>3, <1>5, <1>6, <1>7, <1>8, <1>9 DEF ReadsInv

-----------------------------------------------------------------------------
(* The theorems *)

\* A new database.
LEMMA InitReads == Init => ReadsInv
<1> SUFFICES ASSUME Init PROVE ReadsInv
  OBVIOUS
<1>0. MaxSequence \in Nat
  BY ReadsAssumption
<1>1. /\ mem = {} /\ imm = {} /\ tables = <<>> /\ next = 1 /\ floor = 0 /\ job = Idle
      /\ handle = [h \in Handles |-> NoHandle]
      /\ registry = [q \in 0 .. MaxSequence |-> 0]
  BY DEF Init
<1>2. Layered(mem, imm, tables, next, floor)
  <2>1. DOMAIN tables = {} /\ tables \in Seq(SUBSET Version)
    BY <1>1
  <2>2. Disk(tables) = {}
    BY <2>1 DEF Disk
  <2>3. Versions(mem, imm, tables) = {}
    BY <1>1, <2>2 DEF Versions
  <2>4. IsFiniteSet(Versions(mem, imm, tables)) /\ Unique(Versions(mem, imm, tables))
    BY <2>3, FS_EmptySet DEF Unique
  <2> QED
    BY <1>0, <1>1, <2>1, <2>2, <2>4 DEF Layered, NoSnapshot
<1>3. \A h \in Handles : handle[h].state = "none" /\ handle[h].seq = 0
  BY <1>1 DEF NoHandle
<1>4. HandlesOK
  <2>1. handle \in [Handles -> [state : {"none", "reading", "open"},
                                seq : 0 .. MaxSequence]]
    BY <1>0, <1>1 DEF NoHandle
  <2> QED
    BY <2>1, <1>3 DEF HandlesOK
<1>5. Counted
  <2>1. \A q : Holders(q) = {}
    BY <1>3 DEF Holders
  <2>2. IsFiniteSet({}) /\ Cardinality({}) = 0
    BY FS_EmptySet
  <2> QED
    BY <2>1, <2>2, <1>1, Zenon DEF Counted
<1> QED
  BY <1>1, <1>2, <1>4, <1>5 DEF ReadsInv, JobOK

\* Every step keeps the invariant.
LEMMA NextReads == ReadsInv /\ [Next]_vars => ReadsInv'
<1> SUFFICES ASSUME ReadsInv, [Next]_vars PROVE ReadsInv'
  OBVIOUS
<1>1. ASSUME NEW batch \in Batches, Write(batch) PROVE ReadsInv'
  BY <1>1, WriteStep, Zenon
<1>2. CASE Flush
  BY <1>2, FlushStep
<1>3. ASSUME NEW h \in Handles, SnapshotReads(h) PROVE ReadsInv'
  BY <1>3, SnapshotReadsStep
<1>4. ASSUME NEW h \in Handles, SnapshotRegisters(h) PROVE ReadsInv'
  BY <1>4, SnapshotRegistersStep
<1>5. ASSUME NEW h \in Handles, Release(h) PROVE ReadsInv'
  BY <1>5, ReleaseStep
<1>6. CASE CompactSelects
  BY <1>6, CompactSelectsStep
<1>7. CASE CompactMerges
  BY <1>7, CompactMergesStep
<1>8. CASE CompactInstalls
  BY <1>8, CompactInstallsStep
<1>9. CASE Compact
  BY <1>9, CompactWholeStep
<1>10. CASE Reopen
  BY <1>10, ReopenStep
<1>11. CASE UNCHANGED vars
  <2>1. UNCHANGED <<Sources, handle, registry>> /\ job' = job
    BY <1>11 DEF vars, Sources
  <2>2. HandlesOK' /\ Counted'
    BY <2>1, SameHandles DEF Sources
  <2>3. Pinned' = Pinned
    BY <2>1 DEF Pinned, Sources
  <2>4. JobOK'
    BY <2>1, <2>3, JobKept DEF Sources
  <2> QED
    BY <2>1, <2>2, <2>4, SourcesKept DEF ReadsInv
<1> QED
  BY <1>1, <1>2, <1>3, <1>4, <1>5, <1>6, <1>7, <1>8, <1>9, <1>10, <1>11 DEF Next

\* Every reachable state has the sources in order, the registry exact, and a running
\* compaction whose output fits every sequence that is read at.
LEMMA ReadsInvariant == Spec => []ReadsInv
BY InitReads, NextReads, PTL DEF Spec

\* The sources are in order: whatever the rotations, flushes, compactions and recoveries
\* were, a source holds only versions that are newer than those of the sources below it,
\* next_sequence_ is past them all, so that it is never given out twice, and no empty table
\* is installed.
THEOREM SourcesStayOrdered == Spec => []SourcesAreOrdered
<1>1. ReadsInv => SourcesAreOrdered
  <2> SUFFICES ASSUME ReadsInv PROVE SourcesAreOrdered
    OBVIOUS
  <2> DEFINE sources == tables \o <<imm, mem>>
  <2>0. /\ Layered(mem, imm, tables, next, floor) /\ tables \in Seq(SUBSET Version)
        /\ mem \in SUBSET Version /\ imm \in SUBSET Version
    BY Zenon DEF ReadsInv, Layered
  <2>1. /\ DOMAIN sources = 1 .. Len(tables) + 2 /\ Len(tables) \in Nat
        /\ DOMAIN tables = 1 .. Len(tables)
        /\ \A i \in DOMAIN tables : sources[i] = tables[i]
        /\ sources[Len(tables) + 1] = imm /\ sources[Len(tables) + 2] = mem
    <3>1. <<imm, mem>> \in Seq(SUBSET Version) /\ Len(<<imm, mem>>) = 2
      BY <2>0
    <3> QED
      BY <2>0, <3>1
  <2> HIDE DEF sources
  <2>2. \A i \in DOMAIN sources : i \in DOMAIN tables \/ i = Len(tables) + 1
                                  \/ i = Len(tables) + 2
    BY <2>1
  <2>3. /\ \A i \in DOMAIN tables : \A v \in tables[i] : v.seq <= floor
        /\ \A v \in imm \cup mem : floor < v.seq
    BY <2>0, Zenon DEF Layered, Disk
  <2>4. ASSUME NEW i \in DOMAIN sources, NEW v \in sources[i]
        PROVE  v \in Versions(mem, imm, tables) /\ v.seq \in Nat /\ v.seq < next
    <3>1. v \in Versions(mem, imm, tables)
      BY <2>1, <2>2 DEF Versions, Disk
    <3> QED
      BY <3>1, <2>0, LayeredBelow
  <2>5. ASSUME NEW i \in DOMAIN sources, NEW j \in DOMAIN sources, i < j,
               NEW v \in sources[i], NEW w \in sources[j]
        PROVE  v.seq < w.seq
    <3>0. v.seq \in Nat /\ w.seq \in Nat /\ floor \in Nat
      BY <2>4, <2>0 DEF Layered
    <3>1. CASE j \in DOMAIN tables
      <4>1. i \in DOMAIN tables
        BY <2>1, <2>2, <2>5, <3>1
      <4> QED
        BY <4>1, <3>1, <2>0, <2>1, <2>5, Zenon DEF Layered
    <3>2. CASE j \notin DOMAIN tables /\ i \in DOMAIN tables
      <4>1. w \in imm \cup mem /\ v \in tables[i]
        BY <3>2, <2>1, <2>2
      <4>2. v.seq <= floor /\ floor < w.seq
        BY <4>1, <3>2, <2>3
      <4> QED
        BY <4>2, <3>0
    <3>3. CASE i \notin DOMAIN tables
      <4>1. i = Len(tables) + 1 /\ j = Len(tables) + 2
        BY <3>3, <2>1, <2>2, <2>5
      <4>2. v \in imm /\ w \in mem
        BY <4>1, <2>1
      <4> QED
        BY <4>2, <2>0 DEF Layered
    <3> QED
      BY <3>1, <3>2, <3>3
  <2>6. \A i \in DOMAIN tables : tables[i] # {}
    BY <2>0 DEF Layered
  <2> QED
    BY <2>4, <2>5, <2>6 DEF SourcesAreOrdered, sources
<1>2. Spec => []ReadsInv
  BY ReadsInvariant, PTL
<1> QED
  BY <1>1, <1>2, PTL

-----------------------------------------------------------------------------
(* Refinement *)

\* What the latest reads and the open Snapshots show.
LatestMap == Map(next - 1)
SnapshotMaps == [h \in Open |-> Map(handle[h].seq)]

MapOf(m, i, t, q) == [k \in Keys |-> GetOf(m, i, t, k, q)]

\* Before and after a step the maps are those of the sources.
LEMMA MapsOf ==
  /\ LatestMap = MapOf(mem, imm, tables, next - 1)
  /\ LatestMap' = MapOf(mem', imm', tables', next' - 1)
  /\ SnapshotMaps = [h \in Open |-> MapOf(mem, imm, tables, handle[h].seq)]
  /\ SnapshotMaps' = [h \in Open' |-> MapOf(mem', imm', tables', handle'[h].seq)]
BY Zenon DEF LatestMap, SnapshotMaps, MapOf, Map, Get, GetOf

\* The sequences of open Snapshots, and the latest one, are read at.
LEMMA OpenPinned ==
  next - 1 \in Pinned /\ \A h \in Open : handle[h].seq \in Pinned
BY DEF Pinned, Open

\* A step that changes no read leaves the maps of the Snapshots that stay open.
LEMMA StaysShown ==
  ASSUME SameReads(Pinned), NEW h \in Open, h \in Open', handle'[h].seq = handle[h].seq
  PROVE  SnapshotMaps'[h] = SnapshotMaps[h]
<1>1. MapOf(mem', imm', tables', handle[h].seq) = MapOf(mem, imm, tables, handle[h].seq)
  BY OpenPinned, Zenon DEF SameReads, MapOf
<1>2. /\ SnapshotMaps[h] = MapOf(mem, imm, tables, handle[h].seq)
      /\ SnapshotMaps'[h] = MapOf(mem', imm', tables', handle'[h].seq)
  BY MapsOf, Zenon
<1> QED
  BY <1>1, <1>2

\* And the latest map, when no sequence was given out.
LEMMA LatestStays ==
  ASSUME SameReads(Pinned), next' = next
  PROVE  LatestMap' = LatestMap
<1>1. MapOf(mem', imm', tables', next - 1) = MapOf(mem, imm, tables, next - 1)
  BY OpenPinned DEF SameReads, MapOf
<1> QED
  BY <1>1, MapsOf

\* A step that keeps the pinned reads and the open Snapshots keeps what they show.
LEMMA SnapshotsStay ==
  ASSUME SameReads(Pinned), Open' = Open,
         \A h \in Open : handle'[h].seq = handle[h].seq
  PROVE  SnapshotMaps' = SnapshotMaps
<1>1. \A h \in Open : SnapshotMaps'[h] = SnapshotMaps[h]
  BY StaysShown
<1>2. /\ SnapshotMaps = [h \in Open |-> SnapshotMaps[h]]
      /\ SnapshotMaps' = [h \in Open |-> SnapshotMaps'[h]]
  BY DEF SnapshotMaps
<1> QED
  BY <1>1, <1>2

\* Reads that stay as they are at every sequence do so at those that are read at.
LEMMA PinnedReads ==
  ASSUME ReadsInv, SameReads({q \in Nat : q < next}) \/ SameReads(Nat)
  PROVE  SameReads(Pinned)
<1>1. \A q \in Pinned : q \in Nat /\ q < next
  BY PinnedType
<1> QED
  BY <1>1 DEF SameReads

\* A step of the engine as a reader sees it.
Seen ==
  Store!Next \/ (next' = next /\ LatestMap' = LatestMap /\ SnapshotMaps' = SnapshotMaps)

\* What a batch makes of the latest map.
Overlay(batch) ==
  [k \in Keys |->
     LET own == {i \in DOMAIN batch : batch[i].key = k}
     IN  IF own = {} THEN LatestMap[k]
         ELSE IF batch[Max(own)].tombstone THEN Absent ELSE (next - 1) + Max(own)]

\* The last operation of a batch on a key gives what the latest read returns of it; the
\* other keys read as before.
LEMMA WriteApplies ==
  ASSUME ReadsInv, NEW batch \in Batches, Write(batch)
  PROVE  LatestMap' = Overlay(batch)
<1> DEFINE V == Versions(mem, imm, tables)
           W == Written(batch, next)
           V2 == Versions(mem', imm', tables')
           q2 == next' - 1
<1>1. /\ ReadsInv' /\ next' = next + Len(batch) /\ V2 = V \cup W
      /\ Layered(mem, imm, tables, next, floor)
  BY WriteStep, Zenon DEF ReadsInv
<1>2. Layered(mem', imm', tables', next', floor')
  BY <1>1, Zenon DEF ReadsInv
<1>3. /\ batch \in Seq([key : Keys, tombstone : BOOLEAN]) /\ Len(batch) \in Nat
      /\ DOMAIN batch = 1 .. Len(batch) /\ next \in Nat /\ next - 1 \in Nat
  <2>1. batch \in Seq([key : Keys, tombstone : BOOLEAN])
    BY ReadsAssumption, Zenon
  <2>2. next \in Nat /\ next - 1 \in Nat
    BY PinnedType
  <2> QED
    BY <2>1, <2>2
<1>4. /\ V \in SUBSET Version /\ \A v \in V : v.seq \in Nat /\ v.seq < next
      /\ V2 \in SUBSET Version /\ Unique(V2)
      /\ \A v \in V2 : v.seq \in Nat /\ v.seq < next'
  BY <1>1, <1>2, LayeredBelow DEF Layered
<1>5. q2 = (next - 1) + Len(batch) /\ q2 \in Nat
  BY <1>1, <1>3
<1> HIDE DEF V, V2, q2
<1>6. \A v \in W : \E j \in DOMAIN batch : v.key = batch[j].key /\ v.seq = (next - 1) + j
  BY <1>3 DEF Written
<1>7. \A v \in V : v.seq <= next - 1 /\ v.seq <= q2
  <2> TAKE v \in V
  <2>1. v.seq \in Nat /\ v.seq < next
    BY <1>4
  <2> QED
    BY <2>1, <1>3, <1>5
<1>8. ASSUME NEW k \in Keys, {i \in DOMAIN batch : batch[i].key = k} = {}
      PROVE  ValueIn(V2, k, q2) = ValueIn(V, k, next - 1)
  <2>1. \A v \in W : v.key # k
    BY <1>6, <1>8
  <2>2. Visible(V2, k, q2) = Visible(V, k, next - 1)
    BY <1>1, <1>7, <2>1 DEF Visible
  <2> QED
    BY <2>2 DEF ValueIn
<1>9. ASSUME NEW k \in Keys, NEW own, own = {i \in DOMAIN batch : batch[i].key = k}, own # {}
      PROVE  ValueIn(V2, k, q2)
               = IF batch[Max(own)].tombstone THEN Absent ELSE (next - 1) + Max(own)
  <2>1. Max(own) \in own /\ \A j \in own : j <= Max(own)
    <3>1. own \subseteq 1 .. Len(batch) /\ own \in SUBSET Nat
      BY <1>3, <1>9
    <3>2. IsFiniteSet(own)
      <4>1. IsFiniteSet(1 .. Len(batch))
        BY <1>3, FS_Interval
      <4> QED
        BY <3>1, <4>1, FS_Subset, Zenon
    <3> QED
      BY <3>1, <3>2, <1>9, MaxInSet
  <2> DEFINE top == Max(own)
             v == [key |-> batch[top].key, seq |-> next + top - 1,
                   tombstone |-> batch[top].tombstone]
  <2>2. top \in 1 .. Len(batch) /\ batch[top].key = k
    BY <2>1, <1>3, <1>9
  <2> HIDE DEF top
  <2>3. v \in V2
    BY <1>1, <1>3, <2>2 DEF Written
  <2>4. v.key = k /\ v.seq = (next - 1) + top /\ v.tombstone = batch[top].tombstone
    BY <2>2, <1>3
  <2> HIDE DEF v
  <2>5. Tops(V2, v, q2)
    <3>1. v.seq <= q2
      BY <2>2, <2>4, <1>3, <1>5
    <3>2. ASSUME NEW w \in W, w.key = k PROVE w.seq <= v.seq
      <4>1. PICK j \in DOMAIN batch : w.key = batch[j].key /\ w.seq = (next - 1) + j
        BY <1>6
      <4>2. j \in own /\ j \in Nat
        <5>1. batch[j].key = k
          BY <4>1, <3>2
        <5>2. j \in own
          BY <5>1, <4>1, <1>9, Zenon
        <5>3. j \in Nat
          BY <4>1, <1>3
        <5> QED
          BY <5>2, <5>3
      <4>3. j <= top
        BY <4>2, <2>1, Zenon DEF top
      <4> QED
        BY <4>1, <4>2, <4>3, <2>2, <2>4, <1>3
    <3>3. ASSUME NEW w \in V PROVE w.seq <= v.seq
      <4>1. w.seq <= next - 1 /\ w.seq \in Nat
        BY <1>4, <1>7
      <4> QED
        BY <4>1, <2>2, <2>4, <1>3
    <3> QED
      BY <3>1, <3>2, <3>3, <2>4, <1>1 DEF Tops
  <2>6. ValueIn(V2, v.key, q2) = IF v.tombstone THEN Absent ELSE v.seq
    BY <2>3, <2>5, <1>4, ValueOfTop
  <2> QED
    BY <2>4, <2>6 DEF top
<1>10. /\ LatestMap = [k \in Keys |-> ValueIn(V, k, next - 1)]
       /\ LatestMap' = [k \in Keys |-> ValueIn(V2, k, q2)]
  <2>1. \A k, q : GetOf(mem, imm, tables, k, q) = ValueIn(V, k, q)
    BY <1>1, LayeredReads DEF V
  <2>2. \A k, q : GetOf(mem', imm', tables', k, q) = ValueIn(V2, k, q)
    BY <1>2, LayeredReads DEF V2
  <2> QED
    BY <2>1, <2>2, MapsOf, Zenon DEF MapOf, q2
<1>11. ASSUME NEW k \in Keys
       PROVE  ValueIn(V2, k, q2)
                = LET own == {i \in DOMAIN batch : batch[i].key = k}
                  IN  IF own = {} THEN LatestMap[k]
                      ELSE IF batch[Max(own)].tombstone THEN Absent ELSE (next - 1) + Max(own)
  <2>1. LatestMap[k] = ValueIn(V, k, next - 1)
    BY <1>10
  <2> QED
    BY <2>1, <1>8, <1>9, Zenon
<1> QED
  BY <1>10, <1>11, Zenon DEF Overlay

\* A step that gives its batch the next numbers and keeps the Snapshots is a write.
LEMMA SeenWrite ==
  ASSUME NEW batch \in Batches, next' = next + Len(batch), LatestMap' = Overlay(batch),
         SnapshotMaps' = SnapshotMaps, ReadsInv
  PROVE  Seen
<1>1. next' - 1 = (next - 1) + Len(batch)
  <2>1. batch \in Seq([key : Keys, tombstone : BOOLEAN])
    BY ReadsAssumption, Zenon
  <2>2. next \in Nat /\ Len(batch) \in Nat
    BY <2>1, PinnedType
  <2> QED
    BY <2>2
<1>2. Store!Applied(batch) = Overlay(batch)
  BY Zenon DEF Store!Applied, Store!Max, Max, Overlay, LatestMap
<1>3. Store!Write(batch)
  BY <1>1, <1>2, Zenon DEF Store!Write, LatestMap, SnapshotMaps
<1> QED
  BY <1>3, Zenon DEF Seen, Store!Next

\* Some version still in a MemTable, or the last one flushed, has the last number.
LastUsed == next - 1 = floor \/ \E v \in mem \cup imm : v.seq = next - 1

\* Recovery therefore goes on where the database had stopped.
LEMMA RecoveredIsLast ==
  ASSUME ReadsInv, LastUsed
  PROVE  RecoveredMax = next - 1
<1>1. Layered(mem, imm, tables, next, floor)
  BY DEF ReadsInv
<1>2. /\ RecoveredMax \in 0 .. MaxSequence /\ floor <= RecoveredMax
      /\ \A v \in Versions(mem, imm, tables) : v.seq <= RecoveredMax
      /\ RecoveredMax = floor \/ \E v \in mem \cup imm : v.seq = RecoveredMax
  <2>1. Recovers(mem, imm, tables, floor, RecoveredMax)
    BY <1>1, RecoveredLayers, Zenon DEF RecoveredMax
  <2> QED
    BY <2>1, Zenon DEF Recovers
<1>3. next - 1 <= RecoveredMax
  BY <1>2 DEF LastUsed, Versions
<1>4. RecoveredMax < next
  BY <1>1, <1>2 DEF Layered
<1>5. RecoveredMax \in Nat /\ next \in Nat
  BY <1>2, PinnedType
<1> QED
  BY <1>3, <1>4, <1>5

\* The last version of a batch has the last number, and is in a MemTable.
LEMMA LastWritten ==
  ASSUME ReadsInv, NEW batch \in Batches, Write(batch)
  PROVE  LastUsed'
<1>1. /\ ReadsInv' /\ next' = next + Len(batch) /\ floor' = floor
      /\ Versions(mem', imm', tables') = Versions(mem, imm, tables) \cup Written(batch, next)
  BY WriteStep
<1>2. Layered(mem', imm', tables', next', floor')
  BY <1>1, Zenon DEF ReadsInv
<1>3. /\ Len(batch) \in DOMAIN batch /\ Len(batch) \in Nat /\ 1 <= Len(batch)
  <2>1. batch \in Seq([key : Keys, tombstone : BOOLEAN]) /\ batch # <<>>
    BY ReadsAssumption, Zenon
  <2> QED
    BY <2>1
<1>4. next \in Nat /\ floor \in Nat /\ floor < next
  <2>1. floor \in 0 .. MaxSequence /\ floor < next
    BY DEF ReadsInv, Layered
  <2> QED
    BY <2>1, PinnedType
<1>5. PICK v \in Written(batch, next) : v.seq = next + Len(batch) - 1
  <2> DEFINE w == [key |-> batch[Len(batch)].key, seq |-> next + Len(batch) - 1,
                   tombstone |-> batch[Len(batch)].tombstone]
  <2>1. w \in Written(batch, next)
    BY <1>3, Zenon DEF Written
  <2>2. w.seq = next + Len(batch) - 1
    OBVIOUS
  <2> HIDE DEF w
  <2> QED
    BY <2>1, <2>2
<1>6. v.seq = next' - 1 /\ ~(v.seq <= floor')
  BY <1>1, <1>3, <1>4, <1>5
<1>7. v \in mem' \cup imm'
  <2>1. v \in Versions(mem', imm', tables')
    BY <1>1
  <2>2. v \notin Disk(tables')
    BY <1>2, <1>6 DEF Layered
  <2> QED
    BY <2>1, <2>2 DEF Versions
<1> QED
  BY <1>6, <1>7 DEF LastUsed

\* A flush leaves the last number in the MemTable, or makes it the MANIFEST's.
LEMMA LastFlushed ==
  ASSUME ReadsInv, LastUsed, Flush
  PROVE  LastUsed'
<1>1. Layered(mem, imm, tables, next, floor) /\ imm # {} /\ mem' = mem /\ next' = next
  BY DEF ReadsInv, Flush
<1>2. /\ Layered(mem', imm', tables', next', floor')
      /\ Versions(mem', imm', tables') = Versions(mem, imm, tables) /\ imm' = {}
  <2>1. tables' = Append(tables, imm) /\ imm' = {} /\ floor' = Max({v.seq : v \in imm})
    BY DEF Flush
  <2> QED
    BY <1>1, <2>1, FlushedLayers
<1>3. next \in Nat /\ floor \in Nat /\ floor' \in Nat /\ floor' < next
  <2>1. floor \in 0 .. MaxSequence /\ floor' \in 0 .. MaxSequence /\ floor' < next
    BY <1>1, <1>2 DEF Layered
  <2> QED
    BY <2>1, PinnedType
<1>4. \A v \in Versions(mem, imm, tables) : v.seq \in Nat /\ v.seq < next
  BY <1>1, LayeredBelow
<1>5. next - 1 # floor
  <2>1. PICK v \in imm : TRUE
    BY <1>1
  <2>2. floor < v.seq /\ v.seq < next /\ v.seq \in Nat
    BY <2>1, <1>1, <1>4 DEF Layered, Versions
  <2> QED
    BY <2>2, <1>3
<1>6. PICK v \in mem \cup imm : v.seq = next - 1
  BY <1>5 DEF LastUsed
<1>7. CASE v \in mem
  BY <1>1, <1>6, <1>7 DEF LastUsed
<1>8. CASE v \notin mem
  <2>1. v \in Versions(mem', imm', tables') /\ (v \in Disk(tables') \/ v \in mem)
    BY <1>1, <1>2, <1>6 DEF Versions
  <2>2. v.seq <= floor'
    BY <2>1, <1>2, <1>8 DEF Layered
  <2>3. floor' = next - 1
    BY <2>2, <1>3, <1>6
  <2> QED
    BY <2>3, <1>1 DEF LastUsed
<1> QED
  BY <1>7, <1>8

\* Every step keeps the last number in use; recovery takes it from there.
LEMMA NextLast == ReadsInv /\ LastUsed /\ [Next]_vars => LastUsed'
<1> SUFFICES ASSUME ReadsInv, LastUsed, [Next]_vars PROVE LastUsed'
  OBVIOUS
<1>1. ASSUME NEW batch \in Batches, Write(batch) PROVE LastUsed'
  BY <1>1, LastWritten
<1>2. CASE Flush
  BY <1>2, LastFlushed
<1>3. ASSUME UNCHANGED <<mem, imm, next, floor>> PROVE LastUsed'
  BY <1>3 DEF LastUsed
<1>4. ASSUME NEW h \in Handles, SnapshotReads(h) \/ SnapshotRegisters(h) \/ Release(h)
      PROVE  LastUsed'
  BY <1>3, <1>4, Zenon DEF SnapshotReads, SnapshotRegisters, Release
<1>5. CASE CompactSelects \/ CompactMerges \/ CompactInstalls \/ Compact
  BY <1>3, <1>5, Zenon DEF CompactSelects, CompactMerges, CompactInstalls, Compact
<1>6. CASE Reopen
  <2>1. next' = RecoveredMax + 1 /\ UNCHANGED <<mem, imm, floor>>
    BY <1>6 DEF Reopen
  <2>2. next' = next
    BY <2>1, RecoveredIsLast, PinnedType
  <2> QED
    BY <2>1, <2>2, <1>3
<1>7. CASE UNCHANGED vars
  BY <1>3, <1>7 DEF vars
<1> QED
  BY <1>1, <1>2, <1>4, <1>5, <1>6, <1>7 DEF Next

\* A Snapshot that is registered shows the latest map.
LEMMA SeenTake ==
  ASSUME next' = next, LatestMap' = LatestMap, NEW h, h \notin Open, Open' = Open \cup {h},
         SnapshotMaps'[h] = LatestMap,
         \A g \in Open : SnapshotMaps'[g] = SnapshotMaps[g]
  PROVE  Seen
<1>1. DOMAIN SnapshotMaps = Open /\ DOMAIN SnapshotMaps' = Open'
  BY DEF SnapshotMaps
<1>2. \E x \in DOMAIN SnapshotMaps' \ DOMAIN SnapshotMaps :
        /\ DOMAIN SnapshotMaps' = DOMAIN SnapshotMaps \cup {x}
        /\ LatestMap' = LatestMap /\ SnapshotMaps'[x] = LatestMap
        /\ \A g \in DOMAIN SnapshotMaps : SnapshotMaps'[g] = SnapshotMaps[g]
  BY <1>1
<1>3. Store!Take
  BY <1>2, Zenon DEF Store!Take, LatestMap, SnapshotMaps
<1> QED
  BY <1>3, Zenon DEF Seen, Store!Next

\* Snapshots that end leave the others.
LEMMA SeenRelease ==
  ASSUME next' = next, LatestMap' = LatestMap, Open' \subseteq Open, Open' # Open,
         \A g \in Open' : SnapshotMaps'[g] = SnapshotMaps[g]
  PROVE  Seen
<1>1. DOMAIN SnapshotMaps = Open /\ DOMAIN SnapshotMaps' = Open'
  BY DEF SnapshotMaps
<1>2. /\ DOMAIN SnapshotMaps' \subseteq DOMAIN SnapshotMaps
      /\ DOMAIN SnapshotMaps' # DOMAIN SnapshotMaps
      /\ LatestMap' = LatestMap
      /\ \A g \in DOMAIN SnapshotMaps' : SnapshotMaps'[g] = SnapshotMaps[g]
  BY <1>1
<1>3. Store!Release
  BY <1>2, Zenon DEF Store!Release, LatestMap, SnapshotMaps
<1> QED
  BY <1>3 DEF Seen, Store!Next

\* A step that changes neither the sources nor the open Snapshots is not seen.
LEMMA SeenNothing ==
  ASSUME SameReads(Pinned), next' = next, Open' = Open,
         \A h \in Open : handle'[h].seq = handle[h].seq
  PROVE  Seen
BY LatestStays, SnapshotsStay DEF Seen

\* Every step of the engine is a step of the abstract store or none.
LEMMA NextSeen == ReadsInv /\ LastUsed /\ [Next]_vars => Seen
<1> SUFFICES ASSUME ReadsInv, LastUsed, [Next]_vars PROVE Seen
  OBVIOUS
<1>0. handle \in [Handles -> [state : {"none", "reading", "open"}, seq : 0 .. MaxSequence]]
  BY DEF ReadsInv, HandlesOK
<1>1. ASSUME NEW batch \in Batches, Write(batch) PROVE Seen
  <2>1. SameReads(Pinned)
    BY <1>1, WriteStep, PinnedReads
  <2>2. handle' = handle
    BY <1>1 DEF Write
  <2>3. Open' = Open
    BY <2>2 DEF Open
  <2>4. next' = next + Len(batch) /\ LatestMap' = Overlay(batch)
    BY <1>1, WriteStep, WriteApplies
  <2>5. SnapshotMaps' = SnapshotMaps
    BY <2>1, <2>2, <2>3, SnapshotsStay
  <2> QED
    BY <2>4, <2>5, SeenWrite
<1>2. CASE Flush
  <2>1. SameReads(Pinned) /\ next' = next
    BY <1>2, FlushStep, PinnedReads
  <2>2. handle' = handle
    BY <1>2 DEF Flush
  <2>3. Open' = Open
    BY <2>2 DEF Open
  <2> QED
    BY <2>1, <2>2, <2>3, SeenNothing
<1>3. ASSUME UNCHANGED Sources PROVE SameReads(Pinned) /\ next' = next
  BY <1>3, SourcesKept, PinnedReads DEF Sources
<1>4. ASSUME NEW h \in Handles, SnapshotReads(h) PROVE Seen
  <2>1. /\ UNCHANGED Sources /\ handle[h].state = "none"
        /\ handle' = [handle EXCEPT ![h] = [state |-> "reading", seq |-> next - 1]]
    BY <1>4 DEF SnapshotReads, Sources
  <2>2. Open' = Open /\ \A g \in Open : handle'[g].seq = handle[g].seq
    BY <2>1, <1>0 DEF Open
  <2> QED
    BY <2>1, <2>2, <1>3, SeenNothing
<1>5. ASSUME NEW h \in Handles, SnapshotRegisters(h) PROVE Seen
  <2>1. /\ UNCHANGED Sources /\ handle[h].state = "reading"
        /\ \/ handle' = [handle EXCEPT ![h] = NoHandle]
           \/ handle' = [handle EXCEPT ![h].state = "open"]
    BY <1>5, SnapshotRegistersStep, Zenon DEF SnapshotRegisters, Sources
  <2>2. CASE handle' = [handle EXCEPT ![h] = NoHandle]
    <3>1. Open' = Open /\ \A g \in Open : handle'[g].seq = handle[g].seq
      BY <2>1, <2>2, <1>0 DEF Open, NoHandle
    <3> QED
      BY <2>1, <3>1, <1>3, SeenNothing
  <2>3. CASE handle' = [handle EXCEPT ![h].state = "open"]
    <3>1. /\ Open' = Open \cup {h} /\ h \notin Open
          /\ handle'[h].seq = handle[h].seq
          /\ \A g \in Open : handle'[g].seq = handle[g].seq
      BY <2>1, <2>3, <1>0 DEF Open
    <3>2. handle[h].seq = next - 1
      BY <2>1 DEF ReadsInv, HandlesOK
    <3>3. SameReads(Pinned) /\ next' = next
      BY <2>1, <1>3
    <3>4. LatestMap' = LatestMap
      BY <3>3, LatestStays
    <3>5. SnapshotMaps'[h] = LatestMap'
      <4>1. h \in Open' /\ handle'[h].seq = next' - 1
        BY <3>1, <3>2, <3>3
      <4> QED
        BY <4>1, MapsOf, Zenon
    <3>6. \A g \in Open : SnapshotMaps'[g] = SnapshotMaps[g]
      BY <3>1, <3>3, StaysShown
    <3> QED
      BY <3>1, <3>3, <3>4, <3>5, <3>6, SeenTake
  <2> QED
    BY <2>1, <2>2, <2>3
<1>6. ASSUME NEW h \in Handles, Release(h) PROVE Seen
  <2>1. /\ UNCHANGED Sources /\ handle[h].state = "open"
        /\ handle' = [handle EXCEPT ![h] = NoHandle]
    BY <1>6 DEF Release, Sources
  <2>2. /\ Open' = Open \ {h} /\ h \in Open
        /\ \A g \in Open' : handle'[g].seq = handle[g].seq
    BY <2>1, <1>0 DEF Open, NoHandle
  <2>3. SameReads(Pinned) /\ next' = next
    BY <2>1, <1>3
  <2>4. LatestMap' = LatestMap
    BY <2>3, LatestStays
  <2>5. \A g \in Open' : SnapshotMaps'[g] = SnapshotMaps[g]
    BY <2>2, <2>3, StaysShown
  <2> QED
    BY <2>2, <2>3, <2>4, <2>5, SeenRelease
<1>7. ASSUME SameReads(Pinned), next' = next, handle' = handle PROVE Seen
  <2>1. Open' = Open
    BY <1>7 DEF Open
  <2> QED
    BY <2>1, <1>7, SeenNothing
<1>8. CASE CompactSelects \/ CompactMerges \/ UNCHANGED vars
  <2>1. UNCHANGED Sources /\ handle' = handle
    BY <1>8 DEF CompactSelects, CompactMerges, vars, Sources
  <2> QED
    BY <2>1, <1>3, <1>7
<1>9. CASE CompactInstalls
  <2>1. next' = next /\ handle' = handle
    BY <1>9 DEF CompactInstalls
  <2> QED
    BY <2>1, <1>7, <1>9, CompactInstallsStep
<1>10. CASE Compact
  BY <1>7, <1>10, CompactWholeStep
<1>11. CASE Reopen
  <2>1. /\ Open' = {}
        /\ \A k \in Keys : GetOf(mem', imm', tables', k, next' - 1)
                             = GetOf(mem, imm, tables, k, next - 1)
    BY <1>11, ReopenStep
  <2>2. MapOf(mem', imm', tables', next' - 1) = MapOf(mem, imm, tables, next - 1)
    BY <2>1 DEF MapOf
  <2>3. LatestMap' = LatestMap
    BY <2>2, MapsOf, Zenon
  <2>0. next' = next
    <3>1. next' = RecoveredMax + 1
      BY <1>11 DEF Reopen
    <3> QED
      BY <3>1, RecoveredIsLast, PinnedType
  <2>4. CASE Open = {}
    <3>1. SnapshotMaps' = SnapshotMaps
      BY <2>1, <2>4, MapsOf, Zenon
    <3> QED
      BY <3>1, <2>0, <2>3 DEF Seen
  <2>5. CASE Open # {}
    BY <2>0, <2>1, <2>3, <2>5, SeenRelease
  <2> QED
    BY <2>4, <2>5
<1> QED
  BY <1>1, <1>2, <1>4, <1>5, <1>6, <1>8, <1>9, <1>10, <1>11 DEF Next

\* Reads implement the abstract store: a Snapshot shows what it showed when GetSnapshot
\* returned, whatever is written, rotated, flushed, compacted (also by a compaction that
\* read the watermark before the Snapshot was registered) or released around it; a Write
\* applies its batch to what a Get without a Snapshot returns, all of it at once and the
\* last operation on a key winning, and nothing else changes that, reopening included.
THEOREM ReadsImplementStore == Spec => ImplementsSnapshotStore
<1>1. Init => Store!Init /\ LastUsed
  <2> SUFFICES ASSUME Init PROVE Store!Init /\ LastUsed
    OBVIOUS
  <2>1. Open = {} /\ next - 1 = 0 /\ floor = 0
    BY DEF Init, Open, NoHandle
  <2>2. LatestMap = [k \in Keys |-> Absent]
    <3>1. mem = {} /\ imm = {} /\ tables = <<>> /\ DOMAIN tables = {}
      BY DEF Init
    <3>2. \A k \in Keys : Get(k, next - 1) = Absent
      BY <3>1 DEF Get, Find, Visible
    <3> QED
      BY <3>2 DEF LatestMap, Map
  <2> QED
    BY <2>1, <2>2 DEF Store!Init, LastUsed, LatestMap
<1>2. ReadsInv /\ LastUsed /\ [Next]_vars
        => [Store!Next]_<<next - 1, Map(next - 1), [h \in Open |-> Map(handle[h].seq)]>>
  BY NextSeen, Zenon DEF Seen, LatestMap, SnapshotMaps
<1>3. Spec => []ReadsInv
  BY ReadsInvariant, PTL
<1>4. ReadsInv /\ LastUsed /\ [Next]_vars => LastUsed'
  BY NextLast
<1> QED
  BY <1>1, <1>2, <1>3, <1>4, PTL DEF Spec, ImplementsSnapshotStore, Store!Spec
==============================================================================
