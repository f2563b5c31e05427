---------------------------- MODULE RecoverySteps ---------------------------
EXTENDS EngineLemmas

(***************************************************************************)
(* Writers, flushes and Close() keep RInv, the crash-safety invariant of   *)
(* EngineLemmas: one lemma per locked section or file-system step.         *)
(***************************************************************************)

----------------------------------------------------------------------------
(* Rotations.                                                              *)

\* A WAL that a manifest does not name is of no account to it.
LEMMA HoldsElsewhere ==
  ASSUME NEW m \in Manifest, NEW w \in [FileNum -> SUBSET SeqNum], NEW q, Holds(m, w, q),
         NEW n \in FileNum, n # m.active, n # m.imm, NEW S
  PROVE  Holds(m, [w EXCEPT ![n] = S], q)
<1>1. m.active \in FileNum /\ m.imm \in FileNum \cup {0}
  BY DEF Manifest
<1> QED
  BY <1>1 DEF Holds, ImmWal

\* The next write goes to the active WAL.
LEMMA HoldsAppended ==
  ASSUME NEW m \in Manifest, NEW w \in [FileNum -> SUBSET SeqNum], NEW q \in Nat,
         Holds(m, w, q), m.imm # m.active
  PROVE  Holds(m, Appended(w, m.active, q + 1), q + 1)
<1>1. m.active \in FileNum /\ m.imm \in FileNum \cup {0} /\ m.last \in Nat
  BY EngineAssumption DEF Manifest, SeqNum
<1> DEFINE v == Appended(w, m.active, q + 1)
<1>2. v[m.active] = w[m.active] \cup {q + 1} /\ \A n \in FileNum : n # m.active => v[n] = w[n]
  BY <1>1 DEF Appended
<1> HIDE DEF v
<1>3. ImmWal(m, v) = ImmWal(m, w)
  BY <1>1, <1>2 DEF ImmWal
<1>4. PICK p \in m.last .. q :
        /\ ImmWal(m, w) = (m.last + 1) .. p /\ (m.imm # 0 => m.last < p)
        /\ w[m.active] = (p + 1) .. q
  BY DEF Holds
<1>5. p \in m.last .. (q + 1) /\ v[m.active] = (p + 1) .. (q + 1)
  BY <1>1, <1>2, <1>4
<1>6. Holds(m, v, q + 1)
  BY <1>3, <1>4, <1>5 DEF Holds
<1> QED
  BY <1>6 DEF v

\* The fields of the manifest that RotateMemTable publishes.
LEMMA RotatedFields ==
  ASSUME man \in Manifest
  PROVE  /\ RotatedManifest.active = man.next + 1 /\ RotatedManifest.imm = man.active
         /\ RotatedManifest.next = man.next + 2 /\ RotatedManifest.last = man.last
         /\ RotatedManifest.tables = man.tables /\ RotatedManifest.dead = man.dead
BY DEF RotatedManifest, Manifest

\* RotateMemTable: the full WAL becomes the immutable one, and a number is left out for its table.
LEMMA RotatedNumbered ==
  ASSUME man \in Manifest, Numbered(man)
  PROVE  Numbered(RotatedManifest)
<1> DEFINE m == RotatedManifest
<1>1. /\ m.active = man.next + 1 /\ m.imm = man.active /\ m.next = man.next + 2
      /\ m.last = man.last /\ m.tables = man.tables
  BY RotatedFields
<1> HIDE DEF m
<1>2. /\ man.active < man.next /\ man.next \notin TableNums(man.tables)
      /\ \A n \in TableNums(man.tables) : n < man.next /\ n # man.active
      /\ man.next \in Nat /\ man.active \in Nat
  BY NumbersTaken, EngineAssumption DEF FileNum
<1>3. /\ \A i \in DOMAIN man.tables : man.tables[i].num \in TableNums(man.tables)
      /\ TableNums(man.tables) \subseteq Nat
  BY NumsOfTables
<1>4. \A i \in DOMAIN m.tables : m.tables[i].num \notin {m.active, m.imm} /\ m.tables[i].num < m.next
  BY <1>1, <1>2, <1>3
<1>5. ValidateSnapshot(m)
  BY <1>1, <1>2, <1>4 DEF Numbered, ValidateSnapshot
<1>6. m.imm # 0 => m.imm < m.active - 1 /\ m.active - 1 \notin TableNums(m.tables)
  BY <1>1, <1>2
<1>7. Numbered(m)
  BY <1>1, <1>5, <1>6 DEF Numbered
<1> QED
  BY <1>7 DEF m

\* What the next write finds in the new WAL is there already.
LEMMA RotatedHolds ==
  ASSUME man \in Manifest, Numbered(man), man.next + 1 \in FileNum,
         NEW w \in [FileNum -> SUBSET SeqNum], NEW q \in Nat, Holds(man, w, q),
         man.imm = 0, w[man.active] # {}, NEW r \in {q, q + 1}
  PROVE  Holds(RotatedManifest, [w EXCEPT ![man.next + 1] = (q + 1) .. r], r)
<1> DEFINE m == RotatedManifest
           v == [w EXCEPT ![man.next + 1] = (q + 1) .. r]
<1>1. /\ m.active = man.next + 1 /\ m.imm = man.active /\ m.last = man.last
      /\ m.tables = man.tables /\ m.dead = man.dead
  BY RotatedFields
<1>2. /\ man.active < man.next /\ man.next \in Nat /\ man.active \in FileNum /\ man.active \in Nat
      /\ man.last \in Nat /\ man.active # 0
  BY NumbersTaken, EngineAssumption DEF FileNum, Manifest, SeqNum
<1>3. v[man.next + 1] = (q + 1) .. r /\ v[man.active] = w[man.active]
  BY <1>2
<1> HIDE DEF m, v
<1>4. PICK p \in man.last .. q :
        /\ ImmWal(man, w) = (man.last + 1) .. p /\ w[man.active] = (p + 1) .. q
  BY DEF Holds
<1>5. p = man.last
  <2>1. (man.last + 1) .. p = {}
    BY <1>4 DEF ImmWal
  <2>2. ~(man.last < p)
    <3>1. man.last < p => man.last + 1 \in (man.last + 1) .. p
      BY <1>2
    <3> QED
      BY <2>1, <3>1
  <2> QED
    BY <1>2, <2>2
<1>6. man.last < q
  BY <1>2, <1>4, <1>5
<1>7. /\ ImmWal(m, v) = (m.last + 1) .. q /\ v[m.active] = (q + 1) .. r
      /\ q \in m.last .. r /\ m.last < q
  BY <1>1, <1>2, <1>3, <1>4, <1>5, <1>6 DEF ImmWal
<1>8. Holds(m, v, r)
  BY <1>1, <1>7 DEF Holds
<1> QED
  BY <1>8 DEF m, v

RotatedDisk(o, k) ==
  IF o = "refused" THEN k ELSE Publish(CreatedWal(k, man.next + 1), RotatedManifest, o)
RotatedWal(o, w, fresh) ==
  IF o = "refused" THEN w
  ELSE [w EXCEPT ![man.next + 1] = IF o = "durable" THEN fresh ELSE {}]

\* The same tables, and WALs that are there.
LEMMA PresentWith ==
  ASSUME NEW d, NEW e, Present(d), e.sst = d.sst, e.man.tables = d.man.tables,
         e.man.active \in e.wal, e.man.imm # 0 => e.man.imm \in e.wal
  PROVE  Present(e)
BY DEF Present

\* RotateMemTable: the new WAL is there before the MANIFEST names it.
LEMMA RotatedSafe ==
  ASSUME RecoverySetting, man \in Manifest, Numbered(man), man.imm = 0,
         NEW o \in RotateOutcomes, NEW k, DiskOK(k), k.dir.man = man,
         NEW w \in [FileNum -> SUBSET SeqNum], NEW q \in Nat, Safe(k, w, q),
         w[man.active] # {}, NEW r \in {q, q + 1}
  PROVE  /\ o \in {"refused", "durable", "not_published", "crash"}
         /\ Safe(RotatedDisk(o, k), RotatedWal(o, w, (q + 1) .. r), IF o = "durable" THEN r ELSE q)
         /\ RotatedDisk(o, k).dir.sst = k.dir.sst
         /\ RotatedDisk(o, k).dir.man =
              IF o \in {"durable", "crash"} THEN RotatedManifest ELSE man
         /\ o # "refused" => man.next + 1 \in FileNum
<1> DEFINE n == man.next + 1
           c == CreatedWal(k, n)
           e == [c.dir EXCEPT !.man = RotatedManifest]
<1>1. Good(k.dir, w, q) /\ k.dir \in Dir
  BY SafeDir DEF DiskOK
<1>2. CASE o = "refused"
  BY <1>2 DEF RotatedDisk, RotatedWal
<1>3. CASE o # "refused"
  <2>1. man.next < MaxFile - 1 /\ o \in PublishOutcomes(RotatedManifest)
    <3>1. man.next \in Nat /\ MaxFile \in Nat
      BY EngineAssumption DEF Manifest, FileNum
    <3>2. ~(man.next >= MaxFile - 1)
      BY <1>3, Zenon DEF RotateOutcomes
    <3> QED
      BY <3>1, <3>2 DEF RotateOutcomes
  <2>2. o \in {"durable", "not_published", "crash"}
    BY <2>1, Outcomes
  <2>3. n \in FileNum /\ man.next + 2 \in FileNum
    <3>1. man.next \in FileNum
      BY DEF Manifest
    <3>2. MaxFile \in Nat
      BY EngineAssumption
    <3>3. \A b \in Nat : \A a \in 1 .. b : a < b - 1 => a + 1 \in 1 .. b /\ a + 2 \in 1 .. b
      OBVIOUS
    <3> QED
      BY <2>1, <3>1, <3>2, <3>3, Zenon DEF FileNum
  <2>4. RotatedManifest \in Manifest
    <3>1. man.next + 2 \in FileNum
      BY <2>3
    <3> QED
      BY <2>3, <3>1, ZenonT(30) DEF RotatedManifest, Manifest
  <2>5. DiskOK(c) /\ c.dir = [k.dir EXCEPT !.wal = @ \cup {n}]
    <3>1. DiskOK(c)
      BY <2>3, CreatedWalOK, Zenon
    <3>2. c.dir = [k.dir EXCEPT !.wal = @ \cup {n}]
      BY <1>1, <2>3, SafeCreatedWal, Zenon
    <3> QED
      BY <3>1, <3>2, Zenon
  <2>6. n # man.active /\ n # man.imm
    BY NumbersTaken DEF Manifest, FileNum
  <2>7. /\ c.dir.sst = k.dir.sst /\ c.dir.man = man /\ c.dir.wal = k.dir.wal \cup {n}
        /\ e.man = RotatedManifest /\ e.sst = k.dir.sst /\ e.wal = k.dir.wal \cup {n}
    <3>1. c.dir.sst = k.dir.sst /\ c.dir.man = man /\ c.dir.wal = k.dir.wal \cup {n}
      BY <1>1, <2>5 DEF Dir
    <3>2. c.dir \in Dir
      BY <2>5 DEF DiskOK
    <3> HIDE DEF c
    <3> QED
      BY <3>1, <3>2 DEF Dir
  <2>8. Present(e)
    <3>1. Present(k.dir)
      BY <1>1, Zenon DEF Good
    <3>2. /\ RotatedManifest.active = n /\ RotatedManifest.imm = man.active
          /\ RotatedManifest.tables = man.tables
      BY RotatedFields, Zenon
    <3> HIDE DEF c, e
    <3> QED
      <4>1. e.sst = k.dir.sst /\ e.man.tables = k.dir.man.tables
        BY <2>7, <3>2, Zenon
      <4>2. e.man.active \in e.wal /\ e.man.imm \in e.wal
        <5>1. man.active \in k.dir.wal
          BY <3>1, Zenon DEF Present
        <5> QED
          BY <2>7, <3>2, <5>1, Zenon
      <4> QED
        BY <3>1, <4>1, <4>2, PresentWith, Zenon
  <2>9. RotatedDisk(o, k) = Publish(c, RotatedManifest, o)
    BY <1>3 DEF RotatedDisk
  <2>10. /\ RotatedDisk(o, k).dir.sst = k.dir.sst
         /\ RotatedDisk(o, k).dir.man =
              IF o \in {"durable", "crash"} THEN RotatedManifest ELSE man
    <3> HIDE DEF c
    <3>1. Publish(c, RotatedManifest, o).dir = IF o = "not_published" THEN c.dir ELSE e
      BY <2>2 DEF Publish, Touch, SyncDir
    <3> HIDE DEF e
    <3> QED
      BY <2>2, <2>7, <2>9, <3>1
  <2>11. CASE o = "durable"
    <3> DEFINE v == [w EXCEPT ![n] = (q + 1) .. r]
    <3>1. Holds(RotatedManifest, v, r)
      <4>1. Holds(man, w, q)
        BY <1>1 DEF Good
      <4>2. Holds(RotatedManifest, [w EXCEPT ![n] = (q + 1) .. q], q)
        BY <2>3, <4>1, RotatedHolds, Zenon
      <4>3. Holds(RotatedManifest, [w EXCEPT ![n] = (q + 1) .. (q + 1)], q + 1)
        BY <2>3, <4>1, RotatedHolds, Zenon
      <4> QED
        BY <4>2, <4>3, Zenon
    <3>2. Good(e, v, r)
      BY <2>7, <2>8, <3>1, RotatedNumbered DEF Good
    <3> HIDE DEF c
    <3>3. Safe(Publish(c, RotatedManifest, o), v, r)
      BY <2>4, <2>5, <2>11, <3>2, SafePublish, Zenon
    <3>4. RotatedWal(o, w, (q + 1) .. r) = v
      BY <2>11 DEF RotatedWal
    <3> HIDE DEF v
    <3> QED
      BY <2>2, <2>3, <2>9, <2>10, <2>11, <3>3, <3>4, Zenon
  <2>12. CASE o # "durable"
    <3> DEFINE v == [w EXCEPT ![n] = {}]
    <3>1. Holds(man, v, q)
      BY <1>1, <2>3, <2>6, HoldsElsewhere, Zenon DEF Good
    <3>2. Good(k.dir, v, q)
      BY <1>1, <3>1 DEF Good
    <3>3. Safe(c, v, q)
      <4> HIDE DEF v
      <4> QED
        BY <2>3, <3>2, SafeCreatedWal, Zenon
    <3>4. Good(c.dir, v, q)
      <4> HIDE DEF c, v
      <4> QED
        BY <2>5, <3>3, SafeDir
    <3>5. Holds(RotatedManifest, v, q)
      <4>1. (q + 1) .. q = {}
        OBVIOUS
      <4>2. Holds(RotatedManifest, [w EXCEPT ![n] = (q + 1) .. q], q)
        BY <1>1, <2>3, RotatedHolds, Zenon DEF Good
      <4> QED
        BY <4>1, <4>2, Zenon
    <3>6. Good(e, v, q)
      BY <2>7, <2>8, <3>5, RotatedNumbered DEF Good
    <3>7. RotatedWal(o, w, (q + 1) .. r) = v
      BY <1>3, <2>12 DEF RotatedWal
    <3> HIDE DEF c, v
    <3>8. Safe(Publish(c, RotatedManifest, o), v, q)
      BY <2>2, <2>4, <2>5, <3>3, <3>4, <3>6, SafePublish, Zenon
    <3> QED
      BY <2>2, <2>3, <2>9, <2>10, <2>12, <3>7, <3>8, Zenon
  <2> QED
    BY <2>11, <2>12
<1> QED
  BY <1>2, <1>3, Zenon

\* The number of a new WAL is above the active one.
LEMMA AboveActive ==
  ASSUME NEW m \in Manifest, Numbered(m)
  PROVE  m.next + 1 # m.active /\ m.active \in FileNum /\ m.active # 0
BY NumbersTaken DEF FileNum

\* A table in the making survives a rotation: its number is below the new ones.
LEMMA RotatedWorker ==
  ASSUME RInv, proc = "up", man \in Manifest, Numbered(man), man.imm = 0,
         worker \in WorkerType, worker' = worker, compReq' => compReq,
         disk'.dir.sst = disk.dir.sst, proc' = "up" => man' = man \/ man' = RotatedManifest
  PROVE  WorkerGood'
<1>1. WorkerGood /\ ~Flushing
  BY DEF RInv, WorkerGood
<1>2. /\ (Flushing' <=> Flushing) /\ (Compacting' <=> Compacting)
      /\ (OutputInPlace' <=> OutputInPlace)
  BY Zenon DEF Flushing, Compacting, OutputInPlace
<1>3. worker.num \in FileNum \cup {0} /\ worker.base \in FileNum \cup {0}
  BY DEF WorkerType
<1>4. SUFFICES ASSUME proc' = "up"
               PROVE  /\ Compacting =>
                           /\ Len(worker.sel) \in 1 .. Len(man'.tables)
                           /\ worker.sel = SubSeq(man'.tables, 1, Len(worker.sel))
                           /\ worker.num < man'.next
                           /\ worker.num \notin TableNums(man'.tables) \cup {man'.active, man'.imm}
                           /\ man'.imm # 0 => worker.num # man'.active - 1
                      /\ worker.pc = "fremove" => worker.base < man'.active /\ worker.base # man'.imm
  BY <1>1, <1>2, Zenon DEF WorkerGood
<1>5. CASE man' = man
  BY <1>1, <1>5, Zenon DEF WorkerGood
<1>6. CASE man' = RotatedManifest
  <2>1. /\ man'.tables = man.tables /\ man'.active = man.next + 1 /\ man'.next = man.next + 2
        /\ man'.imm = man.active
    BY <1>6, RotatedFields, Zenon
  <2>2. man.next \in Nat /\ man.active \in Nat /\ man.active < man.next
    BY NumbersTaken DEF FileNum
  <2>3. worker.num \in Nat /\ worker.base \in Nat
    BY <1>3 DEF FileNum
  <2>4. ASSUME Compacting
        PROVE  /\ Len(worker.sel) \in 1 .. Len(man.tables)
               /\ worker.sel = SubSeq(man.tables, 1, Len(worker.sel))
               /\ worker.num < man.next /\ worker.num # man.active
               /\ worker.num \notin TableNums(man.tables)
    BY <1>1, <2>4 DEF WorkerGood
  <2>5. ASSUME Compacting
        PROVE  /\ worker.num < man.next + 2 /\ worker.num # man.next + 1
               /\ worker.num # (man.next + 1) - 1
    BY <2>2, <2>3, <2>4, <2>5
  <2>6. worker.pc = "fremove" => worker.base < man.next + 1 /\ worker.base # man.active
    <3>1. worker.pc = "fremove" => worker.base < man.active
      BY <1>1, Zenon DEF WorkerGood
    <3> QED
      BY <2>2, <2>3, <3>1
  <2>7. ASSUME Compacting
        PROVE  /\ Len(worker.sel) \in 1 .. Len(man'.tables)
               /\ worker.sel = SubSeq(man'.tables, 1, Len(worker.sel))
               /\ worker.num < man'.next
               /\ worker.num \notin TableNums(man'.tables) \cup {man'.active, man'.imm}
               /\ man'.imm # 0 => worker.num # man'.active - 1
    BY <2>1, <2>4, <2>5, <2>7, Zenon
  <2>8. worker.pc = "fremove" => worker.base < man'.active /\ worker.base # man'.imm
    BY <2>1, <2>6, Zenon
  <2> QED
    BY <2>7, <2>8, Zenon
<1> QED
  BY <1>4, <1>5, <1>6

\* RotateMemTable keeps what is said of files, handle and worker.
LEMMA RotateKeeps ==
  ASSUME RecoverySetting, IInv, RInv, proc = "up", imm = {},
         NEW o \in RotateOutcomes, NEW k, DiskOK(k), k.dir = disk.dir,
         NEW w \in [FileNum -> SUBSET SeqNum], NEW y \in [FileNum -> SUBSET SeqNum],
         NEW q \in Nat, Safe(k, w, q), NEW full, full = w[man.active], full # {},
         NEW r \in {q, q + 1}, NEW fresh, fresh = (q + 1) .. r,
         \A n \in FileNum : y[n] \subseteq w[n], SyncOnWrite => y = w,
         RotateMemTable(o, k, w, y, full, fresh),
         worker' = worker, pending' = pending, compReq' => compReq
  PROVE  /\ Safe(disk', wal', IF o = "durable" THEN r ELSE q)
         /\ WalsSynced' /\ HandleGood' /\ WorkerGood' /\ proc' \in {"up", "dying"}
         /\ o # "durable" /\ proc' = "up" => man' = man
<1> DEFINE n == man.next + 1
<1>1. /\ man \in Manifest /\ Numbered(man) /\ man.imm = 0 /\ man = disk.dir.man /\ ~termErr
      /\ pending = {} /\ worker \in WorkerType
  BY OpenHandle, Zenon
<1>2. /\ disk' = RotatedDisk(o, k) /\ wal' = RotatedWal(o, w, fresh)
      /\ synced' = IF o = "refused" THEN y
                   ELSE [y EXCEPT ![n] = IF o = "durable" /\ SyncOnWrite THEN fresh ELSE {}]
      /\ man' = (IF o = "durable" THEN RotatedManifest ELSE man)
      /\ mem' = (IF o = "durable" THEN fresh ELSE full)
      /\ imm' = (IF o = "durable" THEN full ELSE imm)
      /\ termErr' = (termErr \/ Terminal(o)) /\ proc' = Survive(o)
  BY Zenon DEF RotateMemTable, RotatedDisk, RotatedWal
<1>3. /\ o \in {"refused", "durable", "not_published", "crash"}
      /\ Safe(RotatedDisk(o, k), RotatedWal(o, w, fresh), IF o = "durable" THEN r ELSE q)
      /\ RotatedDisk(o, k).dir.sst = k.dir.sst
      /\ RotatedDisk(o, k).dir.man = IF o \in {"durable", "crash"} THEN RotatedManifest ELSE man
      /\ o # "refused" => n \in FileNum
  BY <1>1, RotatedSafe, Zenon
<1>4. proc' = (IF o = "crash" THEN "dying" ELSE "up") /\ ~termErr'
  BY <1>1, <1>2, <1>3, Zenon DEF Survive, Terminal
<1>5. n # man.active /\ man.active \in FileNum /\ man.active # 0
  BY <1>1, AboveActive, Zenon
<1>6. wal' = IF o = "refused" THEN w
             ELSE [w EXCEPT ![n] = IF o = "durable" THEN fresh ELSE {}]
  BY <1>2, Zenon DEF RotatedWal
<1>7. WalsSynced'
  <2>1. CASE o = "refused"
    BY <1>2, <1>6, <2>1, Zenon DEF WalsSynced
  <2>2. CASE o # "refused"
    <3> DEFINE f == IF o = "durable" THEN fresh ELSE {}
               g == IF o = "durable" /\ SyncOnWrite THEN fresh ELSE {}
    <3>1. wal' = [w EXCEPT ![n] = f] /\ synced' = [y EXCEPT ![n] = g]
      BY <1>2, <1>6, <2>2, Zenon
    <3>2. g \subseteq f /\ (SyncOnWrite => g = f)
      OBVIOUS
    <3> HIDE DEF f, g, n
    <3> QED
      BY <3>1, <3>2, Zenon DEF WalsSynced
  <2> QED
    BY <2>1, <2>2, Zenon
<1>8. /\ wal'[man.active] = full
      /\ o = "durable" => wal'[n] = fresh
  <2> HIDE DEF n
  <2> QED
    BY <1>3, <1>5, <1>6, Zenon
<1>9. HandleGood'
  <2>1. CASE o = "durable"
    <3>1. man'.imm = man.active /\ man'.active = n
      <4>1. man' = RotatedManifest
        BY <1>2, <2>1, Zenon
      <4> QED
        BY <1>1, <4>1, RotatedFields, Zenon
    <3>2. mem' = wal'[man'.active] /\ imm' = wal'[man'.imm] /\ man'.imm # 0
      BY <1>2, <1>5, <1>8, <2>1, <3>1, Zenon
    <3>3. imm' = ImmWal(man', wal')
      BY <3>2 DEF ImmWal
    <3>4. man' = disk'.dir.man
      BY <1>2, <1>3, <2>1
    <3> QED
      BY <1>1, <1>4, <3>2, <3>3, <3>4, Zenon DEF HandleGood
  <2>2. CASE o # "durable"
    <3>1. SUFFICES ASSUME proc' = "up" PROVE HandleGood'
      BY Zenon DEF HandleGood
    <3>2. man' = man /\ man = disk'.dir.man
      BY <1>1, <1>2, <1>3, <1>4, <2>2, <3>1, Zenon
    <3>3. mem' = wal'[man.active] /\ imm' = ImmWal(man, wal')
      BY <1>1, <1>2, <1>8, <2>2, Zenon DEF ImmWal
    <3> QED
      BY <1>1, <1>4, <3>2, <3>3, Zenon DEF HandleGood
  <2> QED
    BY <2>1, <2>2, Zenon
<1>10. WorkerGood'
  <2>1. disk'.dir.sst = disk.dir.sst
    BY <1>2, <1>3, Zenon
  <2>2. man' = man \/ man' = RotatedManifest
    BY <1>2, Zenon
  <2> QED
    BY <1>1, <2>1, <2>2, RotatedWorker, Zenon
<1> QED
  <2>1. Safe(disk', wal', IF o = "durable" THEN r ELSE q)
    BY <1>2, <1>3, Zenon
  <2>2. proc' \in {"up", "dying"}
    BY <1>4, Zenon
  <2>3. o # "durable" => man' = man
    BY <1>2, Zenon
  <2> QED
    BY <1>7, <1>9, <1>10, <2>1, <2>2, <2>3, Zenon

----------------------------------------------------------------------------
(* Writers.                                                                *)

\* The append of a write to the active WAL, with the fsync that sync_on_write asks for.
LEMMA AppendSafe ==
  ASSUME RecoverySetting, IInv, RInv, proc = "up", NEW q \in Nat, nextSeq = q + 1,
         Safe(disk, wal, q),
         NEW w, w = Appended(wal, man.active, nextSeq),
         NEW y, y = (IF SyncOnWrite THEN Appended(synced, man.active, nextSeq) ELSE synced),
         NEW k, k = IF SyncOnWrite THEN FileSync(disk) ELSE disk
  PROVE  /\ DiskOK(k) /\ k.dir = disk.dir /\ Safe(k, w, q + 1)
         /\ w \in [FileNum -> SUBSET SeqNum] /\ y \in [FileNum -> SUBSET SeqNum]
         /\ \A n \in FileNum : y[n] \subseteq w[n]
         /\ SyncOnWrite => y = w
         /\ w[man.active] = mem \cup {nextSeq} /\ imm = ImmWal(man, w)
<1>1. /\ DiskOK(disk) /\ man \in Manifest /\ man = disk.dir.man /\ Numbered(man)
      /\ wal \in [FileNum -> SUBSET SeqNum] /\ synced \in [FileNum -> SUBSET SeqNum]
      /\ mem = wal[man.active] /\ imm = ImmWal(man, wal) /\ nextSeq \in SeqNum
  BY OpenHandle
<1>2. /\ man.active \in FileNum /\ man.imm # man.active
  BY <1>1, NumbersTaken
<1>3. w \in [FileNum -> SUBSET SeqNum] /\ y \in [FileNum -> SUBSET SeqNum]
  BY <1>1, <1>2, AppendedType
<1>4. DiskOK(k) /\ k.dir = disk.dir
  BY <1>1, FileSyncOK
<1>5. Good(disk.dir, w, q + 1)
  <2>1. Good(disk.dir, wal, q)
    BY <1>1, SafeDir
  <2>2. Holds(man, wal, q)
    BY <1>1, <2>1 DEF Good
  <2>3. Holds(man, Appended(wal, man.active, q + 1), q + 1)
    BY <1>1, <1>2, <2>2, HoldsAppended
  <2> QED
    BY <1>1, <2>1, <2>3 DEF Good
<1>6. Safe(k, w, q + 1)
  <2>1. CASE SyncOnWrite
    BY <1>5, <2>1, SafeFileSync
  <2>2. CASE ~SyncOnWrite
    BY <1>5, <2>2 DEF RecoverySetting, Safe, ImagesOf
  <2> QED
    BY <2>1, <2>2
<1>7. (\A n \in FileNum : synced[n] \subseteq wal[n]) /\ (SyncOnWrite => synced = wal)
  BY DEF RInv, WalsSynced
<1>8. /\ \A n \in FileNum : w[n] = IF n = man.active THEN wal[n] \cup {nextSeq} ELSE wal[n]
      /\ ~SyncOnWrite => y = synced
      /\ SyncOnWrite => y = w
  BY <1>1, <1>2, <1>7, Zenon DEF Appended
<1>9. \A n \in FileNum : y[n] \subseteq w[n]
  BY <1>7, <1>8, Zenon
<1>10. imm = ImmWal(man, w)
  BY <1>1, <1>2, <1>8, Zenon DEF ImmWal, Manifest
<1> QED
  BY <1>1, <1>2, <1>3, <1>4, <1>6, <1>8, <1>9, <1>10, Zenon

\* What a write keeps.
WriteGood ==
  ImagesGood' /\ WalsSynced' /\ HandleGood' /\ WorkerGood' /\ proc' \in {"up", "dying"}

\* A full memtable is not empty.
LEMMA FullHasWrites ==
  ASSUME NEW m, Full(m)
  PROVE  m # {}
BY EngineAssumption, FS_EmptySet DEF Full

\* ApplyWriteGroup on a memtable with room.
LEMMA ApplyThenRotateGood ==
  ASSUME RecoverySetting, IInv, RInv, proc = "up", ApplyThenRotate, WriteFrame
  PROVE  WriteGood
<1> DEFINE w == Appended(wal, man.active, nextSeq)
           y == IF SyncOnWrite THEN Appended(synced, man.active, nextSeq) ELSE synced
           k == IF SyncOnWrite THEN FileSync(disk) ELSE disk
           m == mem \cup {nextSeq}
<1>1. PICK q \in 0 .. MaxSeq - 1 :
        acked \subseteq 1 .. q /\ Safe(disk, wal, q) /\ nextSeq = q + 1
  BY OpenHandle
<1>2. q \in Nat /\ q + 1 \in Nat /\ MaxSeq \in Nat
  BY EngineAssumption
<1>3. /\ DiskOK(k) /\ k.dir = disk.dir /\ Safe(k, w, q + 1)
      /\ w \in [FileNum -> SUBSET SeqNum] /\ y \in [FileNum -> SUBSET SeqNum]
      /\ \A n \in FileNum : y[n] \subseteq w[n]
      /\ SyncOnWrite => y = w
      /\ w[man.active] = m /\ imm = ImmWal(man, w)
  BY <1>1, <1>2, AppendSafe
<1>4. /\ nextSeq < MaxSeq /\ nextSeq' = nextSeq + 1
      /\ Full(m) /\ imm = {} =>
           \E o \in RotateOutcomes :
             /\ RotateMemTable(o, k, w, y, m, {})
             /\ acked' = IF o = "durable" THEN acked \cup {nextSeq} ELSE acked
      /\ ~(Full(m) /\ imm = {}) =>
           /\ disk' = k /\ wal' = w /\ synced' = y /\ mem' = m
           /\ acked' = acked \cup {nextSeq}
           /\ UNCHANGED <<man, imm, flushReq, termErr, proc>>
  BY DEF ApplyThenRotate
<1>5. /\ worker' = worker /\ pending' = pending /\ compReq' = compReq
  BY DEF WriteFrame
<1>6. q + 1 \in 0 .. MaxSeq - 1 /\ nextSeq' = (q + 1) + 1
      /\ acked \cup {nextSeq} \subseteq 1 .. q + 1 /\ acked \subseteq 1 .. q + 1
  BY <1>1, <1>2, <1>4
<1> HIDE DEF w, y, k, m
<1>7. CASE Full(m) /\ imm = {}
  <2>1. PICK o \in RotateOutcomes :
          /\ RotateMemTable(o, k, w, y, m, {})
          /\ acked' = IF o = "durable" THEN acked \cup {nextSeq} ELSE acked
    BY <1>4, <1>7
  <2>2. m # {}
    BY <1>7, FullHasWrites
  <2>3. q + 1 \in {q + 1, (q + 1) + 1} /\ {} = ((q + 1) + 1) .. (q + 1)
    BY <1>2
  <2>4. /\ Safe(disk', wal', IF o = "durable" THEN q + 1 ELSE q + 1)
        /\ WalsSynced' /\ HandleGood' /\ WorkerGood' /\ proc' \in {"up", "dying"}
    <3> DEFINE r == q + 1
    <3>1. r \in Nat /\ Safe(k, w, r) /\ r \in {r, r + 1} /\ {} = (r + 1) .. r
      BY <1>2, <1>3, <2>3
    <3> HIDE DEF r
    <3>2. /\ Safe(disk', wal', IF o = "durable" THEN r ELSE r)
          /\ WalsSynced' /\ HandleGood' /\ WorkerGood' /\ proc' \in {"up", "dying"}
      BY <1>3, <1>5, <1>7, <2>1, <2>2, <3>1, RotateKeeps, Zenon
    <3> QED
      BY <3>2 DEF r
  <2>5. ImagesGood'
    BY <1>6, <2>1, <2>4, ImagesHold
  <2> QED
    BY <2>4, <2>5 DEF WriteGood
<1>8. CASE ~(Full(m) /\ imm = {})
  <2>1. /\ disk' = k /\ wal' = w /\ synced' = y /\ mem' = m /\ acked' = acked \cup {nextSeq}
        /\ man' = man /\ imm' = imm /\ termErr' = termErr /\ proc' = proc
    BY <1>4, <1>8
  <2>2. ImagesGood'
    <3>1. Safe(disk', wal', q + 1) /\ acked' \subseteq 1 .. q + 1
      BY <1>3, <1>6, <2>1
    <3> QED
      BY <1>6, <3>1, ImagesHold
  <2>3. WalsSynced'
    BY <1>3, <2>1 DEF WalsSynced
  <2>4. HandleGood'
    BY <1>3, <1>5, <2>1 DEF RInv, HandleGood
  <2>5. WorkerGood'
    BY <1>3, <1>5, <2>1, Zenon DEF RInv, WorkerGood, Flushing, Compacting, OutputInPlace
  <2> QED
    BY <2>1, <2>2, <2>3, <2>4, <2>5 DEF WriteGood
<1> QED
  BY <1>7, <1>8

\* PrepareForWrite that rotates a full memtable first.
LEMMA RotateThenApplyGood ==
  ASSUME RecoverySetting, IInv, RInv, proc = "up", RotateThenApply, WriteFrame
  PROVE  WriteGood
<1> DEFINE fresh == IF nextSeq < MaxSeq THEN {nextSeq} ELSE {}
<1>1. PICK q \in 0 .. MaxSeq - 1 :
        acked \subseteq 1 .. q /\ Safe(disk, wal, q) /\ nextSeq = q + 1
  BY OpenHandle
<1>2. q \in Nat /\ q + 1 \in Nat /\ MaxSeq \in Nat
  BY EngineAssumption
<1>3. /\ Full(mem) /\ imm = {}
      /\ \E o \in RotateOutcomes :
           /\ RotateMemTable(o, disk, wal, synced, mem, fresh)
           /\ nextSeq' = IF o = "durable" THEN nextSeq + Cardinality(fresh) ELSE nextSeq
           /\ acked' = IF o = "durable" THEN acked \cup fresh ELSE acked
  BY DEF RotateThenApply
<1>4. /\ worker' = worker /\ pending' = pending /\ compReq' = compReq
  BY DEF WriteFrame
<1>5. PICK r \in {q, q + 1} :
        /\ fresh = (q + 1) .. r /\ Cardinality(fresh) = r - q /\ r \in 0 .. MaxSeq - 1
  <2>1. CASE nextSeq < MaxSeq
    <3>1. fresh = {q + 1} /\ {q + 1} = (q + 1) .. (q + 1)
      BY <1>1, <1>2, <2>1
    <3>2. Cardinality({q + 1}) = 1
      BY FS_Singleton, Zenon
    <3> QED
      BY <1>1, <1>2, <2>1, <3>1, <3>2
  <2>2. CASE ~(nextSeq < MaxSeq)
    <3>1. fresh = {} /\ {} = (q + 1) .. q /\ Cardinality({}) = 0
      BY <1>2, <2>2, FS_EmptySet
    <3> QED
      BY <1>2, <3>1
  <2> QED
    BY <2>1, <2>2
<1> HIDE DEF fresh
<1>6. PICK o \in RotateOutcomes :
        /\ RotateMemTable(o, disk, wal, synced, mem, fresh)
        /\ nextSeq' = IF o = "durable" THEN nextSeq + Cardinality(fresh) ELSE nextSeq
        /\ acked' = IF o = "durable" THEN acked \cup fresh ELSE acked
  BY <1>3
<1>7. /\ mem = wal[man.active] /\ mem # {} /\ DiskOK(disk)
      /\ wal \in [FileNum -> SUBSET SeqNum] /\ synced \in [FileNum -> SUBSET SeqNum]
  BY <1>3, OpenHandle, FullHasWrites
<1>8. (\A n \in FileNum : synced[n] \subseteq wal[n]) /\ (SyncOnWrite => synced = wal)
  BY DEF RInv, WalsSynced
<1>9. /\ Safe(disk', wal', IF o = "durable" THEN r ELSE q)
      /\ WalsSynced' /\ HandleGood' /\ WorkerGood' /\ proc' \in {"up", "dying"}
  BY <1>1, <1>2, <1>3, <1>4, <1>5, <1>6, <1>7, <1>8, RotateKeeps, Zenon
<1>10. ImagesGood'
  <2>1. CASE o = "durable"
    <3>1. nextSeq' = r + 1 /\ acked' \subseteq 1 .. r
      BY <1>1, <1>2, <1>5, <1>6, <2>1
    <3>2. Safe(disk', wal', r)
      BY <1>9, <2>1
    <3> QED
      BY <1>5, <3>1, <3>2, ImagesHold
  <2>2. CASE o # "durable"
    <3>1. nextSeq' = q + 1 /\ acked' \subseteq 1 .. q
      BY <1>1, <1>6, <2>2
    <3>2. Safe(disk', wal', q)
      BY <1>9, <2>2
    <3> QED
      BY <3>1, <3>2, ImagesHold
  <2> QED
    BY <2>1, <2>2
<1> QED
  BY <1>9, <1>10 DEF WriteGood

\* The group-commit leader keeps the invariant.
LEMMA WriteKeepsR ==
  ASSUME RecoverySetting, IInv, RInv, Write \/ WriteStalls \/ StalledSpins \/ StalledResumes
  PROVE  RInv'
<1>1. proc = "up" /\ QuietGood /\ QuietCompact /\ proc # "failed"
  BY DEF Write, WriteStalls, StalledSpins, StalledResumes, LockFree, RInv, RecoverySetting
<1>2. ASSUME WriteGood, WriteFrame, compactor.pc = "idle"
      PROVE  RInv'
  <2>1. QuietGood'
    BY <1>1, <1>2 DEF QuietGood, WriteFrame, closeVars
  <2> QED
    BY <1>2, <2>1 DEF WriteGood, RInv
<1>3. ASSUME compactor.pc = "idle",
             UNCHANGED <<files, handle, errors, flags, proc, worker, compactor, closeVars,
                         history>>
      PROVE  RInv'
  <2>1. QuietGood'
    BY <1>1, <1>3 DEF QuietGood, closeVars
  <2>2. ImagesGood' /\ WalsSynced' /\ HandleGood'
    BY <1>1, <1>3 DEF RInv, ImagesGood, Images, WalsSynced, HandleGood, files, handle, errors, history
  <2>3. WorkerGood'
    BY <1>1, <1>3 DEF RInv, WorkerGood, Flushing, Compacting, OutputInPlace, files, handle, flags
  <2> QED
    BY <1>1, <1>3, <2>1, <2>2, <2>3 DEF RInv
<1>4. CASE Write
  BY <1>1, <1>2, <1>4, ApplyThenRotateGood, RotateThenApplyGood DEF Write
<1>5. CASE WriteStalls
  BY <1>1, <1>3, <1>5 DEF WriteStalls
<1>6. writer = "stalled" => compactor.pc = "idle"
  BY <1>1 DEF QuietGood
<1>7. CASE StalledSpins
  BY <1>3, <1>6, <1>7 DEF StalledSpins
<1>8. CASE StalledResumes
  <2>1. CASE CheckOpen
    BY <1>1, <1>2, <1>6, <1>8, <2>1, RotateThenApplyGood DEF StalledResumes
  <2>2. CASE ~CheckOpen
    <3>1. WriteFrame /\ compactor.pc = "idle"
          /\ UNCHANGED <<files, man, mem, imm, nextSeq, flushReq, termErr, acked, proc>>
      BY <1>6, <1>8, <2>2 DEF StalledResumes
    <3> QED
      BY <1>3, <3>1 DEF WriteFrame, files, handle, errors, flags, history, closeVars
  <2> QED
    BY <2>1, <2>2
<1> QED
  BY <1>4, <1>5, <1>7, <1>8

----------------------------------------------------------------------------
(* Flushes by the background worker.                                       *)

\* BackgroundWorkLoop takes a job, or records how it went.
LEMMA WorkerPicksR ==
  ASSUME RecoverySetting, IInv, RInv, WorkerPicks \/ WorkerFinishes
  PROVE  RInv'
<1>1. /\ proc = "up" /\ WorkerFrame /\ UNCHANGED <<proc, files, man, imm, pending, termErr>>
  BY DEF WorkerPicks, WorkerFinishes, LockFree, errors
<1>2. /\ disk' = disk /\ wal' = wal /\ synced' = synced /\ mem' = mem /\ man' = man
      /\ imm' = imm /\ pending' = pending /\ termErr' = termErr /\ proc' = proc
  BY <1>1 DEF files, WorkerFrame
<1>3. PICK q \in 0 .. MaxSeq - 1 :
        acked \subseteq 1 .. q /\ Safe(disk, wal, q) /\ nextSeq = q + 1
  BY <1>1, OpenHandle
<1>4. HandleGood'
  BY <1>1, <1>2, SameHandle, OpenHandle, Zenon
<1>5. compactor.pc # "gap" /\ WorkerGood'
  <2>1. CASE WorkerPicks
    <3>1. compactor.pc # "gap"
      BY <2>1 DEF WorkerPicks, RInv, QuietGood
    <3>2. worker.num = 0 /\ worker \in WorkerType
      BY <1>1, <2>1, OpenHandle, Zenon DEF WorkerPicks, RInv, WorkerGood, Flushing, Compacting
    <3>3. /\ worker'.num = 0 /\ worker'.pc \in {"exited", "flush", "compact", "idle"}
          /\ worker'.pc = "compact" => compReq
          /\ compReq' => compReq
      BY <2>1, <3>2, Zenon DEF WorkerPicks, WorkerType
    <3> QED
      BY <3>1, <3>3, CompactionWanted DEF WorkerGood, Flushing, Compacting, OutputInPlace
  <2>2. CASE WorkerFinishes
    <3>1. compactor.pc # "gap"
      BY <2>2, WorkerBusy DEF WorkerFinishes
    <3>2. worker'.pc = "idle" /\ worker'.num = 0
      BY <2>2 DEF WorkerFinishes, IdleWorker
    <3>3. compReq' => Trigger # 0
      BY <2>2, CompactionWanted, Zenon DEF WorkerFinishes
    <3> QED
      BY <3>1, <3>2, <3>3, EmptyHanded
  <2> QED
    BY <2>1, <2>2
<1>6. Safe(disk', wal, q) /\ proc' \in {"up", "dying"}
  BY <1>1, <1>2, <1>3
<1> QED
  BY <1>1, <1>2, <1>3, <1>4, <1>5, <1>6, WorkerStep

\* FlushImmutableMemTable cleans up and takes the number the rotation reserved.
LEMMA FlushSelectsR ==
  ASSUME RecoverySetting, IInv, RInv, FlushSelects
  PROVE  RInv'
<1>1. /\ proc = "up" /\ WorkerFrame /\ worker.pc = "flush"
      /\ UNCHANGED <<proc, wal, synced, man, imm, errors, flags>>
  BY DEF FlushSelects, LockFree
<1>2. /\ wal' = wal /\ mem' = mem /\ man' = man /\ imm' = imm /\ termErr' = termErr
      /\ proc' = proc /\ compReq' = compReq
  BY <1>1 DEF WorkerFrame, errors, flags
<1>3. PICK q \in 0 .. MaxSeq - 1 :
        acked \subseteq 1 .. q /\ Safe(disk, wal, q) /\ nextSeq = q + 1
  BY <1>1, OpenHandle
<1>4. pending = {} /\ man = disk.dir.man /\ DiskOK(disk)
  BY <1>1, OpenHandle, Zenon
<1>5. Safe(disk', wal, q) /\ disk'.dir.man = disk.dir.man /\ pending' = {} /\ WorkerGood'
  <2>1. CASE man.imm = 0 \/ man.active < 2
    <3>1. WorkerFails("fdone") /\ disk' = disk /\ pending' = pending
      BY <2>1 DEF FlushSelects
    <3> QED
      BY <1>2, <1>3, <1>4, <3>1, FailedWorker, CompactionWanted
  <2>2. CASE ~(man.imm = 0 \/ man.active < 2)
    <3>1. PICK c \in CleanupObsoleteFiles(disk, {}, disk.dir.man) :
            disk' = c.disk /\ pending' = c.failed
      BY <1>4, <2>2 DEF FlushSelects
    <3>2. Safe(disk', wal, q) /\ disk'.dir.man = disk.dir.man /\ pending' = {}
      BY <1>3, <1>4, <3>1, SafeCleanup
    <3>3. worker' = [IdleWorker EXCEPT !.pc = "fbuild", !.num = man.active - 1,
                                       !.base = man.imm, !.data = imm]
      BY <2>2 DEF FlushSelects
    <3>4. /\ worker'.pc = "fbuild" /\ worker'.num = man.active - 1 /\ worker'.base = man.imm
          /\ worker'.data = imm
      BY <3>3 DEF IdleWorker
    <3>5. WorkerGood'
      BY <1>2, <2>2, <3>4, CompactionWanted DEF WorkerGood, Flushing, Compacting, OutputInPlace
    <3> QED
      BY <3>2, <3>5
  <2> QED
    BY <2>1, <2>2
<1>6. HandleGood'
  BY <1>1, <1>2, <1>5, SameHandle
<1>7. compactor.pc # "gap" /\ proc' \in {"up", "dying"}
  BY <1>1, <1>2, WorkerBusy
<1> QED
  BY <1>1, <1>3, <1>5, <1>6, <1>7, WorkerStep

\* The worker goes on with its table.
LEMMA CarriedOn ==
  ASSUME RInv, proc = "up", worker \in WorkerType,
         NEW from, NEW to, NEW done, <<from, to, done>> \in TableSteps, worker.pc = from,
         worker' = [worker EXCEPT !.pc = to], UNCHANGED <<man, imm, compReq>>,
         to \in {"fsync", "csync", "fcommit", "ccommit"} => disk'.dir.sst[worker.num] = worker.data
  PROVE  WorkerGood'
<1>1. /\ worker'.pc = to /\ worker'.num = worker.num /\ worker'.base = worker.base
      /\ worker'.sel = worker.sel /\ worker'.data = worker.data
  BY DEF WorkerType
<1>2. \/ from \in {"fbuild", "frename", "fsync"} /\ to \in {"frename", "fsync", "fcommit"}
      \/ from \in {"cbuild", "crename", "csync"} /\ to \in {"crename", "csync", "ccommit"}
  BY DEF TableSteps
<1>3. (Flushing' <=> Flushing) /\ (Compacting' <=> Compacting) /\ to \notin {"compact", "fremove"}
  BY <1>1, <1>2 DEF Flushing, Compacting
<1>4. OutputInPlace' => to \in {"fsync", "csync", "fcommit", "ccommit"}
  BY <1>1 DEF OutputInPlace
<1> QED
  BY <1>1, <1>3, <1>4 DEF RInv, WorkerGood

\* Write, rename and sync the table file.
LEMMA TableStepR ==
  ASSUME RecoverySetting, IInv, RInv, NEW from, NEW to, NEW done,
         <<from, to, done>> \in TableSteps,
         \/ BuildTable(from, to, done) /\ from \in {"fbuild", "cbuild"}
         \/ RenameTable(from, to, done) /\ from \in {"frename", "crename"}
         \/ SyncTable(from, to, done) /\ from \in {"fsync", "csync"}
  PROVE  RInv'
<1>1. /\ proc = "up" /\ WorkerFrame /\ worker.pc = from
      /\ UNCHANGED <<proc, wal, synced, man, imm, pending, errors, flags>>
  BY DEF BuildTable, RenameTable, SyncTable
<1>2. /\ wal' = wal /\ mem' = mem /\ man' = man /\ imm' = imm /\ termErr' = termErr
      /\ proc' = proc /\ compReq' = compReq /\ pending' = pending
  BY <1>1 DEF WorkerFrame, errors, flags
<1>3. PICK q \in 0 .. MaxSeq - 1 :
        acked \subseteq 1 .. q /\ Safe(disk, wal, q) /\ nextSeq = q + 1
  BY <1>1, OpenHandle, Zenon
<1>4. /\ pending = {} /\ man = disk.dir.man /\ DiskOK(disk) /\ worker \in WorkerType
      /\ Good(disk.dir, wal, q)
  BY <1>1, <1>3, OpenHandle, SafeDir, Zenon
<1>5. done \in {"fdone", "cdone"} /\ (compReq' => Trigger # 0)
  BY <1>2, CompactionWanted DEF TableSteps
<1>6. /\ worker.num \in FileNum /\ worker.num \notin TableNums(man.tables)
      /\ worker.data \in SUBSET SeqNum
  BY <1>1, OutputIsNew DEF Flushing, Compacting, TableSteps
<1>7. Safe(disk', wal, q) /\ disk'.dir.man = disk.dir.man /\ WorkerGood'
  <2>1. CASE BuildTable(from, to, done) /\ from \in {"fbuild", "cbuild"}
    <3>1. disk' = WrittenTemp(disk, worker.num)
          /\ (worker' = [worker EXCEPT !.pc = to] \/ WorkerFails(done))
      BY <2>1 DEF BuildTable
    <3>2. to \notin {"fsync", "csync", "fcommit", "ccommit"}
      BY <2>1 DEF TableSteps
    <3>3. WorkerGood'
      BY <1>1, <1>2, <1>4, <1>5, <3>1, <3>2, CarriedOn, FailedWorker
    <3> QED
      BY <1>4, <1>6, <3>1, <3>3, SafeWrittenTemp, WrittenTempOK
  <2>2. CASE RenameTable(from, to, done) /\ from \in {"frename", "crename"}
    <3>1. CASE disk' = Renamed(disk, worker.num, worker.data)
               /\ worker' = [worker EXCEPT !.pc = to]
      <4>1. /\ Safe(disk', wal, q) /\ disk'.dir.sst[worker.num] = worker.data
            /\ disk'.dir.man = disk.dir.man
        <5> DEFINE k == Renamed(disk, worker.num, worker.data)
        <5>1. Safe(k, wal, q) /\ k.dir.sst[worker.num] = worker.data
          <6>1. worker.num \notin TableNums(disk.dir.man.tables)
            BY <1>4, <1>6, Zenon
          <6>2. /\ DiskOK(disk) /\ Safe(disk, wal, q)
                /\ worker.num \in FileNum /\ worker.data \in SUBSET SeqNum
            BY <1>3, <1>4, <1>6, Zenon
          <6>3. RenamedIsSafe(disk, wal, q)
            BY <6>2, RenamesAreSafe, Zenon
          <6> QED
            BY <6>1, <6>2, <6>3, Zenon DEF RenamedIsSafe
        <5>2. k.dir.man = disk.dir.man
          BY <1>4, <1>6, RenamedOK, Zenon
        <5> HIDE DEF k
        <5> QED
          BY <3>1, <5>1, <5>2 DEF k
      <4>2. WorkerGood'
        BY <1>1, <1>2, <1>4, <3>1, <4>1, CarriedOn
      <4> QED
        BY <4>1, <4>2
    <3>2. CASE WorkerFails(done) /\ disk' = disk
      BY <1>3, <1>5, <3>2, FailedWorker
    <3> QED
      BY <2>2, <3>1, <3>2 DEF RenameTable
  <2>3. CASE SyncTable(from, to, done) /\ from \in {"fsync", "csync"}
    <3>1. CASE disk' = SyncDir(disk) /\ worker' = [worker EXCEPT !.pc = to]
      <4>1. Safe(disk', wal, q) /\ disk'.dir = disk.dir
        BY <1>4, <3>1, SafeSyncDir, SyncDirOK
      <4>2. disk.dir.sst[worker.num] = worker.data
        BY <1>1, <2>3 DEF RInv, WorkerGood, OutputInPlace
      <4>3. WorkerGood'
        BY <1>1, <1>2, <1>4, <3>1, <4>1, <4>2, CarriedOn
      <4> QED
        BY <4>1, <4>3, Zenon
    <3>2. CASE WorkerFails(done) /\ disk' = disk
      BY <1>3, <1>5, <3>2, FailedWorker
    <3> QED
      BY <2>3, <3>1, <3>2 DEF SyncTable
  <2> QED
    BY <2>1, <2>2, <2>3
<1>8. HandleGood'
  BY <1>1, <1>2, <1>4, <1>7, SameHandle, Zenon
<1>9. compactor.pc # "gap" /\ proc' \in {"up", "dying"}
  BY <1>1, <1>2, WorkerBusy DEF TableSteps
<1> QED
  BY <1>1, <1>3, <1>7, <1>8, <1>9, WorkerStep

\* Back under the lock, FlushImmutableMemTable publishes the table.
LEMMA FlushCommitsR ==
  ASSUME RecoverySetting, IInv, RInv, FlushCommits
  PROVE  RInv'
<1> DEFINE m == FlushedManifest
           x == [num |-> worker.num, data |-> worker.data]
<1>1. /\ proc = "up" /\ WorkerFrame /\ worker.pc = "fcommit"
      /\ UNCHANGED <<wal, synced, pending, bgErr, flushReq>>
  BY DEF FlushCommits, LockFree
<1>2. PICK q \in 0 .. MaxSeq - 1 :
        acked \subseteq 1 .. q /\ Safe(disk, wal, q) /\ nextSeq = q + 1
        /\ Good(disk.dir, wal, q) /\ Holds(man, wal, q)
  BY <1>1, OpenHandle
<1>3. /\ pending = {} /\ man = disk.dir.man /\ DiskOK(disk) /\ worker \in WorkerType
      /\ man \in Manifest /\ Numbered(man) /\ ~termErr
      /\ mem = wal[man.active] /\ imm = ImmWal(man, wal) /\ imm # {}
      /\ man.imm # 0 /\ worker.base = man.imm /\ worker.num = man.active - 1
      /\ worker.data = imm /\ disk.dir.sst[worker.num] = worker.data
  BY <1>1, OpenHandle, Zenon DEF RInv, WorkerGood, Flushing, OutputInPlace
<1>4. /\ worker.num \in FileNum /\ worker.data \in SUBSET SeqNum /\ worker.num < man.next
  BY <1>1, OutputIsNew, Zenon DEF Flushing
<1>5. m \in Manifest
  BY <1>3, <1>4, FlushedManifestType, Zenon
<1>6. Numbered(m) /\ Holds(m, wal, q)
  <2>1. q \in Nat
    OBVIOUS
  <2> QED
    BY <1>2, <1>3, <1>4, <2>1, FlushedGood, Zenon
<1>7. /\ m.active = man.active /\ m.imm = 0 /\ m.tables = Append(man.tables, x)
  BY <1>3, Zenon DEF FlushedManifest, Manifest
<1>8. Good([disk.dir EXCEPT !.man = m], wal, q)
  <2> DEFINE e == [disk.dir EXCEPT !.man = m]
  <2>1. e.man = m /\ e.sst = disk.dir.sst /\ e.wal = disk.dir.wal
    BY <1>3 DEF DiskOK, Dir
  <2>2. \A i \in DOMAIN m.tables : disk.dir.sst[m.tables[i].num] = m.tables[i].data
    <3>1. man.tables \in Seq(Table) /\ x \in Table
      BY <1>3, <1>4 DEF Manifest, Table
    <3> HIDE DEF x
    <3>2. /\ DOMAIN m.tables = DOMAIN man.tables \cup {Len(man.tables) + 1}
          /\ m.tables[Len(man.tables) + 1] = x
          /\ \A i \in DOMAIN man.tables : m.tables[i] = man.tables[i]
      BY <1>7, <3>1, AppendedTable
    <3>3. x.num = worker.num /\ x.data = worker.data
      BY DEF x
    <3>4. \A i \in DOMAIN man.tables : disk.dir.sst[man.tables[i].num] = man.tables[i].data
      BY <1>2, <1>3, Zenon DEF Good, Present
    <3> QED
      BY <1>3, <3>2, <3>3, <3>4, Zenon
  <2>3. man.active \in disk.dir.wal
    BY <1>2, <1>3, Zenon DEF Good, Present
  <2> HIDE DEF e
  <2> QED
    <3>1. Present(e)
      BY <1>7, <2>1, <2>2, <2>3, Zenon DEF Present
    <3>2. Good(e, wal, q)
      BY <1>6, <2>1, <3>1 DEF Good
    <3> QED
      BY <3>2 DEF e
<1>9. PICK o \in {"durable", "not_published", "crash"} :
        /\ disk' = Publish(disk, m, o)
        /\ termErr' = (termErr \/ Terminal(o)) /\ proc' = Survive(o)
        /\ IF o = "durable"
           THEN /\ man' = m /\ imm' = {}
                /\ compReq' = (compReq \/ NeedsBackgroundCompaction(m))
                /\ worker' = [IdleWorker EXCEPT !.pc = "fremove", !.base = worker.base]
           ELSE WorkerFails("fdone") /\ UNCHANGED <<man, imm, compReq>>
  <2>1. (IF FlushStateUnchanged THEN PublishOutcomes(m) ELSE {"not_published"})
          \subseteq {"durable", "not_published", "crash"}
    BY Outcomes
  <2> QED
    BY <2>1 DEF FlushCommits
<1> HIDE DEF m, x
<1>10. /\ Safe(disk', wal, q)
       /\ disk'.dir.man = IF o = "not_published" THEN man ELSE m
  BY <1>1, <1>2, <1>3, <1>5, <1>8, <1>9, PublishKeeps
<1>11. /\ ~termErr' /\ proc' = (IF o = "crash" THEN "dying" ELSE "up")
       /\ mem' = mem /\ wal' = wal /\ pending' = {}
  BY <1>1, <1>3, <1>9, Outcomes, Zenon DEF Survive, WorkerFrame
<1>12. HandleGood' /\ WorkerGood'
  <2>1. CASE o = "durable"
    <3>1. /\ man' = m /\ imm' = {} /\ compReq' = (compReq \/ NeedsBackgroundCompaction(m))
          /\ worker' = [IdleWorker EXCEPT !.pc = "fremove", !.base = worker.base]
      BY <1>9, <2>1
    <3>2. HandleGood'
      <4>1. imm' = ImmWal(man', wal')
        BY <1>7, <3>1 DEF ImmWal
      <4>2. man' = disk'.dir.man /\ mem' = wal'[man'.active]
        <5>1. man' = disk'.dir.man
          BY <1>10, <2>1, <3>1
        <5>2. mem' = wal'[man'.active]
          BY <1>3, <1>7, <1>11, <3>1, Zenon
        <5> QED
          BY <5>1, <5>2
      <4> QED
        BY <1>11, <4>1, <4>2 DEF HandleGood
    <3>3. worker'.pc = "fremove" /\ worker'.base = man.imm /\ worker'.num = 0
      BY <1>3, <3>1 DEF IdleWorker
    <3>4. man.imm < man.active /\ man.imm # 0
      <4>1. man.imm < man.active - 1 /\ man.imm # 0
        BY <1>3, Zenon DEF Numbered
      <4>2. man.imm \in FileNum \cup {0} /\ man.active \in FileNum
        BY <1>3, Zenon DEF Manifest
      <4>3. \A a \in FileNum \cup {0}, b \in FileNum : a < b - 1 => a < b
        BY DEF FileNum
      <4> QED
        BY <4>1, <4>2, <4>3, Zenon
    <3>5. compReq' => Trigger # 0
      BY <3>1, CompactionWanted, Zenon
    <3> QED
      BY <1>7, <3>1, <3>2, <3>3, <3>4, <3>5 DEF WorkerGood, Flushing, Compacting, OutputInPlace
  <2>2. CASE o # "durable"
    <3>1. WorkerFails("fdone") /\ man' = man /\ imm' = imm /\ compReq' = compReq
      BY <1>9, <2>2
    <3>2. HandleGood'
      <4>1. proc' = "up" => o = "not_published"
        BY <1>11, <2>2
      <4> QED
        BY <1>3, <1>10, <1>11, <3>1, <4>1, Zenon DEF HandleGood
    <3> QED
      BY <3>1, <3>2, FailedWorker, CompactionWanted
  <2> QED
    BY <2>1, <2>2
<1>13. compactor.pc # "gap" /\ proc' \in {"up", "dying"}
  BY <1>1, <1>11, WorkerBusy
<1> QED
  BY <1>1, <1>2, <1>10, <1>12, <1>13, WorkerStep

\* The WAL of the flushed generation goes.
LEMMA FlushRemovesWalR ==
  ASSUME RecoverySetting, IInv, RInv, FlushRemovesWal
  PROVE  RInv'
<1>1. /\ proc = "up" /\ WorkerFrame /\ worker.pc = "fremove"
      /\ UNCHANGED <<proc, wal, synced, man, imm, errors, flags>>
      /\ worker' = [IdleWorker EXCEPT !.pc = "fdone"]
  BY DEF FlushRemovesWal
<1>2. /\ wal' = wal /\ mem' = mem /\ man' = man /\ imm' = imm /\ termErr' = termErr
      /\ proc' = proc /\ compReq' = compReq
  BY <1>1 DEF WorkerFrame, errors, flags
<1>3. PICK q \in 0 .. MaxSeq - 1 :
        acked \subseteq 1 .. q /\ Safe(disk, wal, q) /\ nextSeq = q + 1
  BY <1>1, OpenHandle
<1>4. pending = {} /\ man = disk.dir.man /\ DiskOK(disk) /\ man \in Manifest
  BY <1>1, OpenHandle
<1>5. PICK r \in Removals(disk, {<<"wal", worker.base>>}) :
        disk' = r.disk /\ pending' = pending \cup r.failed
  BY DEF FlushRemovesWal
<1>6. {<<"wal", worker.base>>} \cap Live(disk.dir.man) = {}
  <2>1. worker.base < man.active /\ worker.base # man.imm /\ worker.base \in Nat /\ man.active \in Nat
    <3>1. worker.base < man.active /\ worker.base # man.imm
      BY <1>1, Zenon DEF RInv, WorkerGood
    <3>2. worker.base \in FileNum \cup {0} /\ man.active \in FileNum
      BY <1>1, <1>4, OpenHandle, NumbersTaken DEF WorkerType
    <3> QED
      BY <3>1, <3>2 DEF FileNum
  <2>2. worker.base # man.active
    BY <2>1
  <2> QED
    BY <1>4, <2>1, <2>2 DEF Live
<1>7. Safe(disk', wal, q) /\ pending' = {} /\ disk'.dir = Unlink(disk.dir, {<<"wal", worker.base>>})
  BY <1>3, <1>4, <1>5, <1>6, SafeRemovals
<1>8. disk'.dir.man = disk.dir.man
  BY <1>4, <1>7, UnlinkOK DEF DiskOK
<1>9. HandleGood'
  BY <1>1, <1>2, <1>7, <1>8, SameHandle
<1>10. WorkerGood'
  <2>1. worker'.pc = "fdone" /\ worker'.num = 0
    BY <1>1 DEF IdleWorker
  <2> QED
    BY <1>2, <2>1, EmptyHanded, CompactionWanted
<1>11. compactor.pc # "gap" /\ proc' \in {"up", "dying"}
  BY <1>1, <1>2, WorkerBusy
<1> QED
  BY <1>1, <1>3, <1>7, <1>9, <1>10, <1>11, WorkerStep

----------------------------------------------------------------------------
(* Close().                                                                *)

\* A step of Close() moves one closer; it is at "join" while the worker is told to stop.
LEMMA CloserMoves ==
  ASSUME IInv, RInv, NEW c \in Closers, NEW pc, At(c, pc), closer[c] # "join",
         compactor.pc = "idle", compactor' = compactor, closed' = closed,
         stop' => stop \/ pc = "join"
  PROVE  QuietGood'
<1>1. /\ closer'[c] = pc /\ \A b \in Closers : b # c => closer'[b] = closer[b]
  BY DEF IInv, TypeOK, At
<1>2. stop' => closed' \/ \E b \in Closers : closer'[b] = "join"
  BY <1>1 DEF RInv, QuietGood
<1> QED
  BY <1>2 DEF QuietGood

\* A step of Close() that keeps every image.
LEMMA CloseStep ==
  ASSUME RInv, proc = "up", CloseFrame, QuietGood',
         NEW q \in 0 .. MaxSeq - 1, acked \subseteq 1 .. q, nextSeq = q + 1,
         Safe(disk', wal', q), WalsSynced', proc' \in {"up", "dying"}, HandleGood', WorkerGood'
  PROVE  RInv'
<1>1. acked' = acked /\ nextSeq' = nextSeq
  BY DEF CloseFrame, history
<1>2. ImagesGood'
  BY <1>1, ImagesHold
<1> QED
  BY <1>2 DEF RInv

\* A step of Close() that leaves files, manifest and MemTables alone.
LEMMA CloseOnly ==
  ASSUME RecoverySetting, IInv, RInv, proc = "up", CloseFrame, QuietGood',
         UNCHANGED <<files, man, mem, imm, errors, proc>>, compReq' => compReq
  PROVE  RInv'
<1>1. /\ disk' = disk /\ wal' = wal /\ synced' = synced /\ man' = man /\ mem' = mem /\ imm' = imm
      /\ termErr' = termErr /\ proc' = proc /\ pending' = pending /\ worker' = worker
  BY DEF files, errors, CloseFrame
<1>2. PICK q \in 0 .. MaxSeq - 1 :
        acked \subseteq 1 .. q /\ Safe(disk, wal, q) /\ nextSeq = q + 1
  BY OpenHandle, Zenon
<1>3. WalsSynced'
  BY <1>1, Zenon DEF RInv, WalsSynced
<1>4. HandleGood'
  BY <1>1 DEF RInv, HandleGood
<1>5. WorkerGood'
  BY <1>1, Zenon DEF RInv, WorkerGood, Flushing, Compacting, OutputInPlace
<1>6. Safe(disk', wal', q) /\ proc' \in {"up", "dying"}
  BY <1>1, <1>2
<1> QED
  BY <1>2, <1>3, <1>4, <1>5, <1>6, CloseStep

\* A turn of the loop of Close(): it may rotate a full MemTable.
LEMMA CloseTurnR ==
  ASSUME RecoverySetting, IInv, RInv, NEW c \in Closers, proc = "up", CloseTurn(c), CloseFrame,
         closer[c] # "join", closer[c] # "idle", compReq' => compReq
  PROVE  RInv'
<1>1. /\ compactor.pc = "idle" /\ compactor' = compactor /\ closed' = closed
      /\ worker' = worker /\ pending' = pending
  BY DEF RInv, QuietGood, CloseFrame
<1>2. ASSUME NEW pc, At(c, pc), stop' => stop \/ pc = "join"
      PROVE  QuietGood'
  BY <1>1, <1>2, CloserMoves
<1>3. ASSUME CloseFinishes(c)
      PROVE  QuietGood'
  BY <1>2, <1>3 DEF CloseFinishes
<1>4. CASE At(c, "wait_compaction") /\ stop' = stop /\ UNCHANGED <<files, man, mem, imm, errors, proc>>
  BY <1>2, <1>4, CloseOnly
<1>5. CASE At(c, "wait_flush") /\ stop' = stop /\ UNCHANGED <<files, man, mem, imm, errors, proc>>
  BY <1>2, <1>5, CloseOnly
<1>6. CASE CloseFinishes(c) /\ UNCHANGED <<files, man, mem, imm, errors, proc>>
  BY <1>3, <1>6, CloseOnly
<1>7. ASSUME imm = {}, Full(mem), NEW o \in RotateOutcomes,
             RotateMemTable(o, disk, wal, synced, mem, {}),
             (At(c, "wait_flush") /\ stop' = stop) \/ CloseFinishes(c)
      PROVE  RInv'
  <2>1. PICK q \in 0 .. MaxSeq - 1 :
          acked \subseteq 1 .. q /\ Safe(disk, wal, q) /\ nextSeq = q + 1
    BY OpenHandle, Zenon
  <2>2. /\ q \in Nat /\ {} = (q + 1) .. q /\ mem = wal[man.active] /\ mem # {} /\ DiskOK(disk)
        /\ wal \in [FileNum -> SUBSET SeqNum] /\ synced \in [FileNum -> SUBSET SeqNum]
        /\ (\A n \in FileNum : synced[n] \subseteq wal[n]) /\ (SyncOnWrite => synced = wal)
    <3>1. q \in Nat /\ {} = (q + 1) .. q
      BY EngineAssumption
    <3>2. mem = wal[man.active] /\ DiskOK(disk)
          /\ wal \in [FileNum -> SUBSET SeqNum] /\ synced \in [FileNum -> SUBSET SeqNum]
      BY OpenHandle, Zenon
    <3>3. mem # {}
      BY <1>7, FullHasWrites
    <3> QED
      BY <3>1, <3>2, <3>3 DEF RInv, WalsSynced
  <2> DEFINE fresh == {}
             r == q
  <2>3. fresh = (q + 1) .. r /\ r \in {q, q + 1} /\ RotateMemTable(o, disk, wal, synced, mem, fresh)
    BY <1>7, <2>2
  <2>4. r = q
    OBVIOUS
  <2> HIDE DEF fresh, r
  <2>5. /\ Safe(disk', wal', IF o = "durable" THEN r ELSE q)
        /\ WalsSynced' /\ HandleGood' /\ WorkerGood' /\ proc' \in {"up", "dying"}
    BY <1>1, <1>7, <2>1, <2>2, <2>3, RotateKeeps, Zenon
  <2>6. Safe(disk', wal', q)
    BY <2>4, <2>5
  <2>7. QuietGood'
    BY <1>2, <1>3, <1>7
  <2> QED
    BY <2>1, <2>5, <2>6, <2>7, CloseStep
<1> QED
  BY <1>4, <1>5, <1>6, <1>7, Zenon DEF CloseTurn

\* Every step of Close() keeps the invariant.
LEMMA CloseKeepsR ==
  ASSUME RecoverySetting, IInv, RInv, NEW c \in Closers, CloseCalled(c) \/ Close(c)
  PROVE  RInv'
<1>1. CASE CloseCalled(c)
  <2>1. /\ proc = "up" /\ compactor.pc = "idle" /\ closer[c] # "join" /\ At(c, "drain")
        /\ UNCHANGED <<files, man, mem, imm, errors, proc>> /\ compReq' = compReq /\ stop' = stop
        /\ CloseFrame
    BY <1>1 DEF CloseCalled, RecoverySetting, flags
  <2>2. compactor' = compactor /\ closed' = closed
    BY <2>1 DEF CloseFrame
  <2>3. QuietGood'
    BY <2>1, <2>2, CloserMoves
  <2> QED
    BY <2>1, <2>3, CloseOnly
<1>2. CASE CloseLocks(c)
  <2>1. proc = "up" /\ closer[c] = "drain" /\ CloseFrame
    BY <1>2 DEF CloseLocks, LockFree
  <2>2. CASE closed
    <3>1. /\ At(c, "idle") /\ stop' = stop /\ compReq' = compReq
          /\ UNCHANGED <<files, man, mem, imm, errors, proc>>
      BY <1>2, <2>2 DEF CloseLocks, flags
    <3>2. compactor.pc = "idle" /\ compactor' = compactor /\ closed' = closed
      BY <2>1 DEF RInv, QuietGood, CloseFrame
    <3>3. QuietGood'
      BY <2>1, <3>1, <3>2, CloserMoves
    <3> QED
      BY <2>1, <3>1, <3>3, CloseOnly
  <2>3. CASE ~closed
    <3>1. CloseTurn(c) /\ (compReq' => compReq)
      BY <1>2, <2>3 DEF CloseLocks
    <3> QED
      BY <2>1, <3>1, CloseTurnR
  <2> QED
    BY <2>2, <2>3
<1>3. CASE CloseWakes(c)
  <2>1. /\ proc = "up" /\ closer[c] # "join" /\ closer[c] # "idle" /\ CloseFrame
        /\ CloseTurn(c) /\ (compReq' => compReq)
    BY <1>3 DEF CloseWakes, LockFree
  <2> QED
    BY <2>1, CloseTurnR
<1>4. CASE CloseJoins(c)
  <2>1. /\ proc = "up" /\ closed' = TRUE /\ closer[c] = "join" /\ compactor' = compactor
        /\ writer' = writer /\ worker' = worker /\ proc' = proc /\ stop' = stop
        /\ UNCHANGED <<files, handle, errors, flags, history>>
    BY <1>4 DEF CloseJoins, LockFree
  <2>2. /\ disk' = disk /\ wal' = wal /\ synced' = synced /\ man' = man /\ mem' = mem
        /\ imm' = imm /\ nextSeq' = nextSeq /\ pending' = pending /\ termErr' = termErr
        /\ compReq' = compReq /\ flushReq' = flushReq /\ acked' = acked
    BY <2>1 DEF files, handle, errors, flags, history
  <2>3. compactor.pc = "idle"
    BY <2>1 DEF RInv, QuietGood
  <2>4. QuietGood'
    BY <2>1, <2>3 DEF QuietGood
  <2>5. HandleGood'
    BY <2>1, <2>2, Zenon DEF RInv, HandleGood
  <2>6. WorkerGood'
    BY <2>1, <2>2, Zenon DEF RInv, WorkerGood, Flushing, Compacting, OutputInPlace
  <2>7. ImagesGood' /\ WalsSynced'
    BY <2>1, <2>2, Zenon DEF RInv, ImagesGood, Images, WalsSynced
  <2> QED
    BY <2>1, <2>4, <2>5, <2>6, <2>7 DEF RInv
<1>5. CASE CloseResumes(c)
  <2>1. /\ proc = "up" /\ closer[c] = "resume" /\ At(c, "idle") /\ CloseFrame
        /\ UNCHANGED <<files, man, mem, imm, errors, proc>> /\ compReq' = compReq /\ stop' = stop
    BY <1>5 DEF CloseResumes, flags
  <2>2. compactor.pc = "idle" /\ compactor' = compactor /\ closed' = closed
    BY <2>1 DEF RInv, QuietGood, CloseFrame
  <2>3. QuietGood'
    BY <2>1, <2>2, CloserMoves
  <2> QED
    BY <2>1, <2>3, CloseOnly
<1> QED
  BY <1>1, <1>2, <1>3, <1>4, <1>5 DEF Close

=============================================================================
