-------------------------- MODULE WriterQueueProofs --------------------------
(***************************************************************************)
(* The writer queue for any number of callers, any request sizes and any    *)
(* limits: the theorems and the inductive invariant they rest on.           *)
(***************************************************************************)
EXTENDS WriterQueue, WellFoundedInduction, TLAPS

-----------------------------------------------------------------------------
(* Sequences *)

\* Only the empty queue has nobody in it.
LEMMA EmptyToSet ==
  ASSUME NEW S, NEW s \in Seq(S)
  PROVE  (Range(s) = {}) <=> (s = <<>>)
PROOF BY DEF Range

\* Enqueueing a caller that is not in the queue.
LEMMA AppendToSet ==
  ASSUME NEW S, NEW s \in Seq(S), NEW x \in S
  PROVE  /\ Append(s, x) \in Seq(S) /\ Append(s, x) # <<>>
         /\ Range(Append(s, x)) = Range(s) \cup {x}
         /\ IsInjective(s) /\ x \notin Range(s) => IsInjective(Append(s, x))
PROOF
<1>1. /\ Append(s, x) \in Seq(S) /\ Len(Append(s, x)) = Len(s) + 1
      /\ \A i \in 1 .. Len(s) : Append(s, x)[i] = s[i]
      /\ Append(s, x)[Len(s) + 1] = x
  OBVIOUS
<1>2. Range(Append(s, x)) = Range(s) \cup {x}
  <2>1. DOMAIN Append(s, x) = 1 .. Len(s) + 1 /\ DOMAIN s = 1 .. Len(s)
    BY <1>1
  <2>2. Range(s) \cup {x} \subseteq Range(Append(s, x))
    BY <1>1, <2>1 DEF Range
  <2>3. ASSUME NEW i \in 1 .. Len(s) + 1 PROVE Append(s, x)[i] \in Range(s) \cup {x}
    BY <1>1, <2>1 DEF Range
  <2> QED BY <2>1, <2>2, <2>3 DEF Range
<1>3. ASSUME IsInjective(s), x \notin Range(s) PROVE IsInjective(Append(s, x))
  BY <1>1, <1>3 DEF Range, IsInjective
<1> QED BY <1>1, <1>2, <1>3

\* Cutting a queue in two loses nobody, and an injective one splits in disjoint parts.
LEMMA CutToSet ==
  ASSUME NEW S, NEW s \in Seq(S), NEW n \in 1 .. Len(s)
  PROVE  LET a == SubSeq(s, 1, n)
             b == SubSeq(s, n + 1, Len(s))
         IN  /\ a \in Seq(S) /\ b \in Seq(S)
             /\ Range(a) \cup Range(b) = Range(s)
             /\ IsInjective(s) => IsInjective(b) /\ Range(a) \cap Range(b) = {}
PROOF
<1> DEFINE a == SubSeq(s, 1, n)
           b == SubSeq(s, n + 1, Len(s))
<1>1. a \in Seq(S) /\ Len(a) = n /\ \A i \in 1 .. n : a[i] = s[i]
  OBVIOUS
<1>2. /\ b \in Seq(S) /\ Len(b) = Len(s) - n
      /\ \A i \in 1 .. Len(s) - n : b[i] = s[n + i]
  OBVIOUS
<1> HIDE DEF a, b
<1> DEFINE m == Len(s) - n
<1>3. DOMAIN s = 1 .. Len(s) /\ DOMAIN a = 1 .. n /\ DOMAIN b = 1 .. m
  BY <1>1, <1>2
<1>s. \A y : y \in Range(s) <=> \E i \in 1 .. Len(s) : y = s[i]
  BY <1>3, Zenon DEF Range
<1>a. \A y : y \in Range(a) <=> \E i \in 1 .. n : y = s[i]
  <2>1. Range(a) = {a[i] : i \in 1 .. n}
    BY <1>3, Zenon DEF Range
  <2> QED BY <1>1, <2>1, Zenon
<1>b. \A y : y \in Range(b) <=> \E i \in 1 .. m : y = s[n + i]
  <2>1. Range(b) = {b[i] : i \in 1 .. m}
    BY <1>3, Zenon DEF Range
  <2> QED BY <1>2, <2>1, Zenon
<1>4. \A i \in 1 .. Len(s) : i \in 1 .. n \/ (i - n \in 1 .. m /\ s[i] = s[n + (i - n)])
  OBVIOUS
<1>5. \A i \in 1 .. n : i \in 1 .. Len(s)
  OBVIOUS
<1>6. \A i \in 1 .. m : n + i \in 1 .. Len(s) /\ n + i \notin 1 .. n
  OBVIOUS
<1>7. Range(a) \cup Range(b) = Range(s)
  <2>1. ASSUME NEW y \in Range(a) PROVE y \in Range(s)
    <3>1. PICK i \in 1 .. n : y = s[i]
      BY <1>a, Zenon
    <3> QED BY <1>s, <1>5, <3>1, Zenon
  <2>2. ASSUME NEW y \in Range(b) PROVE y \in Range(s)
    <3>1. PICK i \in 1 .. m : y = s[n + i]
      BY <1>b, Zenon
    <3> QED BY <1>s, <1>6, <3>1, Zenon
  <2>3. ASSUME NEW y \in Range(s) PROVE y \in Range(a) \/ y \in Range(b)
    <3>1. PICK i \in 1 .. Len(s) : y = s[i]
      BY <1>s, Zenon
    <3>2. CASE i \in 1 .. n
      BY <1>a, <3>1, <3>2, Zenon
    <3>3. CASE i - n \in 1 .. m /\ s[i] = s[n + (i - n)]
      BY <1>b, <3>1, <3>3, Zenon
    <3> QED BY <1>4, <3>2, <3>3, Zenon
  <2> QED BY <2>1, <2>2, <2>3, Zenon
<1>8. ASSUME IsInjective(s) PROVE IsInjective(b) /\ Range(a) \cap Range(b) = {}
  <2>1. \A i, k \in 1 .. Len(s) : s[i] = s[k] => i = k
    BY <1>3, <1>8, Zenon DEF IsInjective
  <2>2. ASSUME NEW i \in 1 .. m, NEW k \in 1 .. m, b[i] = b[k] PROVE i = k
    <3>1. s[n + i] = s[n + k]
      BY <1>2, <2>2
    <3>2. n + i = n + k
      BY <1>6, <2>1, <3>1, Zenon
    <3> QED BY <3>2
  <2>3. IsInjective(b)
    BY <1>3, <2>2, Zenon DEF IsInjective
  <2>4. ASSUME NEW i \in 1 .. n, NEW k \in 1 .. m PROVE s[i] # s[n + k]
    BY <1>5, <1>6, <2>1, Zenon
  <2>5. Range(a) \cap Range(b) = {}
    <3> SUFFICES ASSUME NEW y \in Range(a), y \in Range(b) PROVE FALSE
      OBVIOUS
    <3>1. PICK i \in 1 .. n : y = s[i]
      BY <1>a
    <3>2. PICK k \in 1 .. m : y = s[n + k]
      BY <1>b
    <3> QED BY <2>4, <3>1, <3>2, Zenon
  <2> QED BY <2>3, <2>5
<1> QED BY <1>1, <1>2, <1>7, <1>8 DEF a, b

\* A bounded non-empty set of numbers has a largest element.
LEMMA MaxOfBounded ==
  ASSUME NEW n \in Nat, NEW S \in SUBSET (1 .. n), S # {}
  PROVE  Max(S) \in S
PROOF
<1> DEFINE D == {n - x : x \in S}
<1>1. D \subseteq Nat
  <2>1. \A x \in S : n - x \in Nat
    OBVIOUS
  <2> QED BY <2>1
<1>2. D # {}
  BY Zenon
<1>3. PICK d \in D : \A e \in D : <<e, d>> \notin OpToRel(<, Nat)
  <2> HIDE DEF D
  <2> QED BY <1>1, <1>2, WFMin, NatLessThanWellFounded, Zenon
<1>4. PICK m \in S : d = n - m
  OBVIOUS
<1>5. \A x \in S : m >= x
  <2> TAKE x \in S
  <2>1. <<n - x, d>> \notin OpToRel(<, Nat)
    BY <1>3, Zenon
  <2>2. ~ (n - x < d)
    BY <2>1, <1>1 DEF OpToRel
  <2> QED BY <2>2, <1>4
<1> QED
  BY <1>5, Zenon DEF Max

\* The leader takes at least one request and at most the queue.
LEMMA GroupLengthRange ==
  ASSUME queue \in Seq(Callers), queue # <<>>
  PROVE  GroupLength \in 1 .. Len(queue)
PROOF
<1> DEFINE P(n) == \A i \in 2 .. n :
                     LET taken == SubSeq(queue, 1, i - 1)
                         before == SumSizes(taken)
                     IN i - 1 < GroupRequests /\ before < GroupBytes
                        /\ size[queue[i]] <= GroupBytes - before
                        /\ count[queue[i]] <= MaxOperations - SumCounts(taken)
           N == {n \in 1 .. Len(queue) : P(n)}
<1>1. Len(queue) \in Nat /\ 1 \in 1 .. Len(queue)
  OBVIOUS
<1>2. 2 .. 1 = {}
  OBVIOUS
<1>3. P(1)
  BY <1>2, Zenon
<1>4. N \in SUBSET (1 .. Len(queue)) /\ N # {}
  <2> HIDE DEF P
  <2> QED BY <1>1, <1>3
<1>5. Max(N) \in N
  <2> HIDE DEF N
  <2> QED BY <1>1, <1>4, MaxOfBounded, Zenon
<1>6. GroupLength = Max(N)
  BY Zenon DEF GroupLength
<1> QED
  <2> HIDE DEF P
  <2> QED BY <1>5, <1>6

-----------------------------------------------------------------------------
(* The invariant *)

\* The variables of SubmitWrite and DrainWriterQueue have their types; the byte count and
\* the sleepers of writer_cv_ play no part here.
Shape ==
  /\ pc \in [Callers -> PCs] /\ status \in [Callers -> Statuses]
  /\ complete \in [Callers -> BOOLEAN] /\ applied \in [Callers -> Nat]
  /\ queue \in Seq(Callers) /\ group \in Seq(Callers)
  /\ leader \in BOOLEAN /\ stopping \in BOOLEAN /\ closer \in CloserPCs

\* Where a caller stands whose request was admitted.
Inside == {"queued", "drain", "apply"}

\* A request is in the queue or in the group, and untouched, until it is complete; a
\* complete one has the status of the group it was in.
RequestOK(c) ==
  /\ c \in Range(queue) \cup Range(group) =>
       pc[c] \in Inside /\ ~complete[c] /\ applied[c] = 0
  /\ pc[c] \in Inside => complete[c] \/ c \in Range(queue) \cup Range(group)
  /\ complete[c] => /\ pc[c] \in Inside
                    /\ status[c] = "ok" => applied[c] = 1
                    /\ status[c] \notin {"closed", "refused"}
  /\ pc[c] = "admit" => applied[c] = 0
  /\ applied[c] <= 1

Requests ==
  /\ IsInjective(queue) /\ Range(queue) \cap Range(group) = {}
  /\ \A c \in Callers : RequestOK(c)

\* Close() waits for the leader with the admission stopped.
Stopped ==
  /\ closer # "open" => stopping
  /\ closer \in {"stopped", "closed"} => ~leader

\* The inductive invariant.
QInv == Shape /\ SomeoneDrains /\ Requests /\ ToldTheTruth /\ Stopped

\* An open handle starts with an empty queue and no leader.
LEMMA InitQInv == Init => QInv
PROOF
<1> SUFFICES ASSUME Init PROVE QInv
  OBVIOUS
<1>1. Range(queue) = {} /\ Range(group) = {} /\ IsInjective(queue)
  BY DEF Init, Range, IsInjective
<1>2. Shape
  <2>1. complete \in [Callers -> BOOLEAN]
    BY Zenon DEF Init
  <2>2. leader \in BOOLEAN /\ stopping \in BOOLEAN
    BY Zenon DEF Init
  <2>3. queue \in Seq(Callers) /\ group \in Seq(Callers) /\ applied \in [Callers -> Nat]
    BY DEF Init
  <2>4. pc \in [Callers -> PCs] /\ status \in [Callers -> Statuses] /\ closer \in CloserPCs
    BY DEF Init, PCs, Statuses, CloserPCs
  <2> QED
    BY <2>1, <2>2, <2>3, <2>4 DEF Shape
<1> QED
  BY <1>1, <1>2 DEF Init, QInv, SomeoneDrains, Leaders, Requests, RequestOK, Inside,
                    ToldTheTruth, Stopped

\* A caller is refused or turned away, sleeps, or enters the queue, first or again.
LEMMA AdmissionKeeps ==
  ASSUME QInv, NEW c \in Callers, Submit(c) \/ Recheck(c)
  PROVE  QInv'
PROOF
<1> USE DEF Inside
<1> DEFINE Refused == /\ status' = [status EXCEPT ![c] = "refused"] /\ pc[c] = "idle"
                      /\ pc' = pc /\ complete' = complete /\ queue' = queue /\ leader' = leader
           Turned == /\ pc' = [pc EXCEPT ![c] = "idle"]
                     /\ status' = [status EXCEPT ![c] = "closed"]
                     /\ complete' = [complete EXCEPT ![c] = FALSE]
                     /\ queue' = queue /\ leader' = leader
           Sleeps == /\ pc' = [pc EXCEPT ![c] = "admit"]
                     /\ status' = [status EXCEPT ![c] = "ok"]
                     /\ complete' = complete /\ queue' = queue /\ leader' = leader
           Enters == /\ ~stopping
                     /\ queue' = Append(queue, c) /\ leader' = TRUE
                     /\ pc' = [pc EXCEPT ![c] = IF leader THEN "queued" ELSE "drain"]
                     /\ status' = [status EXCEPT ![c] = "ok"]
                     /\ complete' = complete
           Frame == /\ pc[c] \in {"idle", "admit"} /\ applied' = [applied EXCEPT ![c] = 0]
                    /\ stopping' = stopping /\ group' = group /\ closer' = closer
<1>1. Frame /\ (Refused \/ Turned \/ Sleeps \/ Enters)
  <2>1. CASE Submit(c)
    BY <2>1 DEF Submit, Admission, Destroy
  <2>2. CASE Recheck(c)
    <3>1. applied = [applied EXCEPT ![c] = 0]
      BY <2>2 DEF Recheck, QInv, Shape, Requests, RequestOK
    <3> QED BY <2>2, <3>1 DEF Recheck, Admission, Destroy
  <2> QED BY <2>1, <2>2, Zenon
<1>2. /\ c \notin Range(queue) /\ c \notin Range(group) /\ ~complete[c]
      /\ c \notin Leaders
  BY <1>1 DEF QInv, Requests, RequestOK, Leaders
<1>3. CASE Refused
  BY <1>1, <1>3 DEF QInv, Shape, Statuses, SomeoneDrains, Leaders, Requests, RequestOK,
                    ToldTheTruth, Stopped
<1>4. CASE Turned
  <2>1. Shape'
    BY <1>1, <1>4 DEF QInv, Shape, PCs, Statuses
  <2> QED
    BY <1>1, <1>2, <1>4, <2>1 DEF QInv, Shape, SomeoneDrains, Leaders, Requests, RequestOK,
                                  ToldTheTruth, Stopped
<1>5. CASE Sleeps
  <2>1. Shape'
    BY <1>1, <1>5 DEF QInv, Shape, PCs, Statuses
  <2> QED
    BY <1>1, <1>2, <1>5, <2>1 DEF QInv, Shape, SomeoneDrains, Leaders, Requests, RequestOK,
                                  ToldTheTruth, Stopped
<1>6. CASE Enters
  <2>1. /\ queue' \in Seq(Callers) /\ queue' # <<>> /\ IsInjective(queue')
        /\ Range(queue') = Range(queue) \cup {c}
    BY <1>2, <1>6, AppendToSet DEF QInv, Shape, Requests
  <2>2. Shape'
    BY <1>1, <1>6, <2>1 DEF QInv, Shape, PCs, Statuses
  <2>3. SomeoneDrains'
    BY <1>1, <1>2, <1>6, <2>1 DEF QInv, Shape, SomeoneDrains, Leaders
  <2> QED
    BY <1>1, <1>2, <1>6, <2>1, <2>2, <2>3, SMTT(30) DEF QInv, Shape, Requests, RequestOK,
                                              ToldTheTruth, Stopped
<1> QED
  BY <1>1, <1>3, <1>4, <1>5, <1>6, Zenon

\* Taking a group moves requests from the queue into the group, which was empty.
LEMMA TakeGroupKeeps ==
  ASSUME QInv, NEW c \in Callers, TakeGroup(c)
  PROVE  QInv'
PROOF
<1>1. group = <<>> /\ Range(group) = {}
  BY EmptyToSet DEF QInv, Shape, SomeoneDrains, Leaders, TakeGroup
<1>2. GroupLength \in 1 .. Len(queue)
  BY GroupLengthRange DEF QInv, Shape, TakeGroup
<1>3. /\ queue' \in Seq(Callers) /\ group' \in Seq(Callers) /\ IsInjective(queue')
      /\ Range(group') \cup Range(queue') = Range(queue)
      /\ Range(group') \cap Range(queue') = {}
  <2> HIDE DEF GroupLength
  <2> QED BY <1>2, CutToSet DEF QInv, Shape, Requests, TakeGroup
<1>4. Shape'
  BY <1>3, Zenon DEF QInv, Shape, PCs, TakeGroup
<1>5. SomeoneDrains'
  BY <1>1, <1>3 DEF QInv, Shape, SomeoneDrains, Leaders, TakeGroup
<1> QED
  BY <1>1, <1>3, <1>4, <1>5, Zenon DEF QInv, Shape, Requests, RequestOK, Inside, ToldTheTruth,
                                Stopped, TakeGroup

\* The leader that resigns has served the queue and its own request.
LEMMA ResignKeeps ==
  ASSUME QInv, NEW c \in Callers, Resign(c)
  PROVE  QInv'
PROOF
<1>1. group = <<>> /\ Range(group) = {} /\ Range(queue) = {}
  BY EmptyToSet DEF QInv, Shape, SomeoneDrains, Leaders, Resign
<1>2. Shape'
  BY Zenon DEF QInv, Shape, PCs, Resign, Destroy
<1>3. SomeoneDrains'
  BY <1>1 DEF QInv, Shape, SomeoneDrains, Leaders, Resign, Destroy
<1> QED
  BY <1>1, <1>2, <1>3 DEF QInv, Shape, Requests, RequestOK, Inside, ToldTheTruth, Stopped,
                          Resign, Destroy

\* The requests of a group are completed with one status.
LEMMA ApplyReturnsKeeps ==
  ASSUME QInv, NEW c \in Callers, ApplyReturns(c)
  PROVE  QInv'
PROOF
<1>1. PICK s \in {"ok", "error"}, lands \in BOOLEAN :
        /\ s = "ok" => lands
        /\ status' = [d \in Callers |-> IF d \in Range(group) THEN s ELSE status[d]]
        /\ applied' = [d \in Callers |->
                         IF lands /\ d \in Range(group) THEN applied[d] + 1 ELSE applied[d]]
  BY DEF ApplyReturns
<1>2. group' = <<>> /\ Range(group') = {}
  BY DEF ApplyReturns, Range
<1>3. Shape'
  BY <1>1, <1>2 DEF QInv, Shape, PCs, Statuses, ApplyReturns
<1>4. SomeoneDrains'
  BY <1>2 DEF QInv, Shape, SomeoneDrains, Leaders, ApplyReturns
<1>5. Requests'
  <2>1. IsInjective(queue') /\ Range(queue') = Range(queue)
    BY DEF QInv, Requests, ApplyReturns
  <2>2. ASSUME NEW d \in Callers PROVE RequestOK(d)'
    <3>1. complete'[d] <=> complete[d] \/ d \in Range(group)
      BY Zenon DEF ApplyReturns
    <3>2. pc'[d] \in Inside <=> pc[d] \in Inside
      BY DEF QInv, Shape, Inside, ApplyReturns
    <3>3. pc'[d] = "admit" <=> pc[d] = "admit"
      BY DEF QInv, Shape, ApplyReturns
    <3>4. RequestOK(d) /\ d \notin Range(queue) \cap Range(group) /\ applied[d] \in Nat
      BY DEF QInv, Shape, Requests
    <3> QED
      BY <1>1, <1>2, <2>1, <3>1, <3>2, <3>3, <3>4 DEF RequestOK, Inside
  <2> QED BY <1>2, <2>1, <2>2 DEF Requests
<1>6. ToldTheTruth'
  BY <1>1, <1>5 DEF QInv, Shape, Requests, RequestOK, Inside, ToldTheTruth, ApplyReturns
<1> QED
  BY <1>3, <1>4, <1>5, <1>6 DEF QInv, Stopped, ApplyReturns

\* An exception completes the group and the queue and ends the leadership.
LEMMA ApplyThrowsKeeps ==
  ASSUME QInv, NEW c \in Callers, ApplyThrows(c)
  PROVE  QInv'
PROOF
<1> DEFINE failed == Range(group) \cup Range(queue)
<1>1. PICK lands \in BOOLEAN :
        applied' = [d \in Callers |->
                      IF lands /\ d \in Range(group) THEN applied[d] + 1 ELSE applied[d]]
  BY DEF ApplyThrows
<1>2. /\ pc[c] = "apply" /\ pc' = [pc EXCEPT ![c] = "idle"] /\ leader' = FALSE
      /\ status' = [d \in Callers |-> IF d = c THEN "thrown"
                                      ELSE IF d \in failed THEN "aborted" ELSE status[d]]
      /\ complete' = [d \in Callers |-> d # c /\ (complete[d] \/ d \in failed)]
      /\ group' = <<>> /\ queue' = <<>> /\ UNCHANGED <<stopping, closer>>
  BY DEF ApplyThrows
<1>3. Range(group') = {} /\ Range(queue') = {} /\ IsInjective(queue')
  BY <1>2 DEF Range, IsInjective
<1>4. Shape'
  <2>1. complete' \in [Callers -> BOOLEAN]
    BY <1>2, Zenon
  <2>2. pc' \in [Callers -> PCs] /\ applied' \in [Callers -> Nat]
    BY <1>1, <1>2 DEF QInv, Shape, PCs
  <2>3. status' \in [Callers -> Statuses]
    BY <1>2 DEF QInv, Shape, Statuses
  <2>4. leader' \in BOOLEAN
    BY <1>2, Zenon
  <2>5. queue' \in Seq(Callers) /\ group' \in Seq(Callers)
    BY <1>2
  <2> QED
    BY <1>2, <2>1, <2>2, <2>3, <2>4, <2>5 DEF QInv, Shape
<1>5. SomeoneDrains'
  BY <1>2, <1>3 DEF QInv, Shape, SomeoneDrains, Leaders
<1>6. Requests'
  <2>1. ASSUME NEW d \in Callers PROVE RequestOK(d)'
    <3>1. complete'[d] <=> d # c /\ (complete[d] \/ d \in failed)
      BY <1>2, Zenon
    <3>2. pc'[d] = IF d = c THEN "idle" ELSE pc[d]
      BY <1>2 DEF QInv, Shape
    <3>3. RequestOK(d) /\ applied[d] \in Nat
      BY DEF QInv, Shape, Requests
    <3> QED
      BY <1>1, <1>2, <1>3, <3>1, <3>2, <3>3, SMTT(30) DEF RequestOK, Inside
  <2> QED BY <1>3, <2>1 DEF Requests
<1>7. ToldTheTruth'
  BY <1>1, <1>2, <1>6 DEF QInv, Shape, Requests, RequestOK, Inside, ToldTheTruth
<1> QED
  BY <1>2, <1>4, <1>5, <1>6, <1>7 DEF QInv, Stopped

\* A follower returns the status its completed request was given.
LEMMA FollowerReturnsKeeps ==
  ASSUME QInv, NEW c \in Callers, FollowerReturns(c)
  PROVE  QInv'
PROOF
<1>1. Shape'
  BY DEF QInv, Shape, PCs, FollowerReturns, Destroy
<1>2. SomeoneDrains'
  BY DEF QInv, Shape, SomeoneDrains, Leaders, FollowerReturns, Destroy
<1> QED
  BY <1>1, <1>2, SMTT(30) DEF QInv, Shape, Requests, RequestOK, Inside, ToldTheTruth, Stopped,
                    FollowerReturns, Destroy

\* Close() and spurious wake-ups touch neither requests nor the leader.
LEMMA CloserKeeps ==
  ASSUME QInv,
         StopWriterQueue \/ StopRecheck \/ CloseCompletes \/ ResumeWriterQueue \/ SpuriousWake
  PROVE  QInv'
PROOF
<1>1. UNCHANGED <<pc, status, complete, queue, group, leader, applied>>
  BY DEF StopWriterQueue, StopRecheck, CloseCompletes, ResumeWriterQueue, SpuriousWake
<1>2. stopping' \in BOOLEAN /\ closer' \in CloserPCs /\ Stopped'
  <2> USE DEF QInv, Shape, Stopped, CloserPCs
  <2>1. CASE StopWriterQueue
    BY <2>1 DEF StopWriterQueue
  <2>2. CASE StopRecheck
    BY <2>2 DEF StopRecheck
  <2>3. CASE CloseCompletes
    BY <2>3 DEF CloseCompletes
  <2>4. CASE ResumeWriterQueue
    BY <2>4, Zenon DEF ResumeWriterQueue
  <2>5. CASE SpuriousWake
    BY <2>5 DEF SpuriousWake
  <2> QED BY <2>1, <2>2, <2>3, <2>4, <2>5
<1> QED
  BY <1>1, <1>2 DEF QInv, Shape, SomeoneDrains, Leaders, Requests, RequestOK, ToldTheTruth

\* A step of none of the threads.
LEMMA StutterKeeps == ASSUME QInv, UNCHANGED vars PROVE QInv'
PROOF
<1> QED
  BY DEF QInv, Shape, SomeoneDrains, Leaders, Requests, RequestOK, ToldTheTruth, Stopped, vars

\* Every step of every thread keeps the invariant.
LEMMA Inductive == Spec => []QInv
PROOF
<1>1. QInv /\ [Next]_vars => QInv'
  BY AdmissionKeeps, TakeGroupKeeps, ResignKeeps, ApplyReturnsKeeps,
     ApplyThrowsKeeps, FollowerReturnsKeeps, CloserKeeps, StutterKeeps DEF Next
<1> QED
  BY InitQInv, <1>1, PTL DEF Spec

-----------------------------------------------------------------------------
(* The bytes of the queue *)

\* Induction up to n, on a set: what holds at 0 and goes from k - 1 to k holds up to n.
LEMMA UpTo ==
  ASSUME NEW n \in Nat, NEW S, 0 \in S, \A k \in 1 .. n : k - 1 \in S => k \in S
  PROVE  \A k \in 0 .. n : k \in S
PROOF
<1> DEFINE Bad == {k \in 0 .. n : k \notin S}
<1> SUFFICES ASSUME Bad # {} PROVE FALSE
  OBVIOUS
<1>1. Bad \subseteq Nat
  OBVIOUS
<1>2. PICK k \in Bad : \A e \in Bad : <<e, k>> \notin OpToRel(<, Nat)
  <2> HIDE DEF Bad
  <2> QED BY <1>1, WFMin, NatLessThanWellFounded, Zenon
<1>3. k \in 1 .. n /\ k - 1 \in 0 .. n /\ k \notin S
  OBVIOUS
<1>4. k - 1 \notin Bad
  <2> SUFFICES ASSUME k - 1 \in Bad PROVE FALSE
    OBVIOUS
  <2>1. <<k - 1, k>> \notin OpToRel(<, Nat)
    BY <1>2, Zenon
  <2>2. k - 1 \in Nat /\ k \in Nat /\ k - 1 < k
    BY <1>3
  <2> QED BY <2>1, <2>2 DEF OpToRel
<1> QED BY <1>3, <1>4

\* SumSizes with the sizes as a parameter.
Sum(q, f) ==
  LET sum[n \in 0 .. Len(q)] == IF n = 0 THEN 0 ELSE sum[n - 1] + f[q[n]]
  IN  sum[Len(q)]

\* g holds the sums of the first requests of q.
IsSum(g, q, f) ==
  g = [n \in 0 .. Len(q) |-> IF n = 0 THEN 0 ELSE g[n - 1] + f[q[n]]]

\* SumSizes before and after a step.
LEMMA SumSizesIsSum ==
  /\ \A q : SumSizes(q) = Sum(q, size)
  /\ SumSizes(queue)' = Sum(queue', size')
PROOF BY Zenon DEF SumSizes, Sum

\* The recursion of SumSizes has a solution, which the definition picks.
LEMMA SumPicks ==
  ASSUME NEW S, NEW q \in Seq(S), NEW f
  PROVE  \E g : IsSum(g, q, f) /\ Sum(q, f) = g[Len(q)]
PROOF
<1> DEFINE N == Len(q)
           E(g, n) == IF n = 0 THEN 0 ELSE g[n - 1] + f[q[n]]
           P == {m \in 0 .. N : \E g : g = [n \in 0 .. m |-> E(g, n)]}
<1>1. N \in Nat
  OBVIOUS
<1>2. 0 \in P
  <2> DEFINE z == [n \in 0 .. 0 |-> 0]
  <2>1. z = [n \in 0 .. 0 |-> E(z, n)]
    OBVIOUS
  <2>2. \E g : g = [n \in 0 .. 0 |-> E(g, n)]
    <3> HIDE DEF z, E
    <3> QED BY <2>1, Zenon
  <2> QED BY <1>1, <2>2
<1>3. ASSUME NEW m \in 1 .. N, m - 1 \in P PROVE m \in P
  <2>1. PICK g : g = [n \in 0 .. m - 1 |-> E(g, n)]
    BY <1>3, Zenon
  <2> DEFINE h == [n \in 0 .. m |-> IF n = m THEN E(g, m) ELSE g[n]]
  <2>2. ASSUME NEW n \in 0 .. m PROVE h[n] = E(h, n)
    <3>1. CASE n = 0
      <4>1. h[n] = g[0] /\ 0 \in 0 .. m - 1
        BY <3>1
      <4>2. g[0] = E(g, 0)
        BY <2>1, <4>1
      <4> QED BY <3>1, <4>1, <4>2
    <3>2. CASE n # 0
      <4>1. n - 1 \in 0 .. m /\ n - 1 # m /\ h[n - 1] = g[n - 1]
        BY <3>2
      <4>2. h[n] = E(g, n)
        <5>1. CASE n = m
          BY <5>1
        <5>2. CASE n # m
          <6>1. n \in 0 .. m - 1
            BY <5>2
          <6>2. g[n] = E(g, n)
            BY <2>1, <6>1
          <6> QED BY <5>2, <6>2
        <5> QED BY <5>1, <5>2
      <4> QED BY <3>2, <4>1, <4>2
    <3> QED BY <3>1, <3>2
  <2>3. h = [n \in 0 .. m |-> h[n]]
    BY Zenon
  <2>4. h = [n \in 0 .. m |-> E(h, n)]
    <3> HIDE DEF h
    <3> QED BY <2>2, <2>3, Zenon
  <2>5. \E g1 : g1 = [n \in 0 .. m |-> E(g1, n)]
    <3> HIDE DEF h, E
    <3> QED BY <2>4, Zenon
  <2> QED BY <2>5
<1>4. N \in P
  <2> HIDE DEF P, N
  <2>1. \A k \in 0 .. N : k \in P
    BY <1>1, <1>2, <1>3, UpTo
  <2> QED BY <1>1, <2>1
<1>5. \E g : IsSum(g, q, f)
  BY <1>4, Zenon DEF IsSum
<1> QED BY <1>5, Zenon DEF IsSum, Sum
\* g holds the sums of the first requests of q, which are numbers.
Sums(g, q, f) ==
  /\ g[0] = 0
  /\ \A n \in 1 .. Len(q) : g[n] = g[n - 1] + f[q[n]]
  /\ \A n \in 0 .. Len(q) : g[n] \in Nat

\* What SumSizes adds up: nothing at first, then one request after the other.
LEMMA SumStep ==
  ASSUME NEW S, NEW q \in Seq(S), NEW f \in [S -> Nat]
  PROVE  \E g : Sums(g, q, f) /\ Sum(q, f) = g[Len(q)]
PROOF
<1>0. PICK g : IsSum(g, q, f) /\ Sum(q, f) = g[Len(q)]
  BY SumPicks, Zenon
<1> DEFINE N == Len(q)
           P == {n \in 0 .. N : g[n] \in Nat}
<1>1. N \in Nat
  OBVIOUS
<1>2. g[0] = 0
  <2>1. 0 \in 0 .. Len(q)
    OBVIOUS
  <2> QED BY <1>0, <2>1, Zenon DEF IsSum
<1>3. ASSUME NEW n \in 1 .. N PROVE g[n] = g[n - 1] + f[q[n]] /\ f[q[n]] \in Nat
  <2>1. n \in 0 .. Len(q) /\ n # 0 /\ q[n] \in S
    OBVIOUS
  <2> QED BY <1>0, <2>1, Zenon DEF IsSum
<1>4. ASSUME NEW n \in 1 .. N, n - 1 \in P PROVE n \in P
  <2>1. g[n - 1] \in Nat
    BY <1>4, Zenon
  <2>2. g[n] = g[n - 1] + f[q[n]] /\ f[q[n]] \in Nat
    BY <1>3, Zenon
  <2>3. g[n] \in Nat
    BY <2>1, <2>2
  <2>4. n \in 0 .. N
    BY <1>1
  <2> QED BY <2>3, <2>4, Zenon
<1>5. \A n \in 0 .. N : n \in P
  <2>1. 0 \in P
    BY <1>1, <1>2
  <2> HIDE DEF P, N
  <2> QED BY <1>1, <1>4, <2>1, UpTo, Zenon
<1>6. Sums(g, q, f)
  BY <1>2, <1>3, <1>5, Zenon DEF Sums
<1> QED BY <1>0, <1>6, Zenon

\* A stretch of n places after place a of N places.
LEMMA Stretch ==
  ASSUME NEW N \in Nat, NEW a \in Nat, NEW n \in Nat, a + n <= N
  PROVE  /\ \A k \in 1 .. n : a + k \in 1 .. N /\ (a + k) - 1 = a + (k - 1) /\ k - 1 \in 0 .. n
         /\ \A k \in 0 .. n : a + k \in 0 .. N
         /\ a \in 0 .. N
PROOF OBVIOUS

\* q with sizes f after place a is like r with sizes h after place b, for n places.
Agree(q, f, a, r, h, b, n) ==
  a + n <= Len(q) /\ b + n <= Len(r) /\ \A i \in 1 .. n : f[q[a + i]] = h[r[b + i]]

\* g grows from a to a + n as e does from b to b + n.
SameGain(g, a, e, b, n) == g[a + n] - g[a] = e[b + n] - e[b]

\* Sums of two queues that agree on a stretch grow by the same along it.
LEMMA SameStretch ==
  ASSUME NEW S, NEW q \in Seq(S), NEW r \in Seq(S),
         NEW f \in [S -> Nat], NEW h \in [S -> Nat],
         NEW g, Sums(g, q, f), NEW e, Sums(e, r, h),
         NEW a \in Nat, NEW b \in Nat, NEW n \in Nat,
         Agree(q, f, a, r, h, b, n)
  PROVE  SameGain(g, a, e, b, n)
PROOF
<1> DEFINE P == {k \in 0 .. n : SameGain(g, a, e, b, k)}
<1>0. Len(q) \in Nat /\ Len(r) \in Nat /\ \A i \in 1 .. Len(q) : f[q[i]] \in Nat
  OBVIOUS
<1>1. /\ \A k \in 1 .. n : a + k \in 1 .. Len(q) /\ (a + k) - 1 = a + (k - 1) /\ k - 1 \in 0 .. n
      /\ \A k \in 0 .. n : a + k \in 0 .. Len(q)
      /\ a \in 0 .. Len(q)
  BY <1>0, Stretch, Zenon DEF Agree
<1>2. /\ \A k \in 1 .. n : b + k \in 1 .. Len(r) /\ (b + k) - 1 = b + (k - 1) /\ k - 1 \in 0 .. n
      /\ \A k \in 0 .. n : b + k \in 0 .. Len(r)
      /\ b \in 0 .. Len(r)
  BY <1>0, Stretch, Zenon DEF Agree
<1>3. 0 \in P
  <2>1. g[a] \in Nat /\ e[b] \in Nat
    BY <1>1, <1>2, Zenon DEF Sums
  <2>2. a + 0 = a /\ b + 0 = b /\ 0 \in 0 .. n
    OBVIOUS
  <2>3. g[a] - g[a] = e[b] - e[b]
    BY <2>1
  <2> QED BY <2>2, <2>3 DEF SameGain
<1>4. ASSUME NEW k \in 1 .. n, k - 1 \in P PROVE k \in P
  <2>1. SameGain(g, a, e, b, k - 1)
    BY <1>4, Zenon
  <2>2. g[a + k] = g[a + (k - 1)] + f[q[a + k]]
    BY <1>1, Zenon DEF Sums
  <2>3. e[b + k] = e[b + (k - 1)] + f[q[a + k]]
    <3>1. e[b + k] = e[b + (k - 1)] + h[r[b + k]]
      BY <1>2, Zenon DEF Sums
    <3>2. f[q[a + k]] = h[r[b + k]]
      BY Zenon DEF Agree
    <3> QED BY <3>1, <3>2
  <2>4. /\ g[a] \in Nat /\ e[b] \in Nat
        /\ g[a + (k - 1)] \in Nat /\ e[b + (k - 1)] \in Nat
    BY <1>1, <1>2, Zenon DEF Sums
  <2>5. f[q[a + k]] \in Nat
    BY <1>0, <1>1, Zenon
  <2>6. (g[a + (k - 1)] + f[q[a + k]]) - g[a] = (e[b + (k - 1)] + f[q[a + k]]) - e[b]
    <3> DEFINE u == g[a + (k - 1)]
               v == e[b + (k - 1)]
               x == g[a]
               y == e[b]
               t == f[q[a + k]]
    <3>1. u \in Nat /\ v \in Nat /\ x \in Nat /\ y \in Nat /\ t \in Nat /\ u - x = v - y
      BY <2>1, <2>4, <2>5, Zenon DEF SameGain
    <3> HIDE DEF u, v, x, y, t
    <3>2. (u + t) - x = (v + t) - y
      BY <3>1
    <3> QED BY <3>2, Zenon DEF u, v, x, y, t
  <2>7. k \in 0 .. n
    OBVIOUS
  <2> QED BY <2>2, <2>3, <2>6, <2>7, Zenon DEF SameGain
<1>5. n \in P
  <2> HIDE DEF P
  <2>1. \A k \in 0 .. n : k \in P
    BY <1>3, <1>4, UpTo, Zenon
  <2> QED BY <2>1
<1> QED BY <1>5, Zenon

\* One more request adds its size.
LEMMA SumAppended ==
  ASSUME NEW S, NEW q \in Seq(S), NEW f \in [S -> Nat], NEW x \in S
  PROVE  Sum(Append(q, x), f) = Sum(q, f) + f[x]
PROOF
<1>g. PICK g : Sums(g, q, f) /\ Sum(q, f) = g[Len(q)]
  BY SumStep, Zenon
<1>n. /\ g[0] = 0 /\ Len(q) \in Nat
      /\ \A n \in 0 .. Len(q) : g[n] \in Nat
  BY <1>g DEF Sums
<1> DEFINE r == Append(q, x)
           N == Len(q)
<1>1. /\ r \in Seq(S) /\ Len(r) = N + 1 /\ r[N + 1] = x
      /\ \A i \in 1 .. N : r[i] = q[i]
  OBVIOUS
<1>2. PICK e : Sums(e, r, f) /\ Sum(r, f) = e[Len(r)]
  BY <1>1, SumStep, Zenon
<1> HIDE DEF r
<1>3. SameGain(g, 0, e, 0, N)
  <2>1. N \in Nat /\ 0 \in Nat
    BY <1>n
  <2>2. Agree(q, f, 0, r, f, 0, N)
    BY <1>n, <1>1 DEF Agree
  <2> QED BY <1>g, <1>1, <1>2, <2>1, <2>2, SameStretch, Zenon
<1>4. /\ e[0] = 0 /\ \A n \in 0 .. Len(r) : e[n] \in Nat
      /\ \A n \in 1 .. Len(r) : e[n] = e[n - 1] + f[r[n]]
  BY <1>1, <1>2, Zenon DEF Sums
<1>5. e[N + 1] = e[N] + f[x] /\ e[N] \in Nat
  <2>1. N + 1 \in 1 .. Len(r) /\ (N + 1) - 1 = N /\ N \in 0 .. Len(r)
    BY <1>n, <1>1
  <2> QED BY <1>1, <1>4, <2>1, Zenon
<1>6. e[N] = g[N] /\ g[N] \in Nat
  BY <1>n, <1>3, <1>4, <1>5 DEF SameGain
<1>7. Sum(r, f) = Sum(q, f) + f[x]
  BY <1>g, <1>1, <1>2, <1>5, <1>6, Zenon
<1> QED BY <1>7 DEF r

\* The types of a sum, and the sums of no request and of the two parts of a queue.
LEMMA SumFacts ==
  ASSUME NEW S, NEW q \in Seq(S), NEW f \in [S -> Nat]
  PROVE  /\ Sum(q, f) \in Nat
         /\ Sum(<<>>, f) = 0
         /\ \A n \in 0 .. Len(q) :
              Sum(q, f) = Sum(SubSeq(q, 1, n), f) + Sum(SubSeq(q, n + 1, Len(q)), f)
PROOF
<1>1. PICK g : Sums(g, q, f) /\ Sum(q, f) = g[Len(q)]
  BY SumStep, Zenon
<1>2. /\ g[0] = 0 /\ Len(q) \in Nat
      /\ \A n \in 0 .. Len(q) : g[n] \in Nat
  BY <1>1 DEF Sums
<1>3. Sum(<<>>, f) = 0
  <2>1. <<>> \in Seq(S) /\ Len(<<>>) = 0
    OBVIOUS
  <2>2. PICK e : Sums(e, <<>>, f) /\ Sum(<<>>, f) = e[Len(<<>>)]
    BY <2>1, SumStep, Zenon
  <2>3. e[0] = 0
    BY <2>2, Zenon DEF Sums
  <2> QED BY <2>1, <2>2, <2>3
<1>4. ASSUME NEW n \in 0 .. Len(q)
      PROVE  Sum(q, f) = Sum(SubSeq(q, 1, n), f) + Sum(SubSeq(q, n + 1, Len(q)), f)
  <2> DEFINE a == SubSeq(q, 1, n)
             b == SubSeq(q, n + 1, Len(q))
             m == Len(q) - n
  <2>1. a \in Seq(S) /\ Len(a) = n /\ \A i \in 1 .. n : a[i] = q[i]
    OBVIOUS
  <2>2. b \in Seq(S) /\ Len(b) = m /\ \A i \in 1 .. m : b[i] = q[n + i]
    OBVIOUS
  <2> HIDE DEF a, b
  <2>3. PICK d : Sums(d, a, f) /\ Sum(a, f) = d[Len(a)]
    BY <2>1, SumStep, Zenon
  <2>4. PICK e : Sums(e, b, f) /\ Sum(b, f) = e[Len(b)]
    BY <2>2, SumStep, Zenon
  <2>5. SameGain(g, 0, d, 0, n)
    <3>1. n \in Nat /\ 0 \in Nat
      BY <1>2
    <3>2. Agree(q, f, 0, a, f, 0, n)
      BY <1>2, <2>1 DEF Agree
    <3> QED BY <1>1, <2>1, <2>3, <3>1, <3>2, SameStretch, Zenon
  <2>6. SameGain(g, n, e, 0, m)
    <3>1. n \in Nat /\ m \in Nat /\ 0 \in Nat
      BY <1>2
    <3>2. Agree(q, f, n, b, f, 0, m)
      <4>1. n + m <= Len(q) /\ 0 + m <= Len(b)
        BY <1>2, <2>2
      <4>2. ASSUME NEW i \in 1 .. m PROVE f[q[n + i]] = f[b[0 + i]]
        <5>1. 0 + i = i
          OBVIOUS
        <5> QED BY <2>2, <5>1, Zenon
      <4> QED BY <4>1, <4>2, Zenon DEF Agree
    <3> HIDE DEF m
    <3> QED BY <1>1, <2>2, <2>4, <3>1, <3>2, SameStretch, Zenon
  <2>7. d[0] = 0 /\ \A k \in 0 .. Len(a) : d[k] \in Nat
    BY <2>1, <2>3, Zenon DEF Sums
  <2>8. e[0] = 0 /\ \A k \in 0 .. Len(b) : e[k] \in Nat
    BY <2>2, <2>4, Zenon DEF Sums
  <2>9. n \in Nat /\ m \in Nat /\ n + m = Len(q) /\ d[n] \in Nat /\ e[m] \in Nat /\ g[n] \in Nat
        /\ g[n + m] \in Nat
    BY <1>2, <2>1, <2>2, <2>7, <2>8
  <2>10. g[n + m] = d[n] + e[m]
    BY <1>2, <2>5, <2>6, <2>7, <2>8, <2>9 DEF SameGain
  <2>11. Sum(q, f) = Sum(a, f) + Sum(b, f)
    BY <1>1, <2>1, <2>2, <2>3, <2>4, <2>9, <2>10, Zenon
  <2> QED BY <2>11 DEF a, b
<1>5. Sum(q, f) \in Nat
  BY <1>1, <1>2
<1> QED BY <1>3, <1>4, <1>5, Zenon

\* Sizes of others do not matter.
LEMMA SumSame ==
  ASSUME NEW S, NEW q \in Seq(S), NEW f \in [S -> Nat], NEW h \in [S -> Nat],
         \A i \in 1 .. Len(q) : h[q[i]] = f[q[i]]
  PROVE  Sum(q, h) = Sum(q, f) /\ Sum(q, f) \in Nat
PROOF
<1>1. PICK g : Sums(g, q, f) /\ Sum(q, f) = g[Len(q)]
  BY SumStep, Zenon
<1>2. PICK e : Sums(e, q, h) /\ Sum(q, h) = e[Len(q)]
  BY SumStep, Zenon
<1> DEFINE N == Len(q)
<1>3. N \in Nat /\ 0 \in Nat /\ 0 + N = N /\ N \in 0 .. N
  OBVIOUS
<1>4. SameGain(g, 0, e, 0, N)
  <2>1. Agree(q, f, 0, q, h, 0, N)
    BY <1>3 DEF Agree
  <2> QED BY <1>1, <1>2, <1>3, <2>1, SameStretch, Zenon
<1>5. g[0] = 0 /\ g[N] \in Nat /\ e[0] = 0 /\ e[N] \in Nat
  BY <1>1, <1>2, <1>3, Zenon DEF Sums
<1> HIDE DEF N
<1>6. g[N] = e[N]
  BY <1>3, <1>4, <1>5 DEF SameGain
<1> QED BY <1>1, <1>2, <1>5, <1>6, Zenon DEF N

\* The count of bytes is right and the bounds hold; a request has a size.
Accounts == size \in [Callers -> Nat] /\ QueueAccounted

\* The byte count when a step changes no size of a queued request.
LEMMA QueueSumKept ==
  ASSUME QInv, Accounts, size' \in [Callers -> Nat],
         \A c \in Range(queue) : size'[c] = size[c]
  PROVE  Sum(queue, size') = bytes /\ bytes \in Nat
PROOF
<1>1. queue \in Seq(Callers) /\ size \in [Callers -> Nat] /\ Sum(queue, size) = bytes
  BY SumSizesIsSum, Zenon DEF QInv, Shape, Accounts, QueueAccounted
<1>2. \A i \in 1 .. Len(queue) : size'[queue[i]] = size[queue[i]]
  <2>1. DOMAIN queue = 1 .. Len(queue)
    BY <1>1
  <2> QED BY <2>1, Zenon DEF Range
<1>3. Sum(queue, size') = Sum(queue, size) /\ Sum(queue, size) \in Nat
  BY <1>1, <1>2, SumSame, Zenon
<1> QED BY <1>1, <1>3

\* What it takes to count the bytes after a step.
LEMMA AccountsNext ==
  ASSUME size' \in [Callers -> Nat], bytes' = Sum(queue', size'), bytes' <= MaxBytes,
         Len(queue') <= MaxRequests
  PROVE  Accounts'
PROOF
<1>1. SumSizes(queue)' = Sum(queue', size')
  BY SumSizesIsSum, Zenon
<1> QED BY <1>1, Zenon DEF Accounts, QueueAccounted

\* A request that is not full is added with its bytes; one that is turned away or waits
\* is not in the queue, and nothing is counted.
LEMMA AdmissionAccounts ==
  ASSUME QInv, Accounts, NEW c \in Callers, Submit(c) \/ Recheck(c)
  PROVE  Accounts'
PROOF
<1> DEFINE Stays == queue' = queue /\ bytes' = bytes
           Enters(n) == /\ ~Full(n) /\ queue' = Append(queue, c) /\ bytes' = bytes + n
                        /\ size' = [size EXCEPT ![c] = n]
<1>1. c \notin Range(queue)
  BY DEF QInv, Requests, RequestOK, Inside, Submit, Recheck
<1>2. size \in [Callers -> Nat] /\ queue \in Seq(Callers) /\ QueueAccounted
  BY DEF Accounts, QInv, Shape
<1>3. \E n \in Nat : (Stays /\ (size' = size \/ size' = [size EXCEPT ![c] = 0]
                                \/ size' = [size EXCEPT ![c] = n])) \/ Enters(n)
  <2>1. CASE Submit(c)
    <3>1. PICK batch \in Batches :
            \/ UNCHANGED <<size, queue, bytes>>
            \/ Admission(c, batch.bytes, batch.operations)
      BY <2>1, Zenon DEF Submit
    <3>2. batch.bytes \in Nat
      BY QueueAssumption
    <3> QED BY <3>1, <3>2, Zenon DEF Admission, Destroy
  <2>2. CASE Recheck(c)
    <3>1. size[c] \in Nat
      BY <1>2
    <3> QED BY <2>2, <3>1, Zenon DEF Recheck, Admission, Destroy
  <2> QED BY <2>1, <2>2
<1>4. PICK n \in Nat : (Stays /\ (size' = size \/ size' = [size EXCEPT ![c] = 0]
                                \/ size' = [size EXCEPT ![c] = n])) \/ Enters(n)
  BY <1>3
<1>5. size' \in [Callers -> Nat] /\ \A d \in Range(queue) : size'[d] = size[d]
  <2>1. Range(queue) \subseteq Callers
    BY <1>2 DEF Range
  <2> QED BY <1>1, <1>2, <1>4, <2>1
<1>6. Sum(queue, size') = bytes /\ bytes \in Nat
  BY <1>5, QueueSumKept
<1>7. CASE Stays
  <2>1. bytes' = Sum(queue', size') /\ bytes' <= MaxBytes /\ Len(queue') <= MaxRequests
    BY <1>2, <1>6, <1>7, Zenon DEF QueueAccounted
  <2> QED BY <1>5, <2>1, AccountsNext
<1>8. CASE Enters(n)
  <2>1. Sum(Append(queue, c), size') = Sum(queue, size') + size'[c]
    BY <1>2, <1>5, SumAppended, Zenon
  <2>2. size'[c] = n
    BY <1>2, <1>8
  <2>3. bytes' = Sum(queue', size')
    BY <1>6, <1>8, <2>1, <2>2, Zenon
  <2>4. bytes' <= MaxBytes /\ Len(queue') <= MaxRequests
    BY <1>2, <1>6, <1>8, QueueAssumption DEF Full
  <2> QED BY <1>5, <2>3, <2>4, AccountsNext
<1> QED BY <1>4, <1>7, <1>8

\* A group leaves the queue with its bytes.
LEMMA TakeGroupAccounts ==
  ASSUME QInv, Accounts, NEW c \in Callers, TakeGroup(c)
  PROVE  Accounts'
PROOF
<1> DEFINE n == GroupLength
           a == SubSeq(queue, 1, n)
           b == SubSeq(queue, n + 1, Len(queue))
<1>1. queue \in Seq(Callers) /\ size \in [Callers -> Nat] /\ QueueAccounted
  BY DEF Accounts, QInv, Shape
<1>2. n \in 1 .. Len(queue)
  BY <1>1, GroupLengthRange DEF TakeGroup
<1>3. queue' = b /\ size' = size /\ bytes' = bytes - Sum(a, size)
  BY SumSizesIsSum, Zenon DEF TakeGroup
<1> HIDE DEF n
<1>4. a \in Seq(Callers) /\ b \in Seq(Callers) /\ Len(b) <= Len(queue) /\ n \in 0 .. Len(queue)
  BY <1>1, <1>2
<1>5. Sum(queue, size) = Sum(a, size) + Sum(b, size)
  BY <1>1, <1>4, SumFacts, Zenon
<1>6. Sum(a, size) \in Nat /\ Sum(b, size) \in Nat /\ bytes = Sum(queue, size)
  BY <1>1, <1>4, SumFacts, SumSizesIsSum, Zenon DEF QueueAccounted
<1> HIDE DEF a, b
<1>7. bytes' = Sum(b, size) /\ bytes' <= MaxBytes
  BY <1>1, <1>3, <1>5, <1>6, QueueAssumption DEF QueueAccounted
<1>8. Len(b) <= MaxRequests
  BY <1>1, <1>4, QueueAssumption DEF QueueAccounted, b
<1>9. /\ size' \in [Callers -> Nat] /\ bytes' = Sum(queue', size') /\ bytes' <= MaxBytes
      /\ Len(queue') <= MaxRequests
  BY <1>1, <1>3, <1>7, <1>8, Zenon
<1> QED BY <1>9, AccountsNext, Zenon

\* An exception empties the queue and resets the count.
LEMMA ApplyThrowsAccounts ==
  ASSUME QInv, Accounts, NEW c \in Callers, ApplyThrows(c)
  PROVE  Accounts'
PROOF
<1>1. size \in [Callers -> Nat]
  BY DEF Accounts
<1>2. queue' = <<>> /\ bytes' = 0 /\ size' \in [Callers -> Nat]
  BY <1>1 DEF ApplyThrows
<1>3. <<>> \in Seq(Callers) /\ Len(<<>>) = 0
  OBVIOUS
<1>4. Sum(<<>>, size') = 0
  BY <1>2, <1>3, SumFacts, Zenon
<1>5. 0 <= MaxBytes /\ 0 <= MaxRequests
  BY QueueAssumption
<1>6. bytes' = Sum(queue', size') /\ bytes' <= MaxBytes /\ Len(queue') <= MaxRequests
  BY <1>2, <1>3, <1>4, <1>5, Zenon
<1> QED BY <1>2, <1>6, AccountsNext, Zenon

\* Every other step leaves the queue and the count alone, and the size of every request
\* in the queue: the request of a caller that returns has left it.
LEMMA RestAccounts ==
  ASSUME QInv, Accounts,
         queue' = queue /\ bytes' = bytes,
         \/ size' = size
         \/ \E c \in Callers : (Resign(c) \/ FollowerReturns(c))
  PROVE  Accounts'
PROOF
<1>1. size \in [Callers -> Nat] /\ queue \in Seq(Callers) /\ QueueAccounted
  BY DEF Accounts, QInv, Shape
<1>2. size' \in [Callers -> Nat] /\ \A d \in Range(queue) : size'[d] = size[d]
  <2>1. CASE size' = size
    BY <1>1, <2>1
  <2>2. ASSUME NEW c \in Callers, Resign(c) \/ FollowerReturns(c)
        PROVE  size' \in [Callers -> Nat] /\ \A d \in Range(queue) : size'[d] = size[d]
    <3>1. size' = [size EXCEPT ![c] = 0]
      BY <2>2 DEF Resign, FollowerReturns, Destroy
    <3>2. c \notin Range(queue)
      <4>1. CASE Resign(c)
        BY <1>1, <4>1, EmptyToSet, Zenon DEF Resign
      <4>2. CASE FollowerReturns(c)
        BY <4>2 DEF QInv, Requests, RequestOK, FollowerReturns
      <4> QED BY <2>2, <4>1, <4>2
    <3>3. Range(queue) \subseteq Callers
      BY <1>1 DEF Range
    <3> QED BY <1>1, <3>1, <3>2, <3>3
  <2> QED BY <2>1, <2>2
<1>3. Sum(queue, size') = bytes
  BY <1>2, QueueSumKept
<1>4. bytes' = Sum(queue', size') /\ bytes' <= MaxBytes /\ Len(queue') <= MaxRequests
  BY <1>1, <1>3, Zenon DEF QueueAccounted
<1> QED BY <1>2, <1>4, AccountsNext

\* Every step of every thread keeps the accounts.
LEMMA AccountsInductive == Spec => []Accounts
PROOF
<1>1. Init => Accounts
  <2> SUFFICES ASSUME Init PROVE Accounts
    OBVIOUS
  <2>1. size \in [Callers -> Nat] /\ queue = <<>> /\ bytes = 0
    BY DEF Init
  <2>2. <<>> \in Seq(Callers) /\ Len(<<>>) = 0 /\ 0 <= MaxBytes /\ 0 <= MaxRequests
    BY QueueAssumption
  <2>3. Sum(<<>>, size) = 0
    BY <2>1, <2>2, SumFacts, Zenon
  <2> QED BY <2>1, <2>2, <2>3, SumSizesIsSum, Zenon DEF Accounts, QueueAccounted
<1>2. ASSUME QInv, Accounts, [Next]_vars PROVE Accounts'
  <2>1. ASSUME NEW c \in Callers, Resign(c) \/ ApplyReturns(c) \/ FollowerReturns(c)
        PROVE  Accounts'
    <3>1. queue' = queue /\ bytes' = bytes
      BY <2>1 DEF Resign, ApplyReturns, FollowerReturns
    <3>2. ApplyReturns(c) => size' = size
      BY Zenon DEF ApplyReturns
    <3> QED BY <1>2, <2>1, <3>1, <3>2, RestAccounts, Zenon
  <2>2. ASSUME StopWriterQueue \/ StopRecheck \/ CloseCompletes \/ ResumeWriterQueue
               \/ SpuriousWake \/ UNCHANGED vars
        PROVE  Accounts'
    <3>1. queue' = queue /\ bytes' = bytes /\ size' = size
      BY <2>2 DEF StopWriterQueue, StopRecheck, CloseCompletes, ResumeWriterQueue,
                  SpuriousWake, vars
    <3> QED BY <1>2, <3>1, RestAccounts, Zenon
  <2> QED
    BY <1>2, <2>1, <2>2, AdmissionAccounts, TakeGroupAccounts, ApplyThrowsAccounts, Zenon
       DEF Next
<1> QED BY <1>1, <1>2, Inductive, PTL DEF Spec

-----------------------------------------------------------------------------
(* Theorems *)

\* With any number of callers and whatever ApplyWriteGroup does, there is at most one
\* leader of DrainWriterQueue, and one whenever a request is queued or in a group.
THEOREM NobodyIsStranded == Spec => []SomeoneDrains
PROOF
<1>1. QInv => SomeoneDrains
  BY DEF QInv
<1> QED
  BY Inductive, <1>1, PTL

\* With any number of callers SubmitWrite returns OK only for a request that was applied,
\* and applied once; and AlreadyClosed or InvalidArgument only for one that never was.
THEOREM CallersToldTheTruth == Spec => []ToldTheTruth
PROOF
<1>1. QInv => ToldTheTruth
  BY DEF QInv
<1> QED
  BY Inductive, <1>1, PTL

\* When StopWriterQueue has returned, no request is queued or in a leader's hands until
\* ResumeWriterQueue: Close() has the WAL to itself.
THEOREM StoppedQueueIsQuiet == Spec => []StoppedIsQuiet
PROOF
<1>1. QInv => StoppedIsQuiet
  BY DEF QInv, Stopped, SomeoneDrains, StoppedIsQuiet
<1> QED
  BY Inductive, <1>1, PTL

\* With any requests and limits writer_queue_bytes_ is what the queued requests add up to,
\* on every way into and out of the queue, and neither limit is exceeded, so that
\* MaxBytes - bytes in the admission of SubmitWrite never wraps.
THEOREM QueueIsAccounted == Spec => []QueueAccounted
PROOF
<1>1. Accounts => QueueAccounted
  BY DEF Accounts
<1> QED
  BY AccountsInductive, <1>1, PTL
=============================================================================
