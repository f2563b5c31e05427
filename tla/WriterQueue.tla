------------------------------ MODULE WriterQueue ------------------------------
(***************************************************************************)
(* The bounded group-commit queue in front of the engine: DB::Impl::        *)
(* SubmitWrite, DrainWriterQueue, StopWriterQueue and ResumeWriterQueue of  *)
(* src/src/db/db_impl.cpp.  Caller threads hand in one request each; the    *)
(* first of them becomes the leader and drains the queue group by group;    *)
(* the others wait for their request to be completed.                       *)
(*                                                                         *)
(* Every action is one critical section of writer_mutex_, or the call of    *)
(* ApplyWriteGroup the leader makes outside it.  A caller has at most one   *)
(* request, so the queue holds callers.  writer_cv_ is modelled with the    *)
(* set of threads asleep on it, so a notification that is not sent is       *)
(* missed; complete_cv is set and notified under writer_mutex_ and is a     *)
(* guard.                                                                   *)
(***************************************************************************)
EXTENDS Integers, Sequences, FiniteSetsExt

CONSTANTS
  Callers,         \* threads in Put, Delete or Write
  Closer,          \* the thread in Close()
  Batches,         \* requests: their bytes and operations
  MaxRequests,     \* Options::max_pending_write_requests
  MaxBytes,        \* Options::max_pending_write_bytes
  GroupRequests,   \* Options::max_group_commit_requests
  GroupBytes,      \* Options::max_group_commit_bytes
  MaxOperations,   \* kMaxWalBatchOperations
  Outcomes         \* what ApplyWriteGroup may do: "ok", "error", "throw"

ASSUME QueueAssumption ==
  /\ Batches \subseteq [bytes : Nat \ {0}, operations : Nat \ {0}] /\ MaxBytes \in Nat
  /\ {MaxRequests, GroupRequests, GroupBytes, MaxOperations} \subseteq Nat \ {0}
  /\ Closer \notin Callers /\ Outcomes \subseteq {"ok", "error", "throw"}

VARIABLES
  pc,         \* pc[c]: where the caller stands in SubmitWrite
  size,       \* size[c]: request->queue_bytes
  count,      \* count[c]: request->batch.Count()
  status,     \* status[c]: request->status, and after the return what c was told
  complete,   \* complete[c]: request->complete
  queue,      \* writer_queue_
  bytes,      \* writer_queue_bytes_
  leader,     \* writer_leader_
  stopping,   \* writer_stopping_
  group,      \* the leader's group
  asleep,     \* threads blocked in writer_cv_.wait
  closer,     \* where the thread in Close() stands
  applied     \* ghost: how often c's request was handed to ApplyWriteGroup and applied

vars == <<pc, size, count, status, complete, queue, bytes, leader, stopping, group, asleep,
          closer, applied>>

PCs == {"idle", "admit", "queued", "drain", "apply"}
Statuses == {"none", "ok", "error", "aborted", "thrown", "closed", "refused"}
CloserPCs == {"open", "waiting", "stopped", "closed"}

\* The request of a caller that returns is destroyed.
Destroy(c) ==
  /\ size' = [size EXCEPT ![c] = 0] /\ count' = [count EXCEPT ![c] = 0]
  /\ complete' = [complete EXCEPT ![c] = FALSE]

SumSizes(q) ==
  LET sum[n \in 0 .. Len(q)] == IF n = 0 THEN 0 ELSE sum[n - 1] + size[q[n]]
  IN  sum[Len(q)]

SumCounts(q) ==
  LET sum[n \in 0 .. Len(q)] == IF n = 0 THEN 0 ELSE sum[n - 1] + count[q[n]]
  IN  sum[Len(q)]

Init ==
  /\ pc = [c \in Callers |-> "idle"] /\ size = [c \in Callers |-> 0]
  /\ count = [c \in Callers |-> 0]
  /\ status = [c \in Callers |-> "none"] /\ complete = [c \in Callers |-> FALSE]
  /\ queue = <<>> /\ bytes = 0 /\ leader = FALSE /\ stopping = FALSE
  /\ group = <<>> /\ asleep = {} /\ closer = "open"
  /\ applied = [c \in Callers |-> 0]

\* A mutant: writer_cv_.notify_one().
NotifyOne ==
  \/ asleep = {} /\ asleep' = {}
  \/ \E t \in asleep : asleep' = asleep \ {t}

\* writer_cv_.notify_all().
NotifyAll == asleep' = {}

-----------------------------------------------------------------------------
Full(n) == Len(queue) >= MaxRequests \/ n > MaxBytes - bytes

\* The loop and the enqueueing of SubmitWrite, with writer_mutex_ held.
Admission(c, n, k) ==
  \/ /\ stopping
     /\ pc' = [pc EXCEPT ![c] = "idle"] /\ status' = [status EXCEPT ![c] = "closed"]
     /\ Destroy(c)
     /\ UNCHANGED <<queue, bytes, leader, asleep>>
  \/ /\ ~stopping /\ Full(n)
     /\ pc' = [pc EXCEPT ![c] = "admit"] /\ asleep' = asleep \cup {c}
     /\ status' = [status EXCEPT ![c] = "ok"]
     /\ size' = [size EXCEPT ![c] = n] /\ count' = [count EXCEPT ![c] = k]
     /\ UNCHANGED <<complete, queue, bytes, leader>>
  \/ /\ ~stopping /\ ~Full(n)
     /\ queue' = Append(queue, c) /\ bytes' = bytes + n
     /\ pc' = [pc EXCEPT ![c] = IF leader THEN "queued" ELSE "drain"]
     /\ leader' = TRUE
     /\ status' = [status EXCEPT ![c] = "ok"]
     /\ size' = [size EXCEPT ![c] = n] /\ count' = [count EXCEPT ![c] = k]
     /\ UNCHANGED <<complete, asleep>>

\* A new request; one that could never fit the queue or a WAL record is refused before the
\* queue is locked.  A request starts with a default Status, which is OK.
Submit(c) ==
  \E batch \in Batches :
    /\ pc[c] = "idle"
    /\ applied' = [applied EXCEPT ![c] = 0]
    /\ \/ /\ batch.operations > MaxOperations \/ batch.bytes > MaxBytes
          /\ status' = [status EXCEPT ![c] = "refused"]
          /\ UNCHANGED <<pc, size, count, complete, queue, bytes, leader, asleep>>
       \/ /\ batch.operations <= MaxOperations /\ batch.bytes <= MaxBytes
          /\ Admission(c, batch.bytes, batch.operations)
    /\ UNCHANGED <<stopping, group, closer>>

\* A caller woken in writer_cv_.wait looks at the queue again.
Recheck(c) ==
  /\ pc[c] = "admit" /\ c \notin asleep
  /\ Admission(c, size[c], count[c])
  /\ UNCHANGED <<stopping, group, closer, applied>>


\* The number of requests the leader takes: the first one always, another as long
\* as the group is below its limits and the request still fits.
GroupLength ==
  Max({n \in 1 .. Len(queue) :
         \A i \in 2 .. n :
           LET taken == SubSeq(queue, 1, i - 1)
               before == SumSizes(taken)
           IN i - 1 < GroupRequests /\ before < GroupBytes
              /\ size[queue[i]] <= GroupBytes - before
              /\ count[queue[i]] <= MaxOperations - SumCounts(taken)})

\* A mutant: the last request of the group stays in the queue.
TakeGroupKeepsQueue(c) ==
  /\ pc[c] = "drain" /\ queue # <<>>
  /\ group' = SubSeq(queue, 1, GroupLength)
  /\ queue' = SubSeq(queue, GroupLength, Len(queue))
  /\ bytes' = bytes - SumSizes(SubSeq(queue, 1, GroupLength - 1))
  /\ pc' = [pc EXCEPT ![c] = "apply"]
  /\ NotifyAll
  /\ UNCHANGED <<size, count, status, complete, leader, stopping, closer, applied>>

\* The leader takes the next group and wakes the callers waiting for room.
TakeGroup(c) ==
  /\ pc[c] = "drain" /\ queue # <<>>
  /\ group' = SubSeq(queue, 1, GroupLength)
  /\ queue' = SubSeq(queue, GroupLength + 1, Len(queue))
  /\ bytes' = bytes - SumSizes(SubSeq(queue, 1, GroupLength))
  /\ pc' = [pc EXCEPT ![c] = "apply"]
  /\ NotifyAll
  /\ UNCHANGED <<size, count, status, complete, leader, stopping, closer, applied>>

\* The queue is empty: the leader resigns and returns the status of its request.
Resign(c) ==
  /\ pc[c] = "drain" /\ queue = <<>>
  /\ leader' = FALSE /\ NotifyAll
  /\ pc' = [pc EXCEPT ![c] = "idle"] /\ Destroy(c)
  /\ UNCHANGED <<status, queue, bytes, stopping, group, closer, applied>>

\* Every request of a group gets the group's status.  An error leaves open whether
\* the group reached the WAL and the MemTable.
ApplyReturns(c) ==
  /\ pc[c] = "apply"
  /\ \E s \in Outcomes \cap {"ok", "error"}, lands \in BOOLEAN :
       /\ s = "ok" => lands
       /\ status' = [d \in Callers |-> IF d \in Range(group) THEN s ELSE status[d]]
       /\ applied' = [d \in Callers |->
                        IF lands /\ d \in Range(group) THEN applied[d] + 1 ELSE applied[d]]
  /\ complete' = [d \in Callers |-> complete[d] \/ d \in Range(group)]
  /\ group' = <<>>
  /\ pc' = [pc EXCEPT ![c] = "drain"]
  /\ UNCHANGED <<size, count, queue, bytes, leader, stopping, asleep, closer>>

\* A mutant: the exception fails the group and leaves the queue as it is.
ApplyThrowsGroupOnly(c) ==
  LET failed == Range(group)
  IN /\ pc[c] = "apply" /\ "throw" \in Outcomes
     /\ applied' = applied
     /\ status' = [d \in Callers |-> IF d = c THEN "thrown"
                                     ELSE IF d \in failed THEN "aborted" ELSE status[d]]
     /\ complete' = [d \in Callers |-> d # c /\ (complete[d] \/ d \in failed)]
     /\ size' = [size EXCEPT ![c] = 0] /\ count' = [count EXCEPT ![c] = 0]
     /\ group' = <<>> /\ leader' = FALSE /\ NotifyAll
     /\ pc' = [pc EXCEPT ![c] = "idle"]
     /\ UNCHANGED <<queue, bytes, stopping, closer>>

\* A mutant: writer_queue_bytes_ is not reset.
ApplyThrowsKeepsBytes(c) ==
  LET failed == Range(group) \cup Range(queue)
  IN /\ pc[c] = "apply" /\ "throw" \in Outcomes
     /\ applied' = applied
     /\ status' = [d \in Callers |-> IF d = c THEN "thrown"
                                     ELSE IF d \in failed THEN "aborted" ELSE status[d]]
     /\ complete' = [d \in Callers |-> d # c /\ (complete[d] \/ d \in failed)]
     /\ size' = [size EXCEPT ![c] = 0] /\ count' = [count EXCEPT ![c] = 0]
     /\ group' = <<>> /\ queue' = <<>> /\ leader' = FALSE /\ NotifyAll
     /\ pc' = [pc EXCEPT ![c] = "idle"]
     /\ UNCHANGED <<bytes, stopping, closer>>

\* An exception out of ApplyWriteGroup fails the group and everything still
\* queued, ends the leadership and goes on to the leader's caller.
ApplyThrows(c) ==
  LET failed == Range(group) \cup Range(queue)
  IN /\ pc[c] = "apply" /\ "throw" \in Outcomes
     /\ \E lands \in BOOLEAN :
          applied' = [d \in Callers |->
                        IF lands /\ d \in Range(group) THEN applied[d] + 1 ELSE applied[d]]
     /\ status' = [d \in Callers |-> IF d = c THEN "thrown"
                                     ELSE IF d \in failed THEN "aborted" ELSE status[d]]
     /\ complete' = [d \in Callers |-> d # c /\ (complete[d] \/ d \in failed)]
     /\ size' = [size EXCEPT ![c] = 0] /\ count' = [count EXCEPT ![c] = 0]
     /\ group' = <<>> /\ queue' = <<>> /\ bytes' = 0
     /\ leader' = FALSE /\ NotifyAll
     /\ pc' = [pc EXCEPT ![c] = "idle"]
     /\ UNCHANGED <<stopping, closer>>

\* A follower whose request is complete returns its status.
FollowerReturns(c) ==
  /\ pc[c] = "queued" /\ complete[c]
  /\ pc' = [pc EXCEPT ![c] = "idle"] /\ Destroy(c)
  /\ UNCHANGED <<status, queue, bytes, leader, stopping, group, asleep, closer, applied>>

-----------------------------------------------------------------------------
\* A mutant: the leader is not waited for.
StopWriterQueueAtOnce ==
  /\ closer = "open"
  /\ stopping' = TRUE /\ closer' = "stopped"
  /\ UNCHANGED <<pc, size, count, status, complete, queue, bytes, leader, group, asleep, applied>>

\* Close() stops the admission and waits until no leader is left.  It wakes nobody.
StopWriterQueue ==
  /\ closer = "open"
  /\ stopping' = TRUE
  /\ closer' = IF leader THEN "waiting" ELSE "stopped"
  /\ asleep' = IF leader THEN asleep \cup {Closer} ELSE asleep
  /\ UNCHANGED <<pc, size, count, status, complete, queue, bytes, leader, group, applied>>

StopRecheck ==
  /\ closer = "waiting" /\ Closer \notin asleep
  /\ closer' = IF leader THEN "waiting" ELSE "stopped"
  /\ asleep' = IF leader THEN asleep \cup {Closer} ELSE asleep
  /\ UNCHANGED <<pc, size, count, status, complete, queue, bytes, leader, stopping, group,
                 applied>>

\* The rest of Close() (the engine's model): either the handle is closed, or the
\* WAL could not be synced and the queue is opened again.
CloseCompletes ==
  /\ closer = "stopped"
  /\ closer' = "closed"
  /\ UNCHANGED <<pc, size, count, status, complete, queue, bytes, leader, stopping, group,
                 asleep, applied>>

ResumeWriterQueue ==
  /\ closer = "stopped"
  /\ closer' = "open" /\ stopping' = FALSE /\ NotifyAll
  /\ UNCHANGED <<pc, size, count, status, complete, queue, bytes, leader, group, applied>>

\* A condition variable may wake a thread without a notification.
SpuriousWake ==
  \E t \in asleep :
    /\ asleep' = asleep \ {t}
    /\ UNCHANGED <<pc, size, count, status, complete, queue, bytes, leader, stopping, group,
                   closer, applied>>

Next ==
  \/ \E c \in Callers :
       Submit(c) \/ Recheck(c) \/ TakeGroup(c) \/ Resign(c) \/ ApplyReturns(c)
       \/ ApplyThrows(c) \/ FollowerReturns(c)
  \/ StopWriterQueue \/ StopRecheck \/ CloseCompletes \/ ResumeWriterQueue
  \/ SpuriousWake

Spec == Init /\ [][Next]_vars

\* A thread that is not blocked runs on; ApplyWriteGroup returns or throws.
Fairness ==
  /\ \A c \in Callers :
       /\ WF_vars(Recheck(c)) /\ WF_vars(TakeGroup(c)) /\ WF_vars(Resign(c))
       /\ WF_vars(ApplyReturns(c) \/ ApplyThrows(c)) /\ WF_vars(FollowerReturns(c))
  /\ WF_vars(StopRecheck)

FairSpec == Spec /\ Fairness

-----------------------------------------------------------------------------
Leaders == {c \in Callers : pc[c] \in {"drain", "apply"}}

\* Nobody waits on a departed leader: writer_leader_ is set exactly while one
\* caller drains, and whatever is queued or grouped has that caller to serve it.
SomeoneDrains ==
  /\ leader <=> Leaders # {}
  /\ \A c, d \in Leaders : c = d
  /\ queue # <<>> => leader
  /\ group # <<>> => \E c \in Leaders : pc[c] = "apply"
  /\ \A c \in Callers :
       pc[c] = "queued" => complete[c] \/ c \in Range(queue) \cup Range(group)

\* What a caller is told is what happened to its own request: OK only when it was
\* applied, exactly once, and "closing" or "too large" only when it never was.  The
\* default Status of a request is OK, so a leader that returned early would lie.
ToldTheTruth ==
  \A c \in Callers :
    /\ applied[c] <= 1
    /\ pc[c] = "idle" =>
         /\ status[c] = "ok" => applied[c] = 1
         /\ status[c] \in {"closed", "refused"} => applied[c] = 0

\* writer_queue_bytes_ is the sum of the queued requests through every path out of
\* the queue (group taken, exception), so the unsigned subtraction of the admission
\* test never wraps and both bounds hold.
QueueAccounted ==
  /\ bytes = SumSizes(queue) /\ bytes <= MaxBytes
  /\ Len(queue) <= MaxRequests


\* Between StopWriterQueue and ResumeWriterQueue the engine is left alone: no
\* request is queued, grouped or in a leader's hands.
StoppedIsQuiet ==
  closer \in {"stopped", "closed"} => queue = <<>> /\ group = <<>> /\ ~leader

\* A request in the queue is answered, whoever else keeps writing.
FollowersServed == \A c \in Callers : pc[c] = "queued" ~> pc[c] = "idle"

\* Close() gets past StopWriterQueue although callers keep coming, and the callers
\* blocked for room leave although StopWriterQueue notifies nobody.
StopReturns ==
  /\ closer = "waiting" ~> closer = "stopped"
  /\ \A c \in Callers : pc[c] = "admit" /\ stopping ~> pc[c] # "admit" \/ ~stopping
=============================================================================
