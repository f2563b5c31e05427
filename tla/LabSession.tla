------------------------------ MODULE LabSession ------------------------------
(***************************************************************************)
(* The Lab's session: HTTP threads that open, close and write one database  *)
(* and control a workload, and the thread that runs the workload against a  *)
(* reference map.  LabSession and the handlers of LabHttpServer.            *)
(*                                                                         *)
(* A section under mutex_ or workload_mutex_ is one action.  Execute asks   *)
(* IsWorkloadActive while it holds mutex_; a workload that starts between   *)
(* the question and the write scans the database after it, so the pair is   *)
(* one action too.  Open, Close and Reopen ask before they lock, and are    *)
(* two.  A database is the value of one key; Get, Scan and Compact of a     *)
(* client change nothing here.                                              *)
(***************************************************************************)
EXTENDS Naturals, FiniteSets, TLC

CONSTANTS
  Clients,         \* HTTP threads
  Mixes,           \* mixes of requests: what kinds each client sends
  Paths,           \* database directories
  NoPath,          \* the empty path
  Written,         \* what direct writes leave: "client" for a Put, "absent" for a Delete
  OperationCount,  \* WorkloadConfig::operation_count
  ReopenEvery,     \* WorkloadConfig::reopen_every, 0 for never
  MaxRuns,         \* bound: no start is asked for once so many workloads were started
  MaxFaults        \* bound: failing closes and opens

ASSUME LabAssumption ==
  /\ NoPath \notin Paths /\ Written \subseteq {"client", "absent"}
  /\ Mixes \subseteq
       [Clients -> SUBSET {"session", "execute", "start", "control", "recovery"}]
  /\ OperationCount \in Nat \ {0} /\ {ReopenEvery, MaxRuns, MaxFaults} \subseteq Nat

VARIABLES
  store,      \* store[p]: the value in the database of directory p
  db,         \* db_: none, open, or closed underneath the handle
  path,       \* path_
  run,        \* workload_: id, status, completed operations, mismatch
  cancel,     \* workload_cancel_requested_
  joinable,   \* workload_thread_ has not been joined
  worker,     \* the workload thread
  client,     \* client[c]: where the request of c stands
  stop,       \* the destructor: no, stopping, stopped; or the process aborted
  excused,    \* history: whether, since a starter that has not finished (next) or the one
              \* of the current run (now) asked GetState, the session was closed or moved,
              \* or a fault happened
  faults,
  offers      \* the mix of this behaviour

sessionVars == <<store, db, path>>
runVars == <<run, cancel, joinable, worker>>
vars == <<store, db, path, run, cancel, joinable, worker, client, stop, excused, faults, offers>>

Kinds == {"put", "get", "delete"}
Idle == [at |-> "idle"]
NoRun == [id |-> 0, status |-> "idle", completed |-> 0, mismatch |-> FALSE]
Asleep == [pc |-> "none", id |-> 0, op |-> 0, kind |-> "get", reference |-> "absent",
           bad |-> FALSE, verified |-> FALSE, late_pause |-> FALSE]

\* IsWorkloadActive.
Active == run.status \in {"running", "paused"}

Serving(c) == stop = "no" /\ client[c] = Idle
Goto(c, state) == client' = [client EXCEPT ![c] = state]
Finish(c) == Goto(c, Idle)

\* StartWorkload has asked GetState and has not returned.
Starting(c) == client[c].at \in {"start", "join", "launch"}

-----------------------------------------------------------------------------
(* The session *)

\* DB::Close: it succeeds; or its sync fails and the database stays open; or it fails and
\* the database is closed all the same.  Closing what is closed is no error here.
CloseOutcomes ==
  IF db = "dead" \/ faults = MaxFaults THEN {"ok"} ELSE {"ok", "open", "dead"}

OpenOutcomes == IF faults = MaxFaults THEN {"open"} ELSE {"open", "none"}

Fault(failed) == faults' = IF failed THEN faults + 1 ELSE faults

Excuse(disturbed) ==
  excused' = IF ~disturbed THEN excused
             ELSE [next |-> \E c \in Clients : Starting(c),
                   now |-> excused.now \/ worker.pc \notin {"none", "done"}]

\* What Open and Reopen do under mutex_: close what is open, then open target.
OpenDatabase(target, keeps_path) ==
  \/ /\ db # "none"
     /\ \E outcome \in CloseOutcomes \ {"ok"} : db' = outcome
     /\ Fault(TRUE) /\ UNCHANGED path
  \/ \E outcome \in OpenOutcomes :
       /\ db' = outcome
       /\ path' = IF outcome = "open" \/ keeps_path THEN target ELSE path
       /\ Fault(outcome = "none")

\* LabSession::Open.
OpenAsk(c, p) ==
  /\ Serving(c) /\ ~Active
  /\ Goto(c, [at |-> "open", path |-> p])
  /\ UNCHANGED <<sessionVars, runVars, stop, excused, faults, offers>>

Open(c) ==
  /\ client[c].at = "open"
  /\ OpenDatabase(client[c].path, FALSE)
  /\ Excuse(path' # path \/ faults' # faults)
  /\ Finish(c)
  /\ UNCHANGED <<store, runVars, stop, offers>>

\* LabSession::Close.
CloseAsk(c) ==
  /\ Serving(c) /\ ~Active
  /\ Goto(c, [at |-> "close"])
  /\ UNCHANGED <<sessionVars, runVars, stop, excused, faults, offers>>

Close(c) ==
  /\ client[c].at = "close"
  /\ IF db = "none" THEN UNCHANGED <<db, faults>>
     ELSE \E outcome \in CloseOutcomes :
            /\ db' = IF outcome = "ok" THEN "none" ELSE outcome
            /\ Fault(outcome # "ok")
  /\ Excuse(db # "none")
  /\ Finish(c)
  /\ UNCHANGED <<store, path, runVars, stop, offers>>

\* LabSession::Reopen of a client.
ReopenAsk(c) ==
  /\ Serving(c) /\ ~Active
  /\ Goto(c, [at |-> "reopen"])
  /\ UNCHANGED <<sessionVars, runVars, stop, excused, faults, offers>>

Reopen(c) ==
  /\ client[c].at = "reopen"
  /\ Finish(c)
  /\ IF path = NoPath THEN UNCHANGED <<sessionVars, faults, excused>>
     ELSE /\ OpenDatabase(path, TRUE)
          /\ Excuse(faults' # faults)
          /\ UNCHANGED store
  /\ UNCHANGED <<runVars, stop, offers>>

\* A mutant: direct writes are accepted while a workload runs.
ExecuteAlways(c, value) ==
  /\ Serving(c) /\ db = "open"
  /\ store' = [store EXCEPT ![path] = value]
  /\ UNCHANGED <<db, path, runVars, client, stop, excused, faults, offers>>

\* LabSession::Execute of a direct Put or Delete.
Execute(c, value) ==
  /\ Serving(c) /\ ~Active /\ db = "open"
  /\ store' = [store EXCEPT ![path] = value]
  /\ UNCHANGED <<db, path, runVars, client, stop, excused, faults, offers>>

-----------------------------------------------------------------------------
(* Controlling the workload *)

\* StartWorkload asks GetState, then locks workload_mutex_.
StartAsk(c) ==
  /\ Serving(c) /\ db # "none" /\ run.id < MaxRuns
  /\ Goto(c, [at |-> "start"])
  /\ excused' = [excused EXCEPT !.next = @ \/ db # "open"]
  /\ UNCHANGED <<sessionVars, runVars, stop, faults, offers>>

\* What the starters that are left may rely on when c returns.
NextExcuse(c) == excused.next /\ \E d \in Clients \ {c} : Starting(d)

Launch(c) ==
  /\ run' = [NoRun EXCEPT !.id = run.id + 1, !.status = "running"]
  /\ cancel' = FALSE
  /\ joinable' = TRUE
  /\ worker' = [Asleep EXCEPT !.pc = "scan", !.id = run.id + 1]
  /\ excused' = [next |-> NextExcuse(c), now |-> excused.next]

Refused(c) ==
  /\ Finish(c)
  /\ excused' = [excused EXCEPT !.next = NextExcuse(c)]
  /\ UNCHANGED runVars

\* A mutant: the thread of the run before is left to itself.
StartWithoutJoin(c) ==
  /\ client[c].at = "start"
  /\ IF Active THEN Refused(c)
     ELSE /\ run' = [NoRun EXCEPT !.id = run.id + 1, !.status = "running"]
          /\ cancel' = FALSE /\ joinable' = TRUE
          /\ worker' = IF worker.pc \in {"none", "done"}
                       THEN [Asleep EXCEPT !.pc = "scan", !.id = run.id + 1] ELSE worker
          /\ excused' = [next |-> NextExcuse(c), now |-> excused.next]
          /\ Finish(c)
  /\ UNCHANGED <<sessionVars, stop, faults, offers>>

\* An active workload refuses; the thread of an ended one is joined first.
Start(c) ==
  /\ client[c].at = "start"
  /\ IF Active THEN Refused(c)
     ELSE IF joinable THEN Goto(c, [at |-> "join"]) /\ UNCHANGED <<runVars, excused>>
     ELSE Launch(c) /\ Finish(c)
  /\ UNCHANGED <<sessionVars, stop, faults, offers>>

\* The join, outside workload_mutex_.  A starter that waited for it while another one
\* joined and launched joins the new thread.
Join(c) ==
  /\ client[c].at = "join" /\ joinable /\ worker.pc = "done"
  /\ joinable' = FALSE
  /\ Goto(c, [at |-> "launch"])
  /\ UNCHANGED <<sessionVars, run, cancel, worker, stop, excused, faults, offers>>

\* Two starters join one std::thread: join throws for the one whose thread is no longer
\* joinable or has somebody waiting for it already, and the request ends in an error.
JoinThrows(c) ==
  /\ client[c].at = "join"
  /\ ~joinable \/ \E d \in Clients \ {c} : client[d].at = "join"
  /\ Refused(c)
  /\ UNCHANGED <<sessionVars, stop, faults, offers>>

\* std::terminate: every thread is gone.
Terminate ==
  /\ stop' = "aborted"
  /\ run' = NoRun /\ cancel' = FALSE /\ joinable' = FALSE /\ worker' = Asleep
  /\ client' = [c \in Clients |-> Idle]
  /\ UNCHANGED excused

\* After the join the workload starts without another look.  When another starter found
\* nothing to join and launched in between, the assignment to workload_thread_ is one to a
\* joinable std::thread.
LaunchJoined(c) ==
  /\ client[c].at = "launch"
  /\ \/ ~joinable /\ Launch(c) /\ Finish(c) /\ UNCHANGED stop
     \/ joinable /\ Terminate
  /\ UNCHANGED <<sessionVars, faults, offers>>

\* The handlers of pause, resume and cancel compare the id of the URL with that of the
\* workload, then act on whichever there is.
ControlAsk(c, what) ==
  /\ Serving(c) /\ run.id # 0
  /\ Goto(c, [at |-> what])
  /\ UNCHANGED <<sessionVars, runVars, stop, excused, faults, offers>>

PauseWorkload(c) ==
  /\ client[c].at = "pause"
  /\ run' = IF run.status = "running" THEN [run EXCEPT !.status = "paused"] ELSE run
  /\ Finish(c)
  /\ UNCHANGED <<sessionVars, cancel, joinable, worker, stop, excused, faults, offers>>

ResumeWorkload(c) ==
  /\ client[c].at = "resume"
  /\ run' = IF run.status = "paused" THEN [run EXCEPT !.status = "running"] ELSE run
  /\ Finish(c)
  /\ UNCHANGED <<sessionVars, cancel, joinable, worker, stop, excused, faults, offers>>

CancelWorkload(c) ==
  /\ client[c].at = "cancel"
  /\ cancel' = (cancel \/ Active)
  /\ Finish(c)
  /\ UNCHANGED <<sessionVars, run, joinable, worker, stop, excused, faults, offers>>

\* The server has returned; ~LabSession calls StopWorkload.
Stop ==
  /\ stop = "no" /\ \A c \in Clients : client[c] = Idle
  /\ stop' = "stopping"
  /\ cancel' = TRUE
  /\ UNCHANGED <<sessionVars, run, joinable, worker, client, excused, faults, offers>>

StopJoins ==
  /\ stop = "stopping" /\ (joinable => worker.pc = "done")
  /\ stop' = "stopped"
  /\ joinable' = FALSE
  /\ UNCHANGED <<sessionVars, run, cancel, worker, client, excused, faults, offers>>

-----------------------------------------------------------------------------
(* RunWorkload *)

\* The reference map starts as a scan of the database.
InitialScan ==
  /\ worker.pc = "scan"
  /\ worker' = IF db = "open" THEN [worker EXCEPT !.pc = "gate", !.reference = store[path]]
               ELSE [worker EXCEPT !.pc = "unread"]
  /\ UNCHANGED <<sessionVars, run, cancel, joinable, client, stop, excused, faults, offers>>

ScanFailed ==
  /\ worker.pc = "unread"
  /\ run' = [run EXCEPT !.status = "failed", !.mismatch = TRUE]
  /\ worker' = [worker EXCEPT !.pc = "done"]
  /\ UNCHANGED <<sessionVars, cancel, joinable, client, stop, excused, faults, offers>>

Expected(kind) ==
  CASE kind = "put" -> "run" [] kind = "delete" -> "absent" [] OTHER -> worker.reference

\* A mutant: a paused workload waits for Resume only.
GatePausedOnly ==
  /\ worker.pc = "gate" /\ run.status # "paused"
  /\ IF cancel THEN worker' = [worker EXCEPT !.pc = "tail"]
     ELSE \E kind \in Kinds :
            worker' = [worker EXCEPT !.pc = "execute", !.kind = kind,
                                     !.reference = Expected(kind)]
  /\ UNCHANGED <<sessionVars, run, cancel, joinable, client, stop, excused, faults, offers>>

\* The top of the loop waits while the workload is paused, then draws an operation and
\* applies it to the reference map.
Gate ==
  /\ worker.pc = "gate" /\ (cancel \/ run.status # "paused")
  /\ IF cancel THEN worker' = [worker EXCEPT !.pc = "tail"]
     ELSE \E kind \in Kinds :
            worker' = [worker EXCEPT !.pc = "execute", !.kind = kind,
                                     !.reference = Expected(kind)]
  /\ UNCHANGED <<sessionVars, run, cancel, joinable, client, stop, excused, faults, offers>>

ReopenDue == ReopenEvery # 0 /\ (worker.op + 1) % ReopenEvery = 0

\* Execute for the workload, and its answer compared with the reference map.
ExecuteRun ==
  /\ worker.pc = "execute"
  /\ store' = IF db = "open" /\ worker.kind # "get"
              THEN [store EXCEPT ![path] = worker.reference] ELSE store
  /\ LET bad == db # "open" \/ store'[path] # worker.reference
     IN  worker' = [worker EXCEPT !.bad = bad, !.kind = "get",
                      !.pc = IF ~bad /\ ReopenDue THEN "reopen" ELSE "record"]
  /\ UNCHANGED <<db, path, run, cancel, joinable, client, stop, excused, faults, offers>>

\* ReopenForWorkload.
ReopenRun ==
  /\ worker.pc = "reopen"
  /\ OpenDatabase(path, TRUE)
  /\ worker' = [worker EXCEPT !.pc = "record", !.bad = faults' # faults]
  /\ Excuse(faults' # faults)
  /\ UNCHANGED <<store, run, cancel, joinable, client, stop, offers>>

Record ==
  /\ worker.pc = "record"
  /\ run' = [run EXCEPT !.completed = worker.op + 1, !.mismatch = worker.bad,
                        !.status = IF worker.bad THEN "failed" ELSE @]
  /\ worker' = [worker EXCEPT !.pc = IF worker.bad THEN "tail" ELSE "pace"]
  /\ UNCHANGED <<sessionVars, cancel, joinable, client, stop, excused, faults, offers>>

\* The wait between operations ends at its deadline, or earlier.
Pace ==
  /\ worker.pc = "pace"
  /\ worker' = IF cancel \/ worker.op + 1 = OperationCount
               THEN [worker EXCEPT !.pc = "tail"]
               ELSE [worker EXCEPT !.pc = "gate", !.op = @ + 1]
  /\ UNCHANGED <<sessionVars, run, cancel, joinable, client, stop, excused, faults, offers>>

\* A mutant: nothing is compared at the end.
AfterLoopSkips ==
  /\ worker.pc = "tail"
  /\ worker' = [worker EXCEPT !.pc = "finish", !.late_pause = run.status = "paused"]
  /\ UNCHANGED <<sessionVars, run, cancel, joinable, client, stop, excused, faults, offers>>

\* Whether the whole database is compared: not after a cancel, a mismatch, or when a
\* pause came during the last wait.
AfterLoop ==
  /\ worker.pc = "tail"
  /\ worker' = [worker EXCEPT !.late_pause = run.status = "paused",
       !.pc = IF ~cancel /\ run.status = "running" THEN "verify" ELSE "finish"]
  /\ UNCHANGED <<sessionVars, run, cancel, joinable, client, stop, excused, faults, offers>>

Verify ==
  /\ worker.pc = "verify"
  /\ worker' = IF db = "open" /\ store[path] = worker.reference
               THEN [worker EXCEPT !.pc = "finish", !.verified = TRUE]
               ELSE [worker EXCEPT !.pc = "differs"]
  /\ UNCHANGED <<sessionVars, run, cancel, joinable, client, stop, excused, faults, offers>>

Differs ==
  /\ worker.pc = "differs"
  /\ run' = [run EXCEPT !.status = "failed", !.mismatch = TRUE]
  /\ worker' = [worker EXCEPT !.pc = "finish"]
  /\ UNCHANGED <<sessionVars, cancel, joinable, client, stop, excused, faults, offers>>

FinishRun ==
  /\ worker.pc = "finish"
  /\ run' = [run EXCEPT !.status = IF Active THEN IF cancel THEN "cancelled" ELSE "completed"
                                   ELSE @]
  /\ worker' = [Asleep EXCEPT !.pc = "done", !.id = worker.id,
                  !.verified = worker.verified, !.late_pause = worker.late_pause]
  /\ UNCHANGED <<sessionVars, cancel, joinable, client, stop, excused, faults, offers>>

-----------------------------------------------------------------------------

Init ==
  /\ store = [p \in Paths |-> "absent"]
  /\ db = "none" /\ path = NoPath
  /\ run = NoRun
  /\ cancel = FALSE /\ joinable = FALSE /\ worker = Asleep
  /\ client = [c \in Clients |-> Idle]
  /\ stop = "no" /\ faults = 0
  /\ excused = [next |-> FALSE, now |-> FALSE]
  /\ offers \in Mixes

Request(c) ==
  \/ /\ "session" \in offers[c]
     /\ (\E p \in Paths : OpenAsk(c, p)) \/ CloseAsk(c) \/ ReopenAsk(c)
  \/ "execute" \in offers[c] /\ \E value \in Written : Execute(c, value)
  \/ "start" \in offers[c] /\ StartAsk(c)
  \/ /\ "control" \in offers[c]
     /\ \E what \in {"pause", "resume", "cancel"} : ControlAsk(c, what)

Handle(c) ==
  \/ Open(c) \/ Close(c) \/ Reopen(c)
  \/ Start(c) \/ Join(c) \/ JoinThrows(c) \/ LaunchJoined(c)
  \/ PauseWorkload(c) \/ ResumeWorkload(c) \/ CancelWorkload(c)

RunWorkload ==
  \/ InitialScan \/ ScanFailed \/ Gate \/ ExecuteRun \/ ReopenRun \/ Record \/ Pace
  \/ AfterLoop \/ Verify \/ Differs \/ FinishRun

-----------------------------------------------------------------------------
(* Properties *)

\* From its first scan to its end a workload is the only writer: whenever it is not inside
\* an operation the database and the reference map agree (Execute refuses direct writes
\* under mutex_), and no direct write, reopening, pause or cancel of a client fails a run
\* with a "deterministic reference-model mismatch" (lab_session.cpp:862).  A run is excused
\* when a session was opened or closed under it or the database failed.
WorkloadOwnsWrites ==
  ~excused.now =>
    /\ run.status # "failed"
    /\ worker.pc \in {"gate", "reopen", "record", "pace", "tail", "verify"} =>
         db = "open" /\ store[path] = worker.reference

\* The thread that runs belongs to the run workload_ shows, and while it runs it can be
\* joined: no ended run writes its outcome over that of the next (StartWorkload joins).
RunsOneAtATime ==
  /\ worker.pc \notin {"none", "done"} => worker.id = run.id /\ joinable
  /\ Active => worker.pc \notin {"none", "done"} /\ worker.id = run.id

\* A workload that ends completed was compared in full with the reference map, unless it
\* was paused when its loop ended (a cancel after the comparison ends it cancelled).
CompletedIsCompared == run.status = "completed" => worker.verified \/ worker.late_pause

\* A cancelled workload ends, paused or not, and the destructor of the session, which
\* cancels and joins it, returns.
CancelEnds ==
  /\ cancel /\ Active ~> ~Active
  /\ stop = "stopping" ~> stop = "stopped"
================================================================================
