------------------------------ MODULE LabProofs -------------------------------
(***************************************************************************)
(* The Lab for any number of clients, paths, operations, runs, faults and   *)
(* copies: the theorems and the inductive invariant they rest on.           *)
(***************************************************************************)
EXTENDS RecoveryLab, TLAPS

-----------------------------------------------------------------------------
(* The inductive invariant *)

Values == {"absent", "client", "run"}
RunStatuses == {"idle", "running", "paused", "failed", "completed", "cancelled"}
RunPCs == {"none", "scan", "unread", "gate", "execute", "reopen", "record", "pace", "tail",
           "verify", "differs", "finish", "done"}
ClientPCs == {"idle", "close", "reopen", "start", "join", "launch", "pause", "resume",
              "cancel"}
ClientStates == [at : ClientPCs] \cup [at : {"open"}, path : Paths]

SessionType ==
  /\ store \in [Paths -> Values] /\ db \in {"none", "open", "dead"}
  /\ path \in Paths \cup {NoPath} /\ (db # "none" => path \in Paths)
  /\ faults \in Nat

Runs == [id : Nat, status : RunStatuses, completed : Nat, mismatch : BOOLEAN]
Workers == [pc : RunPCs, id : Nat, op : Nat, kind : Kinds, reference : Values,
            bad : BOOLEAN, verified : BOOLEAN, late_pause : BOOLEAN]

RunType == run \in Runs /\ worker \in Workers /\ cancel \in BOOLEAN /\ joinable \in BOOLEAN

ClientType ==
  /\ client \in [Clients -> ClientStates] /\ stop \in {"no", "stopping", "stopped", "aborted"}
  /\ excused \in [next : BOOLEAN, now : BOOLEAN] /\ offers \in Mixes

LabType == SessionType /\ RunType /\ ClientType

Running == worker.pc \notin {"none", "done"}

\* The thread and the run it belongs to: a run is over when its thread is and not before, a
\* thread that runs can be joined, and a run about to end as completed was compared.
RunControl ==
  /\ Running => worker.id = run.id /\ joinable /\ run.status \in {"running", "paused", "failed"}
  /\ Active => Running
  /\ worker.pc = "finish" => worker.verified \/ worker.late_pause \/ cancel \/ ~Active
  /\ run.status = "completed" =>
       worker.pc = "done" /\ (worker.verified \/ worker.late_pause)

\* What a run that is not excused may rely on: the database it was started for is open, and
\* holds what the reference map says once the operation under way has been executed.
RunOwnsData ==
  /\ Running \/ (\E c \in Clients : Starting(c)) => path \in Paths
  /\ \A c \in Clients : Starting(c) /\ ~excused.next => db = "open"
  /\ ~excused.now =>
       /\ run.status # "failed" /\ worker.pc \notin {"unread", "differs"}
       /\ worker.pc \notin {"none", "done", "finish"} => db = "open"
       /\ worker.pc \in {"gate", "reopen", "record", "pace", "tail", "verify"} =>
            store[path] = worker.reference
       /\ worker.pc = "execute" /\ worker.kind = "get" => store[path] = worker.reference
       /\ worker.pc = "record" => ~worker.bad

Directories == {"none", "partial", "copy", "worker", "seeded", "prefix", "damaged", "restored"}

SandboxType ==
  /\ sandbox \in [Copies -> Directories]
  /\ runs \in Seq([id : Copies, scenario : Scenarios,
                   status : {"preview", "passed", "failed"}])
  /\ next_run_id \in Nat \ {0} /\ half_reset \in BOOLEAN

\* No two runs share a sandbox, and the next one has its own.
OwnSandboxes ==
  /\ \A i \in DOMAIN runs : runs[i].id < next_run_id
  /\ \A i, j \in DOMAIN runs : runs[i].id = runs[j].id => i = j

LabInv == LabType /\ RunControl /\ RunOwnsData
SandboxInv == SandboxType /\ OwnSandboxes /\ RunsMatchSandboxes
-----------------------------------------------------------------------------
(* The workload thread *)

\* What a step that touches only the thread and workload_ has to show.
LEMMA ThreadStep ==
  ASSUME LabInv, UNCHANGED <<store, db, path, faults>>, UNCHANGED <<client, stop, excused, offers>>,
         worker' \in Workers, run' \in Runs, cancel' \in BOOLEAN, joinable' \in BOOLEAN
  PROVE  LabType'
PROOF BY DEF LabInv, LabType, SessionType, RunType, ClientType

\* The scan makes the reference map equal to the database, or finds no open database.
LEMMA InitialScanKeeps ==
  ASSUME LabInv, InitialScan
  PROVE  LabInv'
PROOF
<1>1. CASE db = "open"
  <2>1. worker' = [worker EXCEPT !.pc = "gate", !.reference = store[path]]
    BY <1>1, Zenon DEF InitialScan
  <2>2. store[path] \in Values /\ "gate" \in RunPCs /\ worker \in Workers
    BY <1>1 DEF LabInv, LabType, SessionType, RunType, RunPCs
  <2>3. worker' \in Workers
    BY <2>1, <2>2, Zenon DEF Workers
  <2>4. LabType'
    BY <2>3, ThreadStep DEF InitialScan, sessionVars, LabInv, LabType, RunType
  <2> QED
    BY <1>1, <2>1, <2>4 DEF LabInv, LabType, RunType, Workers, RunControl, RunOwnsData, InitialScan,
                            sessionVars, Running, Starting, Active
<1>2. CASE db # "open"
  <2>1. worker' = [worker EXCEPT !.pc = "unread"]
    BY <1>2, Zenon DEF InitialScan
  <2>2. worker' \in Workers
    BY <2>1, Zenon DEF LabInv, LabType, RunType, RunPCs, Workers
  <2>4. LabType'
    BY <2>2, ThreadStep DEF InitialScan, sessionVars, LabInv, LabType, RunType
  <2> QED
    BY <1>2, <2>1, <2>4 DEF LabInv, LabType, RunType, Workers, RunControl, RunOwnsData, InitialScan,
                            sessionVars, Running, Starting, Active
<1> QED BY <1>1, <1>2

\* A failed scan ends the run; only an excused run gets there.
LEMMA ScanFailedKeeps ==
  ASSUME LabInv, ScanFailed
  PROVE  LabInv'
PROOF
<1>1. worker' \in Workers /\ run' \in Runs
  BY Zenon DEF ScanFailed, LabInv, LabType, RunType, Workers, RunPCs, Runs, RunStatuses
<1>2. LabType'
  BY <1>1, ThreadStep DEF ScanFailed, sessionVars, LabInv, LabType, RunType
<1> QED
  BY <1>2 DEF LabInv, LabType, RunType, Workers, Runs, RunControl, RunOwnsData, ScanFailed,
              sessionVars, Running, Starting, Active

\* The top of the loop: the reference map may run ahead of the database by one operation.
LEMMA GateKeeps ==
  ASSUME LabInv, Gate
  PROVE  LabInv'
PROOF
<1>1. PICK kind \in Kinds :
        worker' = IF cancel THEN [worker EXCEPT !.pc = "tail"]
                  ELSE [worker EXCEPT !.pc = "execute", !.kind = kind,
                                      !.reference = Expected(kind)]
  BY Zenon DEF Gate, Kinds
<1>2. /\ Expected(kind) \in Values
      /\ kind = "get" => Expected(kind) = worker.reference
  BY DEF LabInv, LabType, RunType, Workers, Expected, Values, Kinds
<1>3. worker' \in Workers
  BY <1>1, <1>2, Zenon DEF LabInv, LabType, RunType, Workers, RunPCs
<1>4. LabType'
  BY <1>3, ThreadStep, Zenon DEF Gate, sessionVars, LabInv, LabType, RunType
<1>5. /\ worker.pc = "gate" /\ worker'.id = worker.id
      /\ worker'.pc \in {"tail", "execute"}
      /\ worker'.pc = "tail" => worker'.reference = worker.reference
      /\ worker'.kind = "get" => worker'.reference = worker.reference
  BY <1>1, <1>2, Zenon DEF Gate, LabInv, LabType, RunType, Workers
<1> QED
  BY <1>4, <1>5, Zenon DEF LabInv, RunControl, RunOwnsData, Gate, sessionVars, Running, Starting, Active

\* The operation brings the database to the reference map again.
LEMMA ExecuteRunKeeps ==
  ASSUME LabInv, ExecuteRun
  PROVE  LabInv'
PROOF
<1> DEFINE bad == db # "open" \/ store'[path] # worker.reference
           p == IF ~bad /\ ReopenDue THEN "reopen" ELSE "record"
<1>1. worker' = [worker EXCEPT !.bad = bad, !.kind = "get", !.pc = p]
  BY Zenon DEF ExecuteRun
<1>2. bad \in BOOLEAN /\ p \in {"reopen", "record"}
  BY Zenon
<1> HIDE DEF bad, p
<1>3. worker' \in Workers
  BY <1>1, <1>2, Zenon DEF LabInv, LabType, RunType, Workers, RunPCs, Kinds
<1>4. store' \in [Paths -> Values] /\ path \in Paths /\ worker.pc = "execute"
  BY DEF ExecuteRun, LabInv, LabType, SessionType, RunType, Workers, RunOwnsData, Running
<1>5. SessionType' /\ RunType' /\ ClientType'
  BY <1>3, <1>4 DEF ExecuteRun, LabInv, LabType, SessionType, RunType, ClientType
<1>6. /\ worker'.pc = p /\ worker'.id = worker.id /\ worker'.reference = worker.reference
      /\ worker'.bad = bad
  BY <1>1 DEF LabInv, LabType, RunType, Workers
<1>7. ~excused.now => ~bad
  BY <1>4 DEF bad, ExecuteRun, LabInv, LabType, SessionType, RunType, Workers, RunOwnsData
<1>8. RunControl'
  BY <1>2, <1>4, <1>6 DEF LabInv, RunControl, ExecuteRun, Running, Starting, Active
<1>9. RunOwnsData'
  BY <1>2, <1>4, <1>6, <1>7, Zenon DEF LabInv, RunOwnsData, ExecuteRun, Running, Starting, Active, bad
<1> QED
  BY <1>5, <1>8, <1>9 DEF LabInv, LabType

\* What Open and Reopen leave of the session, whatever the outcomes.
LEMMA OpenDatabaseEffect ==
  ASSUME SessionType, NEW target \in Paths, NEW keeps \in BOOLEAN,
         OpenDatabase(target, keeps), store' = store
  PROVE  /\ SessionType'
         /\ path' \in {path, target} /\ (faults' = faults => db' = "open" /\ path' = target)
PROOF
<1>1. CASE /\ db # "none"
           /\ \E outcome \in CloseOutcomes \ {"ok"} : db' = outcome
           /\ Fault(TRUE) /\ UNCHANGED path
  BY <1>1 DEF SessionType, CloseOutcomes, Fault
<1>2. ASSUME NEW outcome \in OpenOutcomes, db' = outcome,
             path' = IF outcome = "open" \/ keeps THEN target ELSE path,
             Fault(outcome = "none")
      PROVE  /\ SessionType'
             /\ path' \in {path, target} /\ (faults' = faults => db' = "open" /\ path' = target)
  BY <1>2 DEF SessionType, OpenOutcomes, Fault
<1> QED
  BY <1>1, <1>2, Zenon DEF OpenDatabase

\* What the history variable records.
LEMMA ExcuseEffect ==
  ASSUME ClientType, NEW disturbed, Excuse(disturbed)
  PROVE  /\ excused' \in [next : BOOLEAN, now : BOOLEAN]
         /\ ~disturbed => excused' = excused
         /\ disturbed /\ Running => excused'.now
         /\ excused.now => excused'.now
         /\ disturbed /\ (\E c \in Clients : Starting(c)) => excused'.next
PROOF
<1>1. CASE ~disturbed
  BY <1>1 DEF ClientType, Excuse
<1>2. CASE disturbed
  <2>1. excused' = [next |-> \E c \in Clients : Starting(c), now |-> excused.now \/ Running]
    BY <1>2, Zenon DEF Excuse, Starting, Running
  <2>2. (\E c \in Clients : Starting(c)) \in BOOLEAN /\ (excused.now \/ Running) \in BOOLEAN
    BY Zenon
  <2>3. excused' \in [next : BOOLEAN, now : BOOLEAN]
    BY <2>1, <2>2, Zenon
  <2>4. /\ excused'.next = \E c \in Clients : Starting(c)
        /\ excused'.now = (excused.now \/ Running)
    BY <2>1
  <2> QED
    BY <1>2, <2>3, <2>4, Zenon
<1> QED
  BY <1>1, <1>2

\* Reopening keeps the data; a failure excuses the run.
LEMMA ReopenRunKeeps ==
  ASSUME LabInv, ReopenRun
  PROVE  LabInv'
PROOF
<1> DEFINE failed == faults' # faults
<1>1. worker' = [worker EXCEPT !.pc = "record", !.bad = failed] /\ worker.pc = "reopen"
  BY Zenon DEF ReopenRun
<1>2. failed \in BOOLEAN
  BY Zenon
<1>3. Excuse(failed) /\ OpenDatabase(path, TRUE) /\ store' = store
  BY Zenon DEF ReopenRun
<1> HIDE DEF failed
<1>4. path \in Paths /\ Running /\ SessionType /\ ClientType
  BY <1>1 DEF LabInv, LabType, RunOwnsData, Running
<1>5. SessionType' /\ path' = path /\ (~failed => db' = "open")
  BY <1>3, <1>4, OpenDatabaseEffect, Zenon DEF failed
<1>6. /\ excused' \in [next : BOOLEAN, now : BOOLEAN]
      /\ ~failed => excused' = excused
      /\ failed => excused'.now
      /\ failed /\ (\E c \in Clients : Starting(c)) => excused'.next
  <2>1. /\ excused' \in [next : BOOLEAN, now : BOOLEAN]
        /\ ~failed => excused' = excused
        /\ failed /\ Running => excused'.now
        /\ failed /\ (\E c \in Clients : Starting(c)) => excused'.next
    BY <1>3, <1>4, ExcuseEffect
  <2> QED
    BY <2>1, <1>4
<1>7. worker' \in Workers
  BY <1>1, <1>2, Zenon DEF LabInv, LabType, RunType, Workers, RunPCs
<1>8. RunType' /\ ClientType'
  BY <1>6, <1>7 DEF ReopenRun, LabInv, LabType, RunType, ClientType
<1>9. /\ worker'.pc = "record" /\ worker'.id = worker.id
      /\ worker'.reference = worker.reference /\ worker'.bad = failed
  BY <1>1 DEF LabInv, LabType, RunType, Workers
<1>10. RunControl'
  BY <1>1, <1>9 DEF LabInv, RunControl, ReopenRun, Running, Starting, Active
<1>11. RunOwnsData'
  BY <1>1, <1>4, <1>5, <1>6, <1>9 DEF LabInv, RunOwnsData, ReopenRun, Running, Starting, Active
<1> QED
  BY <1>5, <1>8, <1>10, <1>11 DEF LabInv, LabType

\* Only an excused run records a mismatch.
LEMMA RecordKeeps ==
  ASSUME LabInv, Record
  PROVE  LabInv'
PROOF
<1>1. worker.op + 1 \in Nat /\ worker.bad \in BOOLEAN
      /\ (IF worker.bad THEN "failed" ELSE run.status) \in RunStatuses
  BY DEF LabInv, LabType, RunType, Workers, Runs, RunStatuses
<1>2. worker' \in Workers /\ run' \in Runs
  BY <1>1, Zenon DEF Record, LabInv, LabType, RunType, Workers, RunPCs, Runs
<1>3. LabType'
  BY <1>2, ThreadStep DEF Record, sessionVars, LabInv, LabType, RunType
<1>4. /\ worker.pc = "record" /\ worker'.id = worker.id /\ worker'.reference = worker.reference
      /\ worker'.pc \in {"tail", "pace"}
      /\ run'.id = run.id /\ run'.status = IF worker.bad THEN "failed" ELSE run.status
  BY DEF Record, LabInv, LabType, RunType, Workers, Runs
<1> QED
  BY <1>3, <1>4 DEF LabInv, RunControl, RunOwnsData, Record, sessionVars, Running, Starting, Active

\* The wait between operations changes nothing but the thread.
LEMMA PaceKeeps ==
  ASSUME LabInv, Pace
  PROVE  LabInv'
PROOF
<1>1. worker.op + 1 \in Nat
  BY DEF LabInv, LabType, RunType, Workers
<1>2. worker' \in Workers
  BY <1>1, Zenon DEF Pace, LabInv, LabType, RunType, Workers, RunPCs
<1>3. LabType'
  BY <1>2, ThreadStep DEF Pace, sessionVars, LabInv, LabType, RunType
<1>4. /\ worker.pc = "pace" /\ worker'.id = worker.id /\ worker'.reference = worker.reference
      /\ worker'.pc \in {"tail", "gate"}
  BY DEF Pace, LabInv, LabType, RunType, Workers
<1> QED
  BY <1>3, <1>4 DEF LabInv, RunControl, RunOwnsData, Pace, sessionVars, Running, Starting, Active

\* The comparison is skipped for a cancelled, failed or paused run only.
LEMMA AfterLoopKeeps ==
  ASSUME LabInv, AfterLoop
  PROVE  LabInv'
PROOF
<1> DEFINE late == run.status = "paused"
           p == IF ~cancel /\ run.status = "running" THEN "verify" ELSE "finish"
<1>1. worker' = [worker EXCEPT !.late_pause = late, !.pc = p] /\ worker.pc = "tail"
  BY Zenon DEF AfterLoop
<1>2. late \in BOOLEAN /\ p \in {"verify", "finish"}
  BY Zenon
<1>3. p = "finish" => cancel \/ late \/ ~Active
  BY DEF Active, LabInv, LabType, RunType
<1> HIDE DEF late, p
<1>4. worker' \in Workers
  BY <1>1, <1>2, Zenon DEF LabInv, LabType, RunType, Workers, RunPCs
<1>5. LabType'
  BY <1>4, ThreadStep DEF AfterLoop, sessionVars, LabInv, LabType, RunType
<1>6. /\ worker'.pc = p /\ worker'.id = worker.id /\ worker'.reference = worker.reference
      /\ worker'.late_pause = late
  BY <1>1 DEF LabInv, LabType, RunType, Workers
<1> QED
  BY <1>1, <1>2, <1>3, <1>5, <1>6
     DEF LabInv, RunControl, RunOwnsData, AfterLoop, sessionVars, Running, Starting, Active

\* A run that is not excused finds no difference.
LEMMA VerifyKeeps ==
  ASSUME LabInv, Verify
  PROVE  LabInv'
PROOF
<1>1. worker' \in Workers
  BY Zenon DEF Verify, LabInv, LabType, RunType, Workers, RunPCs
<1>2. LabType'
  BY <1>1, ThreadStep DEF Verify, sessionVars, LabInv, LabType, RunType
<1>3. /\ worker.pc = "verify" /\ worker'.id = worker.id
      /\ \/ worker'.pc = "finish" /\ worker'.verified
         \/ worker'.pc = "differs" /\ ~(db = "open" /\ store[path] = worker.reference)
  BY DEF Verify, LabInv, LabType, RunType, Workers
<1> QED
  BY <1>2, <1>3 DEF LabInv, RunControl, RunOwnsData, Verify, sessionVars, Running, Starting, Active

\* A difference fails the run.
LEMMA DiffersKeeps ==
  ASSUME LabInv, Differs
  PROVE  LabInv'
PROOF
<1>1. worker' \in Workers /\ run' \in Runs
  BY Zenon DEF Differs, LabInv, LabType, RunType, Workers, RunPCs, Runs, RunStatuses
<1>2. LabType'
  BY <1>1, ThreadStep DEF Differs, sessionVars, LabInv, LabType, RunType
<1> QED
  BY <1>2 DEF LabInv, LabType, RunType, Workers, Runs, RunControl, RunOwnsData, Differs,
              sessionVars, Running, Starting, Active

\* FinishRun completes an active run that was not cancelled, and no other.
LEMMA FinishRunKeeps ==
  ASSUME LabInv, FinishRun
  PROVE  LabInv'
PROOF
<1> DEFINE s == IF Active THEN IF cancel THEN "cancelled" ELSE "completed" ELSE run.status
<1>1. s \in RunStatuses
  BY DEF LabInv, LabType, RunType, Runs, RunStatuses
<1>2. run' = [run EXCEPT !.status = s]
  BY DEF FinishRun
<1> HIDE DEF s
<1>3. Asleep \in Workers
  BY Zenon DEF Asleep, Workers, RunPCs, Kinds, Values
<1>4. worker' \in Workers /\ run' \in Runs
  BY <1>1, <1>2, <1>3, Zenon DEF FinishRun, LabInv, LabType, RunType, Workers, RunPCs, Runs
<1>5. LabType'
  BY <1>4, ThreadStep DEF FinishRun, sessionVars, LabInv, LabType, RunType
<1>6. /\ worker.pc = "finish" /\ worker'.pc = "done" /\ worker'.verified = worker.verified
      /\ worker'.late_pause = worker.late_pause /\ run'.status = s
  BY <1>2, <1>3 DEF FinishRun, LabInv, LabType, RunType, Workers, Runs
<1>7. s \notin {"running", "paused"} /\ (s = "failed" => run.status = "failed")
      /\ (s = "completed" => Active /\ ~cancel)
  BY <1>6 DEF s, LabInv, RunControl, Running, Active
<1> QED
  BY <1>5, <1>6, <1>7 DEF LabInv, RunControl, RunOwnsData, FinishRun, sessionVars, Running,
                          Starting, Active

-----------------------------------------------------------------------------
(* The HTTP threads *)

\* A request moves its own client only.
LEMMA ClientMoves ==
  ASSUME LabInv, NEW c \in Clients, NEW s \in ClientStates,
         client' = [client EXCEPT ![c] = s]
  PROVE  /\ client' \in [Clients -> ClientStates]
         /\ client'[c] = s
         /\ \A d \in Clients : d # c => client'[d] = client[d]
BY DEF LabInv, LabType, ClientType

\* The first half of Open, Close, Reopen and of the controls takes note of the request.
LEMMA AskKeeps ==
  ASSUME LabInv, NEW c \in Clients, NEW s \in ClientStates,
         s.at \notin {"start", "join", "launch"},
         client' = [client EXCEPT ![c] = s],
         UNCHANGED <<sessionVars, runVars, stop, excused, faults, offers>>
  PROVE  LabInv'
PROOF
<1>1. /\ client' \in [Clients -> ClientStates] /\ client'[c] = s
      /\ \A d \in Clients : d # c => client'[d] = client[d]
  BY ClientMoves, Zenon
<1>2. LabType'
  BY <1>1 DEF LabInv, LabType, SessionType, RunType, ClientType, sessionVars, runVars
<1>3. \A d \in Clients : Starting(d)' => Starting(d) /\ client'[d] = client[d]
  BY <1>1 DEF Starting
<1>4. RunControl'
  BY <1>1, <1>3 DEF LabInv, RunControl, runVars, Running, Starting, Active
<1>5. RunOwnsData'
  BY <1>1, <1>3 DEF LabInv, RunOwnsData, sessionVars, runVars, Running, Active
<1> QED
  BY <1>2, <1>4, <1>5 DEF LabInv

\* Opening another path, or failing to, excuses the run that goes on or is being started.
LEMMA OpenKeeps ==
  ASSUME LabInv, NEW c \in Clients, Open(c)
  PROVE  LabInv'
PROOF
<1> DEFINE target == client[c].path
           disturbed == path' # path \/ faults' # faults
<1>1. target \in Paths
  BY DEF Open, LabInv, LabType, ClientType, ClientStates, ClientPCs
<1>2. OpenDatabase(target, FALSE) /\ Excuse(disturbed) /\ store' = store
  BY Zenon DEF Open
<1>3. Idle \in ClientStates /\ Idle.at = "idle"
  BY DEF Idle, ClientStates, ClientPCs
<1>4. client' = [client EXCEPT ![c] = Idle]
  BY DEF Open, Finish, Goto
<1>5. /\ client' \in [Clients -> ClientStates] /\ client'[c] = Idle
      /\ \A d \in Clients : d # c => client'[d] = client[d]
  BY <1>3, <1>4, ClientMoves, Zenon
<1>6. SessionType /\ ClientType
  BY DEF LabInv, LabType
<1>7. disturbed \in BOOLEAN /\ (~disturbed => path' = path /\ faults' = faults)
  BY Zenon
<1> HIDE DEF target, disturbed
<1>8. /\ SessionType' /\ path' \in {path, target}
      /\ faults' = faults => db' = "open" /\ path' = target
  BY <1>1, <1>2, <1>6, OpenDatabaseEffect, Zenon
<1>9. /\ excused' \in [next : BOOLEAN, now : BOOLEAN]
      /\ ~disturbed => excused' = excused
      /\ disturbed /\ Running => excused'.now
      /\ excused.now => excused'.now
      /\ disturbed /\ (\E d \in Clients : Starting(d)) => excused'.next
  BY <1>2, <1>6, ExcuseEffect
<1>10. LabType'
  BY <1>5, <1>8, <1>9 DEF Open, LabInv, LabType, RunType, ClientType, runVars
<1>11. \A d \in Clients : Starting(d)' => Starting(d) /\ client'[d] = client[d]
  BY <1>3, <1>5 DEF Starting
<1>12. RunControl'
  BY <1>5, <1>11 DEF Open, LabInv, RunControl, runVars, Running, Starting, Active
<1>13. RunOwnsData'
  BY <1>1, <1>2, <1>7, <1>8, <1>9, <1>11
     DEF Open, LabInv, RunOwnsData, runVars, Running, Active
<1> QED
  BY <1>10, <1>12, <1>13 DEF LabInv

\* So does closing.
LEMMA CloseKeeps ==
  ASSUME LabInv, NEW c \in Clients, Close(c)
  PROVE  LabInv'
PROOF
<1> DEFINE disturbed == db # "none"
<1>1. Excuse(disturbed) /\ store' = store /\ path' = path
  BY DEF Close
<1>2. Idle \in ClientStates /\ Idle.at = "idle"
  BY DEF Idle, ClientStates, ClientPCs
<1>3. client' = [client EXCEPT ![c] = Idle]
  BY DEF Close, Finish, Goto
<1>4. /\ client' \in [Clients -> ClientStates] /\ client'[c] = Idle
      /\ \A d \in Clients : d # c => client'[d] = client[d]
  BY <1>2, <1>3, ClientMoves, Zenon
<1>5. SessionType /\ ClientType
  BY DEF LabInv, LabType
<1>6. /\ SessionType'
      /\ ~disturbed => db' = db
  BY <1>1, <1>5 DEF Close, SessionType, CloseOutcomes, Fault
<1>7. disturbed \in BOOLEAN /\ (~disturbed => db = "none")
  BY Zenon
<1> HIDE DEF disturbed
<1>8. /\ excused' \in [next : BOOLEAN, now : BOOLEAN]
      /\ ~disturbed => excused' = excused
      /\ disturbed /\ Running => excused'.now
      /\ excused.now => excused'.now
      /\ disturbed /\ (\E d \in Clients : Starting(d)) => excused'.next
  BY <1>1, <1>5, ExcuseEffect
<1>9. LabType'
  BY <1>4, <1>6, <1>8 DEF Close, LabInv, LabType, RunType, ClientType, runVars
<1>10. \A d \in Clients : Starting(d)' => Starting(d) /\ client'[d] = client[d]
  BY <1>2, <1>4 DEF Starting
<1>11. RunControl'
  BY <1>4, <1>10 DEF Close, LabInv, RunControl, runVars, Running, Starting, Active
<1>12. RunOwnsData'
  BY <1>1, <1>6, <1>7, <1>8, <1>10 DEF Close, LabInv, RunOwnsData, runVars, Running, Active
<1> QED
  BY <1>9, <1>11, <1>12 DEF LabInv

\* Reopening the same path does not.
LEMMA ReopenKeeps ==
  ASSUME LabInv, NEW c \in Clients, Reopen(c)
  PROVE  LabInv'
PROOF
<1>1. Idle \in ClientStates /\ Idle.at = "idle"
  BY DEF Idle, ClientStates, ClientPCs
<1>2. client' = [client EXCEPT ![c] = Idle]
  BY DEF Reopen, Finish, Goto
<1>3. CASE path = NoPath
  <2>1. UNCHANGED <<sessionVars, runVars, stop, excused, faults, offers>>
    BY <1>3 DEF Reopen
  <2> QED
    BY <1>1, <1>2, <2>1, AskKeeps, Zenon
<1>4. CASE path # NoPath
  <2> DEFINE disturbed == faults' # faults
  <2>1. OpenDatabase(path, TRUE) /\ Excuse(disturbed) /\ store' = store
    BY <1>4, Zenon DEF Reopen
  <2>2. /\ client' \in [Clients -> ClientStates] /\ client'[c] = Idle
        /\ \A d \in Clients : d # c => client'[d] = client[d]
    BY <1>1, <1>2, ClientMoves, Zenon
  <2>3. SessionType /\ ClientType /\ path \in Paths
    BY <1>4 DEF LabInv, LabType, SessionType
  <2>4. disturbed \in BOOLEAN /\ (~disturbed => faults' = faults)
    BY Zenon
  <2> HIDE DEF disturbed
  <2>5. /\ SessionType' /\ path' = path
        /\ faults' = faults => db' = "open"
    BY <2>1, <2>3, OpenDatabaseEffect, Zenon
  <2>6. /\ excused' \in [next : BOOLEAN, now : BOOLEAN]
        /\ ~disturbed => excused' = excused
        /\ disturbed /\ Running => excused'.now
        /\ excused.now => excused'.now
        /\ disturbed /\ (\E d \in Clients : Starting(d)) => excused'.next
    BY <2>1, <2>3, ExcuseEffect
  <2>7. LabType'
    BY <2>2, <2>5, <2>6 DEF Reopen, LabInv, LabType, RunType, ClientType, runVars
  <2>8. \A d \in Clients : Starting(d)' => Starting(d) /\ client'[d] = client[d]
    BY <1>1, <2>2 DEF Starting
  <2>9. RunControl'
    BY <2>2, <2>8 DEF Reopen, LabInv, RunControl, runVars, Running, Starting, Active
  <2>10. RunOwnsData'
    BY <2>1, <2>3, <2>4, <2>5, <2>6, <2>8
       DEF Reopen, LabInv, RunOwnsData, runVars, Running, Active
  <2> QED
    BY <2>7, <2>9, <2>10 DEF LabInv
<1> QED
  BY <1>3, <1>4

\* A direct write is made only while no run is active.
LEMMA ExecuteKeeps ==
  ASSUME LabInv, NEW c \in Clients, NEW value \in Written, Execute(c, value)
  PROVE  LabInv'
PROOF
<1>1. LabType'
  BY LabAssumption DEF Execute, LabInv, LabType, SessionType, RunType, ClientType, runVars, Values
<1> QED
  BY <1>1 DEF Execute, LabInv, RunControl, RunOwnsData, runVars, Running, Starting, Active

\* StartWorkload found a session.
LEMMA StartAskKeeps ==
  ASSUME LabInv, NEW c \in Clients, StartAsk(c)
  PROVE  LabInv'
PROOF
<1> DEFINE s == [at |-> "start"]
           closed == excused.next \/ db # "open"
<1>1. s \in ClientStates /\ s.at = "start"
  BY DEF ClientStates, ClientPCs
<1>2. client' = [client EXCEPT ![c] = s] /\ excused' = [excused EXCEPT !.next = closed]
  BY Zenon DEF StartAsk, Goto
<1>3. closed \in BOOLEAN /\ (~closed => db = "open" /\ ~excused.next)
  BY Zenon
<1> HIDE DEF s, closed
<1>4. /\ client' \in [Clients -> ClientStates] /\ client'[c] = s
      /\ \A d \in Clients : d # c => client'[d] = client[d]
  BY <1>1, <1>2, ClientMoves, Zenon
<1>5. excused' \in [next : BOOLEAN, now : BOOLEAN]
  BY <1>2, <1>3, Zenon DEF LabInv, LabType, ClientType
<1>6. excused'.next = closed /\ excused'.now = excused.now
  BY <1>2, Zenon DEF LabInv, LabType, ClientType
<1>7. LabType'
  BY <1>4, <1>5 DEF StartAsk, LabInv, LabType, SessionType, RunType, ClientType, sessionVars, runVars
<1>8. RunControl'
  BY <1>1, <1>4 DEF StartAsk, LabInv, RunControl, runVars, Running, Starting, Active
<1>9. path \in Paths
  BY DEF StartAsk, LabInv, LabType, SessionType
<1>10. RunOwnsData'
  BY <1>3, <1>6, <1>9 DEF StartAsk, LabInv, RunOwnsData, sessionVars, runVars, Running, Active
<1> QED
  BY <1>7, <1>8, <1>10 DEF LabInv

\* StartWorkload returns without a new run: the starters that are left rely on as much as
\* before.
LEMMA RefusedKeeps ==
  ASSUME LabInv, NEW c \in Clients, Refused(c), UNCHANGED <<sessionVars, stop, faults, offers>>
  PROVE  LabInv'
PROOF
<1>1. /\ client' = [client EXCEPT ![c] = Idle]
      /\ excused' = [excused EXCEPT !.next = NextExcuse(c)]
      /\ UNCHANGED runVars
  BY DEF Refused, Finish, Goto
<1>2. Idle \in ClientStates /\ Idle.at = "idle"
  BY DEF Idle, ClientStates, ClientPCs
<1>3. /\ client' \in [Clients -> ClientStates] /\ client'[c] = Idle
      /\ \A d \in Clients : d # c => client'[d] = client[d]
  BY <1>1, <1>2, ClientMoves, Zenon
<1>4. \A d \in Clients : Starting(d)' => Starting(d) /\ d # c
  BY <1>2, <1>3 DEF Starting
<1>5. NextExcuse(c) \in BOOLEAN
  BY Zenon DEF NextExcuse
<1>6. excused' \in [next : BOOLEAN, now : BOOLEAN]
  BY <1>1, <1>5, Zenon DEF LabInv, LabType, ClientType
<1>7. excused'.now = excused.now /\ excused'.next = NextExcuse(c)
  BY <1>1, Zenon DEF LabInv, LabType, ClientType
<1>8. \A d \in Clients : Starting(d)' /\ ~excused'.next => ~excused.next
  BY <1>4, <1>7, Zenon DEF NextExcuse
<1>9. LabType'
  BY <1>1, <1>3, <1>6 DEF LabInv, LabType, SessionType, RunType, ClientType, sessionVars, runVars
<1>10. RunControl'
  BY <1>1 DEF LabInv, RunControl, runVars, Running, Active
<1>11. RunOwnsData'
  BY <1>1, <1>4, <1>7, <1>8 DEF LabInv, RunOwnsData, sessionVars, runVars, Running
<1> QED
  BY <1>9, <1>10, <1>11 DEF LabInv

\* What StartWorkload sets under workload_mutex_ before the thread runs.
LEMMA LaunchKeeps ==
  ASSUME LabInv, NEW c \in Clients, Starting(c), Launch(c),
         client' = [client EXCEPT ![c] = Idle],
         UNCHANGED <<sessionVars, stop, faults, offers>>
  PROVE  LabInv'
PROOF
<1>1. Idle \in ClientStates /\ Idle.at = "idle"
  BY DEF Idle, ClientStates, ClientPCs
<1>2. /\ client' \in [Clients -> ClientStates] /\ client'[c] = Idle
      /\ \A d \in Clients : d # c => client'[d] = client[d]
  BY <1>1, ClientMoves, Zenon
<1>3. \A d \in Clients : Starting(d)' => Starting(d) /\ d # c
  BY <1>1, <1>2 DEF Starting
<1>4. run.id + 1 \in Nat /\ 0 \in Nat
  BY DEF LabInv, LabType, RunType, Runs
<1>5. /\ run' = [NoRun EXCEPT !.id = run.id + 1, !.status = "running"]
      /\ worker' = [Asleep EXCEPT !.pc = "scan", !.id = run.id + 1]
      /\ cancel' = FALSE /\ joinable' = TRUE
      /\ excused' = [next |-> NextExcuse(c), now |-> excused.next]
  BY DEF Launch
<1>6. Asleep \in Workers /\ NoRun \in Runs
  BY <1>4, Zenon DEF Asleep, NoRun, Workers, Runs, RunPCs, RunStatuses, Kinds, Values
<1>7. run' \in Runs
  BY <1>4, <1>5, <1>6, Zenon DEF Runs, RunStatuses
<1>8. worker' \in Workers
  BY <1>4, <1>5, <1>6, Zenon DEF Workers, RunPCs
<1>9. cancel' \in BOOLEAN /\ joinable' \in BOOLEAN /\ NextExcuse(c) \in BOOLEAN
  BY <1>5, Zenon DEF NextExcuse
<1>10. excused' \in [next : BOOLEAN, now : BOOLEAN]
  BY <1>5, <1>9, Zenon DEF LabInv, LabType, ClientType
<1>11. LabType'
  BY <1>2, <1>7, <1>8, <1>9, <1>10
     DEF LabInv, LabType, SessionType, RunType, ClientType, sessionVars
<1>12. /\ worker'.pc = "scan" /\ worker'.id = run'.id /\ run'.status = "running"
       /\ joinable' = TRUE
  BY <1>5 DEF Asleep, NoRun
<1>13. excused'.now = excused.next /\ excused'.next = NextExcuse(c)
  BY <1>5, Zenon
<1>14. RunControl'
  BY <1>12 DEF RunControl, Running, Active
<1>15. path \in Paths /\ (~excused.next => db = "open")
  BY DEF LabInv, RunOwnsData
<1>16. \A d \in Clients : Starting(d)' /\ ~excused'.next => ~excused.next
  BY <1>3, <1>13, Zenon DEF NextExcuse
<1>17. RunOwnsData'
  BY <1>12, <1>13, <1>15, <1>16, Zenon DEF RunOwnsData, sessionVars, Running
<1> QED
  BY <1>11, <1>14, <1>17 DEF LabInv

\* StartWorkload refuses, joins or launches.
LEMMA StartKeeps ==
  ASSUME LabInv, NEW c \in Clients, Start(c)
  PROVE  LabInv'
PROOF
<1>1. Starting(c)
  BY DEF Start, Starting
<1>2. CASE Active
  BY <1>2, RefusedKeeps, Zenon DEF Start
<1>3. CASE ~Active /\ joinable
  <2> DEFINE s == [at |-> "join"]
  <2>1. /\ client' = [client EXCEPT ![c] = s]
        /\ UNCHANGED <<sessionVars, runVars, stop, excused, faults, offers>>
    BY <1>3 DEF Start, Goto
  <2>2. s \in ClientStates /\ s.at = "join"
    BY DEF ClientStates, ClientPCs
  <2> HIDE DEF s
  <2>3. /\ client' \in [Clients -> ClientStates] /\ client'[c] = s
        /\ \A d \in Clients : d # c => client'[d] = client[d]
    BY <2>1, <2>2, ClientMoves, Zenon
  <2>4. \A d \in Clients : Starting(d)' => Starting(d)
    BY <1>1, <2>2, <2>3 DEF Starting
  <2>5. LabType'
    BY <2>1, <2>3 DEF LabInv, LabType, SessionType, RunType, ClientType, sessionVars, runVars
  <2>6. RunControl'
    BY <2>1 DEF LabInv, RunControl, runVars, Running, Active
  <2>7. RunOwnsData'
    BY <2>1, <2>4 DEF LabInv, RunOwnsData, sessionVars, runVars, Running
  <2> QED
    BY <2>5, <2>6, <2>7 DEF LabInv
<1>4. CASE ~Active /\ ~joinable
  <2>1. /\ Launch(c) /\ client' = [client EXCEPT ![c] = Idle]
        /\ UNCHANGED <<sessionVars, stop, faults, offers>>
    BY <1>4 DEF Start, Finish, Goto
  <2> QED
    BY <1>1, <2>1, LaunchKeeps, Zenon
<1> QED
  BY <1>2, <1>3, <1>4

\* After the join the thread is over.
LEMMA JoinKeeps ==
  ASSUME LabInv, NEW c \in Clients, Join(c)
  PROVE  LabInv'
PROOF
<1> DEFINE s == [at |-> "launch"]
<1>1. client' = [client EXCEPT ![c] = s] /\ joinable' = FALSE
  BY DEF Join, Goto
<1>2. s \in ClientStates /\ s.at = "launch"
  BY DEF ClientStates, ClientPCs
<1> HIDE DEF s
<1>3. /\ client' \in [Clients -> ClientStates] /\ client'[c] = s
      /\ \A d \in Clients : d # c => client'[d] = client[d]
  BY <1>1, <1>2, ClientMoves, Zenon
<1>4. joinable' \in BOOLEAN
  BY <1>1, Zenon
<1>5. \A d \in Clients : Starting(d)' => Starting(d)
  BY <1>2, <1>3 DEF Join, Starting
<1>6. LabType'
  BY <1>3, <1>4 DEF Join, LabInv, LabType, SessionType, RunType, ClientType, sessionVars
<1>7. RunControl'
  BY <1>1 DEF Join, LabInv, RunControl, Running, Active
<1>8. RunOwnsData'
  BY <1>5 DEF Join, LabInv, RunOwnsData, sessionVars, Running
<1> QED
  BY <1>6, <1>7, <1>8 DEF LabInv

\* std::terminate leaves no thread.
LEMMA TerminateKeeps ==
  ASSUME LabInv, Terminate, UNCHANGED <<sessionVars, faults, offers>>
  PROVE  LabInv'
PROOF
<1>1. 0 \in Nat
  OBVIOUS
<1>2. Asleep \in Workers /\ NoRun \in Runs /\ FALSE \in BOOLEAN
  BY <1>1, Zenon DEF Asleep, NoRun, Workers, Runs, RunPCs, RunStatuses, Kinds, Values
<1>3. RunType'
  BY <1>2, Zenon DEF Terminate, RunType
<1>4. ClientType'
  BY DEF Terminate, LabInv, LabType, ClientType, ClientStates, ClientPCs, Idle
<1>5. LabType'
  BY <1>3, <1>4 DEF LabInv, LabType, SessionType, sessionVars
<1>6. \A c \in Clients : ~Starting(c)'
  BY DEF Terminate, Starting, Idle
<1>7. /\ worker'.pc = "none" /\ run'.status = "idle"
      /\ excused' = excused
  BY DEF Terminate, Asleep, NoRun
<1>8. RunControl'
  BY <1>7 DEF RunControl, Running, Active
<1>9. RunOwnsData'
  BY <1>6, <1>7 DEF RunOwnsData, Running
<1> QED
  BY <1>5, <1>8, <1>9 DEF LabInv

\* The launch after the join takes no second look, but a thread that runs is joinable, so
\* either there is none or the process ends.
LEMMA LaunchJoinedKeeps ==
  ASSUME LabInv, NEW c \in Clients, LaunchJoined(c)
  PROVE  LabInv'
PROOF
<1>1. Starting(c)
  BY DEF LaunchJoined, Starting
<1>2. CASE Terminate
  BY <1>2, TerminateKeeps DEF LaunchJoined
<1>3. CASE Launch(c) /\ Finish(c) /\ UNCHANGED stop
  BY <1>1, <1>3, LaunchKeeps DEF LaunchJoined, Finish, Goto
<1> QED
  BY <1>2, <1>3 DEF LaunchJoined

\* Pause, resume and cancel change the status of a run or the flag.
LEMMA ControlKeeps ==
  ASSUME LabInv, NEW c \in Clients,
         PauseWorkload(c) \/ ResumeWorkload(c) \/ CancelWorkload(c)
  PROVE  LabInv'
PROOF
<1>1. Idle \in ClientStates /\ Idle.at = "idle"
  BY DEF Idle, ClientStates, ClientPCs
<1>2. client' = [client EXCEPT ![c] = Idle]
      /\ UNCHANGED <<sessionVars, joinable, worker, stop, excused, faults, offers>>
  BY DEF PauseWorkload, ResumeWorkload, CancelWorkload, Finish, Goto
<1>3. /\ client' \in [Clients -> ClientStates] /\ client'[c] = Idle
      /\ \A d \in Clients : d # c => client'[d] = client[d]
  BY <1>1, <1>2, ClientMoves, Zenon
<1>4. \A d \in Clients : Starting(d)' => Starting(d) /\ client'[d] = client[d]
  BY <1>1, <1>3 DEF Starting
<1>5. cancel' \in BOOLEAN /\ (cancel => cancel')
  BY Zenon DEF PauseWorkload, ResumeWorkload, CancelWorkload, LabInv, LabType, RunType
<1>6. /\ run' \in Runs /\ run'.id = run.id
      /\ run'.status # run.status => Active /\ Active'
  <2>1. CASE PauseWorkload(c)
    <3>1. run.status = "running" => run' = [run EXCEPT !.status = "paused"]
      BY <2>1 DEF PauseWorkload
    <3>2. run.status = "running" => run' \in Runs
      BY <3>1, Zenon DEF LabInv, LabType, RunType, Runs, RunStatuses
    <3> QED
      BY <2>1, <3>1, <3>2 DEF PauseWorkload, LabInv, LabType, RunType, Runs, Active
  <2>2. CASE ResumeWorkload(c)
    <3>1. run.status = "paused" => run' = [run EXCEPT !.status = "running"]
      BY <2>2 DEF ResumeWorkload
    <3>2. run.status = "paused" => run' \in Runs
      BY <3>1, Zenon DEF LabInv, LabType, RunType, Runs, RunStatuses
    <3> QED
      BY <2>2, <3>1, <3>2 DEF ResumeWorkload, LabInv, LabType, RunType, Runs, Active
  <2>3. CASE CancelWorkload(c)
    BY <2>3 DEF CancelWorkload, LabInv, LabType, RunType
  <2> QED
    BY <2>1, <2>2, <2>3
<1>7. LabType'
  BY <1>2, <1>3, <1>5, <1>6
     DEF LabInv, LabType, SessionType, RunType, ClientType, sessionVars
<1>8. RunControl'
  BY <1>2, <1>3, <1>4, <1>5, <1>6 DEF LabInv, RunControl, Running, Starting, Active
<1>9. RunOwnsData'
  BY <1>2, <1>4, <1>6 DEF LabInv, RunOwnsData, sessionVars, Running, Active
<1> QED
  BY <1>7, <1>8, <1>9 DEF LabInv

\* The destructor cancels the run.
LEMMA StopKeeps ==
  ASSUME LabInv, Stop
  PROVE  LabInv'
PROOF
<1>1. cancel' \in BOOLEAN /\ cancel' = TRUE
  BY Zenon DEF Stop
<1>2. LabType'
  BY <1>1 DEF Stop, LabInv, LabType, SessionType, RunType, ClientType, sessionVars
<1> QED
  BY <1>1, <1>2 DEF Stop, LabInv, RunControl, RunOwnsData, sessionVars, Running, Starting, Active

\* The destructor joins the thread.
LEMMA StopJoinsKeeps ==
  ASSUME LabInv, StopJoins
  PROVE  LabInv'
PROOF
<1>1. joinable' \in BOOLEAN /\ joinable' = FALSE
  BY Zenon DEF StopJoins
<1>2. LabType'
  BY <1>1 DEF StopJoins, LabInv, LabType, SessionType, RunType, ClientType, sessionVars
<1> QED
  BY <1>1, <1>2 DEF StopJoins, LabInv, RunControl, RunOwnsData, sessionVars, Running,
                    Starting, Active

\* The recovery experiments work on copies: they touch neither the session nor a run.
LEMMA RecoveryKeeps ==
  ASSUME LabInv, UNCHANGED <<sessionVars, runVars, client, stop, excused, offers>>,
         faults' \in Nat
  PROVE  LabInv'
PROOF
<1>1. LabType'
  BY DEF LabInv, LabType, SessionType, RunType, ClientType, sessionVars, runVars
<1> QED
  BY <1>1 DEF LabInv, RunControl, RunOwnsData, sessionVars, runVars, Running, Starting, Active

-----------------------------------------------------------------------------
(* The session and its workload *)

\* The first state satisfies both invariants.
LEMMA LabInitially ==
  ASSUME LabInit
  PROVE  LabInv /\ SandboxInv
PROOF
<1>1. SessionType
  BY DEF LabInit, Init, SessionType, Values
<1>2. Asleep \in Workers /\ FALSE \in BOOLEAN
  BY Zenon DEF Asleep, Workers, RunPCs, Kinds, Values
<1>3. run \in Runs
  <2>1. 0 \in Nat
    OBVIOUS
  <2> QED
    BY <2>1, Zenon DEF LabInit, Init, NoRun, Runs, RunStatuses
<1>4. RunType
  BY <1>2, <1>3, Zenon DEF LabInit, Init, RunType
<1>5. excused \in [next : BOOLEAN, now : BOOLEAN]
  BY Zenon DEF LabInit, Init
<1>6. ClientType
  BY <1>5 DEF LabInit, Init, ClientType, ClientStates, ClientPCs, Idle
<1>7. RunControl /\ RunOwnsData
  BY DEF LabInit, Init, RunControl, RunOwnsData, Running, Starting, Active, Asleep, NoRun, Idle
<1>8. SandboxInv
  <2>1. half_reset \in BOOLEAN
    BY Zenon DEF LabInit
  <2>2. SandboxType
    BY <2>1 DEF LabInit, SandboxType, Directories
  <2>3. OwnSandboxes /\ RunsMatchSandboxes
    BY DEF LabInit, OwnSandboxes, RunsMatchSandboxes
  <2> QED
    BY <2>2, <2>3 DEF SandboxInv
<1> QED
  BY <1>1, <1>4, <1>6, <1>7, <1>8 DEF LabInv, LabType

\* What a client asks for.
LEMMA RequestKeeps ==
  ASSUME LabInv, NEW c \in Clients, Request(c)
  PROVE  LabInv'
PROOF
<1>1. CASE \E p \in Paths : OpenAsk(c, p)
  <2>1. PICK p \in Paths : OpenAsk(c, p)
    BY <1>1
  <2> DEFINE s == [at |-> "open", path |-> p]
  <2>2. s \in ClientStates /\ s.at = "open"
    BY DEF ClientStates
  <2>3. /\ client' = [client EXCEPT ![c] = s]
        /\ UNCHANGED <<sessionVars, runVars, stop, excused, faults, offers>>
    BY <2>1 DEF OpenAsk, Goto
  <2> HIDE DEF s
  <2> QED
    BY <2>2, <2>3, AskKeeps, Zenon
<1>2. ASSUME NEW what \in {"close", "reopen", "pause", "resume", "cancel"},
             client' = [client EXCEPT ![c] = [at |-> what]],
             UNCHANGED <<sessionVars, runVars, stop, excused, faults, offers>>
      PROVE  LabInv'
  <2> DEFINE s == [at |-> what]
  <2>1. s \in ClientStates /\ s.at \notin {"start", "join", "launch"}
    BY DEF ClientStates, ClientPCs
  <2>2. client' = [client EXCEPT ![c] = s]
    BY <1>2
  <2> HIDE DEF s
  <2> QED
    BY <1>2, <2>1, <2>2, AskKeeps, Zenon
<1>3. CASE CloseAsk(c)
  BY <1>2, <1>3 DEF CloseAsk, Goto
<1>4. CASE ReopenAsk(c)
  BY <1>2, <1>4 DEF ReopenAsk, Goto
<1>5. CASE \E value \in Written : Execute(c, value)
  BY <1>5, ExecuteKeeps
<1>6. CASE "start" \in offers[c] /\ StartAsk(c)
  BY <1>6, StartAskKeeps
<1>7. CASE \E what \in {"pause", "resume", "cancel"} : ControlAsk(c, what)
  BY <1>2, <1>7, Zenon DEF ControlAsk, Goto
<1> QED
  BY <1>1, <1>3, <1>4, <1>5, <1>6, <1>7 DEF Request

\* Every step of the Lab keeps the invariant of the session and its workload.
LEMMA LabInvStep ==
  ASSUME LabInv, [Next]_labVars
  PROVE  LabInv'
PROOF
<1>1. CASE \E c \in Clients : Request(c)
  BY <1>1, RequestKeeps
<1>2. ASSUME NEW c \in Clients, Handle(c) PROVE LabInv'
  <2>1. CASE JoinThrows(c)
    BY <2>1, RefusedKeeps DEF JoinThrows
  <2> QED
    BY <1>2, <2>1, OpenKeeps, CloseKeeps, ReopenKeeps, StartKeeps, JoinKeeps,
       LaunchJoinedKeeps, ControlKeeps DEF Handle
<1>3. ASSUME NEW c \in Clients, Recovery(c) PROVE LabInv'
  <2>1. /\ UNCHANGED <<sessionVars, runVars, client, stop, excused, offers>>
        /\ faults' \in {faults, faults + 1}
    BY <1>3, Zenon DEF Recovery, Preview, CopyDatabaseToSandbox, Run, Reset, vars, sessionVars, runVars
  <2>2. faults' \in Nat
    BY <2>1 DEF LabInv, LabType, SessionType
  <2> QED
    BY <2>1, <2>2, RecoveryKeeps
<1>4. CASE RunWorkload
  BY <1>4, InitialScanKeeps, ScanFailedKeeps, GateKeeps, ExecuteRunKeeps, ReopenRunKeeps,
     RecordKeeps, PaceKeeps, AfterLoopKeeps, VerifyKeeps, DiffersKeeps, FinishRunKeeps
     DEF RunWorkload
<1>5. CASE Stop
  BY <1>5, StopKeeps
<1>6. CASE StopJoins
  BY <1>6, StopJoinsKeeps
<1>7. CASE UNCHANGED labVars
  <2>1. UNCHANGED <<sessionVars, runVars, client, stop, excused, offers>> /\ faults' \in Nat
    BY <1>7 DEF labVars, vars, sessionVars, runVars, LabInv, LabType, SessionType
  <2> QED
    BY <2>1, RecoveryKeeps
<1> QED
  BY <1>1, <1>2, <1>3, <1>4, <1>5, <1>6, <1>7 DEF Next, HandleLab, RunLab, StopLab, StopJoinsLab

\* The thread that runs belongs to the run GetWorkload shows, and can be joined, for any
\* number of clients that start workloads: StartWorkload joins the last thread before it
\* starts the next, a starter that comes too late to join is refused by join, and one that
\* comes too late to launch ends the process (lab_session.cpp).
THEOREM OneRunAtATime == Spec => []RunsOneAtATime
PROOF
<1>1. LabInit => LabInv
  BY LabInitially
<1>2. LabInv /\ [Next]_labVars => LabInv'
  BY LabInvStep
<1>3. LabInv => RunsOneAtATime
  BY DEF LabInv, RunControl, RunsOneAtATime, Running
<1> QED
  BY <1>1, <1>2, <1>3, PTL DEF Spec

\* A workload that ends as completed was compared in full with its reference map, unless it
\* was paused when its loop ended (RunWorkload).
THEOREM CompletedWasCompared == Spec => []CompletedIsCompared
PROOF
<1>1. LabInit => LabInv
  BY LabInitially
<1>2. LabInv /\ [Next]_labVars => LabInv'
  BY LabInvStep
<1>3. LabInv => CompletedIsCompared
  BY DEF LabInv, RunControl, CompletedIsCompared
<1> QED
  BY <1>1, <1>2, <1>3, PTL DEF Spec

\* From its scan to its end a workload whose session was neither moved nor closed is the only
\* writer of its database, and no direct write fails it with a mismatch: Execute asks
\* IsWorkloadActive under mutex_, RunWorkload scans under it.
THEOREM WorkloadIsOnlyWriter == Spec => []WorkloadOwnsWrites
PROOF
<1>1. LabInit => LabInv
  BY LabInitially
<1>2. LabInv /\ [Next]_labVars => LabInv'
  BY LabInvStep
<1>3. LabInv => WorkloadOwnsWrites
  BY DEF LabInv, RunOwnsData, WorkloadOwnsWrites
<1> QED
  BY <1>1, <1>2, <1>3, PTL DEF Spec

-----------------------------------------------------------------------------
(* The recovery experiments *)

\* An experiment on a copy, or on what is left of one, has a verdict that describes what it
\* leaves, or leaves it as it was.
LEMMA ExperimentResult ==
  ASSUME NEW scenario \in Scenarios, NEW copy \in {"partial", "copy"},
         NEW result \in Experiment(scenario, copy)
  PROVE  /\ result[1] \in Directories /\ result[2] \in {"passed", "failed"}
         /\ \/ result[1] = "partial" /\ copy = "partial"
            \/ result[1] \notin {"none", "partial"} /\ Describes(result[2], scenario, result[1])
PROOF
<1>1. CASE scenario = "unclean"
  <2>1. Experiment(scenario, copy) = Unclean(copy)
    BY <1>1 DEF Experiment
  <2>2. Shown(scenario) = "worker" /\ Leaves(scenario) = {"copy", "worker"}
    BY <1>1 DEF Shown, Leaves
  <2>3. \/ result = <<copy, "failed">> \/ result = <<"worker", "failed">>
        \/ result = <<"worker", "passed">>
    BY <2>1, Zenon DEF Unclean
  <2> QED
    BY <2>2, <2>3 DEF Directories, Describes
<1>2. CASE scenario = "truncated"
  <2>1. Experiment(scenario, copy) = Truncated(copy)
    BY <1>2 DEF Experiment
  <2>2. Shown(scenario) = "prefix" /\ Leaves(scenario) = {"copy", "seeded", "prefix"}
    BY <1>2 DEF Shown, Leaves
  <2>3. \/ result = <<copy, "failed">> \/ result = <<"seeded", "failed">>
        \/ result = <<"prefix", "failed">> \/ result = <<"prefix", "passed">>
    BY <2>1, Zenon DEF Truncated
  <2> QED
    BY <2>2, <2>3 DEF Directories, Describes
<1>3. CASE scenario = "crc"
  <2>1. Experiment(scenario, copy) = Corrupted(copy)
    BY <1>3 DEF Experiment
  <2>2. Shown(scenario) = "damaged" /\ Leaves(scenario) = {"copy", "damaged"}
    BY <1>3 DEF Shown, Leaves
  <2>3. copy # "damaged"
    OBVIOUS
  <2>4. \/ result = <<copy, "failed">> \/ result = <<"damaged", "failed">>
        \/ result = <<"damaged", "passed">>
    BY <2>1, <2>3, Zenon DEF Corrupted
  <2> QED
    BY <2>2, <2>4 DEF Directories, Describes
<1> QED
  BY <1>1, <1>2, <1>3, RecoveryAssumption

\* A run names a directory and a scenario.
LEMMA RunRecord ==
  ASSUME SandboxType, NEW i \in DOMAIN runs
  PROVE  /\ runs[i] \in [id : Copies, scenario : Scenarios,
                         status : {"preview", "passed", "failed"}]
         /\ runs[i].id \in Copies /\ runs[i].scenario \in Scenarios
         /\ i \in 1 .. Len(runs)
PROOF
<1> DEFINE S == [id : Copies, scenario : Scenarios, status : {"preview", "passed", "failed"}]
<1>1. runs \in Seq(S)
  BY DEF SandboxType
<1> HIDE DEF S
<1>2. runs[i] \in S /\ i \in 1 .. Len(runs)
  BY <1>1
<1> QED
  BY <1>2 DEF S

\* A preview has a directory of its own.
LEMMA PreviewKeeps ==
  ASSUME SandboxInv, NEW c \in Clients, NEW scenario \in Scenarios, Preview(c, scenario)
  PROVE  SandboxInv'
PROOF
<1>1. CASE UNCHANGED <<runs, next_run_id>>
  <2>1. /\ next_run_id \in Copies /\ half_reset' = half_reset
        /\ sandbox' = [sandbox EXCEPT ![next_run_id] = "partial"]
    BY <1>1 DEF Preview, CopyDatabaseToSandbox, SandboxInv, SandboxType
  <2>2. /\ SandboxType' /\ OwnSandboxes'
        /\ \A i \in Copies : i # next_run_id => sandbox'[i] = sandbox[i]
        /\ sandbox'[next_run_id] = "partial"
    BY <1>1, <2>1 DEF SandboxInv, SandboxType, OwnSandboxes, Directories
  <2>3. \A i \in DOMAIN runs : runs[i].id \in Copies /\ runs[i].id # next_run_id
    BY <2>1, RunRecord DEF SandboxInv, OwnSandboxes, Copies
  <2>4. RunsMatchSandboxes'
    BY <1>1, <2>1, <2>2, <2>3 DEF SandboxInv, RunsMatchSandboxes
  <2> QED
    BY <2>2, <2>4 DEF SandboxInv
<1>2. ASSUME sandbox' = [sandbox EXCEPT ![next_run_id] = "copy"],
             runs' = Append(runs, [id |-> next_run_id, scenario |-> scenario,
                                   status |-> "preview"]),
             next_run_id' = next_run_id + 1
      PROVE  SandboxInv'
  <2> DEFINE new == [id |-> next_run_id, scenario |-> scenario, status |-> "preview"]
             S == [id : Copies, scenario : Scenarios, status : {"preview", "passed", "failed"}]
  <2>1. next_run_id \in Copies /\ half_reset' = half_reset
    BY DEF Preview
  <2>2. new \in S /\ runs \in Seq(S)
    BY <2>1 DEF SandboxInv, SandboxType
  <2>3. /\ new.id = next_run_id /\ new.scenario = scenario /\ new.status = "preview"
        /\ runs' = Append(runs, new)
    BY <1>2
  <2> HIDE DEF new, S
  <2>4. /\ runs' \in Seq(S) /\ DOMAIN runs' = DOMAIN runs \cup {Len(runs) + 1}
        /\ \A i \in DOMAIN runs : runs'[i] = runs[i]
        /\ runs'[Len(runs) + 1] = new /\ Len(runs) + 1 \notin DOMAIN runs
    BY <2>2, <2>3
  <2>5. /\ sandbox' \in [Copies -> Directories]
        /\ \A i \in Copies : i # next_run_id => sandbox'[i] = sandbox[i]
        /\ sandbox'[next_run_id] = "copy"
    BY <1>2, <2>1 DEF SandboxInv, SandboxType, Directories
  <2>6. SandboxType'
    BY <1>2, <2>1, <2>4, <2>5 DEF SandboxInv, SandboxType, S
  <2>7. /\ \A i \in DOMAIN runs : runs[i].id \in Copies /\ runs[i].id < next_run_id
        /\ next_run_id \in Nat /\ Copies \subseteq Nat
    BY RunRecord DEF SandboxInv, OwnSandboxes, SandboxType, Copies
  <2>8. ASSUME NEW i \in DOMAIN runs
        PROVE  runs'[i].id # next_run_id /\ runs'[i].id < next_run_id + 1
    <3>1. runs'[i].id = runs[i].id /\ runs[i].id \in Nat /\ runs[i].id < next_run_id
      BY <2>4, <2>7, Zenon
    <3> QED
      BY <2>7, <3>1
  <2>9. OwnSandboxes'
    <3>1. \A i \in DOMAIN runs' : runs'[i].id < next_run_id'
      <4>1. next_run_id' = next_run_id + 1 /\ next_run_id < next_run_id'
        BY <1>2, <2>7
      <4>2. \A i \in DOMAIN runs : runs'[i].id < next_run_id'
        BY <2>8, <4>1, Zenon
      <4>3. runs'[Len(runs) + 1].id < next_run_id'
        BY <2>3, <2>4, <4>1, Zenon
      <4>4. DOMAIN runs' = DOMAIN runs \cup {Len(runs) + 1}
        BY <2>4, Zenon
      <4> QED
        BY <4>2, <4>3, <4>4, Zenon
    <3>2. ASSUME NEW i \in DOMAIN runs', NEW j \in DOMAIN runs', runs'[i].id = runs'[j].id
          PROVE  i = j
      <4>1. CASE i \in DOMAIN runs /\ j \in DOMAIN runs
        BY <2>4, <3>2, <4>1 DEF SandboxInv, OwnSandboxes
      <4>2. CASE i \notin DOMAIN runs \/ j \notin DOMAIN runs
        BY <2>3, <2>4, <2>8, <3>2, <4>2
      <4> QED
        BY <4>1, <4>2
    <3> QED
      BY <3>1, <3>2 DEF OwnSandboxes
  <2>10. \A i \in DOMAIN runs : sandbox'[runs'[i].id] = sandbox[runs[i].id]
    BY <2>4, <2>5, <2>7, <2>8, Zenon
  <2>11. \A i \in Copies : i >= next_run_id' => sandbox'[i] = sandbox[i] /\ i >= next_run_id
    <3>1. next_run_id' = next_run_id + 1
      BY <1>2
    <3>2. \A i \in Nat : i >= next_run_id + 1 => i >= next_run_id /\ i # next_run_id
      BY <2>7
    <3> QED
      BY <2>5, <2>7, <3>1, <3>2
  <2>12. \A i \in Copies : i >= next_run_id' => sandbox'[i] \in {"none", "partial"}
    BY <2>11 DEF SandboxInv, RunsMatchSandboxes
  <2>13. ASSUME NEW i \in DOMAIN runs'
         PROVE  IF sandbox'[runs'[i].id] \in {"none", "partial"} THEN half_reset'
                ELSE Describes(runs'[i].status, runs'[i].scenario, sandbox'[runs'[i].id])
    <3>1. CASE i \in DOMAIN runs
      BY <2>1, <2>4, <2>10, <3>1, Zenon DEF SandboxInv, RunsMatchSandboxes
    <3>2. CASE i = Len(runs) + 1
      BY <2>3, <2>4, <2>5, <3>2 DEF Describes
    <3> QED
      BY <2>4, <3>1, <3>2
  <2>14. RunsMatchSandboxes'
    BY <2>12, <2>13, Zenon DEF RunsMatchSandboxes
  <2> QED
    BY <2>6, <2>9, <2>14 DEF SandboxInv
<1> QED
  BY <1>1, <1>2 DEF Preview, CopyDatabaseToSandbox

\* An experiment changes the sandbox and the verdict of one preview.
LEMMA RunKeeps ==
  ASSUME SandboxInv, NEW c \in Clients, NEW i \in Copies, Run(c, i)
  PROVE  SandboxInv'
PROOF
<1> DEFINE S == [id : Copies, scenario : Scenarios, status : {"preview", "passed", "failed"}]
<1>1. /\ i \in DOMAIN runs /\ runs[i].status = "preview" /\ runs \in Seq(S)
      /\ runs[i] \in S /\ sandbox \in [Copies -> Directories]
      /\ next_run_id' = next_run_id /\ half_reset' = half_reset
  BY RunRecord DEF Run, SandboxInv, SandboxType
<1>2. PICK result \in Experiment(runs[i].scenario, sandbox[runs[i].id]) :
        /\ sandbox' = [sandbox EXCEPT ![runs[i].id] = result[1]]
        /\ runs' = [runs EXCEPT ![i].status = result[2]]
  BY Zenon DEF Run
<1>3. runs[i].id \in Copies /\ runs[i].scenario \in Scenarios
  BY <1>1
<1> DEFINE copy == sandbox[runs[i].id]
           scenario == runs[i].scenario
<1>4. copy = "copy" \/ (copy = "partial" /\ half_reset)
  <2>1. IF copy \in {"none", "partial"} THEN half_reset ELSE Describes("preview", scenario, copy)
    BY <1>1, Zenon DEF SandboxInv, RunsMatchSandboxes
  <2>2. copy # "none"
    BY DEF Run
  <2> QED
    BY <2>1, <2>2 DEF Describes
<1>5. /\ result[1] \in Directories /\ result[2] \in {"passed", "failed"}
      /\ \/ result[1] = "partial" /\ copy = "partial"
         \/ result[1] \notin {"none", "partial"} /\ Describes(result[2], scenario, result[1])
  BY <1>3, <1>4, ExperimentResult
<1>6. /\ sandbox' \in [Copies -> Directories] /\ sandbox'[runs[i].id] = result[1]
      /\ \A j \in Copies : j # runs[i].id => sandbox'[j] = sandbox[j]
  BY <1>1, <1>2, <1>3, <1>5
<1>7. /\ runs' \in Seq(S) /\ DOMAIN runs' = DOMAIN runs
      /\ runs'[i].status = result[2]
      /\ \A j \in DOMAIN runs : /\ runs'[j].id = runs[j].id /\ runs'[j].scenario = runs[j].scenario
                                /\ j # i => runs'[j] = runs[j]
  <2> DEFINE R == [runs[i] EXCEPT !.status = result[2]]
  <2>1. R \in S /\ R.id = runs[i].id /\ R.scenario = runs[i].scenario /\ R.status = result[2]
    BY <1>1, <1>5
  <2>2. runs' = [runs EXCEPT ![i] = R]
    BY <1>1, <1>2
  <2> HIDE DEF R, S
  <2>3. /\ runs' \in Seq(S) /\ DOMAIN runs' = DOMAIN runs /\ runs'[i] = R
        /\ \A j \in DOMAIN runs : j # i => runs'[j] = runs[j]
    BY <1>1, <2>1, <2>2
  <2> QED
    BY <2>1, <2>3, Zenon
<1>8. SandboxType'
  BY <1>1, <1>6, <1>7 DEF SandboxInv, SandboxType
<1>9. OwnSandboxes'
  BY <1>1, <1>7, Zenon DEF SandboxInv, OwnSandboxes
<1>10. \A j \in DOMAIN runs : j # i => runs[j].id # runs[i].id /\ runs[j].id \in Copies
  BY <1>1, RunRecord, Zenon DEF SandboxInv, OwnSandboxes
<1>11. ASSUME NEW j \in Copies, j >= next_run_id'
       PROVE  sandbox'[j] \in {"none", "partial"}
  BY <1>1, <1>3, <1>6, <1>11 DEF SandboxInv, OwnSandboxes, RunsMatchSandboxes, SandboxType, Copies
<1>12. ASSUME NEW j \in DOMAIN runs'
       PROVE  IF sandbox'[runs'[j].id] \in {"none", "partial"} THEN half_reset'
              ELSE Describes(runs'[j].status, runs'[j].scenario, sandbox'[runs'[j].id])
  <2>1. CASE j = i
    BY <1>1, <1>4, <1>5, <1>6, <1>7, <2>1
  <2>2. CASE j # i
    <3>1. j \in DOMAIN runs /\ runs'[j] = runs[j] /\ sandbox'[runs[j].id] = sandbox[runs[j].id]
      BY <1>6, <1>7, <1>10, <2>2, Zenon
    <3> QED
      BY <1>1, <3>1, Zenon DEF SandboxInv, RunsMatchSandboxes
  <2> QED
    BY <2>1, <2>2
<1>13. RunsMatchSandboxes'
  BY <1>11, <1>12, Zenon DEF RunsMatchSandboxes
<1> QED
  BY <1>8, <1>9, <1>13 DEF SandboxInv

\* Reset drops runs and sandboxes together, or says it failed half way.
LEMMA ResetKeeps ==
  ASSUME SandboxInv, NEW c \in Clients, Reset(c)
  PROVE  SandboxInv'
PROOF
<1>1. half_reset' \in BOOLEAN /\ next_run_id' = next_run_id
  BY Zenon DEF Reset, SandboxInv, SandboxType
<1>2. /\ \/ runs' = <<>>
         \/ runs' = runs /\ half_reset' = TRUE
      /\ \A i \in Copies : sandbox'[i] \in {"none", "partial", sandbox[i]}
      /\ sandbox' \in [Copies -> Directories]
  BY DEF Reset, SandboxInv, SandboxType, Directories
<1> DEFINE S == [id : Copies, scenario : Scenarios, status : {"preview", "passed", "failed"}]
<1>3. runs' \in Seq(S)
  <2>1. runs \in Seq(S)
    BY DEF SandboxInv, SandboxType
  <2> HIDE DEF S
  <2>2. <<>> \in Seq(S)
    OBVIOUS
  <2>3. runs' = <<>> \/ runs' = runs
    BY <1>2
  <2> QED
    BY <2>1, <2>2, <2>3, Zenon
<1>4. SandboxType'
  BY <1>1, <1>2, <1>3 DEF SandboxInv, SandboxType
<1>5. \A i \in Copies : i >= next_run_id' => sandbox'[i] \in {"none", "partial"}
  BY <1>1, <1>2 DEF SandboxInv, RunsMatchSandboxes
<1>6. CASE runs' = <<>>
  BY <1>1, <1>4, <1>5, <1>6 DEF SandboxInv, OwnSandboxes, RunsMatchSandboxes
<1>7. CASE runs' = runs /\ half_reset' = TRUE
  <2>1. OwnSandboxes'
    BY <1>1, <1>7, Zenon DEF SandboxInv, OwnSandboxes
  <2>2. ASSUME NEW i \in DOMAIN runs, sandbox'[runs[i].id] \notin {"none", "partial"}
        PROVE  Describes(runs[i].status, runs[i].scenario, sandbox'[runs[i].id])
    <3>1. runs[i].id \in Copies
      BY RunRecord DEF SandboxInv
    <3>2. sandbox'[runs[i].id] = sandbox[runs[i].id]
      BY <1>2, <2>2, <3>1, Zenon
    <3> QED
      BY <2>2, <3>2, Zenon DEF SandboxInv, RunsMatchSandboxes
  <2>3. RunsMatchSandboxes'
    BY <1>5, <1>7, <2>2, Zenon DEF RunsMatchSandboxes
  <2> QED
    BY <1>4, <2>1, <2>3 DEF SandboxInv
<1> QED
  BY <1>2, <1>6, <1>7

\* Every step of the Lab keeps the invariant of the sandboxes.
LEMMA SandboxInvStep ==
  ASSUME SandboxInv, [Next]_labVars
  PROVE  SandboxInv'
PROOF
<1>1. CASE UNCHANGED recoveryVars
  BY <1>1 DEF recoveryVars, SandboxInv, SandboxType, OwnSandboxes, RunsMatchSandboxes
<1>2. ASSUME NEW c \in Clients, Recovery(c) PROVE SandboxInv'
  BY <1>2, PreviewKeeps, RunKeeps, ResetKeeps DEF Recovery
<1>3. CASE StopLab
  <2>1. /\ sandbox' = [i \in Copies |-> "none"] /\ runs' = <<>>
        /\ next_run_id' = next_run_id /\ half_reset' = half_reset
    BY <1>3 DEF StopLab
  <2>2. SandboxType'
    BY <2>1 DEF SandboxInv, SandboxType, Directories
  <2> QED
    BY <2>1, <2>2 DEF SandboxInv, OwnSandboxes, RunsMatchSandboxes
<1> QED
  BY <1>1, <1>2, <1>3 DEF Next, HandleLab, RunLab, StopJoinsLab, labVars

\* The status of a run describes its sandbox, whatever fails during an experiment, a Preview
\* or a Reset, and however often experiments are asked for: RecoveryLab::Run refuses a second
\* run, which would undo the damage; Preview reuses no id; Reset drops the runs with their
\* sandboxes, and when it fails half way takes files away but changes no sandbox otherwise.
THEOREM SandboxesMatchRuns == Spec => []RunsMatchSandboxes
PROOF
<1>1. LabInit => SandboxInv
  BY LabInitially
<1>2. SandboxInv /\ [Next]_labVars => SandboxInv'
  BY SandboxInvStep
<1>3. SandboxInv => RunsMatchSandboxes
  BY DEF SandboxInv
<1> QED
  BY <1>1, <1>2, <1>3, PTL DEF Spec
===============================================================================
