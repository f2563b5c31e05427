------------------------------ MODULE RecoveryLab -----------------------------
(***************************************************************************)
(* The Lab: the session and its workload, with the recovery experiments     *)
(* that copy the session's database to a sandbox and damage the copy.       *)
(* Every operation of RecoveryLab holds its mutex_ throughout and is one    *)
(* action.  A sandbox is absent, partial (a failed Preview or Reset leaves  *)
(* some of its files), a copy, or what an experiment made of it.  The copy  *)
(* is taken while the engine's worker runs, and its files may be of two     *)
(* moments: like a partial one it may or may not open, so an experiment on  *)
(* either may end before it has changed anything.                           *)
(***************************************************************************)
EXTENDS LabSession, Sequences

CONSTANTS
  Scenarios,  \* a subset of {"unclean", "truncated", "crc"}
  MaxCopies   \* bound: previews

ASSUME RecoveryAssumption ==
  Scenarios \subseteq {"unclean", "truncated", "crc"} /\ MaxCopies \in Nat

VARIABLES
  sandbox,      \* sandbox[i]: the directory run-i
  runs,         \* runs_
  next_run_id,  \* next_run_id_
  half_reset    \* history: a Reset failed half way

recoveryVars == <<sandbox, runs, next_run_id, half_reset>>
labVars == <<vars, recoveryVars>>

Copies == 1 .. MaxCopies

\* CopyDatabaseToSandbox: all files of an open session's database, or some when it fails.
CopyDatabaseToSandbox(i, copied) ==
  /\ db # "none"
  /\ \/ copied = "copy" /\ UNCHANGED faults
     \/ copied = "partial" /\ faults < MaxFaults /\ faults' = faults + 1
  /\ sandbox' = [sandbox EXCEPT ![i] = copied]

\* Preview: CreateSandbox refuses an existing directory; a failed copy leaves one behind
\* and does not use up the id.
Preview(c, scenario) ==
  /\ Serving(c)
  /\ next_run_id \in Copies /\ sandbox[next_run_id] = "none"
  /\ \/ /\ CopyDatabaseToSandbox(next_run_id, "copy")
        /\ runs' = Append(runs, [id |-> next_run_id, scenario |-> scenario,
                                 status |-> "preview"])
        /\ next_run_id' = next_run_id + 1
     \/ /\ CopyDatabaseToSandbox(next_run_id, "partial")
        /\ UNCHANGED <<runs, next_run_id>>
  /\ UNCHANGED <<sessionVars, runVars, client, stop, excused, offers, half_reset>>

\* What the three experiments make of a sandbox, with their verdict: each step may fail,
\* before or after the sandbox has changed.  A worker process writes a record and exits
\* without Close; the sandbox is recovered and the record read.
Unclean(copy) ==
  {<<copy, "failed">>, <<"worker", "failed">>, <<"worker", "passed">>}

\* Two records are written, the last byte of the active WAL goes and with it the last
\* record; the sandbox is recovered and the first one read.  The active WAL is too small
\* when Close moved a full MemTable to an immutable one.
Truncated(copy) ==
  {<<copy, "failed">>, <<"seeded", "failed">>, <<"prefix", "failed">>, <<"prefix", "passed">>}

\* The last byte of MANIFEST is XORed, and Open must report Corruption.  XORed twice it is
\* what it was, and the sandbox opens.
Corrupted(copy) ==
  IF copy = "damaged" THEN {<<copy, "failed">>, <<"restored", "failed">>}
  ELSE {<<copy, "failed">>, <<"damaged", "failed">>, <<"damaged", "passed">>}

Experiment(scenario, copy) ==
  CASE scenario = "unclean" -> Unclean(copy)
    [] scenario = "truncated" -> Truncated(copy)
    [] scenario = "crc" -> Corrupted(copy)

\* A mutant: an experiment can be run again.
RunAgain(c, i) ==
  /\ Serving(c) /\ db # "none"
  /\ i \in DOMAIN runs
  /\ sandbox[runs[i].id] # "none"
  /\ \E result \in Experiment(runs[i].scenario, sandbox[runs[i].id]) :
       /\ sandbox' = [sandbox EXCEPT ![runs[i].id] = result[1]]
       /\ runs' = [runs EXCEPT ![i].status = result[2]]
  /\ UNCHANGED <<vars, next_run_id, half_reset>>

\* Run: a preview whose sandbox is there, while a session is open.
Run(c, i) ==
  /\ Serving(c) /\ db # "none"
  /\ i \in DOMAIN runs /\ runs[i].status = "preview"
  /\ sandbox[runs[i].id] # "none"
  /\ \E result \in Experiment(runs[i].scenario, sandbox[runs[i].id]) :
       /\ sandbox' = [sandbox EXCEPT ![runs[i].id] = result[1]]
       /\ runs' = [runs EXCEPT ![i].status = result[2]]
  /\ UNCHANGED <<vars, next_run_id, half_reset>>

\* Reset: refused when the sandbox of a run is missing; remove_all may fail after it removed
\* some sandboxes and some files of another, and then the runs stay.
Reset(c) ==
  /\ Serving(c) /\ \A i \in DOMAIN runs : sandbox[runs[i].id] # "none"
  /\ \/ /\ sandbox' = [i \in Copies |-> "none"]
        /\ runs' = <<>>
        /\ half_reset' = FALSE
        /\ UNCHANGED faults
     \/ /\ faults < MaxFaults
        /\ faults' = faults + 1 /\ half_reset' = TRUE
        /\ \E gone, cut \in SUBSET Copies :
             sandbox' = [i \in Copies |-> IF i \in gone THEN "none"
                                          ELSE IF i \in cut /\ sandbox[i] # "none"
                                          THEN "partial" ELSE sandbox[i]]
        /\ UNCHANGED runs
  /\ UNCHANGED <<sessionVars, runVars, client, stop, excused, offers, next_run_id>>

\* The server goes before the session: ~RecoveryLab removes the sandboxes, ~LabSession stops
\* the workload.
StopLab ==
  /\ Stop
  /\ sandbox' = [i \in Copies |-> "none"]
  /\ runs' = <<>>
  /\ UNCHANGED <<next_run_id, half_reset>>

Recovery(c) ==
  /\ "recovery" \in offers[c]
  /\ \/ \E scenario \in Scenarios : Preview(c, scenario)
     \/ \E i \in Copies : Run(c, i)
     \/ Reset(c)

LabInit ==
  /\ Init
  /\ sandbox = [i \in Copies |-> "none"]
  /\ runs = <<>> /\ next_run_id = 1 /\ half_reset = FALSE

HandleLab(c) == Handle(c) /\ UNCHANGED recoveryVars
RunLab == RunWorkload /\ UNCHANGED recoveryVars
StopJoinsLab == StopJoins /\ UNCHANGED recoveryVars

Next ==
  \/ \E c \in Clients : Request(c) /\ UNCHANGED recoveryVars
  \/ \E c \in Clients : HandleLab(c)
  \/ \E c \in Clients : Recovery(c)
  \/ RunLab
  \/ StopLab
  \/ StopJoinsLab

Spec == LabInit /\ [][Next]_labVars

\* Threads that can go on do: a request that has begun, the workload, the destructor.
Fairness ==
  /\ \A c \in Clients : WF_labVars(HandleLab(c))
  /\ WF_labVars(RunLab) /\ WF_labVars(StopJoinsLab)

FairSpec == Spec /\ Fairness

-----------------------------------------------------------------------------
(* Properties *)

\* What an experiment may leave behind, and what it leaves when it passes.
Leaves(scenario) ==
  CASE scenario = "unclean" -> {"copy", "worker"}
    [] scenario = "truncated" -> {"copy", "seeded", "prefix"}
    [] scenario = "crc" -> {"copy", "damaged"}

Shown(scenario) ==
  CASE scenario = "unclean" -> "worker" [] scenario = "truncated" -> "prefix"
    [] scenario = "crc" -> "damaged"

\* What the status of a run says about its sandbox.
Describes(status, scenario, copy) ==
  /\ status = "preview" => copy = "copy"
  /\ status = "passed" => copy = Shown(scenario)
  /\ status = "failed" => copy \in Leaves(scenario)

\* The status of a run describes its sandbox: a preview has a copy no experiment has
\* touched, a run that passed the sandbox its scenario shows, and one that failed a copy or
\* what its own scenario makes of one; no run undoes its damage (Run refuses a second one),
\* reuses the directory of another (ids are not given out twice) or outlives it, but that a
\* Reset which failed half way has taken files from it, or all of it.  The directory of an
\* id that was not given out is absent or partial.
RunsMatchSandboxes ==
  /\ \A i \in Copies : i >= next_run_id => sandbox[i] \in {"none", "partial"}
  /\ \A i \in DOMAIN runs :
       IF sandbox[runs[i].id] \in {"none", "partial"} THEN half_reset
       ELSE Describes(runs[i].status, runs[i].scenario, sandbox[runs[i].id])
================================================================================
