---------------------------- MODULE MCRecoveryLab ----------------------------
\* One HTTP thread starts workloads while another opens, closes, writes and controls them;
\* or both start workloads; or they send session requests and recovery experiments.
EXTENDS RecoveryLab

CONSTANTS starter, other, p1, p2

TwoClients == {starter, other}
TwoPaths == {p1, p2}
WorkloadsOrRecovery ==
  {(starter :> {"start"}) @@ (other :> {"session", "execute", "control"}),
   (starter :> {"start"}) @@ (other :> {"start", "session", "execute"}),
   (starter :> {"session"}) @@ (other :> {"recovery"})}
================================================================================
