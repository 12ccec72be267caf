---------------------------- MODULE MCRunCommand ----------------------------
(* The daemon command with k1, which always works, and k2, which may not;   *)
(* the run command with k2 alone.  Two workers and two cycles.              *)
EXTENDS MCDaemon, RunCommand

MCInit ==
  /\ RunInit
  /\ rows = [k \in Keys |-> IF command = "run" /\ k = k1 THEN NoRow ELSE Scanned]

MCSpec == MCInit /\ [][RunNext]_runVars /\ RunFairness
=============================================================================
