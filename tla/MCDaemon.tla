------------------------------ MODULE MCDaemon ------------------------------
(* Two proxies and a purge threshold of two failures; k1 always works, k2   *)
(* may or may not.  Rows that are there at the start were scanned, and one  *)
(* may have failed once.                                                    *)
EXTENDS Daemon, TLC

CONSTANTS k1, k2, w1, w2

Failed == Updated(Scanned, Rechecked(Scanned, FALSE))

MCInitialRows == {NoRow, Scanned, Failed}
AliveRows == {Scanned}
NewOrScanned == {NoRow, Scanned}
MCVerdicts == [k \in Keys |-> IF k = k1 THEN {TRUE} ELSE BOOLEAN]
MCData == {Scanned}
=============================================================================
