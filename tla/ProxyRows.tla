----------------------------- MODULE ProxyRows -----------------------------
(***************************************************************************)
(* The proxies table of the SQLite store, one row per (ip, port, protocol),*)
(* and the statements the program runs on it.  A row keeps the columns     *)
(* that later decisions read: the counters, the uptime and is_alive.       *)
(***************************************************************************)
EXTENDS Integers

CONSTANTS
  Keys,     \* the (ip, port, protocol) triples
  NoRow     \* the key has no row

Row == [alive : BOOLEAN, success : Nat, failed : Nat, fails : Nat, uptime : Nat]

ASSUME NoRowAssumption == NoRow \notin Row

(* What the program means by alive: the failures since the last success    *)
(* are none.  Purging and the scoring both rely on the two columns.        *)
Consistent(row) == row.alive <=> row.fails = 0

(* ROUND(success / checks * 100, 2) in hundredths of a percent.            *)
Uptime(success, checks) == (20000 * success + checks) \div (2 * checks)

(* The model.Proxy that the scan pipeline saves for a working proxy: it    *)
(* sets SuccessChecks and IsAlive and leaves the other fields zero.        *)
Scanned == [alive |-> TRUE, success |-> 1, failed |-> 0, fails |-> 0, uptime |-> 0]

(* The model.Proxy that a recheck saves: the row it read, with IsAlive and *)
(* ConsecutiveFail changed and the counters as they were read.             *)
Rechecked(row, ok) == [row EXCEPT !.alive = ok, !.fails = IF ok THEN 0 ELSE @ + 1]

(* Mutants of Updated: the caller's count of failures is taken for the one *)
(* in the row; a success does not end the run of failures.                 *)
UpdatedFromCaller(row, p) ==
  [alive   |-> p.alive,
   success |-> row.success + IF p.alive THEN 1 ELSE 0,
   failed  |-> row.failed + IF p.alive THEN 0 ELSE 1,
   fails   |-> IF p.alive THEN 0 ELSE p.fails + 1,
   uptime  |-> Uptime(row.success + (IF p.alive THEN 1 ELSE 0), row.success + row.failed + 1)]

UpdatedKeepingFails(row, p) ==
  [alive   |-> p.alive,
   success |-> row.success + IF p.alive THEN 1 ELSE 0,
   failed  |-> row.failed + IF p.alive THEN 0 ELSE 1,
   fails   |-> IF p.alive THEN row.fails ELSE row.fails + 1,
   uptime  |-> Uptime(row.success + (IF p.alive THEN 1 ELSE 0), row.success + row.failed + 1)]

(* ON CONFLICT DO UPDATE: the counters move relative to the stored row.    *)
Updated(row, p) ==
  [alive   |-> p.alive,
   success |-> row.success + IF p.alive THEN 1 ELSE 0,
   failed  |-> row.failed + IF p.alive THEN 0 ELSE 1,
   fails   |-> IF p.alive THEN 0 ELSE row.fails + 1,
   uptime  |-> Uptime(row.success + (IF p.alive THEN 1 ELSE 0), row.success + row.failed + 1)]

(* INSERT stores the caller's own fields, the conflict clause updates.     *)
Upsert(table, k, p) ==
  [table EXCEPT ![k] = IF @ = NoRow THEN p ELSE Updated(@, p)]

(* Mutant of Purged: is_alive = 0 is missing.                              *)
PurgedAlive(table, maxFail, old) ==
  [k \in Keys |->
     IF table[k] # NoRow /\ (table[k].fails >= maxFail \/ k \in old)
     THEN NoRow ELSE table[k]]

(* DELETE of the dead rows that failed maxFail times or are older than the *)
(* cutoff; which rows are old enough is the caller's choice here.          *)
Purged(table, maxFail, old) ==
  [k \in Keys |->
     IF table[k] # NoRow /\ ~ table[k].alive /\ (table[k].fails >= maxFail \/ k \in old)
     THEN NoRow ELSE table[k]]
=============================================================================
