----------------------------- MODULE AliveCount -----------------------------
(***************************************************************************)
(* TotalAliveCount (src/pkg/storage/sqlite.go), which the daemon and every *)
(* handler and stream of the API server call: a count that is younger than *)
(* half a second is reused; otherwise the table is queried without the     *)
(* lock, so that several callers may query at the same time and store what *)
(* they found in another order.                                            *)
(***************************************************************************)
EXTENDS Integers

CONSTANTS
  CountCallers,  \* goroutines that call TotalAliveCount
  Counts,        \* how many living proxies the table may have, 0 among them
  CacheTime,     \* 500 ms in clock ticks
  QueryTime,     \* assumption: a query takes no longer
  LastTick       \* bound: the clock

ASSUME CountAssumption ==
  /\ 0 \in Counts /\ Counts \subseteq Nat
  /\ CacheTime \in Nat \ {0} /\ QueryTime \in Nat /\ LastTick \in Nat

Never == -1

VARIABLES
  clock,
  inTable,   \* rows with is_alive = 1
  cached,    \* cachedAliveCount, cachedAliveCountTime
  counting,  \* the callers: [pc, since, count, at]
  lastHeld   \* history: when the table last had this count

countVars == <<clock, inTable, cached, counting, lastHeld>>

CountInit ==
  /\ clock = 0
  /\ inTable \in Counts
  /\ cached = [count |-> 0, time |-> Never]
  /\ counting = [c \in CountCallers |-> [pc |-> "idle", since |-> 0, count |-> 0, at |-> 0]]
  /\ lastHeld = [n \in Counts |-> IF n = inTable THEN 0 ELSE Never]

SetCounting(c, r) == counting' = [counting EXCEPT ![c] = r]

(* Mutant of ReturnCached: a hit makes the entry young again.              *)
ReturnCachedAndRenew(c) ==
  /\ counting[c].pc \in {"idle", "done"}
  /\ cached.time # Never /\ clock - cached.time < CacheTime
  /\ SetCounting(c, [pc |-> "done", since |-> clock, count |-> cached.count, at |-> clock])
  /\ cached' = [cached EXCEPT !.time = clock]
  /\ UNCHANGED <<clock, inTable, lastHeld>>

ReturnCached(c) ==
  /\ counting[c].pc \in {"idle", "done"}
  /\ cached.time # Never /\ clock - cached.time < CacheTime
  /\ SetCounting(c, [pc |-> "done", since |-> clock, count |-> cached.count, at |-> clock])
  /\ UNCHANGED <<clock, inTable, cached, lastHeld>>

MissCache(c) ==
  /\ counting[c].pc \in {"idle", "done"}
  /\ cached.time = Never \/ clock - cached.time >= CacheTime
  /\ SetCounting(c, [pc |-> "query", since |-> clock, count |-> 0, at |-> 0])
  /\ UNCHANGED <<clock, inTable, cached, lastHeld>>

QueryCount(c) ==
  /\ counting[c].pc = "query"
  /\ SetCounting(c, [counting[c] EXCEPT !.pc = "store", !.count = inTable])
  /\ UNCHANGED <<clock, inTable, cached, lastHeld>>

(* The callers ignore the error and show the zero that comes with it.      *)
QueryCountFails(c) ==
  /\ counting[c].pc = "query"
  /\ SetCounting(c, [counting[c] EXCEPT !.pc = "idle", !.count = 0])
  /\ UNCHANGED <<clock, inTable, cached, lastHeld>>

(* Whoever stores last wins, also with the older count.                    *)
StoreCount(c) ==
  /\ counting[c].pc = "store"
  /\ cached' = [count |-> counting[c].count, time |-> clock]
  /\ SetCounting(c, [counting[c] EXCEPT !.pc = "done", !.at = clock])
  /\ UNCHANGED <<clock, inTable, lastHeld>>

TableChanges(n) ==
  /\ n # inTable
  /\ inTable' = n
  /\ lastHeld' = [lastHeld EXCEPT ![n] = clock]
  /\ UNCHANGED <<clock, cached, counting>>

ClockTicks ==
  /\ clock < LastTick
  /\ \A c \in CountCallers :
       counting[c].pc \in {"query", "store"} => clock - counting[c].since < QueryTime
  /\ clock' = clock + 1
  /\ lastHeld' = [lastHeld EXCEPT ![inTable] = clock + 1]
  /\ UNCHANGED <<inTable, cached, counting>>

CountNext ==
  \/ \E c \in CountCallers :
       ReturnCached(c) \/ MissCache(c) \/ QueryCount(c) \/ QueryCountFails(c) \/ StoreCount(c)
  \/ \E n \in Counts : TableChanges(n)
  \/ ClockTicks

CountSpec == CountInit /\ [][CountNext]_countVars

-----------------------------------------------------------------------------

(* The number a caller gets was the number of living proxies at a moment   *)
(* less than half a second and one query ago, although a slow query may    *)
(* replace what a faster one has stored after it.                          *)
CountIsRecent ==
  \A c \in CountCallers :
    counting[c].pc = "done" =>
      /\ lastHeld[counting[c].count] # Never
      /\ counting[c].at - lastHeld[counting[c].count] < CacheTime + QueryTime
=============================================================================
