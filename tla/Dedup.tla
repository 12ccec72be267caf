------------------------------- MODULE Dedup -------------------------------
(***************************************************************************)
(* ShardedDeduplicator (src/pkg/pipeline/dedup.go): a map from a key to    *)
(* the moment it was last let through, split over shards with a lock each, *)
(* the goroutines that call CheckAndSet, and the background sweep.         *)
(*                                                                         *)
(* CheckAndSet reads the clock before it takes the shard's lock, so it is  *)
(* two steps: a caller may be descheduled between them for any time.  The  *)
(* sweep also reads the clock once and then locks one shard after another. *)
(***************************************************************************)
EXTENDS Integers, Sequences

CONSTANTS
  Callers,    \* the goroutines calling CheckAndSet
  Keys,       \* the "ip:port:protocol" strings
  Shard,      \* the shard of a key, fnv32(key) % 64 in the code
  NumShards,  \* how many shards there are, 64 in the code
  Window,     \* the deduplication window, in clock ticks
  MaxTime,    \* bound: the clock stops here
  None        \* no entry, no call, no sweep

ASSUME NumShardsAssumption == NumShards \in Nat \ {0}
ASSUME ShardAssumption == Shard \in [Keys -> 1 .. NumShards]
ASSUME WindowAssumption == Window \in Nat \ {0}
ASSUME MaxTimeAssumption == MaxTime \in Nat
ASSUME NoneAssumption == None \notin Nat /\ None \notin [key : Keys, now : Nat]
                                         /\ None \notin [shard : 1 .. NumShards, now : Nat]

VARIABLES
  clock,      \* the monotonic clock that time.Now reads
  entries,    \* the shards' maps together: the last time a key was let through
  call,       \* a caller between time.Now() and its shard's lock: [key, now]
  sweep,      \* a running sweep: [shard still to do, now]
  accepts     \* history: what CheckAndSet answered true to, per key, in order

vars == <<clock, entries, call, sweep, accepts>>

Init ==
  /\ clock = 0
  /\ entries = [k \in Keys |-> None]
  /\ call = [c \in Callers |-> None]
  /\ sweep = None
  /\ accepts = [k \in Keys |-> <<>>]

Tick ==
  /\ clock < MaxTime
  /\ clock' = clock + 1
  /\ UNCHANGED <<entries, call, sweep, accepts>>

(* now := time.Now(), before the lock. *)
ReadClock(c, k) ==
  /\ call[c] = None
  /\ call' = [call EXCEPT ![c] = [key |-> k, now |-> clock]]
  /\ UNCHANGED <<clock, entries, sweep, accepts>>

(* Mutants of Duplicate: the last tick of the window left out, and one tick *)
(* too many.                                                               *)
DuplicateShort(k, now) == entries[k] # None /\ now - entries[k] < Window - 1
DuplicateLong(k, now) == entries[k] # None /\ now - entries[k] <= Window

Duplicate(k, now) == entries[k] # None /\ now - entries[k] < Window

(* The critical section of CheckAndSet when it returns false ... *)
Reject(c) ==
  /\ call[c] # None
  /\ Duplicate(call[c].key, call[c].now)
  /\ call' = [call EXCEPT ![c] = None]
  /\ UNCHANGED <<clock, entries, sweep, accepts>>

(* ... and when it stores the caller's timestamp and returns true. *)
Accept(c) ==
  /\ call[c] # None
  /\ ~ Duplicate(call[c].key, call[c].now)
  /\ entries' = [entries EXCEPT ![call[c].key] = call[c].now]
  /\ accepts' = [accepts EXCEPT ![call[c].key] =
                   Append(@, [captured |-> call[c].now, decided |-> clock])]
  /\ call' = [call EXCEPT ![c] = None]
  /\ UNCHANGED <<clock, sweep>>

(* The ticker of cleanupLoop fires and the sweep reads the clock. *)
StartSweep ==
  /\ sweep = None
  /\ sweep' = [shard |-> 1, now |-> clock]
  /\ UNCHANGED <<clock, entries, call, accepts>>

(* Mutant of Expired: the sweep drops entries one tick early.               *)
ExpiredEarly(k, now) == entries[k] # None /\ now - entries[k] >= Window - 1

Expired(k, now) == entries[k] # None /\ now - entries[k] >= Window

IsLast(i) == i = NumShards

(* The sweep deletes one shard's expired entries under that shard's lock. *)
SweepShard ==
  /\ sweep # None
  /\ entries' = [k \in Keys |-> IF Shard[k] = sweep.shard /\ Expired(k, sweep.now)
                                THEN None ELSE entries[k]]
  /\ sweep' = IF IsLast(sweep.shard) THEN None ELSE [sweep EXCEPT !.shard = @ + 1]
  /\ UNCHANGED <<clock, call, accepts>>

Next ==
  \/ Tick
  \/ \E c \in Callers :
       \/ \E k \in Keys : ReadClock(c, k)
       \/ Accept(c)
       \/ Reject(c)
  \/ StartSweep
  \/ SweepShard

Spec == Init /\ [][Next]_vars

-----------------------------------------------------------------------------

Accepted == [captured : Nat, decided : Nat]

(* The state of the shards, the callers and the sweep is well typed. *)
TypeOK ==
  /\ clock \in Nat
  /\ entries \in [Keys -> Nat \cup {None}]
  /\ call \in [Callers -> [key : Keys, now : Nat] \cup {None}]
  /\ sweep \in [shard : 1 .. NumShards, now : Nat] \cup {None}
  /\ accepts \in [Keys -> Seq(Accepted)]

(* A key that was let through is not let through again until Window after  *)
(* the clock reading of the first call, whatever the callers and the sweep *)
(* interleave: CheckAndSet's stale timestamps never shorten the window.    *)
AcceptsSpaced ==
  \A k \in Keys : \A j \in DOMAIN accepts[k] : \A i \in 1 .. j - 1 :
    accepts[k][j].decided - accepts[k][i].captured >= Window

(* What one call of CheckAndSet refused in this step. *)
Rejected(c, k) == call[c] # None /\ call[c].key = k /\ call'[c] = None
                                 /\ accepts'[k] = accepts[k]

(* A key is only refused because the latest call that let it through read  *)
(* the clock less than a window before this call did: no proxy is skipped  *)
(* because of an entry that had expired or that another key left.          *)
RejectsOnlyDuplicates ==
  [][\A c \in Callers, k \in Keys :
       Rejected(c, k) =>
         /\ accepts[k] # <<>>
         /\ call[c].now - accepts[k][Len(accepts[k])].captured < Window]_vars

(* The map never holds a timestamp that no call let through, and forgets   *)
(* the latest one only when it is a window old: the sweep does not drop an *)
(* entry that still has to refuse duplicates.                              *)
EntriesAreLastAccepts ==
  \A k \in Keys :
    IF accepts[k] = <<>> THEN entries[k] = None
    ELSE LET last == accepts[k][Len(accepts[k])].captured
         IN  entries[k] = last \/ (entries[k] = None /\ clock - last >= Window)
=============================================================================
