--------------------------- MODULE ServicesProofs ---------------------------
(***************************************************************************)
(* Proofs about the four components whose readers do not hold the lock of  *)
(* their writers: the count of living proxies, the pool of judges, the     *)
(* ring of history points and the counters.                                *)
(***************************************************************************)
EXTENDS Stats, History, AliveCount, Judge, TLAPS, FiniteSetTheorems

(***************************************************************************)
(* TotalAliveCount.  What the cache holds was in the table at most one     *)
(* query before the time the entry bears, and what a caller is about to    *)
(* store was in the table after its call began.                            *)
(***************************************************************************)
Clocks ==
  /\ clock \in Nat /\ inTable \in Counts
  /\ lastHeld \in [Counts -> Int]
  /\ lastHeld[inTable] = clock
  /\ \A n \in Counts : lastHeld[n] <= clock

CacheInv ==
  /\ cached \in [count : Counts, time : Int]
  /\ cached.time # Never =>
       /\ cached.time <= clock
       /\ 0 <= lastHeld[cached.count]
       /\ cached.time - lastHeld[cached.count] <= QueryTime

CallerInv(c) ==
  LET r == counting[c] IN
  /\ r \in [pc : {"idle", "query", "store", "done"}, since : Nat, count : Counts, at : Int]
  /\ r.pc \in {"query", "store"} => r.since <= clock /\ clock - r.since <= QueryTime
  /\ r.pc = "store" => r.since <= lastHeld[r.count]
  /\ r.pc = "done" => /\ 0 <= lastHeld[r.count]
                      /\ r.at - lastHeld[r.count] < CacheTime + QueryTime

CountInv == Clocks /\ CacheInv /\ DOMAIN counting = CountCallers /\ \A c \in CountCallers : CallerInv(c)

LEMMA CountInvInit == CountInit => CountInv
<1> SUFFICES ASSUME CountInit PROVE CountInv
  OBVIOUS
<1>1. Clocks
  BY CountAssumption DEF CountInit, Clocks, Never
<1>2. CacheInv
  BY CountAssumption DEF CountInit, CacheInv, Never
<1>3. \A c \in CountCallers : CallerInv(c)
  BY CountAssumption DEF CountInit, CallerInv
<1> QED
  BY <1>1, <1>2, <1>3 DEF CountInv, CountInit

(* Another caller's step leaves a caller alone as long as the table's past *)
(* only grows.                                                             *)
LEMMA OthersKeepCaller ==
  ASSUME CountInv, NEW c \in CountCallers, counting'[c] = counting[c],
         clock' = clock, Clocks', \A n \in Counts : lastHeld[n] <= lastHeld'[n]
  PROVE  CallerInv(c)'
<1> DEFINE r == counting[c]
<1>1. /\ r \in [pc : {"idle", "query", "store", "done"}, since : Nat, count : Counts, at : Int]
      /\ r.pc \in {"query", "store"} => r.since <= clock /\ clock - r.since <= QueryTime
      /\ r.pc = "store" => r.since <= lastHeld[r.count]
      /\ r.pc = "done" => /\ 0 <= lastHeld[r.count]
                          /\ r.at - lastHeld[r.count] < CacheTime + QueryTime
  BY DEF CountInv, CallerInv
<1>2. /\ r.since \in Nat /\ r.at \in Int /\ r.count \in Counts
      /\ lastHeld[r.count] \in Int /\ lastHeld'[r.count] \in Int
      /\ lastHeld[r.count] <= lastHeld'[r.count]
      /\ CacheTime \in Nat /\ QueryTime \in Nat
  BY <1>1, CountAssumption DEF CountInv, Clocks
<1> DEFINE a == lastHeld[r.count]
           b == lastHeld'[r.count]
<1>3. /\ r.pc = "store" => r.since <= b
      /\ r.pc = "done" => 0 <= b /\ r.at - b < CacheTime + QueryTime
  <2>1. r.since \in Nat /\ r.at \in Int /\ a \in Int /\ b \in Int /\ a <= b
    BY <1>2
  <2> HIDE DEF a, b, r
  <2>2. r.since <= a => r.since <= b
    BY <2>1
  <2>3. 0 <= a => 0 <= b
    BY <2>1
  <2>4. r.at - a < CacheTime + QueryTime => r.at - b < CacheTime + QueryTime
    BY <1>2, <2>1
  <2> QED
    BY <1>1, <2>2, <2>3, <2>4 DEF a, r
<1> QED
  BY <1>1, <1>3 DEF CallerInv

LEMMA CallerStepKeepsInv ==
  ASSUME CountInv, NEW c \in CountCallers,
         ReturnCached(c) \/ MissCache(c) \/ QueryCount(c) \/ QueryCountFails(c) \/ StoreCount(c)
  PROVE  CountInv'
<1>1. UNCHANGED <<clock, inTable, lastHeld>>
  BY DEF ReturnCached, MissCache, QueryCount, QueryCountFails, StoreCount
<1>2. Clocks'
  BY <1>1 DEF CountInv, Clocks
<1>3. PICK r : /\ counting' = [counting EXCEPT ![c] = r]
               /\ r = counting'[c]
  BY DEF ReturnCached, MissCache, QueryCount, QueryCountFails, StoreCount, SetCounting, CountInv
<1>4. /\ DOMAIN counting' = CountCallers
      /\ \A d \in CountCallers : d # c => counting'[d] = counting[d]
  BY <1>3 DEF CountInv
<1>5. ASSUME NEW d \in CountCallers, d # c PROVE CallerInv(d)'
  <2>1. \A n \in Counts : lastHeld[n] <= lastHeld'[n]
    BY <1>1 DEF CountInv, Clocks
  <2> QED
    BY <1>1, <1>2, <1>4, <1>5, <2>1, OthersKeepCaller
<1> DEFINE old == counting[c]
<1>6. /\ old \in [pc : {"idle", "query", "store", "done"}, since : Nat, count : Counts, at : Int]
      /\ old.pc \in {"query", "store"} => old.since <= clock /\ clock - old.since <= QueryTime
      /\ old.pc = "store" => old.since <= lastHeld[old.count]
  BY DEF CountInv, CallerInv
<1>7. /\ clock \in Nat /\ CacheTime \in Nat \ {0} /\ QueryTime \in Nat
      /\ inTable \in Counts /\ lastHeld[inTable] = clock
      /\ lastHeld \in [Counts -> Int]
      /\ cached \in [count : Counts, time : Int]
  BY CountAssumption DEF CountInv, Clocks, CacheInv
<1>8. CASE ReturnCached(c)
  <2>1. /\ r = [pc |-> "done", since |-> clock, count |-> cached.count, at |-> clock]
        /\ cached' = cached /\ cached.time # Never /\ clock - cached.time < CacheTime
    BY <1>3, <1>8 DEF ReturnCached, SetCounting, CountInv
  <2>2. /\ 0 <= lastHeld[cached.count] /\ cached.time - lastHeld[cached.count] <= QueryTime
        /\ cached.count \in Counts /\ cached.time \in Int /\ lastHeld[cached.count] \in Int
    BY <1>7, <2>1 DEF CountInv, CacheInv
  <2>3. clock - lastHeld[cached.count] < CacheTime + QueryTime
    <3> DEFINE t == cached.time
               h == lastHeld[cached.count]
    <3>1. /\ t \in Int /\ h \in Int /\ clock \in Nat /\ CacheTime \in Nat /\ QueryTime \in Nat
          /\ clock - t < CacheTime /\ t - h <= QueryTime
      BY <1>7, <2>1, <2>2
    <3> HIDE DEF t, h
    <3>2. clock - h < CacheTime + QueryTime
      BY <3>1
    <3> QED
      BY <3>2 DEF h
  <2>4. CallerInv(c)'
    <3>1. /\ r \in [pc : {"idle", "query", "store", "done"}, since : Nat, count : Counts, at : Int]
          /\ r.pc = "done" /\ r.count = cached.count /\ r.at = clock
      BY <1>7, <2>1, <2>2
    <3> QED
      BY <1>1, <1>3, <2>2, <2>3, <3>1 DEF CallerInv
  <2>5. CacheInv'
    BY <1>1, <2>1 DEF CountInv, CacheInv
  <2> QED
    BY <1>2, <1>4, <1>5, <2>4, <2>5 DEF CountInv
<1>9. CASE MissCache(c)
  <2>1. r = [pc |-> "query", since |-> clock, count |-> 0, at |-> 0] /\ cached' = cached
    BY <1>3, <1>9 DEF MissCache, SetCounting, CountInv
  <2>2. CallerInv(c)'
    <3>1. /\ r \in [pc : {"idle", "query", "store", "done"}, since : Nat, count : Counts, at : Int]
          /\ r.pc = "query" /\ r.since = clock
      BY <1>7, <2>1, CountAssumption
    <3>2. clock <= clock /\ clock - clock <= QueryTime
      BY <1>7
    <3> QED
      BY <1>1, <1>3, <3>1, <3>2 DEF CallerInv
  <2>3. CacheInv'
    BY <1>1, <2>1 DEF CountInv, CacheInv
  <2> QED
    BY <1>2, <1>4, <1>5, <2>2, <2>3 DEF CountInv
<1>10. CASE QueryCount(c)
  <2>1. r = [old EXCEPT !.pc = "store", !.count = inTable] /\ cached' = cached /\ old.pc = "query"
    BY <1>3, <1>10 DEF QueryCount, SetCounting, CountInv
  <2>2. /\ r \in [pc : {"idle", "query", "store", "done"}, since : Nat, count : Counts, at : Int]
        /\ r.pc = "store" /\ r.since = old.since /\ r.count = inTable
    BY <1>6, <1>7, <2>1
  <2>3. CallerInv(c)'
    BY <1>1, <1>3, <1>6, <1>7, <2>1, <2>2 DEF CallerInv
  <2>4. CacheInv'
    BY <1>1, <2>1 DEF CountInv, CacheInv
  <2> QED
    BY <1>2, <1>4, <1>5, <2>3, <2>4 DEF CountInv
<1>11. CASE QueryCountFails(c)
  <2>1. r = [old EXCEPT !.pc = "idle", !.count = 0] /\ cached' = cached
    BY <1>3, <1>11 DEF QueryCountFails, SetCounting, CountInv
  <2>2. /\ r \in [pc : {"idle", "query", "store", "done"}, since : Nat, count : Counts, at : Int]
        /\ r.pc = "idle"
    BY <1>6, <2>1, CountAssumption
  <2>3. CallerInv(c)'
    BY <1>1, <1>3, <2>2 DEF CallerInv
  <2>4. CacheInv'
    BY <1>1, <2>1 DEF CountInv, CacheInv
  <2> QED
    BY <1>2, <1>4, <1>5, <2>3, <2>4 DEF CountInv
<1>12. CASE StoreCount(c)
  <2>1. /\ r = [old EXCEPT !.pc = "done", !.at = clock] /\ old.pc = "store"
        /\ cached' = [count |-> old.count, time |-> clock]
    BY <1>3, <1>12 DEF StoreCount, SetCounting, CountInv
  <2>2. /\ r \in [pc : {"idle", "query", "store", "done"}, since : Nat, count : Counts, at : Int]
        /\ r.pc = "done" /\ r.count = old.count /\ r.at = clock
    BY <1>6, <1>7, <2>1
  <2>3. 0 <= lastHeld[old.count] /\ clock - lastHeld[old.count] <= QueryTime
    <3> DEFINE h == lastHeld[old.count]
               s == old.since
    <3>1. h \in Int /\ s \in Nat /\ s <= h /\ clock - s <= QueryTime
      BY <1>6, <1>7, <2>1
    <3> HIDE DEF h, s
    <3>2. 0 <= h
      BY <3>1
    <3>3. clock - h <= QueryTime
      BY <1>7, <3>1
    <3> QED
      BY <3>2, <3>3 DEF h
  <2>4. clock - lastHeld[old.count] < CacheTime + QueryTime
    <3>1. lastHeld[old.count] \in Int
      BY <1>6, <1>7
    <3> QED
      BY <1>7, <2>3, <3>1
  <2>5. CallerInv(c)'
    BY <1>1, <1>3, <2>2, <2>3, <2>4 DEF CallerInv
  <2>6. CacheInv'
    BY <1>1, <1>6, <1>7, <2>1, <2>3 DEF CacheInv
  <2> QED
    BY <1>2, <1>4, <1>5, <2>5, <2>6 DEF CountInv
<1> QED
  BY <1>8, <1>9, <1>10, <1>11, <1>12

LEMMA TableChangesKeepsInv ==
  ASSUME CountInv, NEW n \in Counts, TableChanges(n)
  PROVE  CountInv'
<1>1. /\ inTable' = n /\ lastHeld' = [lastHeld EXCEPT ![n] = clock]
      /\ UNCHANGED <<clock, cached, counting>>
  BY DEF TableChanges
<1>2. lastHeld \in [Counts -> Int] /\ clock \in Nat /\ \A m \in Counts : lastHeld[m] <= clock
  BY DEF CountInv, Clocks
<1>3. /\ lastHeld' \in [Counts -> Int] /\ lastHeld'[n] = clock
      /\ \A m \in Counts : m # n => lastHeld'[m] = lastHeld[m]
  BY <1>1, <1>2
<1>4. \A m \in Counts : lastHeld[m] <= lastHeld'[m] /\ lastHeld'[m] <= clock
  BY <1>2, <1>3
<1>5. Clocks'
  BY <1>1, <1>2, <1>3, <1>4 DEF Clocks
<1>6. \A c \in CountCallers : CallerInv(c)'
  BY <1>1, <1>4, <1>5, OthersKeepCaller
<1>7. CacheInv'
  <2> DEFINE t == cached.time
             a == lastHeld[cached.count]
             b == lastHeld'[cached.count]
  <2>1. cached \in [count : Counts, time : Int] /\ cached' = cached /\ clock' = clock
    BY <1>1 DEF CountInv, CacheInv
  <2>2. t \in Int /\ a \in Int /\ b \in Int /\ a <= b /\ QueryTime \in Nat
    BY <1>2, <1>3, <1>4, <2>1, CountAssumption
  <2>3. t # Never => t <= clock /\ 0 <= a /\ t - a <= QueryTime
    BY DEF CountInv, CacheInv
  <2>4. t # Never => t <= clock /\ 0 <= b /\ t - b <= QueryTime
    <3> HIDE DEF t, a, b
    <3>1. 0 <= a => 0 <= b
      BY <2>2
    <3>2. t - a <= QueryTime => t - b <= QueryTime
      BY <2>2
    <3> QED
      BY <2>3, <3>1, <3>2
  <2> QED
    BY <2>1, <2>4 DEF CacheInv
<1> QED
  BY <1>1, <1>5, <1>6, <1>7 DEF CountInv

LEMMA TickKeepsInv ==
  ASSUME CountInv, ClockTicks
  PROVE  CountInv'
<1>1. /\ clock' = clock + 1 /\ lastHeld' = [lastHeld EXCEPT ![inTable] = clock + 1]
      /\ \A c \in CountCallers :
           counting[c].pc \in {"query", "store"} => clock - counting[c].since < QueryTime
      /\ UNCHANGED <<inTable, cached, counting>>
  BY DEF ClockTicks
<1>2. /\ lastHeld \in [Counts -> Int] /\ clock \in Nat /\ inTable \in Counts
      /\ \A m \in Counts : lastHeld[m] <= clock
      /\ CacheTime \in Nat /\ QueryTime \in Nat
  BY CountAssumption DEF CountInv, Clocks
<1>3. /\ lastHeld' \in [Counts -> Int] /\ lastHeld'[inTable] = clock + 1
      /\ \A m \in Counts : m # inTable => lastHeld'[m] = lastHeld[m]
  BY <1>1, <1>2
<1>4. \A m \in Counts : lastHeld[m] <= lastHeld'[m] /\ lastHeld'[m] <= clock + 1
  BY <1>2, <1>3
<1>5. Clocks'
  BY <1>1, <1>2, <1>3, <1>4 DEF Clocks
<1>6. ASSUME NEW c \in CountCallers PROVE CallerInv(c)'
  <2> DEFINE r == counting[c]
             a == lastHeld[r.count]
             b == lastHeld'[r.count]
  <2>1. /\ r \in [pc : {"idle", "query", "store", "done"}, since : Nat, count : Counts, at : Int]
        /\ r.pc \in {"query", "store"} => r.since <= clock /\ clock - r.since < QueryTime
        /\ r.pc = "store" => r.since <= a
        /\ r.pc = "done" => 0 <= a /\ r.at - a < CacheTime + QueryTime
    BY <1>1 DEF CountInv, CallerInv
  <2>2. a \in Int /\ b \in Int /\ a <= b /\ r.since \in Nat /\ r.at \in Int
    BY <1>2, <1>3, <1>4, <2>1
  <2>3. /\ r.pc \in {"query", "store"} => r.since <= clock + 1 /\ (clock + 1) - r.since <= QueryTime
        /\ r.pc = "store" => r.since <= b
        /\ r.pc = "done" => 0 <= b /\ r.at - b < CacheTime + QueryTime
    <3> DEFINE s == r.since
               x == r.at
    <3>1. s \in Nat /\ x \in Int
      BY <2>2
    <3> HIDE DEF a, b, s, x
    <3>2. s <= clock /\ clock - s < QueryTime => s <= clock + 1 /\ (clock + 1) - s <= QueryTime
      BY <1>2, <3>1
    <3>3. s <= a => s <= b
      BY <2>2, <3>1
    <3>4. 0 <= a => 0 <= b
      BY <2>2
    <3>5. x - a < CacheTime + QueryTime => x - b < CacheTime + QueryTime
      BY <1>2, <2>2, <3>1
    <3> QED
      BY <2>1, <3>2, <3>3, <3>4, <3>5 DEF s, x
  <2> QED
    BY <1>1, <2>1, <2>3 DEF CallerInv
<1>7. CacheInv'
  <2> DEFINE t == cached.time
             a == lastHeld[cached.count]
             b == lastHeld'[cached.count]
  <2>1. cached \in [count : Counts, time : Int]
    BY DEF CountInv, CacheInv
  <2>2. t \in Int /\ a \in Int /\ b \in Int /\ a <= b
    BY <1>2, <1>3, <1>4, <2>1
  <2>3. t # Never => t <= clock /\ 0 <= a /\ t - a <= QueryTime
    BY DEF CountInv, CacheInv
  <2>4. t # Never => t <= clock + 1 /\ 0 <= b /\ t - b <= QueryTime
    <3> HIDE DEF t, a, b
    <3>1. 0 <= a => 0 <= b
      BY <2>2
    <3>2. t - a <= QueryTime => t - b <= QueryTime
      BY <1>2, <2>2
    <3>3. t <= clock => t <= clock + 1
      BY <1>2, <2>2
    <3> QED
      BY <2>3, <3>1, <3>2, <3>3
  <2> QED
    BY <1>1, <2>1, <2>4 DEF CacheInv
<1> QED
  BY <1>1, <1>5, <1>6, <1>7 DEF CountInv

LEMMA CountInvariant == CountSpec => []CountInv
<1>1. CountInv /\ [CountNext]_countVars => CountInv'
  <2> SUFFICES ASSUME CountInv, [CountNext]_countVars PROVE CountInv'
    OBVIOUS
  <2>1. CASE UNCHANGED countVars
    BY <2>1 DEF countVars, CountInv, Clocks, CacheInv, CallerInv
  <2> QED
    BY <2>1, CallerStepKeepsInv, TableChangesKeepsInv, TickKeepsInv DEF CountNext
<1> QED
  BY <1>1, CountInvInit, PTL DEF CountSpec

(* The number a caller of TotalAliveCount gets was right at some moment    *)
(* less than the cache time and one query ago, for any number of callers   *)
(* that query and store in any order.                                      *)
THEOREM CountsAreRecent == CountSpec => []CountIsRecent
<1>1. CountInv => CountIsRecent
  <2> SUFFICES ASSUME CountInv, NEW c \in CountCallers, counting[c].pc = "done"
               PROVE  /\ lastHeld[counting[c].count] # Never
                      /\ counting[c].at - lastHeld[counting[c].count] < CacheTime + QueryTime
    BY DEF CountIsRecent
  <2>1. /\ 0 <= lastHeld[counting[c].count]
        /\ counting[c].at - lastHeld[counting[c].count] < CacheTime + QueryTime
    BY DEF CountInv, CallerInv
  <2> QED
    BY <2>1 DEF Never
<1> QED
  BY <1>1, CountInvariant, PTL

(***************************************************************************)
(* PickJudge.  Whoever goes through the list has passed no steady judge    *)
(* without keeping a healthy one; while nothing changes, the one it keeps  *)
(* is a fastest healthy judge of those it has passed.                      *)
(***************************************************************************)
PickRecord ==
  [pc : {"done", "look", "compare"}, next : 1 .. NumJudges + 1, best : 0 .. NumJudges,
   steady : SUBSET Judges, seen : SUBSET Judges, quiet : BOOLEAN]

BestSoFar(r, well, ms) ==
  IF r.best = 0 THEN \A j \in Judges : j < r.next => ~ well[j]
  ELSE /\ well[r.best]
       /\ \A j \in Judges : j < r.next /\ well[j] => ms[r.best] <= ms[j]

Passing(r, well, ms) ==
  /\ r.best = 0 => \A j \in r.steady : r.next <= j
  /\ r.best # 0 => r.best \in r.seen
  /\ \A j \in r.steady : well[j]
  /\ r.quiet => BestSoFar(r, well, ms)

Comparing(r, well) ==
  /\ r.next <= NumJudges /\ r.best # 0 /\ r.next \in r.seen
  /\ r.quiet => well[r.next]

Picked(r, well, ms) ==
  /\ r.steady # {} => r.best \in r.seen
  /\ r.quiet => \/ /\ r.best \in Judges /\ well[r.best]
                   /\ \A k \in Judges : well[k] => ms[r.best] <= ms[k]
                \/ r.best = 1 /\ \A j \in Judges : ~ well[j]

PickOK(r, well, ms) ==
  /\ r \in PickRecord
  /\ r.pc \in {"look", "compare"} => Passing(r, well, ms)
  /\ r.pc = "compare" => Comparing(r, well)
  /\ r.pc = "done" => Picked(r, well, ms)

PoolTyped ==
  /\ healthy \in [Judges -> BOOLEAN] /\ latency \in [Judges -> Nat]
  /\ DOMAIN pick = Pickers

PickInv == PoolTyped /\ \A p \in Pickers : PickOK(pick[p], healthy, latency)

LEMMA PickInvInit == JudgeInit => PickInv
<1> SUFFICES ASSUME JudgeInit PROVE PickInv
  OBVIOUS
<1>1. PoolTyped
  BY SampleAssumption DEF JudgeInit, PoolTyped
<1>2. NotPicking \in PickRecord
  BY JudgesAssumption DEF NotPicking, PickRecord
<1>3. ASSUME NEW p \in Pickers PROVE PickOK(pick[p], healthy, latency)
  <2>1. pick[p] = NotPicking
    BY DEF JudgeInit
  <2>2. NotPicking.pc = "done" /\ NotPicking.steady = {} /\ NotPicking.quiet = FALSE
    BY DEF NotPicking
  <2> QED
    BY <1>2, <2>1, <2>2 DEF PickOK, Picked
<1> QED
  BY <1>1, <1>3 DEF PickInv

LEMMA SmoothedIsNat ==
  ASSUME NEW a \in Nat, NEW b \in Nat
  PROVE  Smoothed(a, b) \in Nat
<1>1. 3 * a + 7 * b \in Nat
  OBVIOUS
<1>2. \A x \in Nat : x \div 10 \in Nat
  OBVIOUS
<1> QED
  BY <1>1, <1>2 DEF Smoothed

(* A change ends the quiet and keeps the judges steady that it leaves well. *)
LEMMA ChangeKeepsPick ==
  ASSUME NEW r, NEW well, NEW now, NEW ms, NEW later, NEW kept,
         PickOK(r, well, ms),
         \A j \in Judges \cap kept : well[j] => now[j]
  PROVE  PickOK([r EXCEPT !.quiet = FALSE, !.steady = r.steady \cap kept], now, later)
<1>0. PICK s : s = [r EXCEPT !.quiet = FALSE, !.steady = r.steady \cap kept]
  OBVIOUS
<1>1. r \in PickRecord
  BY DEF PickOK
<1>2. /\ s \in PickRecord
      /\ s.pc = r.pc /\ s.next = r.next /\ s.best = r.best /\ s.seen = r.seen
      /\ s.quiet = FALSE /\ s.steady = r.steady \cap kept
  <2>1. s = [pc |-> r.pc, next |-> r.next, best |-> r.best, steady |-> r.steady \cap kept,
             seen |-> r.seen, quiet |-> FALSE]
    BY <1>0, <1>1 DEF PickRecord
  <2> QED
    BY <1>1, <2>1 DEF PickRecord
<1>3. r.steady \subseteq Judges
  BY <1>1 DEF PickRecord
<1>4. s.pc \in {"look", "compare"} => Passing(s, now, later)
  BY <1>2, <1>3 DEF PickOK, Passing
<1>5. s.pc = "compare" => Comparing(s, now)
  BY <1>2 DEF PickOK, Comparing
<1>6. s.pc = "done" => Picked(s, now, later)
  BY <1>2 DEF PickOK, Picked
<1>7. PickOK(s, now, later)
  BY <1>2, <1>4, <1>5, <1>6 DEF PickOK
<1> QED
  BY <1>0, <1>7

LEMMA ProbeKeepsPick ==
  ASSUME PickInv, NEW j \in Judges, ProbeStep(j)
  PROVE  PickInv'
<1>1. PoolTyped
  BY DEF PickInv
<1>2. PICK kept : /\ NoteChange(kept)
                  /\ \A i \in Judges \cap kept : healthy[i] => healthy'[i]
                  /\ healthy' \in [Judges -> BOOLEAN] /\ latency' \in [Judges -> Nat]
  <2>1. CASE MarkDead(j)
    BY <1>1, <2>1 DEF MarkDead, PoolTyped
  <2>2. CASE StoreLatency(j)
    <3>1. Smoothed(Sample[j], latency[j]) \in Nat
      BY <1>1, SampleAssumption, SmoothedIsNat DEF PoolTyped
    <3>2. latency' = [latency EXCEPT ![j] = Smoothed(Sample[j], latency[j])]
      BY <1>1, <2>2 DEF StoreLatency, PoolTyped
    <3>3. latency' \in [Judges -> Nat]
      BY <1>1, <3>1, <3>2 DEF PoolTyped
    <3> QED
      BY <1>1, <2>2, <3>3 DEF StoreLatency, PoolTyped
  <2>3. CASE MarkHealthy(j)
    BY <1>1, <2>3 DEF MarkHealthy, PoolTyped
  <2> QED
    BY <2>1, <2>2, <2>3 DEF ProbeStep
<1>3. PoolTyped'
  BY <1>2 DEF PoolTyped, NoteChange
<1>4. ASSUME NEW p \in Pickers PROVE PickOK(pick'[p], healthy', latency')
  <2>1. PICK r, s : r = pick[p] /\ s = pick'[p]
    OBVIOUS
  <2>2. s = [r EXCEPT !.quiet = FALSE, !.steady = r.steady \cap kept]
    BY <1>2, <2>1 DEF NoteChange
  <2>3. PickOK(r, healthy, latency)
    BY <2>1 DEF PickInv
  <2>4. PickOK([r EXCEPT !.quiet = FALSE, !.steady = r.steady \cap kept], healthy', latency')
    BY <1>2, <2>3, ChangeKeepsPick
  <2> QED
    BY <2>1, <2>2, <2>4
<1> QED
  BY <1>3, <1>4 DEF PickInv

LEMMA PickStepKeepsPick ==
  ASSUME PickInv, NEW p \in Pickers, PickStep(p)
  PROVE  PickInv'
<1>1. PICK r : /\ pick' = [pick EXCEPT ![p] = r] /\ r = pick'[p]
               /\ UNCHANGED poolVars
  BY DEF PickStep, StartPick, SkipDead, LookAtHealthy, CompareLatency, EndPick, SetPick,
         PickInv, PoolTyped
<1>2. UNCHANGED <<healthy, latency>> /\ PoolTyped'
  BY <1>1 DEF PickInv, PoolTyped, poolVars
<1>3. ASSUME NEW q \in Pickers, q # p PROVE PickOK(pick'[q], healthy', latency')
  BY <1>1, <1>2, <1>3 DEF PickInv, PoolTyped
<1> DEFINE s == pick[p]
<1>4. /\ s \in PickRecord /\ PickOK(s, healthy, latency)
      /\ healthy \in [Judges -> BOOLEAN] /\ latency \in [Judges -> Nat]
      /\ DOMAIN pick = Pickers
  BY DEF PickInv, PoolTyped, PickOK
<1>5. /\ s.next \in Nat /\ s.next >= 1 /\ s.best \in Nat /\ NumJudges \in Nat
      /\ \A j \in Judges : j \in Nat /\ 1 <= j /\ j <= NumJudges
      /\ 1 \in Judges
      /\ \A n \in Nat : 1 <= n /\ n <= NumJudges => n \in Judges
  BY <1>4, JudgesAssumption DEF PickRecord, Judges
<1>6. s = [pc |-> s.pc, next |-> s.next, best |-> s.best, steady |-> s.steady,
           seen |-> s.seen, quiet |-> s.quiet]
  BY <1>4 DEF PickRecord
<1> SUFFICES PickOK(r, healthy, latency)
  BY <1>1, <1>2, <1>3 DEF PickInv
<1> HIDE DEF s
<1>7. CASE StartPick(p)
  <2>1. r = [pc |-> "look", next |-> 1, best |-> 0,
             steady |-> {j \in Judges : healthy[j]}, seen |-> {}, quiet |-> TRUE]
    BY <1>1, <1>4, <1>7 DEF StartPick, SetPick
  <2>2. r \in PickRecord
    BY <2>1, JudgesAssumption DEF PickRecord
  <2>3. Passing(r, healthy, latency)
    <3>1. \A j \in Judges : ~ (j < 1)
      BY <1>5
    <3> QED
      BY <1>5, <2>1, <3>1 DEF Passing, BestSoFar
  <2> QED
    BY <2>1, <2>2, <2>3 DEF PickOK
<1>8. CASE SkipDead(p)
  <2>1. /\ s.pc = "look" /\ s.next <= NumJudges /\ ~ healthy[s.next]
        /\ r = [s EXCEPT !.next = s.next + 1]
    BY <1>1, <1>4, <1>8 DEF SkipDead, SetPick, s
  <2>2. r = [pc |-> "look", next |-> s.next + 1, best |-> s.best, steady |-> s.steady,
             seen |-> s.seen, quiet |-> s.quiet]
    BY <1>6, <2>1
  <2>3. r \in PickRecord
    BY <1>4, <1>5, <2>1, <2>2 DEF PickRecord
  <2>4. Passing(s, healthy, latency)
    BY <1>4, <2>1 DEF PickOK
  <2>5. \A j \in Judges : j < s.next + 1 => j < s.next \/ j = s.next
    BY <1>5
  <2>6. \A j \in Judges : s.next <= j /\ j # s.next => s.next + 1 <= j
    BY <1>5
  <2>7. BestSoFar(s, healthy, latency) => BestSoFar(r, healthy, latency)
    BY <2>1, <2>2, <2>5 DEF BestSoFar
  <2>8. s.best = 0 => \A j \in s.steady : s.next + 1 <= j
    <3>1. s.steady \subseteq Judges
      BY <1>4 DEF PickRecord
    <3> QED
      BY <2>1, <2>4, <2>6, <3>1 DEF Passing
  <2>9. Passing(r, healthy, latency)
    BY <2>2, <2>4, <2>7, <2>8 DEF Passing
  <2> QED
    BY <2>2, <2>3, <2>9 DEF PickOK
<1>9. CASE LookAtHealthy(p)
  <2>1. /\ s.pc = "look" /\ s.next <= NumJudges /\ healthy[s.next]
        /\ Passing(s, healthy, latency)
    BY <1>4, <1>9 DEF LookAtHealthy, s, PickOK
  <2>2. s.next \in Judges
    BY <1>5, <2>1
  <2>3. CASE s.best = 0
    <3>1. r = [pc |-> "look", next |-> s.next + 1, best |-> s.next, steady |-> s.steady,
               seen |-> s.seen \cup {s.next}, quiet |-> s.quiet]
      <4>1. PICK q : q = [s EXCEPT !.seen = s.seen \cup {s.next}]
        OBVIOUS
      <4>2. q = [pc |-> s.pc, next |-> s.next, best |-> s.best, steady |-> s.steady,
                 seen |-> s.seen \cup {s.next}, quiet |-> s.quiet]
        BY <1>6, <4>1
      <4>3. r = [q EXCEPT !.next = q.next + 1, !.best = q.next]
        BY <1>1, <1>4, <1>9, <2>3, <4>1, <4>2 DEF LookAtHealthy, SetPick, s
      <4> QED
        BY <2>1, <4>2, <4>3
    <3>2. r \in PickRecord
      BY <1>4, <1>5, <2>1, <2>2, <3>1 DEF PickRecord, Judges
    <3>3. s.quiet => BestSoFar(r, healthy, latency)
      <4>1. \A j \in Judges : j < s.next + 1 => j < s.next \/ j = s.next
        BY <1>5
      <4>2. \A j \in Judges : latency[j] \in Nat
        BY <1>4
      <4>3. s.quiet => \A j \in Judges : j < s.next => ~ healthy[j]
        BY <2>1, <2>3 DEF Passing, BestSoFar
      <4>4. latency[s.next] <= latency[s.next] /\ s.next # 0
        BY <1>5, <2>2, <4>2
      <4> QED
        BY <2>1, <3>1, <4>1, <4>3, <4>4 DEF BestSoFar
    <3>4. Passing(r, healthy, latency)
      <4>1. s.next # 0
        BY <1>5
      <4> QED
        BY <2>1, <3>1, <3>3, <4>1 DEF Passing
    <3> QED
      BY <3>1, <3>2, <3>4 DEF PickOK
  <2>4. CASE s.best # 0
    <3>1. r = [pc |-> "compare", next |-> s.next, best |-> s.best, steady |-> s.steady,
               seen |-> s.seen \cup {s.next}, quiet |-> s.quiet]
      <4>1. PICK q : q = [s EXCEPT !.seen = s.seen \cup {s.next}]
        OBVIOUS
      <4>2. q = [pc |-> s.pc, next |-> s.next, best |-> s.best, steady |-> s.steady,
                 seen |-> s.seen \cup {s.next}, quiet |-> s.quiet]
        BY <1>6, <4>1
      <4>3. r = [q EXCEPT !.pc = "compare"]
        BY <1>1, <1>4, <1>9, <2>4, <4>1, <4>2 DEF LookAtHealthy, SetPick, s
      <4> QED
        BY <4>2, <4>3
    <3>2. r \in PickRecord
      BY <1>4, <2>2, <3>1 DEF PickRecord
    <3>3. s.quiet => BestSoFar(r, healthy, latency)
      BY <2>1, <2>4, <3>1 DEF Passing, BestSoFar
    <3>4. Passing(r, healthy, latency)
      BY <2>1, <2>4, <3>1, <3>3 DEF Passing
    <3>5. Comparing(r, healthy)
      BY <2>1, <2>4, <3>1 DEF Comparing
    <3> QED
      BY <3>1, <3>2, <3>4, <3>5 DEF PickOK
  <2> QED
    BY <2>3, <2>4
<1>10. CASE CompareLatency(p)
  <2>1. /\ s.pc = "compare"
        /\ Passing(s, healthy, latency) /\ Comparing(s, healthy)
    BY <1>4, <1>10 DEF CompareLatency, s, PickOK
  <2>2. PICK best : /\ best = IF latency[s.next] < latency[s.best] THEN s.next ELSE s.best
                    /\ r = [pc |-> "look", next |-> s.next + 1, best |-> best,
                            steady |-> s.steady, seen |-> s.seen, quiet |-> s.quiet]
    <3>1. r = [s EXCEPT !.pc = "look", !.next = @ + 1,
                        !.best = IF latency[s.next] < latency[s.best] THEN s.next ELSE s.best]
      BY <1>1, <1>4, <1>10 DEF CompareLatency, SetPick, s
    <3> QED
      BY <1>6, <3>1
  <2>3. /\ s.next \in Judges /\ s.best \in Judges /\ s.best # 0
        /\ s.next \in s.seen /\ s.best \in s.seen
        /\ s.quiet => healthy[s.next]
    <3>1. s.best \in 0 .. NumJudges
      BY <1>4 DEF PickRecord
    <3> QED
      BY <1>5, <2>1, <3>1 DEF Comparing, Passing, Judges
  <2>4. best \in Judges /\ best # 0 /\ best \in s.seen
    BY <1>5, <2>2, <2>3
  <2>5. r \in PickRecord
    <3>1. s.next + 1 \in 1 .. NumJudges + 1 /\ best \in 0 .. NumJudges
      BY <1>5, <2>3, <2>4
    <3> QED
      BY <1>4, <2>2, <3>1 DEF PickRecord
  <2>6. s.quiet => BestSoFar(r, healthy, latency)
    <3> SUFFICES ASSUME s.quiet PROVE BestSoFar(r, healthy, latency)
      OBVIOUS
    <3>1. /\ healthy[s.best] /\ healthy[s.next]
          /\ \A j \in Judges : j < s.next /\ healthy[j] => latency[s.best] <= latency[j]
      BY <2>1, <2>3 DEF Passing, BestSoFar
    <3>2. latency[s.next] \in Nat /\ latency[s.best] \in Nat /\ latency[best] \in Nat
      BY <1>4, <2>3, <2>4
    <3>3. latency[best] <= latency[s.best] /\ latency[best] <= latency[s.next] /\ healthy[best]
      <4>1. CASE latency[s.next] < latency[s.best]
        BY <2>2, <3>1, <3>2, <4>1
      <4>2. CASE ~ (latency[s.next] < latency[s.best])
        BY <2>2, <3>1, <3>2, <4>2
      <4> QED
        BY <4>1, <4>2
    <3>4. ASSUME NEW j \in Judges, j < s.next + 1, healthy[j]
          PROVE  latency[best] <= latency[j]
      <4>1. latency[j] \in Nat
        BY <1>4
      <4>2. CASE j = s.next
        BY <3>3, <4>2
      <4>3. CASE j < s.next
        <5>1. latency[s.best] <= latency[j]
          BY <3>1, <3>4, <4>3
        <5> QED
          BY <3>2, <3>3, <4>1, <5>1
      <4> QED
        BY <1>5, <3>4, <4>2, <4>3
    <3> QED
      BY <2>2, <2>4, <3>3, <3>4 DEF BestSoFar
  <2>7. Passing(r, healthy, latency)
    BY <2>1, <2>2, <2>4, <2>6 DEF Passing
  <2> QED
    BY <2>2, <2>5, <2>7 DEF PickOK
<1>11. CASE EndPick(p)
  <2>1. /\ s.pc = "look" /\ s.next > NumJudges
        /\ Passing(s, healthy, latency)
    BY <1>4, <1>11 DEF EndPick, s, PickOK
  <2>2. PICK best : /\ best = IF s.best = 0 THEN 1 ELSE s.best
                    /\ r = [pc |-> "done", next |-> s.next, best |-> best,
                            steady |-> s.steady, seen |-> s.seen, quiet |-> s.quiet]
    <3>1. r = [s EXCEPT !.pc = "done", !.best = IF @ = 0 THEN 1 ELSE @]
      BY <1>1, <1>4, <1>11 DEF EndPick, SetPick, s
    <3> QED
      BY <1>6, <3>1
  <2>3. best \in 0 .. NumJudges /\ best \in Judges
    <3>1. s.best \in 0 .. NumJudges
      BY <1>4 DEF PickRecord
    <3> QED
      BY <1>5, <2>2, <3>1 DEF Judges
  <2>4. r \in PickRecord
    BY <1>4, <2>2, <2>3 DEF PickRecord
  <2>5. \A j \in Judges : j < s.next /\ ~ (s.next <= j)
    BY <1>5, <2>1
  <2>6. r.steady # {} => r.best \in r.seen
    <3>1. s.steady \subseteq Judges
      BY <1>4 DEF PickRecord
    <3>2. s.best = 0 => s.steady = {}
      BY <2>1, <2>5, <3>1 DEF Passing
    <3> QED
      BY <2>1, <2>2, <3>2 DEF Passing
  <2>7. r.quiet => \/ /\ r.best \in Judges /\ healthy[r.best]
                      /\ \A k \in Judges : healthy[k] => latency[r.best] <= latency[k]
                   \/ r.best = 1 /\ \A j \in Judges : ~ healthy[j]
    BY <2>1, <2>2, <2>3, <2>5 DEF Passing, BestSoFar
  <2> QED
    BY <2>2, <2>4, <2>6, <2>7 DEF PickOK, Picked
<1> QED
  BY <1>7, <1>8, <1>9, <1>10, <1>11 DEF PickStep

LEMMA PickInvStep == PickInv /\ [JudgeNext]_judgeVars => PickInv'
<1> SUFFICES ASSUME PickInv, [JudgeNext]_judgeVars PROVE PickInv'
  OBVIOUS
<1>1. CASE UNCHANGED <<healthy, latency, pick>>
  BY <1>1 DEF PickInv, PoolTyped
<1>2. StartRound => UNCHANGED <<healthy, latency, pick>>
  BY DEF StartRound
<1>3. ASSUME NEW j \in Judges PROVE JudgeTurns(j) => UNCHANGED <<healthy, latency, pick>>
  BY DEF JudgeTurns
<1>4. ASSUME NEW e \in Evaluators, EvalStep(e) \/ \E a \in Answers : StartEvaluation(e, a)
      PROVE  UNCHANGED <<healthy, latency, pick>>
  BY <1>4 DEF EvalStep, ReadAddress, EnterOnce, NoAddress, JudgeGivesNothing, JudgeGivesAddress,
              StoreAddress, StartEvaluation, SetEval, poolVars
<1>5. UNCHANGED judgeVars => UNCHANGED <<healthy, latency, pick>>
  BY DEF judgeVars
<1> QED
  BY <1>1, <1>2, <1>3, <1>4, <1>5, ProbeKeepsPick, PickStepKeepsPick DEF JudgeNext

(* PickJudge returns a judge it saw healthy whenever some judge was healthy*)
(* all along, and a fastest one if nothing changed meanwhile, for any list *)
(* of judges, any response times and any interleaving with the probes.     *)
THEOREM PicksAreHealthy == JudgeSpec => []PickIsHealthy
<1>1. PickInv => PickIsHealthy
  BY DEF PickInv, PickOK, Picked, PickIsHealthy, Best
<1> QED
  BY <1>1, PickInvInit, PickInvStep, PTL DEF JudgeSpec

(***************************************************************************)
(* EvaluateAnonymity.  At most one evaluator is inside the Once, and only  *)
(* before the address is complete; an evaluation that begins later reads   *)
(* it at once.                                                             *)
(***************************************************************************)
Fetching(e) == eval[e].pc \in {"ask", "store"}

EvalRecord ==
  [pc : {"done", "read", "once", "ask", "store", "faulted"}, next : Int,
   answer : [leaks : BOOLEAN, announces : BOOLEAN],
   verdict : {"transparent", "anonymous", "elite"}, began : BOOLEAN]

SeesLeaks(r) ==
  r.began => /\ r.pc \in {"read", "done"}
             /\ r.pc = "done" /\ r.answer.leaks => r.verdict = "transparent"

AddressInv ==
  /\ DOMAIN eval = Evaluators
  /\ \A e \in Evaluators :
       /\ eval[e] \in EvalRecord /\ SeesLeaks(eval[e])
       /\ eval[e].began => address = "set"
       /\ Fetching(e) => once = "running" /\ \A f \in Evaluators : Fetching(f) => f = e
  /\ address = "set" => once = "done"

LEMMA AddressInvInit == JudgeInit => AddressInv
<1>1. /\ NotEvaluating \in EvalRecord /\ NotEvaluating.began = FALSE
      /\ NotEvaluating.pc = "done"
  BY DEF NotEvaluating, EvalRecord, NotJudged
<1> QED
  BY <1>1 DEF JudgeInit, AddressInv, Fetching, SeesLeaks

LEMMA JudgedSeesLeaks ==
  ASSUME NEW r \in EvalRecord, NEW known \in BOOLEAN, r.began => known
  PROVE  LET s == [r EXCEPT !.pc = "done", !.verdict = Verdict(r.answer, known)]
         IN  s \in EvalRecord /\ SeesLeaks(s) /\ s.began = r.began /\ s.pc = "done"
<1>1. PICK v : v = Verdict(r.answer, known)
  OBVIOUS
<1>2. /\ v \in {"transparent", "anonymous", "elite"}
      /\ known /\ r.answer.leaks => v = "transparent"
  BY <1>1 DEF Verdict
<1>3. PICK s : s = [r EXCEPT !.pc = "done", !.verdict = v]
  OBVIOUS
<1>4. s = [pc |-> "done", next |-> r.next, answer |-> r.answer, verdict |-> v, began |-> r.began]
  BY <1>3 DEF EvalRecord
<1>5. s \in EvalRecord /\ SeesLeaks(s) /\ s.began = r.began /\ s.pc = "done"
  BY <1>2, <1>4 DEF EvalRecord, SeesLeaks
<1> QED
  BY <1>1, <1>3, <1>5

LEMMA EvaluatorKeepsAddress ==
  ASSUME AddressInv, NEW e \in Evaluators,
         EvalStep(e) \/ \E a \in Answers : StartEvaluation(e, a)
  PROVE  AddressInv'
<1>1. /\ DOMAIN eval = Evaluators
      /\ \A f \in Evaluators :
           /\ eval[f] \in EvalRecord /\ SeesLeaks(eval[f])
           /\ eval[f].began => address = "set"
           /\ Fetching(f) => once = "running" /\ \A g \in Evaluators : Fetching(g) => g = f
      /\ address = "set" => once = "done"
  BY DEF AddressInv
<1>2. PICK s, r : s = eval[e] /\ r = eval'[e] /\ eval' = [eval EXCEPT ![e] = r]
  BY <1>1 DEF EvalStep, ReadAddress, EnterOnce, NoAddress, JudgeGivesNothing, JudgeGivesAddress,
              StoreAddress, StartEvaluation, SetEval
<1>3. DOMAIN eval' = Evaluators /\ \A f \in Evaluators : f # e => eval'[f] = eval[f]
  BY <1>1, <1>2
<1>4. s \in EvalRecord /\ SeesLeaks(s) /\ (s.began => address = "set")
  BY <1>1, <1>2
<1>5. s = [pc |-> s.pc, next |-> s.next, answer |-> s.answer, verdict |-> s.verdict,
           began |-> s.began]
  BY <1>4 DEF EvalRecord
(* What remains of a step: its own record, the Once, and the address.      *)
<1>6. ASSUME r \in EvalRecord, SeesLeaks(r), r.began => address' = "set",
             r.pc \in {"ask", "store"} =>
               once' = "running" /\ \A f \in Evaluators : Fetching(f) => f = e,
             \A f \in Evaluators : f # e /\ Fetching(f) =>
               once' = "running" /\ ~ (r.pc \in {"ask", "store"}),
             address = "set" => address' = "set",
             address' = "set" => once' = "done"
      PROVE  AddressInv'
  <2>1. ASSUME NEW f \in Evaluators
        PROVE  /\ eval'[f] \in EvalRecord /\ SeesLeaks(eval'[f])
               /\ eval'[f].began => address' = "set"
               /\ Fetching(f)' => once' = "running" /\ \A g \in Evaluators : Fetching(g)' => g = f
    <3>1. \A g \in Evaluators : Fetching(g)' <=> IF g = e THEN r.pc \in {"ask", "store"} ELSE Fetching(g)
      BY <1>2, <1>3 DEF Fetching
    <3>2. CASE f = e
      BY <1>1, <1>2, <1>6, <3>1, <3>2
    <3>3. CASE f # e
      BY <1>1, <1>3, <1>6, <3>1, <3>3
    <3> QED
      BY <3>2, <3>3
  <2> QED
    BY <1>3, <1>6, <2>1 DEF AddressInv
<1>7. ASSUME NEW a \in Answers, StartEvaluation(e, a) PROVE AddressInv'
  <2>1. r = [pc |-> "read", next |-> 1, answer |-> a, verdict |-> "elite",
             began |-> address = "set"]
    BY <1>1, <1>2, <1>7 DEF StartEvaluation, SetEval
  <2>2. PICK known \in BOOLEAN : (known <=> address = "set") /\ r.began = known
    BY <2>1
  <2>3. r = [pc |-> "read", next |-> 1, answer |-> a, verdict |-> "elite", began |-> known]
    BY <2>1, <2>2
  <2>4. r \in EvalRecord
    BY <2>3, AnswersAssumption DEF EvalRecord
  <2>5. r.pc = "read"
    BY <2>1
  <2>6. UNCHANGED <<address, once>>
    BY <1>7 DEF StartEvaluation
  <2> QED
    BY <1>1, <1>6, <2>2, <2>4, <2>5, <2>6 DEF SeesLeaks
<1>8. CASE ReadAddress(e)
  <2>1. s.pc = "read" /\ UNCHANGED <<address, once>>
    BY <1>2, <1>8 DEF ReadAddress
  <2>2. CASE address = "set"
    <3>1. r = [s EXCEPT !.pc = "done", !.verdict = Verdict(s.answer, TRUE)]
      BY <1>1, <1>2, <1>8, <2>2 DEF ReadAddress, SetEval, Judged
    <3>2. r \in EvalRecord /\ SeesLeaks(r) /\ r.pc = "done"
      BY <1>4, <3>1, JudgedSeesLeaks
    <3> QED
      BY <1>1, <1>6, <2>1, <2>2, <3>2
  <2>3. CASE address # "set"
    <3>1. ~ s.began
      BY <1>4, <2>3
    <3>2. PICK pc \in {"faulted", "once"} : r = [s EXCEPT !.pc = pc]
      BY <1>1, <1>2, <1>8, <2>3 DEF ReadAddress, SetEval
    <3>3. r = [pc |-> pc, next |-> s.next, answer |-> s.answer, verdict |-> s.verdict,
               began |-> s.began]
      BY <1>5, <3>2
    <3>4. r \in EvalRecord /\ r.pc \in {"faulted", "once"} /\ ~ r.began
      BY <1>4, <3>1, <3>3 DEF EvalRecord
    <3> QED
      BY <1>1, <1>6, <2>1, <3>4 DEF SeesLeaks
  <2> QED
    BY <2>2, <2>3
<1>9. CASE EnterOnce(e)
  <2>1. s.pc = "once" /\ once # "running" /\ address' = address /\ ~ s.began
    BY <1>2, <1>4, <1>9 DEF EnterOnce, SeesLeaks
  <2>2. \A f \in Evaluators : ~ Fetching(f)
    BY <1>1, <2>1
  <2>3. CASE once = "new"
    <3>1. r = [s EXCEPT !.pc = "ask"] /\ once' = "running"
      BY <1>1, <1>2, <1>9, <2>3 DEF EnterOnce, SetEval
    <3>2. r = [pc |-> "ask", next |-> s.next, answer |-> s.answer, verdict |-> s.verdict,
               began |-> s.began]
      BY <1>5, <3>1
    <3>3. r \in EvalRecord /\ r.pc = "ask" /\ ~ r.began
      BY <1>4, <2>1, <3>2 DEF EvalRecord
    <3>4. address # "set"
      BY <1>1, <2>3
    <3> QED
      BY <1>6, <2>1, <2>2, <3>1, <3>3, <3>4 DEF SeesLeaks
  <2>4. CASE once # "new"
    <3>1. once' = once
      BY <1>9, <2>4 DEF EnterOnce
    <3>2. PICK known \in BOOLEAN :
            r = [s EXCEPT !.pc = "done", !.verdict = Verdict(s.answer, known)]
      <4>1. r = [s EXCEPT !.pc = "done", !.verdict = Verdict(s.answer, address = "set")]
        BY <1>1, <1>2, <1>9, <2>4 DEF EnterOnce, SetEval, Judged
      <4> QED
        BY <4>1
    <3>3. r \in EvalRecord /\ SeesLeaks(r) /\ r.pc = "done" /\ r.began = s.began
      BY <1>4, <2>1, <3>2, JudgedSeesLeaks
    <3> QED
      BY <1>1, <1>6, <2>1, <2>2, <3>1, <3>3
  <2> QED
    BY <2>3, <2>4
<1>10. CASE JudgeGivesNothing(e)
  <2>1. /\ s.pc = "ask" /\ UNCHANGED <<address, once>>
        /\ r = [s EXCEPT !.next = s.next + 1]
    BY <1>1, <1>2, <1>10 DEF JudgeGivesNothing, SetEval
  <2>2. r = [pc |-> s.pc, next |-> s.next + 1, answer |-> s.answer, verdict |-> s.verdict,
             began |-> s.began]
    BY <1>5, <2>1
  <2>3. r \in EvalRecord /\ r.pc = "ask" /\ ~ r.began
    BY <1>4, <2>1, <2>2 DEF EvalRecord, SeesLeaks
  <2>4. once = "running" /\ \A f \in Evaluators : Fetching(f) => f = e
    BY <1>1, <1>2, <2>1 DEF Fetching
  <2> QED
    BY <1>1, <1>6, <2>1, <2>3, <2>4 DEF SeesLeaks
<1>11. CASE JudgeGivesAddress(e)
  <2>1. /\ s.pc = "ask" /\ address' = "half" /\ once' = once
        /\ r = [s EXCEPT !.pc = "store"]
    BY <1>1, <1>2, <1>11 DEF JudgeGivesAddress, SetEval
  <2>2. r = [pc |-> "store", next |-> s.next, answer |-> s.answer, verdict |-> s.verdict,
             began |-> s.began]
    BY <1>5, <2>1
  <2>3. r \in EvalRecord /\ r.pc = "store" /\ ~ r.began
    BY <1>4, <2>1, <2>2 DEF EvalRecord, SeesLeaks
  <2>4. once = "running" /\ \A f \in Evaluators : Fetching(f) => f = e
    BY <1>1, <1>2, <2>1 DEF Fetching
  <2> QED
    BY <1>1, <1>6, <2>1, <2>3, <2>4 DEF SeesLeaks
<1>12. CASE StoreAddress(e)
  <2>1. /\ s.pc = "store" /\ address' = "set" /\ once' = "done"
        /\ r = [s EXCEPT !.pc = "done", !.verdict = Verdict(s.answer, TRUE)]
    BY <1>1, <1>2, <1>12 DEF StoreAddress, SetEval, Judged
  <2>2. r \in EvalRecord /\ SeesLeaks(r) /\ r.pc = "done"
    BY <1>4, <2>1, JudgedSeesLeaks
  <2>3. \A f \in Evaluators : Fetching(f) => f = e
    BY <1>1, <1>2, <2>1 DEF Fetching
  <2> QED
    BY <1>6, <2>1, <2>2, <2>3
<1>13. CASE NoAddress(e)
  <2>1. /\ s.pc = "ask" /\ address' = address /\ once' = "done"
        /\ r = [s EXCEPT !.pc = "done", !.verdict = Verdict(s.answer, FALSE)]
    BY <1>1, <1>2, <1>13 DEF NoAddress, SetEval, Judged
  <2>2. ~ s.began
    BY <1>4, <2>1 DEF SeesLeaks
  <2>3. r \in EvalRecord /\ SeesLeaks(r) /\ r.pc = "done" /\ r.began = s.began
    BY <1>4, <2>1, <2>2, JudgedSeesLeaks
  <2>4. \A f \in Evaluators : Fetching(f) => f = e
    BY <1>1, <1>2, <2>1 DEF Fetching
  <2> QED
    BY <1>6, <2>1, <2>2, <2>3, <2>4
<1> QED
  BY <1>7, <1>8, <1>9, <1>10, <1>11, <1>12, <1>13 DEF EvalStep

LEMMA AddressInvStep == AddressInv /\ [JudgeNext]_judgeVars => AddressInv'
<1> SUFFICES ASSUME AddressInv, [JudgeNext]_judgeVars PROVE AddressInv'
  OBVIOUS
<1>1. CASE UNCHANGED <<eval, address, once>>
  BY <1>1 DEF AddressInv, Fetching
<1>2. StartRound => UNCHANGED <<eval, address, once>>
  BY DEF StartRound
<1>3. ASSUME NEW j \in Judges PROVE ProbeStep(j) \/ JudgeTurns(j) => UNCHANGED <<eval, address, once>>
  BY DEF ProbeStep, MarkDead, StoreLatency, MarkHealthy, JudgeTurns
<1>4. ASSUME NEW p \in Pickers PROVE PickStep(p) => UNCHANGED <<eval, address, once>>
  BY DEF PickStep, StartPick, SkipDead, LookAtHealthy, CompareLatency, EndPick, SetPick
<1>5. UNCHANGED judgeVars => UNCHANGED <<eval, address, once>>
  BY DEF judgeVars
<1> QED
  BY <1>1, <1>2, <1>3, <1>4, <1>5, EvaluatorKeepsAddress DEF JudgeNext

(* Once the address of this host is known, an evaluation that begins calls *)
(* a proxy that leaks it transparent, for any number of judges and of      *)
(* evaluators, with the address written in two steps and read without a    *)
(* lock.                                                                   *)
THEOREM LeaksAreSeen == JudgeSpec => []LeaksAreSeenOnceKnown
<1>1. AddressInv => LeaksAreSeenOnceKnown
  BY DEF AddressInv, SeesLeaks, LeaksAreSeenOnceKnown
<1> QED
  BY <1>1, AddressInvInit, AddressInvStep, PTL DEF JudgeSpec

(***************************************************************************)
(* The remainder of a division by a positive number.                       *)
(***************************************************************************)
LEMMA MultipleWithin ==
  ASSUME NEW n \in Nat \ {0}, NEW k \in Int, n * k < n, 0 - n < n * k
  PROVE  k = 0
<1>1. CASE k >= 1
  BY <1>1
<1>2. CASE k <= -1
  BY <1>2
<1> QED
  BY <1>1, <1>2

LEMMA Division ==
  ASSUME NEW n \in Nat \ {0}, NEW a \in Int
  PROVE  \E q \in Int, r \in 0 .. n - 1 : a = n * q + r /\ r = a % n
<1>1. a \div n \in Int
  OBVIOUS
<1>2. a % n \in 0 .. n - 1
  OBVIOUS
<1>3. a = n * (a \div n) + (a % n)
  OBVIOUS
<1> QED
  BY <1>1, <1>2, <1>3

LEMMA DivisionIsUnique ==
  ASSUME NEW n \in Nat \ {0}, NEW q \in Int, NEW r \in 0 .. n - 1,
         NEW p \in Int, NEW s \in 0 .. n - 1, n * q + r = n * p + s
  PROVE  r = s
<1>1. n * (q - p) = s - r
  OBVIOUS
<1>2. PICK k \in Int : k = q - p
  OBVIOUS
<1>3. s - r < n /\ 0 - n < s - r
  OBVIOUS
<1>4. n * k < n /\ 0 - n < n * k
  BY <1>1, <1>2, <1>3
<1>5. q = p
  BY <1>2, <1>4, MultipleWithin
<1> QED
  BY <1>5

LEMMA SlotsRepeat ==
  ASSUME NEW n \in Nat \ {0}, NEW a \in Int
  PROVE  (a + n) % n = a % n
<1>1. PICK q \in Int, r \in 0 .. n - 1 : a = n * q + r /\ r = a % n
  BY Division
<1>2. PICK p \in Int, s \in 0 .. n - 1 : a + n = n * p + s /\ s = (a + n) % n
  <2>1. a + n \in Int
    OBVIOUS
  <2> QED
    BY <2>1, Division
<1>3. n * (q + 1) = n * q + n
  OBVIOUS
<1>4. n * (q + 1) + r = n * p + s
  BY <1>1, <1>2, <1>3
<1>5. r = s
  BY <1>4, DivisionIsUnique
<1> QED
  BY <1>1, <1>2, <1>5

LEMMA SlotsDiffer ==
  ASSUME NEW n \in Nat \ {0}, NEW a \in Int, NEW b \in Int, a % n = b % n
  PROVE  a = b \/ a - b >= n \/ b - a >= n
<1>1. PICK q \in Int, r \in 0 .. n - 1 : a = n * q + r /\ r = a % n
  BY Division
<1>2. PICK p \in Int, s \in 0 .. n - 1 : b = n * p + s /\ s = b % n
  BY Division
<1>3. PICK k \in Int : k = q - p
  OBVIOUS
<1>4. a - b = n * k
  BY <1>1, <1>2, <1>3
<1> SUFFICES ASSUME a - b < n, b - a < n PROVE a = b
  OBVIOUS
<1>5. k = 0
  BY <1>4, MultipleWithin
<1>6. n * 0 = 0
  OBVIOUS
<1> QED
  BY <1>4, <1>5, <1>6

(***************************************************************************)
(* PushHistoryPoint, GetHistory.  The last HistorySize points that are     *)
(* written stand in the slots of their numbers, but for number 0, which    *)
(* NewStats has left out.                                                  *)
(***************************************************************************)
Newest == IF writing THEN index - 1 ELSE index

RingInv ==
  /\ ring \in [Slots -> Int] /\ index \in Nat /\ writing \in BOOLEAN
  /\ \A m \in Int :
       Newest - HistorySize < m /\ m <= Newest /\ m # 0 => ring[m % HistorySize] = m

(* Where a reader that began at current may find another point: a slot that*)
(* a later push takes, the push under way when it began, and number 0.     *)
Excused(current, late, last, i) ==
  \/ i <= last - current - 1
  \/ late /\ i = HistorySize - 1
  \/ current < HistorySize /\ i = HistorySize - 1 - current

ReadRecord ==
  [current : Nat, next : 0 .. HistorySize, points : [Slots -> Int \cup {Torn}], late : BOOLEAN]

ReadOK(r, last, busy) ==
  /\ r \in ReadRecord
  /\ r.current <= last
  /\ busy /\ r.current = last => r.late
  /\ r.next < HistorySize \/ r.points # Unread =>
       \A i \in Slots : i < r.next =>
         r.points[i] = r.current - HistorySize + 1 + i \/ Excused(r.current, r.late, last, i)

HistoryInv ==
  /\ RingInv
  /\ DOMAIN reading = HistoryReaders
  /\ \A r \in HistoryReaders : ReadOK(reading[r], index, writing)

LEMMA HistoryInvInit == HistoryInit => HistoryInv
<1> SUFFICES ASSUME HistoryInit PROVE HistoryInv
  OBVIOUS
<1>1. HistorySize \in Nat \ {0}
  BY HistoryAssumption
<1>2. RingInv
  <2>1. index = 0 /\ writing = FALSE /\ ring = [i \in Slots |-> i - HistorySize]
    BY DEF HistoryInit
  <2>2. ASSUME NEW m \in Int, 0 - HistorySize < m, m <= 0, m # 0
        PROVE  ring[m % HistorySize] = m
    <3>1. m + HistorySize \in Slots
      BY <1>1, <2>2 DEF Slots
    <3>2. HistorySize * 0 + (m + HistorySize) = m + HistorySize
      BY <1>1
    <3>3. (m + HistorySize) % HistorySize = m + HistorySize
      <4>1. PICK q \in Int, r \in 0 .. HistorySize - 1 :
              m + HistorySize = HistorySize * q + r /\ r = (m + HistorySize) % HistorySize
        BY <1>1, Division
      <4>2. r = m + HistorySize
        BY <1>1, <3>1, <3>2, <4>1, DivisionIsUnique DEF Slots
      <4> QED
        BY <4>1, <4>2
    <3>4. m % HistorySize = m + HistorySize
      BY <1>1, <3>3, SlotsRepeat
    <3> QED
      BY <1>1, <2>1, <3>1, <3>4
  <2>3. ring \in [Slots -> Int]
    BY <1>1, <2>1 DEF Slots
  <2>4. Newest = 0
    BY <2>1 DEF Newest
  <2> QED
    BY <2>1, <2>2, <2>3, <2>4 DEF RingInv
<1>3. ASSUME NEW r \in HistoryReaders PROVE ReadOK(reading[r], index, writing)
  <2>1. reading[r] = [current |-> 0, next |-> HistorySize, points |-> Unread, late |-> FALSE]
    BY <1>3 DEF HistoryInit
  <2>2. reading[r] \in ReadRecord
    BY <1>1, <2>1 DEF ReadRecord, Unread
  <2> QED
    BY <1>1, <2>1, <2>2 DEF ReadOK, HistoryInit
<1> QED
  BY <1>2, <1>3 DEF HistoryInv, HistoryInit

(* A push leaves the points of the readers as they are.                    *)
LEMMA PushKeepsReads ==
  ASSUME NEW r, NEW last \in Nat, NEW busy, NEW later \in Nat, NEW pushing,
         ReadOK(r, last, busy), last <= later,
         pushing /\ later = last => busy
  PROVE  ReadOK(r, later, pushing)
<1>1. r \in ReadRecord /\ r.current \in Nat /\ r.current <= last
  BY DEF ReadOK, ReadRecord
<1>2. r.current <= later /\ (pushing /\ r.current = later => r.late)
  BY <1>1 DEF ReadOK
<1>3. ASSUME NEW i \in Slots, Excused(r.current, r.late, last, i)
      PROVE  Excused(r.current, r.late, later, i)
  <2>1. i \in Int
    BY HistoryAssumption DEF Slots
  <2>2. i <= last - r.current - 1 => i <= later - r.current - 1
    BY <1>1, <2>1
  <2> QED
    BY <1>3, <2>2 DEF Excused
<1> QED
  BY <1>1, <1>2, <1>3 DEF ReadOK

LEMMA AdvanceKeepsInv == HistoryInv /\ AdvanceIndex => HistoryInv'
<1> SUFFICES ASSUME HistoryInv, AdvanceIndex PROVE HistoryInv'
  OBVIOUS
<1>1. /\ index \in Nat /\ index' = index + 1 /\ ~ writing /\ writing'
      /\ writing' \in BOOLEAN /\ ring' = ring /\ reading' = reading
  BY DEF HistoryInv, RingInv, AdvanceIndex
<1>2. RingInv'
  <2>1. Newest' = Newest
    BY <1>1 DEF Newest
  <2> QED
    BY <1>1, <2>1 DEF HistoryInv, RingInv
<1>3. ASSUME NEW r \in HistoryReaders PROVE ReadOK(reading[r], index', writing')
  <2>1. ReadOK(reading[r], index, writing)
    BY DEF HistoryInv
  <2>2. index' \in Nat /\ index <= index' /\ index' # index
    BY <1>1
  <2> QED
    BY <1>1, <2>1, <2>2, PushKeepsReads
<1> QED
  BY <1>1, <1>2, <1>3 DEF HistoryInv

LEMMA WriteKeepsInv == HistoryInv /\ WriteSlot => HistoryInv'
<1> SUFFICES ASSUME HistoryInv, WriteSlot PROVE HistoryInv'
  OBVIOUS
<1>1. /\ index \in Nat /\ index' = index /\ writing /\ writing' = FALSE /\ reading' = reading
      /\ ring \in [Slots -> Int] /\ ring' = [ring EXCEPT ![index % HistorySize] = index]
      /\ HistorySize \in Nat \ {0}
  BY HistoryAssumption DEF HistoryInv, RingInv, WriteSlot
<1>2. index % HistorySize \in Slots /\ ring' \in [Slots -> Int]
  BY <1>1, Division DEF Slots
<1>3. ASSUME NEW m \in Int, index - HistorySize < m, m <= index, m # 0
      PROVE  ring'[m % HistorySize] = m
  <2>1. CASE m = index
    BY <1>1, <1>2, <2>1
  <2>2. CASE m # index
    <3>1. m % HistorySize # index % HistorySize
      <4>1. ~ (m - index >= HistorySize) /\ ~ (index - m >= HistorySize) /\ index \in Int
        BY <1>1, <1>3
      <4> QED
        BY <1>1, <2>2, <4>1, SlotsDiffer
    <3>2. index - 1 - HistorySize < m /\ m <= index - 1
      BY <1>1, <1>3, <2>2
    <3>3. ring[m % HistorySize] = m
      BY <1>1, <1>3, <3>2 DEF HistoryInv, RingInv, Newest
    <3>4. m % HistorySize \in Slots
      BY <1>1, Division DEF Slots
    <3> QED
      BY <1>1, <1>2, <3>1, <3>3, <3>4
  <2> QED
    BY <2>1, <2>2
<1>4. RingInv'
  BY <1>1, <1>2, <1>3 DEF RingInv, Newest
<1>5. ASSUME NEW r \in HistoryReaders PROVE ReadOK(reading[r], index, FALSE)
  <2>1. ReadOK(reading[r], index, writing)
    BY DEF HistoryInv
  <2>2. index <= index
    BY <1>1
  <2> QED
    BY <1>1, <2>1, <2>2, PushKeepsReads
<1> QED
  BY <1>1, <1>4, <1>5 DEF HistoryInv

(* What a reader finds in slot i, if it is not excused.                    *)
LEMMA SlotHoldsExpected ==
  ASSUME RingInv, NEW c \in Nat, c <= index, NEW i \in Slots, NEW late,
         writing /\ c = index => late,
         ~ Excused(c, late, index, i)
  PROVE  /\ SlotOf(c, i) \in Slots
         /\ ring[SlotOf(c, i)] = c - HistorySize + 1 + i
         /\ writing => SlotOf(c, i) # index % HistorySize
<1>1. HistorySize \in Nat \ {0} /\ index \in Nat /\ i \in Int /\ 0 <= i /\ i <= HistorySize - 1
  BY HistoryAssumption DEF RingInv, Slots
<1>2. PICK m \in Int : m = c - HistorySize + 1 + i
  BY <1>1
<1>3. m + HistorySize = c + i + 1
  BY <1>1, <1>2
<1>4. SlotOf(c, i) = m % HistorySize
  BY <1>1, <1>3, SlotsRepeat DEF SlotOf
<1>5. m # 0
  BY <1>1, <1>2 DEF Excused
<1>6. index - HistorySize < m /\ m <= index
  BY <1>1, <1>2 DEF Excused
<1>7. writing => m # index
  BY <1>1, <1>2 DEF Excused
<1>8. SlotOf(c, i) \in Slots
  BY <1>1, <1>4, Division DEF Slots
<1>9. Newest - HistorySize < m /\ m <= Newest
  <2>1. CASE writing
    BY <1>1, <1>6, <1>7, <2>1 DEF Newest
  <2>2. CASE ~ writing
    BY <1>6, <2>2 DEF Newest
  <2> QED
    BY <2>1, <2>2
<1>10. ring[SlotOf(c, i)] = m
  BY <1>4, <1>5, <1>9 DEF RingInv
<1>11. ASSUME writing PROVE m % HistorySize # index % HistorySize
  <2>1. /\ ~ (m - index >= HistorySize) /\ ~ (index - m >= HistorySize)
        /\ m # index /\ index \in Int
    BY <1>1, <1>6, <1>7, <1>11
  <2> QED
    BY <1>1, <2>1, SlotsDiffer
<1> QED
  BY <1>2, <1>4, <1>8, <1>10, <1>11

LEMMA LoadIndexKeepsInv ==
  ASSUME HistoryInv, NEW r \in HistoryReaders, LoadIndex(r)
  PROVE  HistoryInv'
<1>1. /\ ring' = ring /\ index' = index /\ writing' = writing
      /\ DOMAIN reading' = HistoryReaders
      /\ \A s \in HistoryReaders : s # r => reading'[s] = reading[s]
      /\ reading'[r] = [current |-> index, next |-> 0, points |-> Unread, late |-> writing]
      /\ HistorySize \in Nat \ {0} /\ index \in Nat /\ writing \in BOOLEAN
  BY HistoryAssumption DEF HistoryInv, RingInv, LoadIndex
<1>2. RingInv'
  BY <1>1 DEF HistoryInv, RingInv, Newest
<1>3. Unread \in [Slots -> Int \cup {Torn}]
  BY DEF Unread
<1>4. reading'[r] \in ReadRecord
  BY <1>1, <1>3 DEF ReadRecord
<1>5. \A i \in Slots : ~ (i < 0)
  BY <1>1 DEF Slots
<1>6. ReadOK(reading'[r], index, writing)
  BY <1>1, <1>4, <1>5 DEF ReadOK
<1>7. ASSUME NEW s \in HistoryReaders PROVE ReadOK(reading'[s], index, writing)
  BY <1>1, <1>6 DEF HistoryInv
<1> QED
  BY <1>1, <1>2, <1>7 DEF HistoryInv

LEMMA LoadSlotKeepsInv ==
  ASSUME HistoryInv, NEW r \in HistoryReaders, LoadSlot(r)
  PROVE  HistoryInv'
<1>1. /\ ring' = ring /\ index' = index /\ writing' = writing
      /\ DOMAIN reading = HistoryReaders
      /\ HistorySize \in Nat \ {0} /\ index \in Nat
  BY HistoryAssumption DEF HistoryInv, RingInv, LoadSlot
<1>2. RingInv'
  BY <1>1 DEF HistoryInv, RingInv, Newest
<1>3. PICK s : s = reading[r]
  OBVIOUS
<1>4. ReadOK(s, index, writing) /\ s \in ReadRecord /\ s.next < HistorySize
  BY <1>3 DEF HistoryInv, ReadOK, LoadSlot
<1>5. PICK slot, p :
        /\ slot = SlotOf(s.current, s.next)
        /\ p \in {ring[slot]} \cup
                 (IF writing /\ slot = index % HistorySize THEN {index, Torn} ELSE {})
        /\ reading' = [reading EXCEPT ![r].points[reading[r].next] = p, ![r].next = @ + 1]
  BY <1>3 DEF LoadSlot
<1>6. /\ s.current \in Nat /\ s.next \in Nat /\ s.next \in Slots
      /\ s.points \in [Slots -> Int \cup {Torn}] /\ s.late \in BOOLEAN
  BY <1>1, <1>4 DEF ReadRecord, Slots
<1>7. PICK points : points = [s.points EXCEPT ![s.next] = p]
  OBVIOUS
<1>8. reading'[r] = [current |-> s.current, next |-> s.next + 1, points |-> points,
                     late |-> s.late]
  <2>1. reading'[r] = [s EXCEPT !.points[s.next] = p, !.next = s.next + 1]
    BY <1>1, <1>3, <1>5
  <2>2. s = [current |-> s.current, next |-> s.next, points |-> s.points, late |-> s.late]
    BY <1>4 DEF ReadRecord
  <2>3. PICK q : q = [s EXCEPT !.points[s.next] = p]
    OBVIOUS
  <2>4. q = [current |-> s.current, next |-> s.next, points |-> points, late |-> s.late]
    BY <1>7, <2>2, <2>3
  <2>5. reading'[r] = [q EXCEPT !.next = s.next + 1]
    BY <2>1, <2>3
  <2> QED
    BY <2>4, <2>5
<1>9. slot \in Slots /\ p \in Int \cup {Torn}
  <2>1. s.current + s.next + 1 \in Int
    BY <1>6
  <2>2. slot \in Slots
    BY <1>1, <1>5, <2>1, Division DEF SlotOf, Slots
  <2>3. ring[slot] \in Int
    BY <2>2 DEF HistoryInv, RingInv
  <2> QED
    BY <1>1, <1>5, <2>2, <2>3
<1>10. points \in [Slots -> Int \cup {Torn}]
  BY <1>6, <1>7, <1>9
<1>11. reading'[r] \in ReadRecord
  <2>1. s.next + 1 \in 0 .. HistorySize
    BY <1>1, <1>4, <1>6
  <2> QED
    BY <1>6, <1>8, <1>10, <2>1 DEF ReadRecord
<1>12. \/ p = s.current - HistorySize + 1 + s.next
       \/ Excused(s.current, s.late, index, s.next)
  <2> SUFFICES ASSUME ~ Excused(s.current, s.late, index, s.next)
               PROVE  p = s.current - HistorySize + 1 + s.next
    OBVIOUS
  <2>1. RingInv /\ s.current <= index /\ (writing /\ s.current = index => s.late)
    BY <1>4 DEF HistoryInv, ReadOK
  <2>2. /\ ring[slot] = s.current - HistorySize + 1 + s.next
        /\ writing => slot # index % HistorySize
    BY <1>5, <1>6, <2>1, SlotHoldsExpected
  <2> QED
    BY <1>5, <2>2
<1>13. ASSUME NEW i \in Slots, i < s.next + 1
       PROVE  \/ points[i] = s.current - HistorySize + 1 + i
              \/ Excused(s.current, s.late, index, i)
  <2>1. CASE i = s.next
    BY <1>6, <1>7, <1>12, <2>1
  <2>2. CASE i < s.next
    BY <1>4, <1>6, <1>7, <2>2 DEF ReadOK
  <2>3. i \in Int
    BY <1>1 DEF Slots
  <2> QED
    BY <1>6, <1>13, <2>1, <2>2, <2>3
<1>14. ReadOK(reading'[r], index, writing)
  BY <1>4, <1>8, <1>11, <1>13 DEF ReadOK
<1>15. DOMAIN reading' = HistoryReaders /\ \A q \in HistoryReaders : q # r => reading'[q] = reading[q]
  BY <1>1, <1>5
<1>16. ASSUME NEW q \in HistoryReaders PROVE ReadOK(reading'[q], index, writing)
  BY <1>14, <1>15 DEF HistoryInv
<1> QED
  BY <1>1, <1>2, <1>15, <1>16 DEF HistoryInv

LEMMA HistoryInvStep == HistoryInv /\ [HistoryNext]_historyVars => HistoryInv'
<1> SUFFICES ASSUME HistoryInv, [HistoryNext]_historyVars PROVE HistoryInv'
  OBVIOUS
<1>1. CASE UNCHANGED historyVars
  BY <1>1 DEF HistoryInv, RingInv, Newest, historyVars
<1> QED
  BY <1>1, AdvanceKeepsInv, WriteKeepsInv, LoadIndexKeepsInv, LoadSlotKeepsInv DEF HistoryNext

LEMMA ExcusedAreFew ==
  ASSUME NEW c \in Nat, NEW last \in Nat, c <= last, NEW late \in BOOLEAN,
         NEW S, \A i \in S : i \in Slots /\ Excused(c, late, last, i)
  PROVE  Cardinality(S) <=
           (last - c) + (IF late THEN 1 ELSE 0) + (IF c < HistorySize THEN 1 ELSE 0)
<1>1. HistorySize \in Nat \ {0}
  BY HistoryAssumption
<1> DEFINE P == 0 .. (last - c - 1)
           A == IF late THEN {HistorySize - 1} ELSE {}
           B == IF c < HistorySize THEN {HistorySize - 1 - c} ELSE {}
<1>2. IsFiniteSet(P) /\ Cardinality(P) = last - c
  <2>1. last - c - 1 \in Int
    OBVIOUS
  <2>2. IsFiniteSet(P) /\ Cardinality(P) = IF 0 > last - c - 1 THEN 0 ELSE (last - c - 1) - 0 + 1
    BY <2>1, FS_Interval
  <2> QED
    BY <2>2
<1>3. /\ IsFiniteSet(A) /\ Cardinality(A) = IF late THEN 1 ELSE 0
      /\ IsFiniteSet(B) /\ Cardinality(B) = IF c < HistorySize THEN 1 ELSE 0
  BY FS_EmptySet, FS_Singleton
<1>4. S \subseteq P \cup (A \cup B)
  <2> SUFFICES ASSUME NEW i \in S PROVE i \in P \cup (A \cup B)
    OBVIOUS
  <2>1. i \in Int /\ 0 <= i /\ Excused(c, late, last, i)
    BY <1>1 DEF Slots
  <2>2. CASE i <= last - c - 1
    BY <2>1, <2>2
  <2>3. CASE late /\ i = HistorySize - 1
    BY <2>3
  <2>4. CASE c < HistorySize /\ i = HistorySize - 1 - c
    BY <2>4
  <2> QED
    BY <2>1, <2>2, <2>3, <2>4 DEF Excused
<1> HIDE DEF P, A, B
<1>5. /\ IsFiniteSet(A \cup B)
      /\ Cardinality(A \cup B) <= (IF late THEN 1 ELSE 0) + (IF c < HistorySize THEN 1 ELSE 0)
  <2>1. IsFiniteSet(A \cap B)
    BY <1>3, FS_Intersection
  <2>2. Cardinality(A \cap B) \in Nat
    BY <2>1, FS_CardinalityType
  <2>3. /\ IsFiniteSet(A \cup B)
        /\ Cardinality(A \cup B) = Cardinality(A) + Cardinality(B) - Cardinality(A \cap B)
    BY <1>3, FS_Union
  <2> QED
    BY <1>3, <2>2, <2>3
<1>6. /\ IsFiniteSet(P \cup (A \cup B))
      /\ Cardinality(P \cup (A \cup B)) <= Cardinality(P) + Cardinality(A \cup B)
  <2>1. Cardinality(P \cap (A \cup B)) \in Nat
    BY <1>2, <1>5, FS_Intersection, FS_CardinalityType
  <2>2. Cardinality(A \cup B) \in Nat
    BY <1>5, FS_CardinalityType
  <2>3. /\ IsFiniteSet(P \cup (A \cup B))
        /\ Cardinality(P \cup (A \cup B)) =
             Cardinality(P) + Cardinality(A \cup B) - Cardinality(P \cap (A \cup B))
    BY <1>2, <1>5, FS_Union
  <2> QED
    BY <1>2, <2>1, <2>2, <2>3
<1>7. IsFiniteSet(S) /\ Cardinality(S) <= Cardinality(P \cup (A \cup B))
  BY <1>4, <1>6, FS_Subset
<1>8. Cardinality(S) \in Nat /\ Cardinality(P \cup (A \cup B)) \in Nat /\ Cardinality(A \cup B) \in Nat
  BY <1>5, <1>6, <1>7, FS_CardinalityType
<1> QED
  BY <1>2, <1>5, <1>6, <1>7, <1>8

(* A reader of the ring finds every point in its place but for one that was*)
(* under way when it began, one for each push begun since and the one that *)
(* NewStats leaves out, for a ring of any size and any number of readers.  *)
THEOREM PointsAreInPlace == HistorySpec => []HistoryInPlace
<1>1. ASSUME HistoryInv PROVE HistoryInPlace
  <2> SUFFICES ASSUME NEW r \in HistoryReaders, ReadDone(r)
               PROVE  Cardinality(OutOfPlace(r)) <=
                        (index - reading[r].current) + (IF reading[r].late THEN 1 ELSE 0)
                        + (IF reading[r].current < HistorySize THEN 1 ELSE 0)
    BY DEF HistoryInPlace
  <2>1. PICK s : s = reading[r]
    OBVIOUS
  <2>2. ReadOK(s, index, writing) /\ index \in Nat
    BY <1>1, <2>1 DEF HistoryInv, RingInv
  <2>3. s.current \in Nat /\ s.current <= index /\ s.late \in BOOLEAN
    BY <2>2 DEF ReadOK, ReadRecord
  <2>4. ASSUME NEW i \in OutOfPlace(r) PROVE i \in Slots /\ Excused(s.current, s.late, index, i)
    <3>1. i \in Slots /\ s.points[i] # s.current - HistorySize + 1 + i
      BY <2>1 DEF OutOfPlace, Expected
    <3>2. s.next = HistorySize /\ s.points # Unread
      BY <2>1 DEF ReadDone
    <3>3. i < s.next
      BY <3>1, <3>2, HistoryAssumption DEF Slots
    <3> QED
      BY <2>2, <3>1, <3>2, <3>3 DEF ReadOK
  <2>5. PICK S : S = OutOfPlace(r)
    OBVIOUS
  <2>6. Cardinality(S) <= (index - s.current) + (IF s.late THEN 1 ELSE 0)
                          + (IF s.current < HistorySize THEN 1 ELSE 0)
    BY <2>2, <2>3, <2>4, <2>5, ExcusedAreFew
  <2> QED
    BY <2>1, <2>5, <2>6
<1> QED
  BY <1>1, HistoryInvInit, HistoryInvStep, PTL DEF HistorySpec

(***************************************************************************)
(* RecordResult.  A job is counted as queued before it is scanned, as      *)
(* scanned before it has a verdict, as alive before its country is counted;*)
(* what lies between is in the hand of some worker.                        *)
(***************************************************************************)
Judgements == {"alive", "dead"}

(* What is left of the increments of a result.                             *)
Remainder(s) ==
  /\ s \in Seq(Counters)
  /\ \A i \in 1 .. Len(s) :
       /\ s[i] = "scanned" => i = 1 /\ Len(s) >= 2 /\ s[2] \in Judgements
       /\ s[i] \in Judgements => i = 1 \/ (i = 2 /\ s[1] = "scanned")
       /\ s[i] \in {"dead", "countries"} => i = Len(s)
       /\ s[i] # "queued"

Scans(s) == s # <<>> /\ Head(s) = "scanned"
Decides(s) == s # <<>> /\ Head(s) \in Judgements
Lands(s) == s # <<>> /\ s[Len(s)] = "countries" /\ Head(s) \notin {"scanned", "alive"}

Judging == {w \in Workers : Decides(pending[w])}
Landing == {w \in Workers : Lands(pending[w])}

CountsTyped ==
  /\ count \in [Counters -> Nat]
  /\ pending \in [Workers -> Seq(Counters)]
  /\ \A w \in Workers : Remainder(pending[w])

Balance ==
  /\ count["scanned"] + Cardinality(InHand) <= count["queued"]
  /\ count["alive"] + count["dead"] + Cardinality(Judging) = count["scanned"]
  /\ count["countries"] + Cardinality(Landing) <= count["alive"]

StatsInv == CountsTyped /\ Balance

Names == {"queued", "scanned", "alive", "dead", "countries"}

LEMMA NamesAreCounters == Names \subseteq Counters /\ Names \cap Classes = {}
BY ClassesAssumption DEF Names, Counters

LEMMA IncrementsRemain ==
  ASSUME NEW r \in Results
  PROVE  Remainder(Increments(r)) /\ Scans(Increments(r))
<1>1. /\ r.ok \in BOOLEAN /\ r.country \in BOOLEAN /\ r.classes \in Seq(Classes)
  BY ResultsAssumption
<1>2. PICK s, classes, n :
        s = Increments(r) /\ classes = r.classes /\ n = Len(classes)
  OBVIOUS
<1>3. n \in Nat /\ classes \in Seq(Classes) /\ \A i \in 1 .. n : classes[i] \in Classes
  BY <1>1, <1>2
<1>4. CASE ~ r.ok
  <2>1. s = <<"scanned", "dead">>
    BY <1>2, <1>4 DEF Increments
  <2>2. s \in Seq(Counters) /\ Len(s) = 2 /\ s[1] = "scanned" /\ s[2] = "dead"
    BY <2>1, NamesAreCounters DEF Names
  <2>3. s # <<>> /\ Head(s) = "scanned"
    BY <2>1
  <2>4. ASSUME NEW i \in 1 .. 2
        PROVE  /\ s[i] = "scanned" => i = 1
               /\ s[i] \in Judgements => i = 2
               /\ s[i] \in {"dead", "countries"} => i = 2
               /\ s[i] # "queued"
    <3>1. i = 1 \/ i = 2
      OBVIOUS
    <3> QED
      BY <2>2, <3>1 DEF Judgements
  <2> QED
    BY <1>2, <2>2, <2>3, <2>4 DEF Remainder, Scans, Judgements
<1>5. CASE r.ok
  <2>1. PICK last \in {<<"countries">>, <<>>} : s = (<<"scanned", "alive">> \o classes) \o last
    BY <1>1, <1>2, <1>5 DEF Increments
  <2>2. PICK a : a = <<"scanned", "alive">> \o classes
    OBVIOUS
  <2>3. /\ a \in Seq(Counters) /\ Len(a) = 2 + n /\ a[1] = "scanned" /\ a[2] = "alive"
        /\ \A i \in 3 .. 2 + n : a[i] \in Classes
    <3>1. <<"scanned", "alive">> \in Seq(Counters) /\ classes \in Seq(Counters)
      BY <1>3, NamesAreCounters DEF Names, Counters
    <3>2. a \in Seq(Counters) /\ Len(a) = 2 + n
      BY <1>2, <2>2, <3>1
    <3>3. a[1] = "scanned" /\ a[2] = "alive"
      BY <1>2, <1>3, <2>2, <3>1
    <3>4. ASSUME NEW i \in 3 .. 2 + n PROVE a[i] \in Classes
      <4>1. i - 2 \in 1 .. n /\ i \in 1 .. 2 + n
        BY <1>3
      <4>2. a[i] = classes[i - 2]
        BY <1>2, <1>3, <2>2, <3>1, <4>1
      <4> QED
        BY <1>3, <4>1, <4>2
    <3> QED
      BY <3>2, <3>3, <3>4
  <2>4. PICK m \in {0, 1} :
          /\ s \in Seq(Counters) /\ Len(s) = 2 + n + m
          /\ \A i \in 1 .. 2 + n : s[i] = a[i]
          /\ m = 1 => s[Len(s)] = "countries"
    <3>1. CASE last = <<>>
      <4>1. s = a
        BY <2>1, <2>2, <2>3, <3>1
      <4> QED
        BY <2>3, <4>1
    <3>2. CASE last = <<"countries">>
      <4>1. <<"countries">> \in Seq(Counters)
        BY NamesAreCounters DEF Names
      <4>2. s = a \o <<"countries">>
        BY <2>1, <2>2, <3>2
      <4>3. s \in Seq(Counters) /\ Len(s) = 2 + n + 1
        BY <2>3, <4>1, <4>2
      <4>4. \A i \in 1 .. 2 + n : s[i] = a[i]
        BY <1>3, <2>3, <4>2
      <4>5. s[2 + n + 1] = "countries"
        BY <1>3, <2>3, <4>2
      <4> QED
        BY <4>3, <4>4, <4>5
    <3> QED
      BY <2>1, <3>1, <3>2
  <2>5. /\ Len(s) \in Nat /\ Len(s) >= 2 /\ s[1] = "scanned" /\ s[2] = "alive"
        /\ s # <<>> /\ Head(s) = "scanned"
    BY <1>3, <2>3, <2>4
  <2>6. ASSUME NEW i \in 1 .. Len(s)
        PROVE  \/ i = 1 \/ i = 2 \/ s[i] \in Classes
               \/ i = Len(s) /\ s[i] = "countries"
    <3>1. CASE i <= 2 + n
      BY <1>3, <2>3, <2>4, <3>1
    <3>2. CASE i = 2 + n + 1
      BY <1>3, <2>4, <3>2
    <3> QED
      BY <1>3, <2>4, <3>1, <3>2
  <2>7. ASSUME NEW i \in 1 .. Len(s)
        PROVE  /\ s[i] = "scanned" => i = 1
               /\ s[i] \in Judgements => i = 2
               /\ s[i] \in {"dead", "countries"} => i = Len(s)
               /\ s[i] # "queued"
    BY <2>5, <2>6, NamesAreCounters DEF Names, Judgements
  <2> QED
    BY <1>2, <2>4, <2>5, <2>7 DEF Remainder, Scans, Judgements
<1> QED
  BY <1>1, <1>4, <1>5

(* The next increment, and what it leaves.                                 *)
LEMMA RemainderShrinks ==
  ASSUME NEW s, Remainder(s), s # <<>>
  PROVE  LET t == Tail(s) IN
         /\ Head(s) \in Counters /\ Head(s) # "queued"
         /\ Remainder(t) /\ ~ Scans(t)
         /\ Decides(t) <=> Scans(s)
         /\ Head(s) = "scanned" => ~ Lands(t) /\ ~ Lands(s)
         /\ Head(s) = "alive" => ~ Lands(s)
         /\ Head(s) = "dead" => ~ Lands(t) /\ ~ Lands(s)
         /\ Head(s) = "countries" => Lands(s) /\ ~ Lands(t)
         /\ Head(s) \in Classes => (Lands(t) <=> Lands(s))
<1>1. PICK t, n : t = Tail(s) /\ n = Len(s)
  OBVIOUS
<1>2. /\ s \in Seq(Counters) /\ n \in Nat /\ n >= 1
      /\ t \in Seq(Counters) /\ Len(t) = n - 1 /\ \A i \in 1 .. n - 1 : t[i] = s[i + 1]
      /\ Head(s) = s[1] /\ s[1] \in Counters
      /\ t # <<>> <=> n >= 2
      /\ n >= 2 => Head(t) = s[2] /\ t[Len(t)] = s[n]
  <2>1. s \in Seq(Counters) /\ n \in Nat /\ n >= 1 /\ Head(s) = s[1] /\ s[1] \in Counters
    BY <1>1 DEF Remainder
  <2>2. t \in Seq(Counters) /\ Len(t) = n - 1
    BY <1>1, <2>1
  <2>3. \A i \in 1 .. n - 1 : t[i] = s[i + 1]
    BY <1>1, <2>1
  <2>4. t # <<>> <=> n >= 2
    BY <2>1, <2>2
  <2>5. ASSUME n >= 2 PROVE Head(t) = s[2] /\ t[Len(t)] = s[n]
    <3>1. Head(t) = t[1] /\ 1 \in 1 .. n - 1 /\ n - 1 \in 1 .. n - 1
      BY <2>1, <2>2, <2>4, <2>5
    <3> QED
      BY <2>1, <2>2, <2>3, <3>1
  <2> QED
    BY <2>1, <2>2, <2>3, <2>4, <2>5
<1>3. \A i \in 1 .. n :
        /\ s[i] = "scanned" => i = 1 /\ n >= 2 /\ s[2] \in Judgements
        /\ s[i] \in Judgements => i = 1 \/ (i = 2 /\ s[1] = "scanned")
        /\ s[i] \in {"dead", "countries"} => i = n
        /\ s[i] # "queued"
  BY <1>1 DEF Remainder
<1>4. Remainder(t)
  <2>1. ASSUME NEW i \in 1 .. n - 1
        PROVE  /\ t[i] # "scanned" /\ t[i] # "queued"
               /\ t[i] \in Judgements => i = 1
               /\ t[i] \in {"dead", "countries"} => i = n - 1
    <3>1. i + 1 \in 1 .. n /\ t[i] = s[i + 1] /\ i + 1 # 1
      BY <1>2
    <3> QED
      BY <1>2, <1>3, <3>1
  <2> QED
    BY <1>2, <2>1 DEF Remainder
<1>5. 1 \in 1 .. n /\ n \in 1 .. n /\ (n >= 2 => 2 \in 1 .. n /\ 2 # 1)
  BY <1>2
<1>6. ~ Scans(t)
  BY <1>2, <1>3, <1>5 DEF Scans
<1>7. Decides(t) <=> Scans(s)
  BY <1>2, <1>3, <1>5 DEF Scans, Decides
<1>8. Head(s) = "scanned" => ~ Lands(t) /\ ~ Lands(s)
  <2>1. n >= 2 /\ s[2] = "dead" => n = 2
    BY <1>2, <1>3, <1>5
  <2>2. Head(s) = "scanned" => n >= 2 /\ s[2] \in {"alive", "dead"}
    BY <1>2, <1>3, <1>5 DEF Judgements
  <2>3. s[n] = "countries" => n # 2 \/ s[2] = "countries"
    OBVIOUS
  <2> QED
    BY <1>1, <1>2, <2>1, <2>2, <2>3 DEF Lands
<1>9. Head(s) = "alive" => ~ Lands(s)
  BY DEF Lands
<1>10. Head(s) = "dead" => ~ Lands(t) /\ ~ Lands(s)
  <2>1. Head(s) = "dead" => n = 1 /\ s[n] # "countries"
    BY <1>2, <1>3, <1>5
  <2> QED
    BY <1>1, <1>2, <2>1 DEF Lands
<1>11. Head(s) = "countries" => Lands(s) /\ ~ Lands(t)
  BY <1>1, <1>2, <1>3, <1>5 DEF Lands
<1>12. Head(s) \in Classes => (Lands(t) <=> Lands(s))
  <2>1. Head(s) \in Classes => Head(s) \notin Names
    BY NamesAreCounters
  <2>2. n >= 2 => s[2] # "scanned" /\ (s[2] = "alive" => s[1] = "scanned")
    BY <1>3, <1>5 DEF Judgements
  <2> QED
    BY <1>1, <1>2, <2>1, <2>2 DEF Lands, Names
<1> QED
  BY <1>1, <1>2, <1>3, <1>4, <1>5, <1>6, <1>7, <1>8, <1>9, <1>10, <1>11, <1>12

LEMMA HandsAreFinite ==
  /\ IsFiniteSet(InHand) /\ IsFiniteSet(Judging) /\ IsFiniteSet(Landing)
  /\ Cardinality(InHand) \in Nat /\ Cardinality(Judging) \in Nat /\ Cardinality(Landing) \in Nat
<1>1. InHand \in SUBSET Workers /\ Judging \in SUBSET Workers /\ Landing \in SUBSET Workers
  BY DEF InHand, Judging, Landing
<1>2. IsFiniteSet(InHand) /\ IsFiniteSet(Judging) /\ IsFiniteSet(Landing)
  BY <1>1, WorkersAssumption, FS_Subset
<1> QED
  BY <1>2, FS_CardinalityType

LEMMA OneMoreOrLess ==
  ASSUME NEW S, IsFiniteSet(S), NEW w
  PROVE  /\ w \notin S => Cardinality(S \cup {w}) = Cardinality(S) + 1
         /\ w \in S => Cardinality(S \ {w}) = Cardinality(S) - 1
         /\ Cardinality(S \cup {w}) <= Cardinality(S) + 1
         /\ Cardinality(S) \in Nat /\ Cardinality(S \cup {w}) \in Nat
<1>1. Cardinality(S \cup {w}) = IF w \in S THEN Cardinality(S) ELSE Cardinality(S) + 1
  BY FS_AddElement
<1>2. w \in S => Cardinality(S \ {w}) = Cardinality(S) - 1
  BY FS_RemoveElement
<1>3. Cardinality(S) \in Nat
  BY FS_CardinalityType
<1> QED
  BY <1>1, <1>2, <1>3

LEMMA StatsInvInit == Init => StatsInv
<1> SUFFICES ASSUME Init PROVE StatsInv
  OBVIOUS
<1>1. \A w \in Workers : pending[w] = <<>>
  BY DEF Init
<1>2. Remainder(<<>>)
  BY DEF Remainder
<1>3. CountsTyped
  BY <1>1, <1>2 DEF CountsTyped, Init
<1>4. InHand = {} /\ Judging = {} /\ Landing = {}
  BY <1>1 DEF InHand, Judging, Landing, Decides, Lands
<1>5. Cardinality(InHand) = 0 /\ Cardinality(Judging) = 0 /\ Cardinality(Landing) = 0
  BY <1>4, FS_EmptySet
<1>6. \A c \in Names : count[c] = 0
  BY NamesAreCounters DEF Init
<1>7. Balance
  BY <1>5, <1>6 DEF Balance, Names
<1> QED
  BY <1>3, <1>7 DEF StatsInv

LEMMA IncQueuedKeepsInv == StatsInv /\ IncQueued => StatsInv'
<1> SUFFICES ASSUME StatsInv, IncQueued PROVE StatsInv'
  OBVIOUS
<1>1. /\ pending' = pending /\ count \in [Counters -> Nat]
      /\ count' = [count EXCEPT !["queued"] = @ + 1]
  BY DEF IncQueued, Add, StatsInv, CountsTyped
<1>2. CountsTyped'
  BY <1>1, NamesAreCounters DEF StatsInv, CountsTyped, Names
<1>3. InHand' = InHand /\ Judging' = Judging /\ Landing' = Landing
  BY <1>1 DEF InHand, Judging, Landing
<1>4. /\ count'["queued"] = count["queued"] + 1
      /\ \A c \in Names \ {"queued"} : count'[c] = count[c]
      /\ \A c \in Names : count[c] \in Nat
  BY <1>1, NamesAreCounters DEF Names
<1>5. Balance'
  BY <1>3, <1>4, HandsAreFinite DEF StatsInv, Balance, Names
<1> QED
  BY <1>2, <1>5 DEF StatsInv

LEMMA StartRecordKeepsInv ==
  ASSUME StatsInv, NEW w \in Workers, NEW r \in Results, StartRecord(w, r)
  PROVE  StatsInv'
<1>1. PICK s : s = Increments(r)
  OBVIOUS
<1>2. /\ count' = count /\ pending[w] = <<>> /\ DOMAIN pending = Workers
      /\ pending' = [pending EXCEPT ![w] = s]
      /\ count["scanned"] + Cardinality(InHand) < count["queued"]
  BY <1>1 DEF StartRecord, StatsInv, CountsTyped
<1>3. Remainder(s) /\ Scans(s)
  BY <1>1, IncrementsRemain
<1>4. CountsTyped'
  <2>1. pending' \in [Workers -> Seq(Counters)]
    BY <1>2, <1>3 DEF StatsInv, CountsTyped, Remainder
  <2>2. \A u \in Workers : pending'[u] = IF u = w THEN s ELSE pending[u]
    BY <1>2
  <2>3. \A u \in Workers : Remainder(pending'[u])
    BY <1>3, <2>2 DEF StatsInv, CountsTyped
  <2> QED
    BY <1>2, <2>1, <2>3 DEF StatsInv, CountsTyped
<1>5. ~ Decides(s) /\ ~ Lands(s)
  BY <1>3 DEF Scans, Decides, Lands, Judgements
<1>6. InHand' = InHand \cup {w} /\ w \notin InHand
  BY <1>2, <1>3 DEF InHand, Scans
<1>7. Judging' = Judging
  BY <1>2, <1>5 DEF Judging, Decides
<1>8. Landing' = Landing
  BY <1>2, <1>5 DEF Landing, Lands
<1>9. \A c \in Names : count[c] \in Nat
  BY NamesAreCounters DEF StatsInv, CountsTyped
<1>10. Cardinality(InHand') = Cardinality(InHand) + 1
  BY <1>6, HandsAreFinite, OneMoreOrLess
<1>11. /\ count["scanned"] + Cardinality(InHand') <= count["queued"]
  BY <1>2, <1>9, <1>10, HandsAreFinite DEF Names
<1>12. Balance'
  BY <1>2, <1>7, <1>8, <1>11 DEF StatsInv, Balance
<1> QED
  BY <1>4, <1>12 DEF StatsInv

LEMMA IncrementKeepsInv ==
  ASSUME StatsInv, NEW w \in Workers, Increment(w)
  PROVE  StatsInv'
<1>1. PICK s, t, c : s = pending[w] /\ t = Tail(s) /\ c = Head(s)
  OBVIOUS
<1>2. /\ s # <<>> /\ DOMAIN pending = Workers /\ count \in [Counters -> Nat]
      /\ count' = [count EXCEPT ![c] = count[c] + 1]
      /\ pending' = [pending EXCEPT ![w] = t]
  BY <1>1 DEF Increment, Add, StatsInv, CountsTyped
<1>3. Remainder(s)
  BY <1>1 DEF StatsInv, CountsTyped
<1>4. /\ c \in Counters /\ c # "queued"
      /\ Remainder(t) /\ ~ Scans(t)
      /\ Decides(t) <=> c = "scanned"
      /\ Scans(s) <=> c = "scanned"
      /\ Decides(s) <=> c \in Judgements
      /\ c = "scanned" => ~ Lands(t) /\ ~ Lands(s)
      /\ c = "alive" => ~ Lands(s)
      /\ c = "dead" => ~ Lands(t) /\ ~ Lands(s)
      /\ c = "countries" => Lands(s) /\ ~ Lands(t)
      /\ c \in Classes => (Lands(t) <=> Lands(s))
  <2>1. (Scans(s) <=> c = "scanned") /\ (Decides(s) <=> c \in Judgements)
    BY <1>1, <1>2 DEF Scans, Decides
  <2> QED
    BY <1>1, <1>2, <1>3, <2>1, RemainderShrinks
<1>5. CountsTyped'
  <2>1. pending' \in [Workers -> Seq(Counters)]
    BY <1>2, <1>4 DEF StatsInv, CountsTyped, Remainder
  <2>2. \A u \in Workers : pending'[u] = IF u = w THEN t ELSE pending[u]
    BY <1>2
  <2>3. \A u \in Workers : Remainder(pending'[u])
    BY <1>4, <2>2 DEF StatsInv, CountsTyped
  <2>4. count' \in [Counters -> Nat]
    BY <1>2, <1>4
  <2> QED
    BY <2>1, <2>3, <2>4 DEF CountsTyped
<1>6. InHand' = IF c = "scanned" THEN InHand \ {w} ELSE InHand
  BY <1>1, <1>2, <1>4 DEF InHand, Scans
<1>7. Judging' = IF c = "scanned" THEN Judging \cup {w}
                 ELSE IF c \in Judgements THEN Judging \ {w} ELSE Judging
  BY <1>1, <1>2, <1>4 DEF Judging, Judgements
<1>8. Landing' = IF Lands(t) THEN Landing \cup {w} ELSE Landing \ {w}
  BY <1>1, <1>2, <1>4 DEF Landing
<1>9. /\ w \in InHand <=> c = "scanned"
      /\ w \in Judging <=> c \in Judgements
      /\ w \in Landing <=> Lands(s)
  <2>1. w \in InHand <=> Scans(s)
    BY <1>1 DEF InHand, Scans
  <2> QED
    BY <1>1, <1>4, <2>1 DEF Judging, Landing
<1>10. /\ Cardinality(InHand) \in Nat /\ Cardinality(Judging) \in Nat /\ Cardinality(Landing) \in Nat
       /\ Cardinality(InHand') = Cardinality(InHand) - (IF c = "scanned" THEN 1 ELSE 0)
       /\ Cardinality(Judging') = Cardinality(Judging) +
            (IF c = "scanned" THEN 1 ELSE IF c \in Judgements THEN -1 ELSE 0)
  <2>1. Cardinality(InHand') = Cardinality(InHand) - (IF c = "scanned" THEN 1 ELSE 0)
    <3>1. CASE c = "scanned"
      BY <1>6, <1>9, <3>1, HandsAreFinite, OneMoreOrLess
    <3>2. CASE c # "scanned"
      BY <1>6, <3>2, HandsAreFinite
    <3> QED
      BY <3>1, <3>2
  <2>2. CASE c = "scanned"
    BY <1>7, <1>9, <2>1, <2>2, HandsAreFinite, OneMoreOrLess DEF Judgements
  <2>3. CASE c \in Judgements
    BY <1>7, <1>9, <2>1, <2>3, HandsAreFinite, OneMoreOrLess DEF Judgements
  <2>4. CASE c # "scanned" /\ c \notin Judgements
    BY <1>7, <2>1, <2>4, HandsAreFinite
  <2> QED
    BY <2>2, <2>3, <2>4
<1>11. Cardinality(Landing') <= Cardinality(Landing) +
         (IF c = "alive" THEN 1 ELSE IF c = "countries" THEN -1 ELSE 0)
  <2>1. CASE c = "alive"
    <3>1. Landing' = Landing \cup {w} \/ Landing' = Landing
      BY <1>4, <1>8, <1>9, <2>1
    <3>2. /\ Cardinality(Landing \cup {w}) <= Cardinality(Landing) + 1
          /\ Cardinality(Landing) \in Nat
      BY HandsAreFinite, OneMoreOrLess
    <3>3. Cardinality(Landing') <= Cardinality(Landing) + 1
      <4>1. CASE Landing' = Landing \cup {w}
        BY <3>2, <4>1
      <4>2. CASE Landing' = Landing
        <5>1. Cardinality(Landing') = Cardinality(Landing)
          BY <4>2
        <5> QED
          BY <3>2, <5>1
      <4> QED
        BY <3>1, <4>1, <4>2
    <3> QED
      BY <2>1, <3>3
  <2>2. CASE c = "countries"
    BY <1>4, <1>8, <1>9, <2>2, HandsAreFinite, OneMoreOrLess
  <2>3. CASE c # "alive" /\ c # "countries"
    <3>1. Lands(t) <=> Lands(s)
      BY <1>4, <2>3 DEF Counters
    <3>2. Landing' = Landing
      BY <1>8, <1>9, <3>1
    <3> QED
      BY <2>3, <3>2, HandsAreFinite
  <2> QED
    BY <2>1, <2>2, <2>3
<1>12. /\ \A d \in Names : count[d] \in Nat
       /\ \A d \in Names : count'[d] = IF d = c THEN count[d] + 1 ELSE count[d]
  BY <1>2, NamesAreCounters
<1>13. Balance
  BY DEF StatsInv
<1>14. Balance'
  <2>1. count'["scanned"] + Cardinality(InHand') <= count'["queued"]
    BY <1>4, <1>10, <1>12, <1>13 DEF Balance, Names
  <2>2. count'["alive"] + count'["dead"] + Cardinality(Judging') = count'["scanned"]
    <3>1. /\ count'["alive"] = IF c = "alive" THEN count["alive"] + 1 ELSE count["alive"]
          /\ count'["dead"] = IF c = "dead" THEN count["dead"] + 1 ELSE count["dead"]
          /\ count'["scanned"] = IF c = "scanned" THEN count["scanned"] + 1 ELSE count["scanned"]
          /\ count["alive"] \in Nat /\ count["dead"] \in Nat /\ count["scanned"] \in Nat
      BY <1>12 DEF Names
    <3>2. count["alive"] + count["dead"] + Cardinality(Judging) = count["scanned"]
      BY <1>13 DEF Balance
    <3> QED
      BY <1>10, <3>1, <3>2 DEF Judgements
  <2>3. count'["countries"] + Cardinality(Landing') <= count'["alive"]
    <3>1. /\ count'["alive"] = IF c = "alive" THEN count["alive"] + 1 ELSE count["alive"]
          /\ count'["countries"] = IF c = "countries" THEN count["countries"] + 1
                                   ELSE count["countries"]
          /\ count["alive"] \in Nat /\ count["countries"] \in Nat
      BY <1>12 DEF Names
    <3>2. count["countries"] + Cardinality(Landing) <= count["alive"]
      BY <1>13 DEF Balance
    <3>3. Cardinality(Landing') \in Nat
      <4>1. Landing' \in SUBSET Workers
        BY DEF Landing
      <4> QED
        BY <4>1, WorkersAssumption, FS_Subset, FS_CardinalityType
    <3> QED
      BY <1>10, <1>11, <3>1, <3>2, <3>3
  <2> QED
    BY <2>1, <2>2, <2>3 DEF Balance
<1> QED
  BY <1>5, <1>14 DEF StatsInv

LEMMA ReaderKeepsInv ==
  ASSUME StatsInv, UNCHANGED <<count, pending>>
  PROVE  StatsInv'
BY DEF StatsInv, CountsTyped, Balance, InHand, Judging, Landing

LEMMA StatsInvStep == StatsInv /\ [Next]_vars => StatsInv'
<1> SUFFICES ASSUME StatsInv, [Next]_vars PROVE StatsInv'
  OBVIOUS
<1>1. ASSUME NEW r \in Readers, StartRead(r) \/ Load(r) PROVE UNCHANGED <<count, pending>>
  BY <1>1 DEF StartRead, Load
<1>2. UNCHANGED vars => UNCHANGED <<count, pending>>
  BY DEF vars
<1> QED
  BY <1>1, <1>2, IncQueuedKeepsInv, StartRecordKeepsInv, IncrementKeepsInv, ReaderKeepsInv DEF Next

LEMMA InvNests == StatsInv => CountersNest
<1> SUFFICES ASSUME StatsInv PROVE CountersNest
  OBVIOUS
<1>1. \A c \in Names : count[c] \in Nat
  BY NamesAreCounters DEF StatsInv, CountsTyped
<1> QED
  BY <1>1, HandsAreFinite DEF StatsInv, Balance, CountersNest, Names

(* The counters nest at every moment, for any number of workers and results*)
(* and whichever increments of different results interleave.               *)
THEOREM CountsNest == Spec => []CountersNest
BY StatsInvInit, StatsInvStep, InvNests, PTL DEF Spec

(***************************************************************************)
(* Snapshot, printDashboard.  A reader that loads the smaller of two nested*)
(* counters has yet to load the larger one.                                *)
(***************************************************************************)
Awaits(s, b) == \E j \in 1 .. Len(s) : s[j] = b

Precedes(s, a, b) ==
  \A i \in 1 .. Len(s) : s[i] = a => \E j \in 1 .. Len(s) : i < j /\ s[j] = b

LoadsOrdered(r, s) ==
  /\ s \in Seq(Names)
  /\ Precedes(s, "scanned", "queued")
  /\ r \in Snapshots => Precedes(s, "countries", "alive")

Agrees(r, s, loaded) ==
  /\ loaded["scanned"] <= loaded["queued"] \/ Awaits(s, "queued")
  /\ r \in Snapshots => loaded["countries"] <= loaded["alive"] \/ Awaits(s, "alive")

ReadersInv ==
  /\ todo \in [Readers -> Seq(Names)]
  /\ got \in [Readers -> [Counters -> Nat]]
  /\ \A r \in Readers :
       /\ LoadsOrdered(r, todo[r])
       /\ \A c \in Names : got[r][c] <= count[c]
       /\ Agrees(r, todo[r], got[r])

LEMMA LoadsAreOrdered ==
  ASSUME NEW r \in Readers
  PROVE  LoadsOrdered(r, Loads(r))
<1>1. PICK s : s = Loads(r)
  OBVIOUS
<1>2. CASE r \in Dashboards
  <2>1. s = <<"scanned", "queued", "alive", "dead">>
    BY <1>1, <1>2 DEF Loads, DashboardLoads
  <2>2. /\ s \in Seq(Names) /\ Len(s) = 4
        /\ s[1] = "scanned" /\ s[2] = "queued" /\ s[3] = "alive" /\ s[4] = "dead"
    BY <2>1 DEF Names
  <2>3. Precedes(s, "scanned", "queued")
    <3>1. \A i \in 1 .. 4 : i = 1 \/ i = 2 \/ i = 3 \/ i = 4
      OBVIOUS
    <3>2. 2 \in 1 .. 4 /\ 1 < 2
      OBVIOUS
    <3> QED
      BY <2>2, <3>1, <3>2 DEF Precedes
  <2>4. r \notin Snapshots
    BY <1>2, ReadersAssumption
  <2> QED
    BY <1>1, <2>2, <2>3, <2>4 DEF LoadsOrdered
<1>3. CASE r \notin Dashboards
  <2>1. s = <<"countries", "scanned", "alive", "dead", "queued">>
    BY <1>1, <1>3 DEF Loads, SnapshotLoads
  <2>2. /\ s \in Seq(Names) /\ Len(s) = 5
        /\ s[1] = "countries" /\ s[2] = "scanned" /\ s[3] = "alive" /\ s[4] = "dead"
        /\ s[5] = "queued"
    BY <2>1 DEF Names
  <2>3. \A i \in 1 .. 5 : i = 1 \/ i = 2 \/ i = 3 \/ i = 4 \/ i = 5
    OBVIOUS
  <2>4. Precedes(s, "scanned", "queued")
    <3>1. 5 \in 1 .. 5 /\ 2 < 5
      OBVIOUS
    <3> QED
      BY <2>2, <2>3, <3>1 DEF Precedes
  <2>5. Precedes(s, "countries", "alive")
    <3>1. 3 \in 1 .. 5 /\ 1 < 3
      OBVIOUS
    <3> QED
      BY <2>2, <2>3, <3>1 DEF Precedes
  <2> QED
    BY <1>1, <2>2, <2>4, <2>5 DEF LoadsOrdered
<1> QED
  BY <1>2, <1>3

LEMMA TailKeepsOrder ==
  ASSUME NEW s \in Seq(Names), s # <<>>, NEW a, NEW b, Precedes(s, a, b)
  PROVE  /\ Precedes(Tail(s), a, b)
         /\ Head(s) = a => Awaits(Tail(s), b)
         /\ Awaits(s, b) /\ Head(s) # b => Awaits(Tail(s), b)
<1>1. PICK t, n : t = Tail(s) /\ n = Len(s)
  OBVIOUS
<1>2. /\ n \in Nat /\ n >= 1 /\ Len(t) = n - 1 /\ \A i \in 1 .. n - 1 : t[i] = s[i + 1]
      /\ Head(s) = s[1]
  BY <1>1
<1>3. ASSUME NEW i \in 1 .. n, NEW j \in 1 .. n, i < j PROVE j - 1 \in 1 .. n - 1 /\ t[j - 1] = s[j]
  <2>1. j - 1 \in 1 .. n - 1 /\ (j - 1) + 1 = j
    BY <1>2, <1>3
  <2> QED
    BY <1>2, <2>1
<1>4. Precedes(t, a, b)
  <2> SUFFICES ASSUME NEW i \in 1 .. n - 1, t[i] = a
               PROVE  \E j \in 1 .. n - 1 : i < j /\ t[j] = b
    BY <1>2 DEF Precedes
  <2>1. i + 1 \in 1 .. n /\ s[i + 1] = a
    BY <1>2
  <2>2. PICK j \in 1 .. n : i + 1 < j /\ s[j] = b
    BY <1>1, <2>1 DEF Precedes
  <2>3. j - 1 \in 1 .. n - 1 /\ t[j - 1] = b
    BY <1>3, <2>1, <2>2
  <2>4. i < j - 1
    BY <2>2, <1>2
  <2> QED
    BY <2>3, <2>4
<1>5. 1 \in 1 .. n
  BY <1>2
<1>6. ASSUME NEW j \in 1 .. n, s[j] = b, j # 1 PROVE Awaits(t, b)
  <2>1. 1 < j
    BY <1>6, <1>2
  <2>2. j - 1 \in 1 .. n - 1 /\ t[j - 1] = b
    BY <1>3, <1>5, <1>6, <2>1
  <2> QED
    BY <1>2, <2>2 DEF Awaits
<1>7. Head(s) = a => Awaits(t, b)
  <2> SUFFICES ASSUME s[1] = a PROVE Awaits(t, b)
    BY <1>2
  <2>1. PICK j \in 1 .. n : 1 < j /\ s[j] = b
    BY <1>1, <1>5 DEF Precedes
  <2> QED
    BY <1>2, <1>6, <2>1
<1>8. Awaits(s, b) /\ Head(s) # b => Awaits(t, b)
  BY <1>1, <1>2, <1>6 DEF Awaits
<1> QED
  BY <1>1, <1>4, <1>7, <1>8

LEMMA ReadersInvInit == Init => ReadersInv
<1> SUFFICES ASSUME Init PROVE ReadersInv
  OBVIOUS
<1>1. \A r \in Readers : todo[r] = <<>> /\ got[r] = [c \in Counters |-> 0]
  BY DEF Init
<1>2. \A r \in Readers : LoadsOrdered(r, <<>>)
  BY DEF LoadsOrdered, Precedes
<1>3. \A c \in Names : count[c] = 0
  BY NamesAreCounters DEF Init
<1>4. \A r \in Readers : \A c \in Names : got[r][c] = 0
  BY <1>1, NamesAreCounters
<1>5. todo \in [Readers -> Seq(Names)] /\ got \in [Readers -> [Counters -> Nat]]
  BY DEF Init
<1>6. 0 <= 0
  OBVIOUS
<1> QED
  BY <1>1, <1>2, <1>3, <1>4, <1>5, <1>6 DEF ReadersInv, Agrees, Names

LEMMA CountingKeepsReaders ==
  ASSUME ReadersInv, UNCHANGED <<todo, got>>, \A c \in Names : count[c] \in Nat /\ count'[c] \in Nat,
         \A c \in Names : count[c] <= count'[c]
  PROVE  ReadersInv'
<1>1. ASSUME NEW r \in Readers, NEW c \in Names PROVE got[r][c] <= count'[c]
  <2>1. got[r][c] \in Nat /\ got[r][c] <= count[c]
    BY NamesAreCounters DEF ReadersInv
  <2> QED
    BY <2>1
<1> QED
  BY <1>1 DEF ReadersInv

LEMMA CountsGrow ==
  ASSUME StatsInv, [Next]_vars
  PROVE  \A c \in Names : count[c] \in Nat /\ count'[c] \in Nat /\ count[c] <= count'[c]
<1>1. /\ count \in [Counters -> Nat]
      /\ \A c \in Names : count[c] \in Nat
  BY NamesAreCounters DEF StatsInv, CountsTyped
<1>2. ASSUME NEW d, Add(d) PROVE \A c \in Names : count'[c] \in Nat /\ count[c] <= count'[c]
  BY <1>1, <1>2, NamesAreCounters DEF Add
<1>3. CASE count' = count
  BY <1>1, <1>3
<1> QED
  BY <1>1, <1>2, <1>3 DEF Next, IncQueued, Increment, StartRecord, StartRead, Load, vars

LEMMA StartReadKeepsReaders ==
  ASSUME ReadersInv, NEW r \in Readers, StartRead(r)
  PROVE  ReadersInv'
<1>1. PICK s : s = Loads(r)
  OBVIOUS
<1>2. /\ count' = count /\ got' = got /\ todo[r] = <<>>
      /\ todo' = [todo EXCEPT ![r] = s] /\ todo \in [Readers -> Seq(Names)]
  BY <1>1 DEF StartRead, ReadersInv
<1>3. LoadsOrdered(r, s) /\ s \in Seq(Names)
  BY <1>1, LoadsAreOrdered DEF LoadsOrdered
<1>4. Agrees(r, s, got[r])
  BY <1>2 DEF ReadersInv, Agrees, Awaits
<1> QED
  BY <1>2, <1>3, <1>4 DEF ReadersInv

LEMMA LoadKeepsReaders ==
  ASSUME StatsInv, ReadersInv, NEW r \in Readers, Load(r)
  PROVE  ReadersInv'
<1>1. PICK s, t, c, g, h : s = todo[r] /\ t = Tail(s) /\ c = Head(s) /\ g = got[r] /\ h = got'[r]
  OBVIOUS
<1>2. /\ s # <<>> /\ count' = count
      /\ todo \in [Readers -> Seq(Names)] /\ got \in [Readers -> [Counters -> Nat]]
      /\ todo' = [todo EXCEPT ![r] = t]
      /\ got' = [got EXCEPT ![r][c] = count[c]]
  BY <1>1 DEF Load, ReadersInv
<1>3. /\ s \in Seq(Names) /\ t \in Seq(Names) /\ c \in Names
      /\ LoadsOrdered(r, s) /\ Agrees(r, s, g)
      /\ \A d \in Names : g[d] <= count[d]
  BY <1>1, <1>2 DEF ReadersInv
<1>4. /\ g \in [Counters -> Nat] /\ h = [g EXCEPT ![c] = count[c]]
      /\ count \in [Counters -> Nat]
  BY <1>1, <1>2 DEF StatsInv, CountsTyped
<1>5. /\ h \in [Counters -> Nat]
      /\ \A d \in Names : h[d] = IF d = c THEN count[d] ELSE g[d]
      /\ \A d \in Names : count[d] \in Nat /\ g[d] \in Nat /\ h[d] \in Nat
  BY <1>3, <1>4, NamesAreCounters
<1>6. \A d \in Names : h[d] <= count[d]
  BY <1>3, <1>5
<1>7. /\ Precedes(t, "scanned", "queued")
      /\ c = "scanned" => Awaits(t, "queued")
      /\ Awaits(s, "queued") /\ c # "queued" => Awaits(t, "queued")
  BY <1>1, <1>2, <1>3, TailKeepsOrder DEF LoadsOrdered
<1>8. r \in Snapshots =>
        /\ Precedes(t, "countries", "alive")
        /\ c = "countries" => Awaits(t, "alive")
        /\ Awaits(s, "alive") /\ c # "alive" => Awaits(t, "alive")
  BY <1>1, <1>2, <1>3, TailKeepsOrder DEF LoadsOrdered
<1>9. CountersNest
  BY InvNests
<1>10. h["scanned"] <= h["queued"] \/ Awaits(t, "queued")
  <2>1. CASE c = "queued"
    <3>1. h["queued"] = count["queued"] /\ h["scanned"] <= count["scanned"]
      BY <1>5, <1>6, <2>1 DEF Names
    <3> QED
      BY <1>5, <1>9, <3>1 DEF CountersNest, Names
  <2>2. CASE c # "queued" /\ c # "scanned"
    BY <1>3, <1>5, <1>7, <2>2 DEF Agrees, Names
  <2> QED
    BY <1>7, <2>1, <2>2
<1>11. r \in Snapshots => h["countries"] <= h["alive"] \/ Awaits(t, "alive")
  <2>1. CASE c = "alive"
    <3>1. h["alive"] = count["alive"] /\ h["countries"] <= count["countries"]
      BY <1>5, <1>6, <2>1 DEF Names
    <3> QED
      BY <1>5, <1>9, <3>1 DEF CountersNest, Names
  <2>2. CASE c # "alive" /\ c # "countries"
    BY <1>3, <1>5, <1>8, <2>2 DEF Agrees, Names
  <2> QED
    BY <1>8, <2>1, <2>2
<1>12. LoadsOrdered(r, t) /\ Agrees(r, t, h)
  BY <1>3, <1>7, <1>8, <1>10, <1>11 DEF LoadsOrdered, Agrees
<1>13. /\ todo' \in [Readers -> Seq(Names)] /\ got' \in [Readers -> [Counters -> Nat]]
       /\ \A q \in Readers : q # r => todo'[q] = todo[q] /\ got'[q] = got[q]
       /\ todo'[r] = t
  <2>1. got' = [got EXCEPT ![r] = h]
    BY <1>1, <1>2, <1>4
  <2> QED
    BY <1>2, <1>3, <1>5, <2>1
<1>14. ASSUME NEW q \in Readers
       PROVE  /\ LoadsOrdered(q, todo'[q])
              /\ \A d \in Names : got'[q][d] <= count'[d]
              /\ Agrees(q, todo'[q], got'[q])
  <2>1. CASE q = r
    BY <1>1, <1>2, <1>6, <1>12, <1>13, <2>1
  <2>2. CASE q # r
    BY <1>2, <1>13, <2>2 DEF ReadersInv
  <2> QED
    BY <2>1, <2>2
<1> QED
  BY <1>13, <1>14 DEF ReadersInv

LEMMA ReadersInvStep == StatsInv /\ ReadersInv /\ [Next]_vars => ReadersInv'
<1> SUFFICES ASSUME StatsInv, ReadersInv, [Next]_vars PROVE ReadersInv'
  OBVIOUS
<1>1. \A c \in Names : count[c] \in Nat /\ count'[c] \in Nat /\ count[c] <= count'[c]
  BY CountsGrow
<1>2. CASE UNCHANGED <<todo, got>>
  BY <1>1, <1>2, CountingKeepsReaders
<1>3. IncQueued => UNCHANGED <<todo, got>>
  BY DEF IncQueued
<1>4. ASSUME NEW w \in Workers, Increment(w) \/ \E r \in Results : StartRecord(w, r)
      PROVE  UNCHANGED <<todo, got>>
  BY <1>4 DEF Increment, StartRecord
<1>5. UNCHANGED vars => UNCHANGED <<todo, got>>
  BY DEF vars
<1> QED
  BY <1>2, <1>3, <1>4, <1>5, StartReadKeepsReaders, LoadKeepsReaders DEF Next

(* A reader that has finished never shows more scanned than queued jobs, nor*)
(* a snapshot more countries than living proxies, for any number of readers *)
(* and of increments between their loads.                                   *)
THEOREM ReadersSeeNestedCounts == Spec => []ReadersAgree
<1>1. ASSUME ReadersInv PROVE ReadersAgree
  <2>1. \A b : ~ Awaits(<<>>, b)
    BY DEF Awaits
  <2> QED
    BY <1>1, <2>1 DEF ReadersInv, Agrees, ReadersAgree
<1> QED
  BY <1>1, StatsInvInit, StatsInvStep, ReadersInvInit, ReadersInvStep, PTL DEF Spec

(* The counters never fall below zero, and what is left of a result or of a *)
(* read are counters.                                                      *)
THEOREM StatsAreTyped == Spec => []TypeOK
<1>1. Names \subseteq Counters
  BY NamesAreCounters
<1>2. ASSUME StatsInv, ReadersInv PROVE TypeOK
  <2>1. todo \in [Readers -> Seq(Names)] /\ got \in [Readers -> [Counters -> Nat]]
    BY <1>2 DEF ReadersInv
  <2>2. todo \in [Readers -> Seq(Counters)]
    BY <1>1, <2>1
  <2> QED
    BY <1>2, <2>1, <2>2 DEF StatsInv, CountsTyped, TypeOK
<1> QED
  BY <1>2, StatsInvInit, StatsInvStep, ReadersInvInit, ReadersInvStep, PTL DEF Spec
=============================================================================
