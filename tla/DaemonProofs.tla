---------------------------- MODULE DaemonProofs ----------------------------
(***************************************************************************)
(* Proofs about the health daemon and the two commands that run it.        *)
(***************************************************************************)
EXTENDS RunCommand, FiniteSetTheorems, SequenceTheorems, TLAPS

(***************************************************************************)
(* Arithmetic: a set of numbers has a least member, which is induction for *)
(* statements that are sets, and a quotient of naturals is a natural.      *)
(***************************************************************************)
LEMMA LeastNumber ==
  ASSUME NEW T, T \subseteq Nat, T # {}
  PROVE  \E n \in T : \A m \in T : n <= m
<1> DEFINE R == OpToRel(<, Nat)
<1>1. IsWellFoundedOn(R, Nat)
  BY NatLessThanWellFounded, Zenon
<1>2. \A x, y \in Nat : <<y, x>> \in R <=> y < x
  BY DEF OpToRel
<1> HIDE DEF R
<1>3. PICK n \in T : \A m \in T : ~ (<<m, n>> \in R)
  BY <1>1, WFMin
<1>4. ASSUME NEW m \in T PROVE n <= m
  <2>1. n \in Nat /\ m \in Nat /\ ~ (m < n)
    BY <1>2, <1>3
  <2> QED
    BY <2>1
<1> QED
  BY <1>4

LEMMA StepByStep ==
  ASSUME NEW L \in Nat, NEW G, 0 \in G, \A n \in 1 .. L : n - 1 \in G => n \in G
  PROVE  \A n \in 0 .. L : n \in G
<1> SUFFICES ASSUME NEW k \in 0 .. L, k \notin G PROVE FALSE
  OBVIOUS
<1>1. PICK n \in (0 .. L) \ G : \A m \in (0 .. L) \ G : n <= m
  <2>1. (0 .. L) \ G \subseteq Nat
    OBVIOUS
  <2> QED
    BY <2>1, LeastNumber
<1>2. n \in 1 .. L
  BY <1>1
<1>3. n - 1 \in 0 .. L /\ ~ (n <= n - 1)
  BY <1>2
<1> QED
  BY <1>1, <1>2, <1>3

LEMMA QuotientIsNat ==
  ASSUME NEW x \in Nat, NEW n \in Nat \ {0}
  PROVE  x \div n \in Nat
<1>1. PICK q \in Int : q = x \div n
  OBVIOUS
<1>2. x % n \in 0 .. n - 1
  OBVIOUS
<1>3. x = n * q + (x % n)
  BY <1>1
<1>4. PICK r \in 0 .. n - 1 : x = n * q + r
  BY <1>2, <1>3
<1>5. CASE q <= -1
  <2>1. n * q <= 0 - n
    BY <1>5
  <2> QED
    BY <1>4, <2>1
<1> QED
  BY <1>1, <1>5

(***************************************************************************)
(* The statements on the table keep its rows well formed.                  *)
(***************************************************************************)
Tables == [Keys -> Row \cup {NoRow}]

LEMMA UpdatedIsRow ==
  ASSUME NEW row \in Row, NEW p \in Row
  PROVE  /\ Updated(row, p) \in Row
         /\ Updated(row, p).alive = p.alive
         /\ Updated(row, p).fails = IF p.alive THEN 0 ELSE row.fails + 1
<1>1. /\ row.success \in Nat /\ row.failed \in Nat /\ row.fails \in Nat
      /\ p.alive \in BOOLEAN
  BY DEF Row
<1>2. PICK s, c : /\ s = row.success + (IF p.alive THEN 1 ELSE 0)
                  /\ c = row.success + row.failed + 1
  OBVIOUS
<1>3. s \in Nat /\ c \in Nat \ {0} /\ 2 * c \in Nat \ {0} /\ 20000 * s + c \in Nat
  BY <1>1, <1>2
<1>4. PICK u \in Nat : u = Uptime(s, c)
  BY <1>3, QuotientIsNat DEF Uptime
<1>5. PICK f \in Nat : f = row.failed + (IF p.alive THEN 0 ELSE 1)
  BY <1>1
<1>6. PICK g \in Nat : g = IF p.alive THEN 0 ELSE row.fails + 1
  BY <1>1
<1>7. Updated(row, p) = [alive |-> p.alive, success |-> s, failed |-> f, fails |-> g, uptime |-> u]
  BY <1>2, <1>4, <1>5, <1>6 DEF Updated
<1> QED
  BY <1>1, <1>3, <1>6, <1>7 DEF Row

LEMMA UpsertedTable ==
  ASSUME NEW table \in Tables, NEW k \in Keys, NEW p \in Row
  PROVE  /\ Upsert(table, k, p) \in Tables
         /\ Upsert(table, k, p)[k] \in Row
         /\ Upsert(table, k, p)[k].alive = p.alive
         /\ Upsert(table, k, p)[k].fails =
              IF table[k] = NoRow THEN p.fails ELSE IF p.alive THEN 0 ELSE table[k].fails + 1
         /\ \A j \in Keys \ {k} : Upsert(table, k, p)[j] = table[j]
<1>1. PICK r : r = IF table[k] = NoRow THEN p ELSE Updated(table[k], p)
  OBVIOUS
<1>2. Upsert(table, k, p) = [table EXCEPT ![k] = r]
  BY <1>1 DEF Upsert
<1>3. /\ r \in Row /\ r.alive = p.alive
      /\ r.fails = IF table[k] = NoRow THEN p.fails ELSE IF p.alive THEN 0 ELSE table[k].fails + 1
  <2>1. CASE table[k] = NoRow
    BY <1>1, <2>1
  <2>2. CASE table[k] # NoRow
    <3>1. table[k] \in Row
      BY <2>2 DEF Tables
    <3> QED
      BY <1>1, <2>2, <3>1, UpdatedIsRow
  <2> QED
    BY <2>1, <2>2
<1> QED
  BY <1>2, <1>3 DEF Tables

LEMMA PurgedTable ==
  ASSUME NEW table \in Tables, NEW m, NEW old
  PROVE  /\ Purged(table, m, old) \in Tables
         /\ \A k \in Keys : \/ Purged(table, m, old)[k] = table[k]
                            \/ /\ Purged(table, m, old)[k] = NoRow
                               /\ table[k] # NoRow /\ ~ table[k].alive
BY DEF Tables, Purged

LEMMA RecheckedIsRow ==
  ASSUME NEW row \in Row, NEW ok \in BOOLEAN
  PROVE  /\ Rechecked(row, ok) \in Row
         /\ Rechecked(row, ok).alive = ok
         /\ Rechecked(row, ok).fails = IF ok THEN 0 ELSE row.fails + 1
<1>1. row = [alive |-> row.alive, success |-> row.success, failed |-> row.failed,
             fails |-> row.fails, uptime |-> row.uptime]
  BY DEF Row
<1>2. PICK g \in Nat : g = IF ok THEN 0 ELSE row.fails + 1
  BY DEF Row
<1>3. Rechecked(row, ok) = [row EXCEPT !.alive = ok, !.fails = g]
  BY <1>2 DEF Rechecked
<1>4. Rechecked(row, ok) = [alive |-> ok, success |-> row.success, failed |-> row.failed,
                            fails |-> g, uptime |-> row.uptime]
  BY <1>1, <1>3
<1> QED
  BY <1>2, <1>4 DEF Row

(***************************************************************************)
(* A transaction runs the statements of a batch one after the other.       *)
(***************************************************************************)
StoreTyped ==
  /\ rows \in Tables
  /\ saves \in Seq([key : Keys, data : Row])
  /\ committed \subseteq DOMAIN saves /\ lost \subseteq DOMAIN saves \ committed

RunOf(table, s, ids, v) ==
  v = [n \in 0 .. Len(ids) |->
         IF n = 0 THEN table ELSE Upsert(v[n - 1], s[ids[n]].key, s[ids[n]].data)]

PartOfRun(table, s, ids, n, v) ==
  /\ v[0] = table
  /\ \A m \in 1 .. n : v[m] = Upsert(v[m - 1], s[ids[m]].key, s[ids[m]].data)

LEMMA RunExists ==
  ASSUME NEW table, NEW s, NEW ids, Len(ids) \in Nat
  PROVE  \E v : RunOf(table, s, ids, v)
<1> DEFINE L == Len(ids)
           G == {n \in 0 .. L : \E v : PartOfRun(table, s, ids, n, v)}
<1>1. 0 \in G
  <2>1. PartOfRun(table, s, ids, 0, [n \in {0} |-> table])
    BY DEF PartOfRun
  <2> QED
    BY <2>1
<1>2. ASSUME NEW n \in 1 .. L, n - 1 \in G PROVE n \in G
  <2>1. PICK v : PartOfRun(table, s, ids, n - 1, v)
    BY <1>2
  <2> DEFINE next == Upsert(v[n - 1], s[ids[n]].key, s[ids[n]].data)
             w == [m \in 0 .. n |-> IF m = n THEN next ELSE v[m]]
  <2>2. \A m \in 0 .. n - 1 : w[m] = v[m]
    OBVIOUS
  <2>3. w[n] = next
    OBVIOUS
  <2> HIDE DEF next, w
  <2>4. w[0] = table
    BY <2>1, <2>2 DEF PartOfRun
  <2>5. ASSUME NEW m \in 1 .. n PROVE w[m] = Upsert(w[m - 1], s[ids[m]].key, s[ids[m]].data)
    <3>1. w[m - 1] = v[m - 1]
      <4>1. m - 1 \in 0 .. n - 1
        OBVIOUS
      <4> QED
        BY <2>2, <4>1
    <3>2. CASE m = n
      BY <2>3, <3>1, <3>2 DEF next
    <3>3. CASE m # n
      <4>1. m \in 1 .. n - 1 /\ m \in 0 .. n - 1
        BY <3>3
      <4>2. v[m] = Upsert(v[m - 1], s[ids[m]].key, s[ids[m]].data)
        BY <2>1, <4>1 DEF PartOfRun
      <4> QED
        BY <2>2, <3>1, <4>1, <4>2
    <3> QED
      BY <3>2, <3>3
  <2>6. PartOfRun(table, s, ids, n, w)
    BY <2>4, <2>5 DEF PartOfRun
  <2> QED
    BY <2>6
<1>3. L \in G
  <2>1. L \in Nat /\ L \in 0 .. L
    OBVIOUS
  <2> HIDE DEF G, L
  <2> QED
    BY <1>1, <1>2, <2>1, StepByStep
<1>4. PICK v : PartOfRun(table, s, ids, L, v)
  BY <1>3
<1> DEFINE w == [n \in 0 .. L |-> v[n]]
<1>5. w = [n \in 0 .. L |-> IF n = 0 THEN table
                            ELSE Upsert(w[n - 1], s[ids[n]].key, s[ids[n]].data)]
  <2>1. ASSUME NEW n \in 0 .. L
        PROVE  v[n] = IF n = 0 THEN table ELSE Upsert(w[n - 1], s[ids[n]].key, s[ids[n]].data)
    <3>1. CASE n = 0
      BY <1>4, <3>1 DEF PartOfRun
    <3>2. CASE n # 0
      <4>1. n \in 1 .. L /\ n - 1 \in 0 .. L
        BY <3>2
      <4>2. w[n - 1] = v[n - 1]
        BY <4>1
      <4> HIDE DEF w
      <4> QED
        BY <1>4, <3>2, <4>1, <4>2 DEF PartOfRun
    <3> QED
      BY <3>1, <3>2
  <2>2. [n \in 0 .. L |-> v[n]] =
        [n \in 0 .. L |-> IF n = 0 THEN table
                          ELSE Upsert(w[n - 1], s[ids[n]].key, s[ids[n]].data)]
    BY <2>1
  <2> QED
    BY <2>2
<1> HIDE DEF w
<1>6. RunOf(table, s, ids, w)
  BY <1>5 DEF RunOf
<1> QED
  BY <1>6

LEMMA BatchRuns ==
  ASSUME StoreTyped, NEW batch, batch \subseteq Pending,
         NEW ids \in SetToAllKPermutations(batch)
  PROVE  \E L \in Nat : \E v :
           /\ DOMAIN ids = 1 .. L
           /\ \A n \in 1 .. L : ids[n] \in batch
           /\ \A n, m \in 1 .. L : n # m => ids[n] # ids[m]
           /\ v[0] = rows /\ v[L] = ApplyAll(rows, ids)
           /\ \A n \in 1 .. L :
                v[n] = Upsert(v[n - 1], saves[ids[n]].key, saves[ids[n]].data)
<1>1. PICK S \in SUBSET batch : ids \in SetToSeqs(S)
  BY DEF SetToAllKPermutations
<1>2. IsFiniteSet(S)
  <2>1. Len(saves) \in Nat
    BY DEF StoreTyped
  <2>2. IsFiniteSet(1 .. Len(saves))
    BY <2>1, FS_Interval
  <2>3. S \in SUBSET (1 .. Len(saves))
    BY DEF Pending
  <2> QED
    BY <2>2, <2>3, FS_Subset
<1>3. PICK L \in Nat : L = Cardinality(S)
  BY <1>2, FS_CardinalityType
<1>4. ids \in [1 .. L -> S] /\ \A n, m \in 1 .. L : n # m => ids[n] # ids[m]
  BY <1>1, <1>3 DEF SetToSeqs
<1>5. Len(ids) = L
  BY <1>4
<1>6. \E v : RunOf(rows, saves, ids, v)
  BY <1>5, RunExists
<1> DEFINE view == CHOOSE v : v = [n \in 0 .. Len(ids) |->
              IF n = 0 THEN rows ELSE Upsert(v[n - 1], saves[ids[n]].key, saves[ids[n]].data)]
<1>7. RunOf(rows, saves, ids, view)
  BY <1>6 DEF RunOf
<1>8. ApplyAll(rows, ids) = view[L]
  BY <1>5 DEF ApplyAll
<1> HIDE DEF view
<1>9. view = [n \in 0 .. L |->
                IF n = 0 THEN rows ELSE Upsert(view[n - 1], saves[ids[n]].key, saves[ids[n]].data)]
  BY <1>5, <1>7 DEF RunOf
<1>10. view[0] = rows
  <2>1. 0 \in 0 .. L
    OBVIOUS
  <2> QED
    BY <1>9, <2>1
<1>11. ASSUME NEW n \in 1 .. L
       PROVE  view[n] = Upsert(view[n - 1], saves[ids[n]].key, saves[ids[n]].data)
  <2>1. n \in 0 .. L /\ n # 0
    OBVIOUS
  <2> QED
    BY <1>9, <2>1
<1> QED
  BY <1>4, <1>8, <1>10, <1>11

LEMMA SettleKeepsStore ==
  ASSUME StoreTyped, Settle
  PROVE  /\ StoreTyped' /\ saves' = saves
         /\ committed \subseteq committed' /\ lost \subseteq lost'
<1>0. PICK batch \in SUBSET Pending :
        /\ \E ids \in SetToAllKPermutations(batch) :
             /\ rows' = ApplyAll(rows, ids)
             /\ committed' = committed \cup ToSet(ids)
             /\ lost' = lost \cup (batch \ ToSet(ids))
        /\ saves' = saves
  BY DEF Settle
<1>1. PICK ids \in SetToAllKPermutations(batch) :
        /\ rows' = ApplyAll(rows, ids)
        /\ committed' = committed \cup ToSet(ids)
        /\ lost' = lost \cup (batch \ ToSet(ids))
        /\ saves' = saves
  BY <1>0
<1>2. PICK L, v :
        /\ L \in Nat
        /\ DOMAIN ids = 1 .. L
        /\ \A n \in 1 .. L : ids[n] \in batch
        /\ v[0] = rows /\ v[L] = ApplyAll(rows, ids)
        /\ \A n \in 1 .. L : v[n] = Upsert(v[n - 1], saves[ids[n]].key, saves[ids[n]].data)
  BY BatchRuns
<1> L \in Nat
  BY <1>2
<1>3. batch \subseteq DOMAIN saves /\ batch \cap (committed \cup lost) = {}
  <2>1. DOMAIN saves = 1 .. Len(saves)
    BY DEF StoreTyped
  <2> QED
    BY <2>1 DEF Pending
<1>4. ToSet(ids) \subseteq batch
  BY <1>2 DEF ToSet
<1>5. rows' \in Tables
  <2> DEFINE G == {n \in 0 .. L : v[n] \in Tables}
  <2>1. 0 \in G
    BY <1>2 DEF StoreTyped
  <2>2. ASSUME NEW n \in 1 .. L, n - 1 \in G PROVE n \in G
    <3>1. saves[ids[n]] \in [key : Keys, data : Row]
      <4>1. ids[n] \in DOMAIN saves
        BY <1>2, <1>3
      <4>2. saves \in Seq([key : Keys, data : Row])
        BY DEF StoreTyped
      <4> QED
        BY <4>1, <4>2, ElementOfSeq, LenProperties
    <3>2. saves[ids[n]].key \in Keys /\ saves[ids[n]].data \in Row
      BY <3>1
    <3>3. v[n - 1] \in Tables
      BY <2>2
    <3>4. v[n] \in Tables
      BY <1>2, <3>2, <3>3, UpsertedTable
    <3> QED
      BY <3>4
  <2>3. L \in G
    <3>1. L \in 0 .. L
      OBVIOUS
    <3> HIDE DEF G
    <3> QED
      BY <2>1, <2>2, <3>1, StepByStep
  <2> QED
    BY <1>1, <1>2, <2>3
<1> QED
  BY <1>1, <1>3, <1>4, <1>5 DEF StoreTyped

LEMMA SaveKeepsStore ==
  ASSUME StoreTyped, NEW k \in Keys, NEW p \in Row, SaveOrUpdateProxy(k, p)
  PROVE  /\ StoreTyped' /\ UNCHANGED <<rows, committed, lost>>
         /\ Len(saves) \in Nat /\ Len(saves') = Len(saves) + 1
         /\ DOMAIN saves = 1 .. Len(saves)
         /\ DOMAIN saves' = 1 .. Len(saves')
         /\ saves'[Len(saves) + 1] = [key |-> k, data |-> p]
         /\ \A i \in DOMAIN saves : saves'[i] = saves[i]
<1>1. /\ saves' = Append(saves, [key |-> k, data |-> p]) /\ UNCHANGED <<rows, committed, lost>>
      /\ saves \in Seq([key : Keys, data : Row])
  BY DEF SaveOrUpdateProxy, StoreTyped
<1>2. [key |-> k, data |-> p] \in [key : Keys, data : Row]
  OBVIOUS
<1>3. /\ saves' \in Seq([key : Keys, data : Row])
      /\ Len(saves) \in Nat /\ Len(saves') = Len(saves) + 1
      /\ saves'[Len(saves) + 1] = [key |-> k, data |-> p]
      /\ \A i \in 1 .. Len(saves) : saves'[i] = saves[i]
  BY <1>1, <1>2, AppendProperties, LenProperties
<1>4. DOMAIN saves = 1 .. Len(saves) /\ DOMAIN saves' = 1 .. Len(saves')
  BY <1>1, <1>3
<1>5. DOMAIN saves \subseteq DOMAIN saves'
  BY <1>3, <1>4
<1> QED
  BY <1>1, <1>3, <1>4, <1>5 DEF StoreTyped

LEMMA PurgeKeepsStore ==
  ASSUME StoreTyped, Purge \/ UNCHANGED store
  PROVE  /\ StoreTyped' /\ UNCHANGED <<saves, committed, lost>>
         /\ \A k \in Keys : \/ rows'[k] = rows[k]
                            \/ rows'[k] = NoRow /\ rows[k] # NoRow /\ ~ rows[k].alive
<1>1. CASE UNCHANGED store
  BY <1>1 DEF StoreTyped, store
<1>2. CASE Purge
  BY <1>2, PurgedTable DEF Purge, StoreTyped
<1> QED
  BY <1>1, <1>2

(***************************************************************************)
(* recheckPool.  Every proxy a cycle read is in the channel, in the hand of*)
(* one worker, saved or dropped, and in no two of these places; a worker   *)
(* leaves early, and leaves proxies behind, only if the context is done.   *)
(***************************************************************************)
WorkRecord ==
  [pc : {"idle", "check", "save", "gone"}, key : Keys \cup {None}, ok : BOOLEAN]

CycleTyped ==
  /\ start \in Tables /\ read \in Tables
  /\ ctxDone \in BOOLEAN
  /\ cycle \in {"idle", "check", "flush", "purge", "sync", "returned"}
  /\ count \in 0 .. MaxCycles /\ scans \in 0 .. MaxScans
  /\ todo \subseteq Keys /\ found \subseteq Keys /\ alive \subseteq Keys
  /\ checked \subseteq Keys /\ dropped \subseteq Keys
  /\ work \in [Workers -> WorkRecord]

HandsApart ==
  \A w, u \in Workers : work[w].key = work[u].key /\ work[w].key # None => w = u

HandsHold ==
  \A w \in Workers :
    /\ work[w].key = None <=> work[w].pc \in {"idle", "gone"}
    /\ work[w].pc = "gone" => ctxDone
    /\ work[w].key # None =>
         cycle = "check" /\ work[w].key \notin todo \cup checked \cup dropped

PlacesApart ==
  /\ todo \cap checked = {} /\ todo \cap dropped = {} /\ checked \cap dropped = {}
  /\ \A k \in Keys :
       read[k] # NoRow <=>
         k \in todo \cup checked \cup dropped \/ \E w \in Workers : work[w].key = k

CutShort == dropped # {} \/ (todo # {} /\ cycle # "check") => ctxDone

CycleInv ==
  StoreTyped /\ CycleTyped /\ HandsApart /\ HandsHold /\ PlacesApart /\ CutShort

LEMMA CycleInvInit == DaemonInit => CycleInv
<1> SUFFICES ASSUME DaemonInit PROVE CycleInv
  OBVIOUS
<1>1. StoreTyped
  <2>1. saves = <<>> /\ committed = {} /\ lost = {} /\ rows \in [Keys -> InitialRows]
    BY DEF DaemonInit
  <2>2. rows \in Tables
    BY <2>1, InitialRowsAssumption DEF Tables
  <2> QED
    BY <2>1, <2>2 DEF StoreTyped
<1>2. \A w \in Workers : work[w] = [pc |-> "idle", key |-> None, ok |-> FALSE]
  BY DEF DaemonInit, Rested
<1>3. CycleTyped
  <2>1. work \in [Workers -> WorkRecord]
    BY DEF DaemonInit, Rested, WorkRecord
  <2>2. start \in Tables
    BY <1>1 DEF DaemonInit, StoreTyped
  <2>3. read \in Tables
    BY DEF DaemonInit, Tables
  <2>4. 0 \in 0 .. MaxCycles /\ 0 \in 0 .. MaxScans
    BY LimitsAssumption
  <2> QED
    BY <2>1, <2>2, <2>3, <2>4 DEF CycleTyped, DaemonInit
<1>4. HandsApart /\ HandsHold
  BY <1>2 DEF HandsApart, HandsHold
<1>5. PlacesApart
  <2>1. \A k \in Keys : read[k] = NoRow /\ k # None
    BY VerdictsAssumption DEF DaemonInit
  <2> QED
    BY <1>2, <2>1 DEF PlacesApart, DaemonInit
<1>6. CutShort
  BY DEF CutShort, DaemonInit
<1> QED
  BY <1>1, <1>3, <1>4, <1>5, <1>6 DEF CycleInv

(* Steps that leave the cycle alone.                                       *)
LEMMA StoreStepsKeepCycle ==
  ASSUME CycleInv, StoreTyped', UNCHANGED <<start, read, todo, work, found, checked, dropped>>,
         count' \in 0 .. MaxCycles, scans' \in 0 .. MaxScans, alive' \subseteq Keys,
         ctxDone' \in BOOLEAN, ctxDone => ctxDone',
         \/ cycle' = cycle
         \/ /\ cycle # "check"
            /\ cycle' \in {"idle", "flush", "purge", "sync", "returned"}
  PROVE  CycleInv'
<1>1. CycleTyped'
  BY DEF CycleInv, CycleTyped
<1>2. HandsApart' /\ HandsHold'
  BY DEF CycleInv, HandsApart, HandsHold
<1>3. PlacesApart'
  BY DEF CycleInv, PlacesApart
<1>4. CutShort'
  BY DEF CycleInv, CutShort
<1> QED
  BY <1>1, <1>2, <1>3, <1>4 DEF CycleInv

LEMMA StartCycleKeepsCycle == CycleInv /\ StartCycle => CycleInv'
<1> SUFFICES ASSUME CycleInv, StartCycle PROVE CycleInv'
  OBVIOUS
<1>1. PICK best \in SUBSET Stored(rows) :
        /\ read' = [k \in Keys |-> IF k \in best THEN rows[k] ELSE NoRow]
        /\ todo' = best
        /\ cycle' = IF best = {} THEN "idle" ELSE "check"
  BY DEF StartCycle
<1>2. /\ count' = count + 1 /\ count < MaxCycles
      /\ work' = Rested /\ found' = {} /\ checked' = {} /\ dropped' = {}
      /\ UNCHANGED <<rows, saves, committed, lost, ctxDone, alive, start, scans>>
  BY DEF StartCycle, store
<1>3. best \subseteq Keys /\ \A k \in best : rows[k] # NoRow
  BY DEF Stored
<1>4. StoreTyped'
  BY <1>2 DEF CycleInv, StoreTyped
<1>5. \A w \in Workers : work'[w] = [pc |-> "idle", key |-> None, ok |-> FALSE]
  BY <1>2 DEF Rested
<1>6. CycleTyped'
  <2>1. work' \in [Workers -> WorkRecord]
    BY <1>2 DEF Rested, WorkRecord
  <2>2. read' \in Tables
    BY <1>1 DEF CycleInv, StoreTyped, Tables
  <2>3. count' \in 0 .. MaxCycles
    BY <1>2, LimitsAssumption DEF CycleInv, CycleTyped
  <2>4. cycle' \in {"idle", "check"}
    BY <1>1
  <2> QED
    BY <1>1, <1>2, <1>3, <2>1, <2>2, <2>3, <2>4 DEF CycleInv, CycleTyped
<1>7. HandsApart' /\ HandsHold'
  BY <1>5 DEF HandsApart, HandsHold
<1>8. PlacesApart'
  <2>1. ASSUME NEW k \in Keys PROVE read'[k] # NoRow <=> k \in best
    BY <1>1, <1>3
  <2>2. \A k \in Keys : k # None
    BY VerdictsAssumption
  <2> QED
    BY <1>1, <1>2, <1>5, <2>1, <2>2 DEF PlacesApart
<1>9. CutShort'
  BY <1>1, <1>2 DEF CutShort
<1> QED
  BY <1>4, <1>6, <1>7, <1>8, <1>9 DEF CycleInv

(* What a worker that takes a proxy does.                                  *)
LEMMA TakingWorker ==
  ASSUME CycleInv, NEW w \in Workers, TakeProxy(w)
  PROVE  \E k \in todo :
           /\ k \in Keys /\ k # None
           /\ todo' = todo \ {k}
           /\ dropped' = (IF ctxDone THEN dropped \cup {k} ELSE dropped)
           /\ work[w].key = None
           /\ work' \in [Workers -> WorkRecord]
           /\ work'[w].pc = (IF ctxDone THEN "gone" ELSE "check")
           /\ work'[w].key = (IF ctxDone THEN None ELSE k)
           /\ \A u \in Workers : u # w => work'[u] = work[u]
<1>1. work[w].pc = "idle"
  BY DEF TakeProxy
<1>2. PICK k \in todo :
        /\ todo' = todo \ {k}
        /\ IF ctxDone
           THEN /\ work' = [work EXCEPT ![w].pc = "gone"]
                /\ dropped' = dropped \cup {k}
           ELSE /\ work' = [work EXCEPT ![w].pc = "check", ![w].key = k]
                /\ UNCHANGED dropped
  BY DEF TakeProxy
<1>3. k \in Keys /\ k # None /\ work \in [Workers -> WorkRecord] /\ ctxDone \in BOOLEAN
  BY VerdictsAssumption DEF CycleInv, CycleTyped
<1>5. PICK s, r : s = work[w] /\ r = work'[w]
  OBVIOUS
<1>6. s \in WorkRecord /\ s = [pc |-> "idle", key |-> None, ok |-> s.ok]
  <2>1. s \in WorkRecord /\ s.pc = "idle" /\ s.key = None
    BY <1>1, <1>3, <1>5 DEF CycleInv, HandsHold
  <2> QED
    BY <2>1 DEF WorkRecord
<1>7. work' = [work EXCEPT ![w] = r] /\ r \in WorkRecord
      /\ r.pc = (IF ctxDone THEN "gone" ELSE "check")
      /\ r.key = (IF ctxDone THEN None ELSE k)
  <2>1. CASE ctxDone
    <3>1. r = [s EXCEPT !.pc = "gone"] /\ work' = [work EXCEPT ![w] = r]
      BY <1>2, <1>3, <1>5, <2>1
    <3>2. r = [pc |-> "gone", key |-> None, ok |-> s.ok]
      BY <1>6, <3>1
    <3> QED
      BY <1>6, <2>1, <3>1, <3>2 DEF WorkRecord
  <2>2. CASE ~ ctxDone
    <3>1. r = [s EXCEPT !.pc = "check", !.key = k] /\ work' = [work EXCEPT ![w] = r]
      BY <1>2, <1>3, <1>5, <2>2
    <3>2. r = [pc |-> "check", key |-> k, ok |-> s.ok]
      BY <1>6, <3>1
    <3> QED
      BY <1>3, <1>6, <2>2, <3>1, <3>2 DEF WorkRecord
  <2> QED
    BY <2>1, <2>2
<1>8. /\ work' \in [Workers -> WorkRecord] /\ work'[w] = r
      /\ \A u \in Workers : u # w => work'[u] = work[u]
  BY <1>3, <1>7
<1>9. dropped' = (IF ctxDone THEN dropped \cup {k} ELSE dropped)
  BY <1>2
<1>10. work[w].key = None
  BY <1>5, <1>6
<1> QED
  BY <1>2, <1>3, <1>5, <1>7, <1>8, <1>9, <1>10

LEMMA TakeProxyKeepsCycle ==
  ASSUME CycleInv, NEW w \in Workers, TakeProxy(w)
  PROVE  CycleInv'
<1>1. /\ cycle = "check" /\ cycle' = cycle
      /\ UNCHANGED <<rows, saves, committed, lost, ctxDone, count, read, found, alive, start,
                     checked, scans>>
  BY DEF TakeProxy, store
<1>2. PICK k \in todo :
        /\ k \in Keys /\ k # None
        /\ todo' = todo \ {k}
        /\ dropped' = (IF ctxDone THEN dropped \cup {k} ELSE dropped)
        /\ work[w].key = None
        /\ work' \in [Workers -> WorkRecord]
        /\ work'[w].pc = (IF ctxDone THEN "gone" ELSE "check")
        /\ work'[w].key = (IF ctxDone THEN None ELSE k)
        /\ \A u \in Workers : u # w => work'[u] = work[u]
  BY TakingWorker
<1>3. PICK r : r = work'[w]
  OBVIOUS
<1>4. StoreTyped'
  BY <1>1 DEF CycleInv, StoreTyped
<1>5. CycleTyped'
  BY <1>1, <1>2 DEF CycleInv, CycleTyped
<1>6. \A u \in Workers : work[u].key # k
  BY <1>1, <1>2 DEF CycleInv, HandsHold
<1>7. HandsApart'
  BY <1>2, <1>3, <1>6 DEF CycleInv, HandsApart
<1>8. HandsHold'
  <2>1. ASSUME NEW u \in Workers, u # w
        PROVE  /\ work[u].key = None <=> work[u].pc \in {"idle", "gone"}
               /\ work[u].pc = "gone" => ctxDone
               /\ work[u].key # None =>
                    cycle = "check" /\ work[u].key \notin todo' \cup checked \cup dropped'
    BY <1>2, <1>6 DEF CycleInv, HandsHold
  <2>2. ~ ctxDone => k \notin todo' \cup checked \cup dropped'
    BY <1>2 DEF CycleInv, PlacesApart
  <2>3. /\ r.key = None <=> r.pc \in {"idle", "gone"}
        /\ r.pc = "gone" => ctxDone
        /\ r.key # None => r.key \notin todo' \cup checked \cup dropped'
    BY <1>2, <1>3, <2>2
  <2>4. UNCHANGED <<ctxDone, cycle, checked>> /\ cycle = "check"
    BY <1>1
  <2>5. r = work'[w] /\ \A u \in Workers : u # w => work'[u] = work[u]
    BY <1>2, <1>3
  <2> QED
    BY <2>1, <2>3, <2>4, <2>5 DEF HandsHold
<1>9. PlacesApart'
  <2>1. /\ todo' \cap checked = {} /\ todo' \cap dropped' = {} /\ checked \cap dropped' = {}
    BY <1>2 DEF CycleInv, PlacesApart
  <2>2. ASSUME NEW j \in Keys
        PROVE  read[j] # NoRow <=>
                 j \in todo' \cup checked \cup dropped' \/ \E u \in Workers : work'[u].key = j
    <3>1. /\ j # None
          /\ read[j] # NoRow <=>
               j \in todo \cup checked \cup dropped \/ \E u \in Workers : work[u].key = j
      BY VerdictsAssumption DEF CycleInv, PlacesApart
    <3>2. work[w].key # j
      BY <1>2, <3>1
    <3>3. (\E u \in Workers : work'[u].key = j) <=>
            (\E u \in Workers : work[u].key = j) \/ (~ ctxDone /\ j = k)
      BY <1>2, <1>3, <3>1, <3>2
    <3>4. j \in todo' \cup checked \cup dropped' \/ (~ ctxDone /\ j = k)
            <=> j \in todo \cup checked \cup dropped
      BY <1>2
    <3> QED
      BY <3>1, <3>3, <3>4
  <2> QED
    BY <1>1, <2>1, <2>2 DEF PlacesApart
<1>10. CutShort'
  BY <1>1, <1>2 DEF CycleInv, CutShort
<1> QED
  BY <1>4, <1>5, <1>7, <1>8, <1>9, <1>10 DEF CycleInv

(* What a worker that checks does: a check that should succeed fails only  *)
(* when the context is done.                                               *)
LEMMA CheckingWorker ==
  ASSUME CycleInv, NEW w \in Workers, CheckIPPort(w)
  PROVE  /\ work[w].pc = "check"
         /\ work' \in [Workers -> WorkRecord]
         /\ work'[w].pc = "save"
         /\ \A u \in Workers : work'[u].key = work[u].key
         /\ \A u \in Workers : u # w => work'[u] = work[u]
         /\ Verdicts[work[w].key] = {TRUE} /\ ~ work'[w].ok => ctxDone
<1>1. PICK ok \in Verdicts[work[w].key] \cup (IF ctxDone THEN {FALSE} ELSE {}) :
        work' = [work EXCEPT ![w].pc = "save", ![w].ok = ok]
  BY DEF CheckIPPort
<1>2. work[w].pc = "check" /\ work[w].key \in Keys
  BY DEF CheckIPPort, CycleInv, CycleTyped, WorkRecord, HandsHold
<1>3. ok \in BOOLEAN
  <2>1. Verdicts[work[w].key] \subseteq BOOLEAN
    BY <1>2, VerdictsAssumption
  <2> QED
    BY <1>1, <2>1
<1>4. PICK s, r : s = work[w] /\ r = work'[w]
  OBVIOUS
<1>5. work \in [Workers -> WorkRecord] /\ s \in WorkRecord
  BY <1>4 DEF CycleInv, CycleTyped
<1>6. /\ work' = [work EXCEPT ![w] = r]
      /\ r = [s EXCEPT !.pc = "save", !.ok = ok]
  BY <1>1, <1>4, <1>5
<1>7. r = [pc |-> "save", key |-> s.key, ok |-> ok]
  BY <1>5, <1>6 DEF WorkRecord
<1>8. r \in WorkRecord /\ r.key = s.key /\ r.pc = "save" /\ r.ok = ok
  BY <1>3, <1>5, <1>7 DEF WorkRecord
<1>9. /\ work' \in [Workers -> WorkRecord]
      /\ \A u \in Workers : work'[u].key = work[u].key
      /\ \A u \in Workers : u # w => work'[u] = work[u]
  BY <1>4, <1>5, <1>6, <1>8
<1>10. Verdicts[work[w].key] = {TRUE} /\ ~ r.ok => ctxDone
  BY <1>1, <1>8
<1> QED
  BY <1>2, <1>4, <1>8, <1>9, <1>10

LEMMA CheckKeepsCycle ==
  ASSUME CycleInv, NEW w \in Workers, CheckIPPort(w)
  PROVE  CycleInv'
<1>1. UNCHANGED <<rows, saves, committed, lost, ctxDone, cycle, count, read, todo, found, alive,
                  start, checked, dropped, scans>>
  BY DEF CheckIPPort, store, history
<1>2. /\ work[w].pc = "check"
      /\ work' \in [Workers -> WorkRecord]
      /\ work'[w].pc = "save"
      /\ \A u \in Workers : work'[u].key = work[u].key
      /\ \A u \in Workers : u # w => work'[u] = work[u]
  BY CheckingWorker
<1>3. StoreTyped' /\ CycleTyped'
  BY <1>1, <1>2 DEF CycleInv, StoreTyped, CycleTyped
<1>4. HandsApart' /\ PlacesApart' /\ CutShort'
  BY <1>1, <1>2 DEF CycleInv, HandsApart, PlacesApart, CutShort
<1>5. HandsHold'
  <2>1. ASSUME NEW u \in Workers
        PROVE  /\ work'[u].key = None <=> work'[u].pc \in {"idle", "gone"}
               /\ work'[u].pc = "gone" => ctxDone
               /\ work'[u].key # None =>
                    cycle = "check" /\ work'[u].key \notin todo \cup checked \cup dropped
    BY <1>2 DEF CycleInv, HandsHold
  <2> QED
    BY <1>1, <2>1 DEF HandsHold
<1> QED
  BY <1>3, <1>4, <1>5 DEF CycleInv

(* What a worker that saves does to the cycle and to the store.            *)
LEMMA SavingWorker ==
  ASSUME CycleInv, NEW w \in Workers, SaveVerdict(w)
  PROVE  /\ work[w].pc = "save" /\ work[w].key \in Keys /\ work[w].ok \in BOOLEAN
         /\ read[work[w].key] \in Row /\ cycle = "check"
         /\ Rechecked(read[work[w].key], work[w].ok) \in Row
         /\ SaveOrUpdateProxy(work[w].key, Rechecked(read[work[w].key], work[w].ok))
         /\ work' = [work EXCEPT ![w] = [pc |-> "idle", key |-> None, ok |-> FALSE]]
         /\ checked' = checked \cup {work[w].key}
         /\ found' \subseteq found \cup {work[w].key}
         /\ UNCHANGED <<ctxDone, cycle, count, read, todo, alive, start, dropped, scans>>
<1>1. work[w].pc = "save" /\ work[w].key \in Keys /\ work[w].ok \in BOOLEAN /\ work[w].key # None
  BY DEF SaveVerdict, CycleInv, CycleTyped, WorkRecord, HandsHold
<1>2. read[work[w].key] \in Row /\ cycle = "check"
  BY <1>1 DEF CycleInv, CycleTyped, PlacesApart, Tables, HandsHold
<1>3. Rechecked(read[work[w].key], work[w].ok) \in Row
  BY <1>1, <1>2, RecheckedIsRow
<1> QED
  BY <1>1, <1>2, <1>3 DEF SaveVerdict, Rested

LEMMA SaveVerdictKeepsCycle ==
  ASSUME CycleInv, NEW w \in Workers, SaveVerdict(w)
  PROVE  CycleInv'
<1>1. PICK k, p :
        /\ k = work[w].key /\ k \in Keys /\ p \in Row /\ SaveOrUpdateProxy(k, p)
        /\ work' = [work EXCEPT ![w] = [pc |-> "idle", key |-> None, ok |-> FALSE]]
        /\ checked' = checked \cup {k} /\ found' \subseteq found \cup {k}
        /\ cycle = "check"
        /\ UNCHANGED <<ctxDone, cycle, count, read, todo, alive, start, dropped, scans>>
  BY SavingWorker
<1>2. StoreTyped'
  BY <1>1, SaveKeepsStore DEF CycleInv
<1>3. /\ work \in [Workers -> WorkRecord] /\ k # None
      /\ [pc |-> "idle", key |-> None, ok |-> FALSE] \in WorkRecord
  BY <1>1, VerdictsAssumption DEF CycleInv, CycleTyped, WorkRecord
<1>4. /\ work' \in [Workers -> WorkRecord]
      /\ work'[w].pc = "idle" /\ work'[w].key = None
      /\ \A u \in Workers : u # w => work'[u] = work[u]
  BY <1>1, <1>3
<1>5. CycleTyped'
  BY <1>1, <1>4 DEF CycleInv, CycleTyped
<1>6. k \notin todo \cup checked \cup dropped
  BY <1>1, <1>3 DEF CycleInv, HandsHold
<1>7. \A u \in Workers : work[u].key = k => u = w
  BY <1>1, <1>3 DEF CycleInv, HandsApart
<1>8. HandsApart'
  BY <1>4 DEF CycleInv, HandsApart
<1>9. HandsHold'
  <2>1. ASSUME NEW u \in Workers, u # w
        PROVE  /\ work[u].key = None <=> work[u].pc \in {"idle", "gone"}
               /\ work[u].pc = "gone" => ctxDone
               /\ work[u].key # None =>
                    cycle = "check" /\ work[u].key \notin todo \cup checked' \cup dropped
    BY <1>1, <1>7, <2>1 DEF CycleInv, HandsHold
  <2> QED
    BY <1>1, <1>4, <2>1 DEF HandsHold
<1>10. PlacesApart'
  <2>1. todo \cap checked' = {} /\ todo \cap dropped = {} /\ checked' \cap dropped = {}
    BY <1>1, <1>6 DEF CycleInv, PlacesApart
  <2>2. ASSUME NEW j \in Keys
        PROVE  read[j] # NoRow <=>
                 j \in todo \cup checked' \cup dropped \/ \E u \in Workers : work'[u].key = j
    <3>1. /\ j # None
          /\ read[j] # NoRow <=>
               j \in todo \cup checked \cup dropped \/ \E u \in Workers : work[u].key = j
      BY VerdictsAssumption DEF CycleInv, PlacesApart
    <3>2. CASE j = k
      <4>1. read[j] # NoRow
        BY <1>1, <3>1, <3>2
      <4>2. j \in checked'
        BY <1>1, <3>2
      <4> QED
        BY <4>1, <4>2
    <3>3. CASE j # k
      <4>1. (\E u \in Workers : work'[u].key = j) <=> (\E u \in Workers : work[u].key = j)
        BY <1>1, <1>4, <3>1, <3>3
      <4>2. j \in checked' <=> j \in checked
        BY <1>1, <3>3
      <4> QED
        BY <3>1, <4>1, <4>2
    <3> QED
      BY <3>2, <3>3
  <2> QED
    BY <1>1, <2>1, <2>2 DEF PlacesApart
<1>11. CutShort'
  BY <1>1 DEF CycleInv, CutShort
<1> QED
  BY <1>2, <1>5, <1>8, <1>9, <1>10, <1>11 DEF CycleInv

LEMMA WaitKeepsCycle == CycleInv /\ WaitWorkers => CycleInv'
<1> SUFFICES ASSUME CycleInv, WaitWorkers PROVE CycleInv'
  OBVIOUS
<1>1. /\ cycle = "check" /\ cycle' = "flush" /\ WorkersReturned
      /\ UNCHANGED <<rows, saves, committed, lost, ctxDone, count, read, todo, work, found, alive,
                     start, checked, dropped, scans>>
  BY DEF WaitWorkers, store, history
<1>2. \A w \in Workers : work[w].key = None
  BY <1>1 DEF CycleInv, HandsHold, WorkersReturned
<1>3. todo # {} => ctxDone
  <2>1. PICK w \in Workers : TRUE
    BY WorkersAssumption
  <2> QED
    BY <1>1, <2>1 DEF CycleInv, HandsHold, WorkersReturned
<1>4. StoreTyped' /\ CycleTyped'
  BY <1>1 DEF CycleInv, StoreTyped, CycleTyped
<1>5. HandsApart' /\ HandsHold'
  BY <1>1, <1>2 DEF CycleInv, HandsApart, HandsHold
<1>6. PlacesApart' /\ CutShort'
  BY <1>1, <1>3 DEF CycleInv, PlacesApart, CutShort
<1> QED
  BY <1>4, <1>5, <1>6 DEF CycleInv

LEMMA EndOfCycleKeepsCycle ==
  ASSUME CycleInv, Flush \/ PurgeDeadProxies \/ SyncAliveFiles \/ RunReturns
  PROVE  CycleInv'
<1>1. /\ UNCHANGED <<start, read, todo, work, found, checked, dropped, scans, count, ctxDone>>
      /\ cycle # "check" /\ cycle' \in {"idle", "flush", "purge", "sync", "returned"}
  BY DEF Flush, PurgeDeadProxies, SyncAliveFiles, RunReturns, history
<1>2. StoreTyped'
  <2>1. CASE PurgeDeadProxies
    BY <2>1, PurgeKeepsStore DEF PurgeDeadProxies, CycleInv
  <2>2. CASE UNCHANGED store
    BY <2>2 DEF CycleInv, StoreTyped, store
  <2> QED
    BY <2>1, <2>2 DEF Flush, SyncAliveFiles, RunReturns
<1>3. alive' \subseteq Keys
  BY DEF CycleInv, CycleTyped, Flush, PurgeDeadProxies, SyncAliveFiles, RunReturns
<1>4. count' \in 0 .. MaxCycles /\ scans' \in 0 .. MaxScans /\ ctxDone' \in BOOLEAN
  BY <1>1 DEF CycleInv, CycleTyped
<1> QED
  BY <1>1, <1>2, <1>3, <1>4, StoreStepsKeepCycle

LEMMA AroundKeepsCycle ==
  ASSUME CycleInv,
         QueryFails \/ Cancel \/ (\E k \in Keys : ScanFinds(k)) \/ CommitSaves \/ UNCHANGED allVars
  PROVE  CycleInv'
<1>1. /\ UNCHANGED <<cycle, start, read, todo, work, found, checked, dropped>>
      /\ ctxDone' \in BOOLEAN /\ (ctxDone => ctxDone')
  BY DEF QueryFails, Cancel, ScanFinds, CommitSaves, allVars, daemonVars, history, CycleInv,
         CycleTyped
<1>2. Scanned \in Row
  BY DEF Scanned, Row
<1>3. StoreTyped'
  <2>1. CASE UNCHANGED store
    BY <2>1 DEF CycleInv, StoreTyped, store
  <2>2. CASE CommitSaves
    BY <2>2, SettleKeepsStore DEF CycleInv, CommitSaves
  <2>3. ASSUME NEW k \in Keys, ScanFinds(k) PROVE StoreTyped'
    BY <1>2, <2>3, SaveKeepsStore DEF CycleInv, ScanFinds
  <2>4. UNCHANGED allVars => UNCHANGED store
    BY DEF allVars
  <2> QED
    BY <2>1, <2>2, <2>3, <2>4 DEF QueryFails, Cancel
<1>4. alive' \subseteq Keys
  BY DEF CycleInv, CycleTyped, QueryFails, Cancel, ScanFinds, CommitSaves, allVars, daemonVars
<1>5. count' \in 0 .. MaxCycles
  <2>1. CASE QueryFails
    BY <2>1, LimitsAssumption DEF CycleInv, CycleTyped, QueryFails
  <2>2. CASE count' = count
    BY <2>2 DEF CycleInv, CycleTyped
  <2> QED
    BY <2>1, <2>2 DEF Cancel, ScanFinds, CommitSaves, allVars, daemonVars
<1>6. scans' \in 0 .. MaxScans
  <2>1. ASSUME NEW k \in Keys, ScanFinds(k) PROVE scans' \in 0 .. MaxScans
    BY <2>1, LimitsAssumption DEF CycleInv, CycleTyped, ScanFinds
  <2>2. CASE scans' = scans
    BY <2>2 DEF CycleInv, CycleTyped
  <2> QED
    BY <2>1, <2>2 DEF QueryFails, Cancel, CommitSaves, allVars, daemonVars, history
<1> QED
  BY <1>1, <1>3, <1>4, <1>5, <1>6, StoreStepsKeepCycle

LEMMA CycleInvStep == CycleInv /\ [DaemonNext]_allVars => CycleInv'
<1> SUFFICES ASSUME CycleInv, [DaemonNext]_allVars PROVE CycleInv'
  OBVIOUS
<1>1. ASSUME NEW w \in Workers, WorkerStep(w) PROVE CycleInv'
  BY <1>1, TakeProxyKeepsCycle, CheckKeepsCycle, SaveVerdictKeepsCycle DEF WorkerStep
<1>2. CASE CycleStep
  BY <1>2, WaitKeepsCycle, EndOfCycleKeepsCycle DEF CycleStep
<1> QED
  BY <1>1, <1>2, StartCycleKeepsCycle, AroundKeepsCycle DEF DaemonNext

LEMMA InvIsTyped == CycleInv => DaemonTypeOK
<1> SUFFICES ASSUME CycleInv PROVE DaemonTypeOK
  OBVIOUS
<1>1. InHand # {} => cycle = "check"
  BY DEF InHand, CycleInv, HandsHold
<1> QED
  BY <1>1 DEF CycleInv, StoreTyped, CycleTyped, DaemonTypeOK, Tables, WorkRecord

LEMMA ApartCardinality ==
  ASSUME NEW A \in SUBSET Keys, NEW B \in SUBSET Keys, A \cap B = {}
  PROVE  /\ Cardinality(A \cup B) = Cardinality(A) + Cardinality(B)
         /\ Cardinality(A) \in Nat /\ Cardinality(B) \in Nat /\ Cardinality(A \cup B) \in Nat
<1>1. IsFiniteSet(A) /\ IsFiniteSet(B) /\ IsFiniteSet(A \cup B)
  BY KeysAssumption, FS_Subset, FS_Union
<1>2. Cardinality(A \cap B) = 0
  BY FS_EmptySet
<1>3. Cardinality(A \cup B) = Cardinality(A) + Cardinality(B) - Cardinality(A \cap B)
  BY <1>1, FS_Union
<1>4. Cardinality(A) \in Nat /\ Cardinality(B) \in Nat /\ Cardinality(A \cup B) \in Nat
  BY <1>1, FS_CardinalityType
<1> QED
  BY <1>2, <1>3, <1>4

LEMMA InvOnceEach == CycleInv => OnceEachCycle
<1> SUFFICES ASSUME CycleInv PROVE OnceEachCycle
  OBVIOUS
<1>1. /\ todo \subseteq Keys /\ checked \subseteq Keys /\ dropped \subseteq Keys
      /\ work \in [Workers -> WorkRecord]
  BY DEF CycleInv, CycleTyped
<1>2. InHand \subseteq Keys
  BY <1>1 DEF InHand, WorkRecord
<1>3. \A k : k \in InHand <=> k # None /\ \E w \in Workers : work[w].key = k
  BY DEF InHand
<1>4. /\ todo \cap InHand = {} /\ checked \cap InHand = {} /\ dropped \cap InHand = {}
      /\ todo \cap checked = {} /\ todo \cap dropped = {} /\ checked \cap dropped = {}
  BY <1>3 DEF CycleInv, HandsHold, PlacesApart
<1>5. Stored(read) = todo \cup InHand \cup checked \cup dropped
  <2>1. \A k \in Keys : k # None
    BY VerdictsAssumption
  <2>2. ASSUME NEW k \in Keys
        PROVE  k \in Stored(read) <=> k \in todo \cup InHand \cup checked \cup dropped
    BY <1>3, <2>1 DEF CycleInv, PlacesApart, Stored
  <2>3. Stored(read) \subseteq Keys
    BY DEF Stored
  <2> QED
    BY <1>1, <1>2, <2>2, <2>3
<1>6. PICK A, B, C : A = todo \cup InHand /\ B = A \cup checked /\ C = B \cup dropped
  OBVIOUS
<1>7. /\ Cardinality(A) = Cardinality(todo) + Cardinality(InHand)
      /\ Cardinality(todo) \in Nat /\ Cardinality(InHand) \in Nat /\ Cardinality(A) \in Nat
  BY <1>1, <1>2, <1>4, <1>6, ApartCardinality
<1>8. Cardinality(B) = Cardinality(A) + Cardinality(checked) /\ Cardinality(checked) \in Nat
  <2>1. A \in SUBSET Keys /\ A \cap checked = {}
    BY <1>1, <1>2, <1>4, <1>6
  <2> QED
    BY <1>1, <1>6, <2>1, ApartCardinality
<1>9. Cardinality(C) = Cardinality(B) + Cardinality(dropped) /\ Cardinality(dropped) \in Nat
  <2>1. B \in SUBSET Keys /\ B \cap dropped = {}
    BY <1>1, <1>2, <1>4, <1>6
  <2> QED
    BY <1>1, <1>6, <2>1, ApartCardinality
<1>10. Stored(read) = C
  BY <1>5, <1>6
<1>11. Cardinality(Stored(read)) =
         Cardinality(todo) + Cardinality(InHand) + Cardinality(checked) + Cardinality(dropped)
  BY <1>7, <1>8, <1>9, <1>10
<1>12. dropped # {} \/ (todo # {} /\ cycle # "check") => ctxDone
  BY DEF CycleInv, CutShort
<1> QED
  BY <1>5, <1>11, <1>12 DEF OnceEachCycle

(* The daemon's variables have their types, for any rows it starts with and*)
(* any saves, commits and purges.                                          *)
THEOREM DaemonTypes == DaemonSpec => []DaemonTypeOK
BY CycleInvInit, CycleInvStep, InvIsTyped, PTL DEF DaemonSpec

(* A cycle checks and saves every proxy it read exactly once, for any table*)
(* and number of workers, unless it was cancelled.                         *)
THEOREM EveryProxyOnceACycle == DaemonSpec => []OnceEachCycle
BY CycleInvInit, CycleInvStep, InvOnceEach, PTL DEF DaemonSpec

(***************************************************************************)
(* The failures that a row counts are failed checks whose saves are in the *)
(* table: a row that a cycle has read, or that a save carries, counts no   *)
(* more than those that were in the table then, and is not in it itself.   *)
(***************************************************************************)
FailedSaves(s, k, C) == {i \in DOMAIN s : s[i].key = k /\ i \in C /\ ~ s[i].data.alive}

FailsAtStart(st, k) == IF st[k] = NoRow THEN 0 ELSE st[k].fails

Allowed(st, s, k, C) == FailsAtStart(st, k) + Cardinality(FailedSaves(s, k, C))

RowsWithin(st, table, s, C) ==
  \A k \in Keys : table[k] # NoRow => table[k].fails <= Allowed(st, s, k, C)

SavesWithin ==
  \A i \in (DOMAIN saves) \ committed :
    saves[i].data.fails <=
      Allowed(start, saves, saves[i].key, committed) + (IF saves[i].data.alive THEN 0 ELSE 1)

FailsInv ==
  RowsWithin(start, rows, saves, committed) /\ RowsWithin(start, read, saves, committed) /\ SavesWithin

LEMMA FailedSavesGrow ==
  ASSUME NEW s \in Seq([key : Keys, data : Row]), NEW t \in Seq([key : Keys, data : Row]),
         NEW k \in Keys, NEW C, NEW D, C \subseteq D,
         Len(s) <= Len(t), \A i \in DOMAIN s : t[i] = s[i]
  PROVE  /\ IsFiniteSet(FailedSaves(t, k, D))
         /\ Cardinality(FailedSaves(s, k, C)) \in Nat
         /\ Cardinality(FailedSaves(t, k, D)) \in Nat
         /\ Cardinality(FailedSaves(s, k, C)) <= Cardinality(FailedSaves(t, k, D))
<1>1. /\ Len(s) \in Nat /\ Len(t) \in Nat /\ DOMAIN s = 1 .. Len(s) /\ DOMAIN t = 1 .. Len(t)
  BY LenProperties
<1>2. FailedSaves(s, k, C) \subseteq FailedSaves(t, k, D)
  <2>1. DOMAIN s \subseteq DOMAIN t
    BY <1>1
  <2> QED
    BY <2>1 DEF FailedSaves
<1>3. IsFiniteSet(FailedSaves(t, k, D))
  <2>1. IsFiniteSet(1 .. Len(t))
    BY <1>1, FS_Interval
  <2>2. FailedSaves(t, k, D) \in SUBSET (1 .. Len(t))
    BY <1>1 DEF FailedSaves
  <2> QED
    BY <2>1, <2>2, FS_Subset
<1>4. IsFiniteSet(FailedSaves(s, k, C)) /\
      Cardinality(FailedSaves(s, k, C)) <= Cardinality(FailedSaves(t, k, D))
  BY <1>2, <1>3, FS_Subset
<1> QED
  BY <1>3, <1>4, FS_CardinalityType

LEMMA AllowedGrows ==
  ASSUME start \in Tables,
         NEW s \in Seq([key : Keys, data : Row]), NEW t \in Seq([key : Keys, data : Row]),
         NEW k \in Keys, NEW C, NEW D, C \subseteq D,
         Len(s) <= Len(t), \A i \in DOMAIN s : t[i] = s[i]
  PROVE  Allowed(start, s, k, C) \in Nat /\ Allowed(start, t, k, D) \in Nat /\ Allowed(start, s, k, C) <= Allowed(start, t, k, D)
<1>1. FailsAtStart(start, k) \in Nat
  <2>1. start[k] = NoRow \/ start[k].fails \in Nat
    BY DEF Tables, Row
  <2> QED
    BY <2>1 DEF FailsAtStart
<1>2. /\ Cardinality(FailedSaves(s, k, C)) \in Nat
      /\ Cardinality(FailedSaves(t, k, D)) \in Nat
      /\ Cardinality(FailedSaves(s, k, C)) <= Cardinality(FailedSaves(t, k, D))
  BY FailedSavesGrow
<1> QED
  BY <1>1, <1>2 DEF Allowed

(* A failed save that enters the table allows one failure more.            *)
LEMMA AllowedOneMore ==
  ASSUME start \in Tables, NEW s \in Seq([key : Keys, data : Row]),
         NEW C, NEW i \in DOMAIN s, i \notin C, ~ s[i].data.alive, s[i].key \in Keys
  PROVE  Allowed(start, s, s[i].key, C) + 1 <= Allowed(start, s, s[i].key, C \cup {i})
<1>1. PICK k \in Keys : k = s[i].key
  OBVIOUS
<1>2. PICK A, B : A = FailedSaves(s, k, C) /\ B = FailedSaves(s, k, C \cup {i})
  OBVIOUS
<1>3. B = A \cup {i} /\ i \notin A
  BY <1>1, <1>2 DEF FailedSaves
<1>4. IsFiniteSet(A) /\ Cardinality(A) \in Nat
  <2>1. Len(s) <= Len(s)
    BY LenProperties
  <2> QED
    BY <1>2, <2>1, FailedSavesGrow
<1>5. Cardinality(B) = Cardinality(A) + 1
  BY <1>3, <1>4, FS_AddElement
<1>6. FailsAtStart(start, k) \in Nat
  <2>1. start[k] = NoRow \/ start[k].fails \in Nat
    BY DEF Tables, Row
  <2> QED
    BY <2>1 DEF FailsAtStart
<1>7. FailsAtStart(start, k) + Cardinality(A) + 1 <= FailsAtStart(start, k) + Cardinality(B)
  BY <1>4, <1>5, <1>6
<1> QED
  BY <1>1, <1>2, <1>7 DEF Allowed

LEMMA RowsStayWithin ==
  ASSUME start \in Tables, NEW table \in Tables,
         NEW s \in Seq([key : Keys, data : Row]), NEW t \in Seq([key : Keys, data : Row]),
         NEW C, NEW D, C \subseteq D,
         Len(s) <= Len(t), \A i \in DOMAIN s : t[i] = s[i],
         RowsWithin(start, table, s, C)
  PROVE  RowsWithin(start, table, t, D)
<1> SUFFICES ASSUME NEW k \in Keys, table[k] # NoRow
             PROVE  table[k].fails <= Allowed(start, t, k, D)
  BY DEF RowsWithin
<1>1. table[k].fails \in Nat
  BY DEF Tables, Row
<1>2. table[k].fails <= Allowed(start, s, k, C)
  BY DEF RowsWithin
<1>3. Allowed(start, s, k, C) \in Nat /\ Allowed(start, t, k, D) \in Nat /\ Allowed(start, s, k, C) <= Allowed(start, t, k, D)
  BY AllowedGrows
<1> QED
  BY <1>1, <1>2, <1>3

LEMMA FailsInvInit == DaemonInit => FailsInv
<1> SUFFICES ASSUME DaemonInit PROVE FailsInv
  OBVIOUS
<1>1. /\ start = rows /\ saves = <<>> /\ committed = {} /\ read = [k \in Keys |-> NoRow]
  BY DEF DaemonInit
<1>2. CycleInv
  BY CycleInvInit
<1>3. RowsWithin(start, rows, saves, committed)
  <2> SUFFICES ASSUME NEW k \in Keys, rows[k] # NoRow
               PROVE  rows[k].fails <= Allowed(start, saves, k, committed)
    BY DEF RowsWithin
  <2>1. rows[k].fails \in Nat
    BY <1>2 DEF CycleInv, StoreTyped, Tables, Row
  <2>2. FailedSaves(saves, k, committed) = {}
    BY <1>1 DEF FailedSaves
  <2>3. Cardinality(FailedSaves(saves, k, committed)) = 0
    BY <2>2, FS_EmptySet
  <2>4. FailsAtStart(start, k) = rows[k].fails
    BY <1>1 DEF FailsAtStart
  <2> QED
    BY <2>1, <2>3, <2>4 DEF Allowed
<1>4. RowsWithin(start, read, saves, committed)
  BY <1>1 DEF RowsWithin
<1>5. SavesWithin
  BY <1>1 DEF SavesWithin
<1> QED
  BY <1>3, <1>4, <1>5 DEF FailsInv

(* A save carries the failures of the row that was read, and its own.      *)
LEMMA SaveKeepsFails ==
  ASSUME CycleInv, FailsInv, NEW k \in Keys, NEW p \in Row, SaveOrUpdateProxy(k, p),
         UNCHANGED <<start, read>>,
         p.fails <= Allowed(start, saves, k, committed) + (IF p.alive THEN 0 ELSE 1)
  PROVE  FailsInv'
<1>1. /\ saves \in Seq([key : Keys, data : Row]) /\ saves' \in Seq([key : Keys, data : Row])
      /\ UNCHANGED <<rows, committed>>
      /\ Len(saves) \in Nat /\ Len(saves') = Len(saves) + 1 /\ Len(saves) <= Len(saves')
      /\ DOMAIN saves = 1 .. Len(saves) /\ DOMAIN saves' = 1 .. Len(saves')
      /\ saves'[Len(saves) + 1] = [key |-> k, data |-> p]
      /\ \A i \in DOMAIN saves : saves'[i] = saves[i]
  <2>1. StoreTyped
    BY DEF CycleInv
  <2>2. StoreTyped' /\ UNCHANGED <<rows, committed>> /\ Len(saves') = Len(saves) + 1
    BY <2>1, SaveKeepsStore
  <2>3. /\ saves'[Len(saves) + 1] = [key |-> k, data |-> p]
        /\ \A i \in DOMAIN saves : saves'[i] = saves[i]
    BY <2>1, SaveKeepsStore
  <2>4. saves \in Seq([key : Keys, data : Row]) /\ saves' \in Seq([key : Keys, data : Row])
    BY <2>1, <2>2 DEF StoreTyped
  <2>5. /\ Len(saves) \in Nat /\ DOMAIN saves = 1 .. Len(saves)
        /\ Len(saves') \in Nat /\ DOMAIN saves' = 1 .. Len(saves')
    BY <2>4, LenProperties
  <2>6. Len(saves) <= Len(saves')
    BY <2>2, <2>5
  <2> QED
    BY <2>2, <2>3, <2>4, <2>5, <2>6
<1>2. start \in Tables /\ read \in Tables /\ rows \in Tables
  BY DEF CycleInv, CycleTyped, StoreTyped
<1>3. RowsWithin(start, rows, saves', committed) /\ RowsWithin(start, read, saves', committed)
  BY <1>1, <1>2, RowsStayWithin DEF FailsInv
<1>4. \A j \in Keys :
        /\ Allowed(start, saves, j, committed) \in Nat /\ Allowed(start, saves', j, committed) \in Nat
        /\ Allowed(start, saves, j, committed) <= Allowed(start, saves', j, committed)
  BY <1>1, <1>2, AllowedGrows
<1>5. ASSUME NEW i \in (DOMAIN saves') \ committed
      PROVE  saves'[i].data.fails <=
               Allowed(start, saves', saves'[i].key, committed) + (IF saves'[i].data.alive THEN 0 ELSE 1)
  <2>1. CASE i \in DOMAIN saves
    <3>1. PICK q : q = saves[i]
      OBVIOUS
    <3>2. q \in [key : Keys, data : Row] /\ saves'[i] = q
      BY <1>1, <2>1, <3>1, ElementOfSeq
    <3>3. q.key \in Keys /\ q.data.fails \in Nat
      BY <3>2 DEF Row
    <3>4. q.data.fails <= Allowed(start, saves, q.key, committed) + (IF q.data.alive THEN 0 ELSE 1)
      BY <2>1, <3>1 DEF FailsInv, SavesWithin
    <3>5. q.data.fails <= Allowed(start, saves', q.key, committed) + (IF q.data.alive THEN 0 ELSE 1)
      BY <1>4, <3>3, <3>4
    <3> QED
      BY <3>2, <3>5
  <2>2. CASE i = Len(saves) + 1
    <3>1. p.fails \in Nat
      BY DEF Row
    <3>2. p.fails <= Allowed(start, saves', k, committed) + (IF p.alive THEN 0 ELSE 1)
      BY <1>4, <3>1
    <3> QED
      BY <1>1, <2>2, <3>2
  <2> QED
    BY <1>1, <2>1, <2>2
<1>6. /\ RowsWithin(start', rows', saves', committed')
      /\ RowsWithin(start', read', saves', committed')
  BY <1>1, <1>3
<1>7. SavesWithin'
  BY <1>1, <1>5 DEF SavesWithin
<1> QED
  BY <1>6, <1>7 DEF FailsInv

LEMMA SettleKeepsFails ==
  ASSUME CycleInv, FailsInv, Settle, UNCHANGED <<start, read>>
  PROVE  FailsInv'
<1>1. /\ StoreTyped /\ saves \in Seq([key : Keys, data : Row]) /\ rows \in Tables
      /\ start \in Tables /\ read \in Tables
      /\ Len(saves) \in Nat /\ DOMAIN saves = 1 .. Len(saves) /\ Len(saves) <= Len(saves)
  <2>1. StoreTyped
    BY DEF CycleInv
  <2>2. Len(saves) \in Nat /\ DOMAIN saves = 1 .. Len(saves)
    BY <2>1, LenProperties DEF StoreTyped
  <2> QED
    BY <2>1, <2>2 DEF CycleInv, CycleTyped, StoreTyped
<1>2. PICK batch \in SUBSET Pending :
        /\ \E ids \in SetToAllKPermutations(batch) :
             /\ rows' = ApplyAll(rows, ids)
             /\ committed' = committed \cup ToSet(ids)
        /\ saves' = saves
  BY DEF Settle
<1>3. PICK ids \in SetToAllKPermutations(batch) :
        /\ rows' = ApplyAll(rows, ids)
        /\ committed' = committed \cup ToSet(ids)
  BY <1>2
<1>4. PICK L, v :
        /\ L \in Nat
        /\ DOMAIN ids = 1 .. L
        /\ \A n \in 1 .. L : ids[n] \in batch
        /\ \A n, m \in 1 .. L : n # m => ids[n] # ids[m]
        /\ v[0] = rows /\ v[L] = ApplyAll(rows, ids)
        /\ \A n \in 1 .. L : v[n] = Upsert(v[n - 1], saves[ids[n]].key, saves[ids[n]].data)
  BY <1>1, BatchRuns
<1> L \in Nat
  BY <1>4
<1> DEFINE C(n) == committed \cup {ids[m] : m \in 1 .. n}
           G == {n \in 0 .. L : v[n] \in Tables /\ RowsWithin(start, v[n], saves, C(n))}
<1>5. 0 \in G
  <2>1. C(0) = committed
    OBVIOUS
  <2>2. v[0] \in Tables
    BY <1>1, <1>4
  <2>3. RowsWithin(start, v[0], saves, C(0))
    BY <1>4, <2>1 DEF FailsInv
  <2> QED
    BY <2>2, <2>3
<1>6. ASSUME NEW n \in 1 .. L, n - 1 \in G PROVE n \in G
  <2>1. PICK i, table, before : i = ids[n] /\ table = v[n - 1] /\ before = C(n - 1)
    OBVIOUS
  <2>2. i \in DOMAIN saves /\ i \notin committed
    BY <1>1, <1>4, <2>1 DEF Pending
  <2>3. C(n) = before \cup {i} /\ i \notin before
    <3>1. \A m \in 1 .. n : m \in 1 .. n - 1 \/ m = n
      OBVIOUS
    <3>2. \A m \in 1 .. n - 1 : m \in 1 .. n /\ m \in 1 .. L /\ m # n
      OBVIOUS
    <3>3. n \in 1 .. n
      OBVIOUS
    <3> QED
      BY <1>4, <2>1, <2>2, <3>1, <3>2, <3>3
  <2>4. PICK j, p : saves[i] = [key |-> j, data |-> p] /\ j \in Keys /\ p \in Row
    <3>1. saves[i] \in [key : Keys, data : Row]
      BY <1>1, <2>2, ElementOfSeq
    <3> QED
      BY <3>1
  <2>5. table \in Tables /\ RowsWithin(start, table, saves, before)
    BY <1>6, <2>1
  <2>6. v[n] = Upsert(table, j, p)
    BY <1>4, <2>1, <2>4
  <2>7. PICK after : after = before \cup {i}
    OBVIOUS
  <2>8. RowsWithin(start, table, saves, after)
    BY <1>1, <2>5, <2>7, RowsStayWithin
  <2>9. v[n] \in Tables /\ \A k \in Keys \ {j} : v[n][k] = table[k]
    BY <2>4, <2>5, <2>6, UpsertedTable
  <2>10. v[n][j].fails = IF table[j] = NoRow THEN p.fails
                         ELSE IF p.alive THEN 0 ELSE table[j].fails + 1
    BY <2>4, <2>5, <2>6, UpsertedTable
  <2>11. /\ Allowed(start, saves, j, before) \in Nat /\ Allowed(start, saves, j, after) \in Nat
         /\ Allowed(start, saves, j, before) <= Allowed(start, saves, j, after)
    BY <1>1, <2>4, <2>7, AllowedGrows
  <2>12. ~ p.alive => Allowed(start, saves, j, before) + 1 <= Allowed(start, saves, j, after)
    <3>1. saves[i].key = j /\ saves[i].data = p
      BY <2>4
    <3>2. i \notin before
      BY <2>3
    <3> SUFFICES ASSUME ~ p.alive
                 PROVE  Allowed(start, saves, saves[i].key, before) + 1
                          <= Allowed(start, saves, saves[i].key, before \cup {i})
      BY <2>7, <3>1
    <3>3. ~ saves[i].data.alive /\ saves[i].key \in Keys
      BY <2>4, <3>1
    <3> QED
      BY <1>1, <2>2, <3>2, <3>3, AllowedOneMore
  <2>13. v[n][j].fails <= Allowed(start, saves, j, after)
    <3>1. CASE table[j] = NoRow
      <4>1. p.fails <= Allowed(start, saves, j, committed) + (IF p.alive THEN 0 ELSE 1)
        BY <2>2, <2>4 DEF FailsInv, SavesWithin
      <4>2. Allowed(start, saves, j, committed) \in Nat /\ Allowed(start, saves, j, committed) <= Allowed(start, saves, j, before)
        <5>1. committed \subseteq before
          BY <2>1
        <5> QED
          BY <1>1, <2>4, <5>1, AllowedGrows
      <4>3. p.fails \in Nat
        BY <2>4 DEF Row
      <4> QED
        BY <2>10, <2>11, <2>12, <3>1, <4>1, <4>2, <4>3
    <3>2. CASE table[j] # NoRow
      <4>1. table[j].fails \in Nat /\ table[j].fails <= Allowed(start, saves, j, before)
        BY <2>4, <2>5, <3>2 DEF RowsWithin, Tables, Row
      <4> QED
        BY <2>10, <2>11, <2>12, <3>2, <4>1
    <3> QED
      BY <3>1, <3>2
  <2>14. RowsWithin(start, v[n], saves, after)
    BY <2>8, <2>9, <2>13 DEF RowsWithin
  <2> QED
    BY <2>3, <2>7, <2>9, <2>14
<1>7. L \in G
  <2>1. L \in 0 .. L
    OBVIOUS
  <2> HIDE DEF G
  <2> QED
    BY <1>5, <1>6, <2>1, StepByStep
<1>8. C(L) = committed'
  BY <1>3, <1>4 DEF ToSet
<1>9. RowsWithin(start, rows', saves, committed')
  BY <1>3, <1>4, <1>7, <1>8
<1>10. committed \subseteq committed'
  BY <1>3
<1>11. RowsWithin(start, read, saves, committed')
  BY <1>1, <1>10, RowsStayWithin DEF FailsInv
<1>12. ASSUME NEW i \in (DOMAIN saves) \ committed'
       PROVE  saves[i].data.fails <=
                Allowed(start, saves, saves[i].key, committed') + (IF saves[i].data.alive THEN 0 ELSE 1)
  <2>1. PICK q : q = saves[i]
    OBVIOUS
  <2>2. q \in [key : Keys, data : Row]
    BY <1>1, <2>1, ElementOfSeq
  <2>3. q.key \in Keys /\ q.data.fails \in Nat
    BY <2>2 DEF Row
  <2>4. q.data.fails <= Allowed(start, saves, q.key, committed) + (IF q.data.alive THEN 0 ELSE 1)
    BY <1>10, <2>1 DEF FailsInv, SavesWithin
  <2>5. /\ Allowed(start, saves, q.key, committed) \in Nat /\ Allowed(start, saves, q.key, committed') \in Nat
        /\ Allowed(start, saves, q.key, committed) <= Allowed(start, saves, q.key, committed')
    BY <1>1, <1>10, <2>3, AllowedGrows
  <2>6. q.data.fails <= Allowed(start, saves, q.key, committed') + (IF q.data.alive THEN 0 ELSE 1)
    BY <2>3, <2>4, <2>5
  <2> QED
    BY <2>1, <2>6
<1>13. /\ RowsWithin(start', rows', saves', committed')
       /\ RowsWithin(start', read', saves', committed')
  BY <1>2, <1>9, <1>11
<1>14. SavesWithin'
  BY <1>2, <1>12 DEF SavesWithin
<1> QED
  BY <1>13, <1>14 DEF FailsInv

(* Steps that save and commit nothing: rows are purged, or read.           *)
LEMMA ReadKeepsFails ==
  ASSUME FailsInv, UNCHANGED <<start, saves, committed>>,
         \A k \in Keys : rows'[k] = rows[k] \/ rows'[k] = NoRow,
         \A k \in Keys : read'[k] = read[k] \/ read'[k] = rows[k] \/ read'[k] = NoRow
  PROVE  FailsInv'
<1>1. RowsWithin(start', rows', saves', committed')
  BY DEF FailsInv, RowsWithin
<1>2. RowsWithin(start', read', saves', committed')
  BY DEF FailsInv, RowsWithin
<1>3. SavesWithin'
  BY DEF FailsInv, SavesWithin
<1> QED
  BY <1>1, <1>2, <1>3 DEF FailsInv

LEMMA VerdictKeepsFails ==
  ASSUME CycleInv, FailsInv, NEW w \in Workers, SaveVerdict(w)
  PROVE  FailsInv'
<1>1. PICK k, ok, r : k = work[w].key /\ ok = work[w].ok /\ r = read[k]
  OBVIOUS
<1>2. PICK p : p = Rechecked(r, ok)
  OBVIOUS
<1>3. /\ k \in Keys /\ ok \in BOOLEAN /\ r \in Row /\ p \in Row
      /\ SaveOrUpdateProxy(k, p) /\ UNCHANGED <<start, read>>
  BY <1>1, <1>2, SavingWorker
<1>4. p.alive = ok /\ p.fails = IF ok THEN 0 ELSE r.fails + 1
  BY <1>2, <1>3, RecheckedIsRow
<1>5. r.fails \in Nat /\ r.fails <= Allowed(start, saves, k, committed)
  <2>1. r # NoRow
    BY <1>1, <1>3 DEF CycleInv, PlacesApart, HandsHold, SaveVerdict
  <2> QED
    BY <1>1, <1>3, <2>1 DEF FailsInv, RowsWithin, Row
<1>6. Allowed(start, saves, k, committed) \in Nat
  <2>1. start \in Tables /\ saves \in Seq([key : Keys, data : Row]) /\ Len(saves) <= Len(saves)
    BY LenProperties DEF CycleInv, CycleTyped, StoreTyped
  <2> QED
    BY <1>3, <2>1, AllowedGrows
<1>7. p.fails <= Allowed(start, saves, k, committed) + (IF p.alive THEN 0 ELSE 1)
  BY <1>3, <1>4, <1>5, <1>6
<1> QED
  BY <1>3, <1>7, SaveKeepsFails

LEMMA ScanKeepsFails ==
  ASSUME CycleInv, FailsInv, NEW k \in Keys, ScanFinds(k)
  PROVE  FailsInv'
<1>1. Scanned \in Row /\ Scanned.fails = 0 /\ Scanned.alive
  BY DEF Scanned, Row
<1>2. SaveOrUpdateProxy(k, Scanned) /\ UNCHANGED <<start, read>>
  BY DEF ScanFinds
<1>3. Allowed(start, saves, k, committed) \in Nat
  <2>1. start \in Tables /\ saves \in Seq([key : Keys, data : Row]) /\ Len(saves) <= Len(saves)
    BY LenProperties DEF CycleInv, CycleTyped, StoreTyped
  <2> QED
    BY <2>1, AllowedGrows
<1>4. Scanned.fails <=
        Allowed(start, saves, k, committed) + (IF Scanned.alive THEN 0 ELSE 1)
  BY <1>1, <1>3
<1> QED
  BY <1>1, <1>2, <1>4, SaveKeepsFails

LEMMA FailsInvStep == CycleInv /\ FailsInv /\ [DaemonNext]_allVars => FailsInv'
<1> SUFFICES ASSUME CycleInv, FailsInv, [DaemonNext]_allVars PROVE FailsInv'
  OBVIOUS
<1>1. CASE StartCycle
  <2>1. UNCHANGED <<rows, start, saves, committed>>
    BY <1>1 DEF StartCycle, store
  <2>2. \A k \in Keys : read'[k] = rows[k] \/ read'[k] = NoRow
    BY <1>1 DEF StartCycle
  <2> QED
    BY <2>1, <2>2, ReadKeepsFails
<1>2. CASE PurgeDeadProxies
  <2>1. UNCHANGED <<start, read>>
    BY <1>2 DEF PurgeDeadProxies, history
  <2>2. /\ UNCHANGED <<saves, committed>>
        /\ \A k \in Keys : rows'[k] = rows[k] \/ rows'[k] = NoRow
    BY <1>2, PurgeKeepsStore DEF PurgeDeadProxies, CycleInv
  <2> QED
    BY <2>1, <2>2, ReadKeepsFails
<1>3. CASE UNCHANGED <<rows, start, saves, committed, read>>
  BY <1>3, ReadKeepsFails
<1>4. ASSUME NEW w \in Workers, WorkerStep(w) PROVE FailsInv'
  <2>1. TakeProxy(w) \/ CheckIPPort(w) => UNCHANGED <<rows, start, saves, committed, read>>
    BY DEF TakeProxy, CheckIPPort, store, history
  <2> QED
    BY <1>3, <1>4, <2>1, VerdictKeepsFails DEF WorkerStep
<1>5. CASE CycleStep
  <2>1. WaitWorkers \/ Flush \/ SyncAliveFiles \/ RunReturns =>
          UNCHANGED <<rows, start, saves, committed, read>>
    BY DEF WaitWorkers, Flush, SyncAliveFiles, RunReturns, store, history
  <2> QED
    BY <1>2, <1>3, <1>5, <2>1 DEF CycleStep
<1>6. CASE QueryFails \/ Cancel \/ UNCHANGED allVars
  <2>1. UNCHANGED <<rows, start, saves, committed, read>>
    BY <1>6 DEF QueryFails, Cancel, allVars, daemonVars, store, history
  <2> QED
    BY <1>3, <2>1
<1>7. CASE CommitSaves
  <2>1. Settle /\ UNCHANGED <<start, read>>
    BY <1>7 DEF CommitSaves, daemonVars, history
  <2> QED
    BY <2>1, SettleKeepsFails
<1> QED
  BY <1>1, <1>4, <1>5, <1>6, <1>7, ScanKeepsFails DEF DaemonNext

LEMMA InvFailsAreChecks == FailsInv => FailsAreChecks
<1> SUFFICES ASSUME FailsInv, NEW k \in Stored(rows)
             PROVE  rows[k].fails <= (IF start[k] = NoRow THEN 0 ELSE start[k].fails)
                      + Cardinality({i \in Saved(k) \cap committed : ~ saves[i].data.alive})
  BY DEF FailsAreChecks
<1>1. k \in Keys /\ rows[k] # NoRow
  BY DEF Stored
<1>2. {i \in Saved(k) \cap committed : ~ saves[i].data.alive} = FailedSaves(saves, k, committed)
  BY DEF Saved, FailedSaves
<1>3. rows[k].fails <= Allowed(start, saves, k, committed)
  BY <1>1 DEF FailsInv, RowsWithin
<1> QED
  BY <1>2, <1>3 DEF Allowed, FailsAtStart

(* No row counts a failure that no check found, for any order of saves,    *)
(* commits, purges and cycles: the daemon's count and the statement's are  *)
(* never added up.                                                         *)
THEOREM FailuresAreCountedOnce == DaemonSpec => []FailsAreChecks
<1>1. DaemonInit => CycleInv /\ FailsInv
  BY CycleInvInit, FailsInvInit
<1>2. CycleInv /\ FailsInv /\ [DaemonNext]_allVars => (CycleInv /\ FailsInv)'
  BY CycleInvStep, FailsInvStep
<1>3. CycleInv /\ FailsInv => FailsAreChecks
  BY InvFailsAreChecks
<1> QED
  BY <1>1, <1>2, <1>3, PTL DEF DaemonSpec

(***************************************************************************)
(* A proxy whose saves all say that it is alive is alive in the table from *)
(* the first commit on; this holds of every table between two statements   *)
(* of a commit as well.                                                    *)
(***************************************************************************)
Healthy(s, k) == \A i \in DOMAIN s : s[i].key = k => s[i].data.alive

InTable(table, s, C) ==
  \A k \in Keys :
    Healthy(s, k) /\ (\E i \in C : s[i].key = k) => table[k] # NoRow /\ table[k].alive

KeptInv == InTable(rows, saves, committed)

LEMMA KeptIsInTable ==
  ASSUME StoreTyped
  PROVE  HealthyProxyIsKept <=> KeptInv
<1>1. committed \subseteq DOMAIN saves
  BY DEF StoreTyped
<1>2. ASSUME NEW k \in Keys
      PROVE  /\ Saved(k) \cap committed # {} <=> \E i \in committed : saves[i].key = k
             /\ (\A i \in Saved(k) : saves[i].data.alive) <=> Healthy(saves, k)
  BY <1>1 DEF Saved, Healthy
<1> QED
  BY <1>2 DEF HealthyProxyIsKept, KeptInv, InTable

LEMMA SaveKeepsHealthy ==
  ASSUME StoreTyped, KeptInv, NEW k \in Keys, NEW p \in Row, SaveOrUpdateProxy(k, p)
  PROVE  KeptInv'
<1>1. /\ StoreTyped' /\ UNCHANGED <<rows, committed>>
      /\ DOMAIN saves \subseteq DOMAIN saves'
      /\ \A i \in DOMAIN saves : saves'[i] = saves[i]
  <2>1. /\ StoreTyped' /\ UNCHANGED <<rows, committed, lost>>
        /\ Len(saves) \in Nat /\ Len(saves') = Len(saves) + 1
        /\ DOMAIN saves = 1 .. Len(saves)
        /\ DOMAIN saves' = 1 .. Len(saves')
        /\ \A i \in DOMAIN saves : saves'[i] = saves[i]
    BY SaveKeepsStore
  <2>2. DOMAIN saves \subseteq DOMAIN saves'
    BY <2>1
  <2> QED
    BY <2>1, <2>2
<1>2. committed \subseteq DOMAIN saves
  BY DEF StoreTyped
<1>3. \A j \in Keys : Healthy(saves', j) => Healthy(saves, j)
  BY <1>1 DEF Healthy
<1>4. \A i \in committed : saves'[i] = saves[i]
  BY <1>1, <1>2
<1> QED
  BY <1>1, <1>3, <1>4 DEF KeptInv, InTable

LEMMA SettleKeepsHealthy ==
  ASSUME StoreTyped, KeptInv, Settle
  PROVE  KeptInv'
<1>1. PICK batch \in SUBSET Pending :
        /\ \E ids \in SetToAllKPermutations(batch) :
             /\ rows' = ApplyAll(rows, ids)
             /\ committed' = committed \cup ToSet(ids)
        /\ saves' = saves
  BY DEF Settle
<1>2. PICK ids \in SetToAllKPermutations(batch) :
        /\ rows' = ApplyAll(rows, ids)
        /\ committed' = committed \cup ToSet(ids)
  BY <1>1
<1>3. PICK L, v :
        /\ L \in Nat
        /\ DOMAIN ids = 1 .. L
        /\ \A n \in 1 .. L : ids[n] \in batch
        /\ \A n, m \in 1 .. L : n # m => ids[n] # ids[m]
        /\ v[0] = rows /\ v[L] = ApplyAll(rows, ids)
        /\ \A n \in 1 .. L : v[n] = Upsert(v[n - 1], saves[ids[n]].key, saves[ids[n]].data)
  BY BatchRuns
<1> L \in Nat
  BY <1>3
<1> DEFINE C(n) == committed \cup {ids[m] : m \in 1 .. n}
           G == {n \in 0 .. L : v[n] \in Tables /\ InTable(v[n], saves, C(n))}
<1>4. 0 \in G
  <2>1. C(0) = committed
    OBVIOUS
  <2>2. v[0] \in Tables
    BY <1>3 DEF StoreTyped
  <2>3. InTable(v[0], saves, C(0))
    BY <1>3, <2>1 DEF KeptInv
  <2> QED
    BY <2>2, <2>3
<1>5. ASSUME NEW n \in 1 .. L, n - 1 \in G PROVE n \in G
  <2>1. PICK i, table, before : i = ids[n] /\ table = v[n - 1] /\ before = C(n - 1)
    OBVIOUS
  <2>2. i \in DOMAIN saves /\ DOMAIN saves = 1 .. Len(saves)
    <3>1. i \in Pending
      BY <1>1, <1>3, <2>1
    <3>2. DOMAIN saves = 1 .. Len(saves)
      BY LenProperties DEF StoreTyped
    <3> QED
      BY <3>1, <3>2 DEF Pending
  <2>3. C(n) = before \cup {i}
    <3>1. \A m \in 1 .. n : m \in 1 .. n - 1 \/ m = n
      OBVIOUS
    <3>2. (\A m \in 1 .. n - 1 : m \in 1 .. n) /\ n \in 1 .. n
      OBVIOUS
    <3> QED
      BY <2>1, <3>1, <3>2
  <2>4. PICK j, p : j = saves[i].key /\ p = saves[i].data /\ j \in Keys /\ p \in Row
    <3>1. saves[i] \in [key : Keys, data : Row]
      <4>1. saves \in Seq([key : Keys, data : Row])
        BY DEF StoreTyped
      <4> QED
        BY <2>2, <4>1, ElementOfSeq
    <3> QED
      BY <3>1
  <2>5. table \in Tables /\ InTable(table, saves, before)
    BY <1>5, <2>1
  <2>6. v[n] = Upsert(table, j, p)
    BY <1>3, <2>1, <2>4
  <2>7. v[n] \in Tables /\ \A k \in Keys \ {j} : v[n][k] = table[k]
    BY <2>4, <2>5, <2>6, UpsertedTable
  <2>8. v[n][j] # NoRow /\ v[n][j].alive = p.alive
    <3>1. v[n][j] \in Row /\ v[n][j].alive = p.alive
      BY <2>4, <2>5, <2>6, UpsertedTable
    <3>2. NoRow \notin Row
      BY NoRowAssumption
    <3> QED
      BY <3>1, <3>2
  <2>9. Healthy(saves, j) => p.alive
    BY <2>2, <2>4 DEF Healthy
  <2>10. InTable(v[n], saves, before \cup {i})
    BY <2>4, <2>5, <2>7, <2>8, <2>9 DEF InTable
  <2> QED
    BY <2>3, <2>7, <2>10
<1>6. L \in G
  <2>1. L \in 0 .. L
    OBVIOUS
  <2> HIDE DEF G
  <2> QED
    BY <1>4, <1>5, <2>1, StepByStep
<1>7. C(L) = committed'
  BY <1>2, <1>3 DEF ToSet
<1> QED
  BY <1>1, <1>2, <1>3, <1>6, <1>7 DEF KeptInv

LEMMA KeptInvStep == CycleInv /\ KeptInv /\ [DaemonNext]_allVars => KeptInv'
<1> SUFFICES ASSUME CycleInv, KeptInv, [DaemonNext]_allVars PROVE KeptInv'
  OBVIOUS
<1>1. StoreTyped
  BY DEF CycleInv
<1>2. CASE UNCHANGED store
  BY <1>2 DEF KeptInv, store
<1>3. CASE PurgeDeadProxies
  <2>1. /\ UNCHANGED <<saves, committed>>
        /\ \A k \in Keys : \/ rows'[k] = rows[k]
                           \/ rows'[k] = NoRow /\ rows[k] # NoRow /\ ~ rows[k].alive
    BY <1>1, <1>3, PurgeKeepsStore DEF PurgeDeadProxies
  <2> QED
    BY <2>1 DEF KeptInv, InTable
<1>4. ASSUME NEW w \in Workers, WorkerStep(w) PROVE KeptInv'
  <2>1. TakeProxy(w) \/ CheckIPPort(w) => UNCHANGED store
    BY DEF TakeProxy, CheckIPPort
  <2>2. CASE SaveVerdict(w)
    <3>1. PICK k \in Keys, p \in Row : SaveOrUpdateProxy(k, p)
      BY <2>2, SavingWorker
    <3> QED
      BY <1>1, <3>1, SaveKeepsHealthy
  <2> QED
    BY <1>2, <1>4, <2>1, <2>2 DEF WorkerStep
<1>5. CASE CycleStep
  <2>1. WaitWorkers \/ Flush \/ SyncAliveFiles \/ RunReturns => UNCHANGED store
    BY DEF WaitWorkers, Flush, SyncAliveFiles, RunReturns
  <2> QED
    BY <1>2, <1>3, <1>5, <2>1 DEF CycleStep
<1>6. StartCycle \/ QueryFails \/ Cancel \/ UNCHANGED allVars => UNCHANGED store
  BY DEF StartCycle, QueryFails, Cancel, allVars
<1>7. ASSUME NEW k \in Keys, ScanFinds(k) PROVE KeptInv'
  <2>1. Scanned \in Row /\ SaveOrUpdateProxy(k, Scanned)
    BY <1>7 DEF ScanFinds, Scanned, Row
  <2> QED
    BY <1>1, <2>1, SaveKeepsHealthy
<1>8. CommitSaves => Settle
  BY DEF CommitSaves
<1> QED
  BY <1>1, <1>2, <1>4, <1>5, <1>6, <1>7, <1>8, SettleKeepsHealthy DEF DaemonNext

LEMMA KeptInvInit == DaemonInit => KeptInv
BY DEF DaemonInit, KeptInv, InTable

(* A proxy that was never found dead is in the table as alive once a save  *)
(* of it is committed, for any order of commits and purges.                *)
THEOREM HealthyProxiesAreKept == DaemonSpec => []HealthyProxyIsKept
<1>1. DaemonInit => CycleInv /\ KeptInv
  BY CycleInvInit, KeptInvInit
<1>2. CycleInv /\ KeptInv /\ [DaemonNext]_allVars => (CycleInv /\ KeptInv)'
  BY CycleInvStep, KeptInvStep
<1>3. CycleInv /\ KeptInv => HealthyProxyIsKept
  BY KeptIsInTable DEF CycleInv
<1> QED
  BY <1>1, <1>2, <1>3, PTL DEF DaemonSpec

(***************************************************************************)
(* Cancellation.  A proxy that always answers fails a check only after the *)
(* signal, and then no worker takes it again: what a worker holds with a   *)
(* failed check is its first failure, and once that is saved nobody holds  *)
(* it any more.                                                            *)
(***************************************************************************)
Dead(s, k) == {i \in DOMAIN s : s[i].key = k /\ ~ s[i].data.alive}

FirstFailure(k) ==
  \A w \in Workers :
    work[w].key = k /\ work[w].pc = "save" /\ ~ work[w].ok => ctxDone /\ Dead(saves, k) = {}

LastFailure(k) ==
  Dead(saves, k) # {} => ctxDone /\ \A w \in Workers : work[w].key # k

CancelInv ==
  \A k \in Keys : Verdicts[k] = {TRUE} =>
    /\ FirstFailure(k) /\ LastFailure(k)
    /\ \A i, j \in Dead(saves, k) : i = j

LEMMA OneMoreDead ==
  ASSUME StoreTyped, NEW k \in Keys, NEW p \in Row, SaveOrUpdateProxy(k, p)
  PROVE  /\ \A j \in Keys \ {k} : Dead(saves', j) = Dead(saves, j)
         /\ Dead(saves', k) = IF p.alive THEN Dead(saves, k)
                              ELSE Dead(saves, k) \cup {Len(saves) + 1}
<1>1. /\ Len(saves) \in Nat
      /\ DOMAIN saves = 1 .. Len(saves) /\ DOMAIN saves' = 1 .. Len(saves')
      /\ Len(saves') = Len(saves) + 1
      /\ saves'[Len(saves) + 1] = [key |-> k, data |-> p]
      /\ \A i \in DOMAIN saves : saves'[i] = saves[i]
  BY SaveKeepsStore
<1>2. DOMAIN saves' = (DOMAIN saves) \cup {Len(saves) + 1}
  BY <1>1
<1>3. PICK n, t : n = Len(saves) + 1 /\ t = saves'
  OBVIOUS
<1>4. DOMAIN t = (DOMAIN saves) \cup {n} /\ t[n].key = k /\ t[n].data = p
  BY <1>1, <1>2, <1>3
<1>5. \A i \in DOMAIN saves : t[i] = saves[i]
  BY <1>1, <1>3
<1>6. \A j \in Keys \ {k} : Dead(t, j) = Dead(saves, j)
  BY <1>4, <1>5 DEF Dead
<1>7. CASE p.alive
  <2>1. Dead(t, k) = Dead(saves, k)
    BY <1>4, <1>5, <1>7 DEF Dead
  <2> QED
    BY <1>3, <1>6, <1>7, <2>1
<1>8. CASE ~ p.alive
  <2>1. Dead(t, k) = Dead(saves, k) \cup {n}
    BY <1>4, <1>5, <1>8 DEF Dead
  <2> QED
    BY <1>3, <1>6, <1>8, <2>1
<1> QED
  BY <1>7, <1>8

(* Steps that save nothing and put a proxy in no worker's hands.           *)
LEMMA QuietKeepsCancel ==
  ASSUME CancelInv, UNCHANGED saves, ctxDone => ctxDone',
         work' = work \/ \A w \in Workers : work'[w].key = None
  PROVE  CancelInv'
<1> SUFFICES ASSUME NEW k \in Keys, Verdicts[k] = {TRUE}
             PROVE  /\ FirstFailure(k)' /\ LastFailure(k)'
                    /\ \A i, j \in Dead(saves', k) : i = j
  BY DEF CancelInv
<1>1. FirstFailure(k) /\ LastFailure(k) /\ \A i, j \in Dead(saves, k) : i = j
  BY DEF CancelInv
<1>2. k # None
  BY VerdictsAssumption
<1>3. FirstFailure(k)'
  BY <1>1, <1>2 DEF FirstFailure
<1>4. LastFailure(k)'
  BY <1>1, <1>2 DEF LastFailure
<1> QED
  BY <1>1, <1>3, <1>4

LEMMA TakeKeepsCancel ==
  ASSUME CycleInv, CancelInv, NEW w \in Workers, TakeProxy(w)
  PROVE  CancelInv'
<1>1. UNCHANGED <<saves, ctxDone>>
  BY DEF TakeProxy, store
<1>2. PICK t \in todo :
        /\ work'[w].pc = (IF ctxDone THEN "gone" ELSE "check")
        /\ work'[w].key = (IF ctxDone THEN None ELSE t)
        /\ \A u \in Workers : u # w => work'[u] = work[u]
  BY TakingWorker
<1> SUFFICES ASSUME NEW k \in Keys, Verdicts[k] = {TRUE}
             PROVE  /\ FirstFailure(k)' /\ LastFailure(k)'
                    /\ \A i, j \in Dead(saves', k) : i = j
  BY DEF CancelInv
<1>3. FirstFailure(k) /\ LastFailure(k) /\ \A i, j \in Dead(saves, k) : i = j
  BY DEF CancelInv
<1>4. k # None
  BY VerdictsAssumption
<1>5. FirstFailure(k)'
  BY <1>1, <1>2, <1>3 DEF FirstFailure
<1>6. LastFailure(k)'
  BY <1>1, <1>2, <1>3, <1>4 DEF LastFailure
<1> QED
  BY <1>1, <1>3, <1>5, <1>6

LEMMA CheckKeepsCancel ==
  ASSUME CycleInv, CancelInv, NEW w \in Workers, CheckIPPort(w)
  PROVE  CancelInv'
<1>1. UNCHANGED <<saves, ctxDone>>
  BY DEF CheckIPPort, store
<1>2. /\ \A u \in Workers : work'[u].key = work[u].key
      /\ \A u \in Workers : u # w => work'[u] = work[u]
      /\ Verdicts[work[w].key] = {TRUE} /\ ~ work'[w].ok => ctxDone
  BY CheckingWorker
<1> SUFFICES ASSUME NEW k \in Keys, Verdicts[k] = {TRUE}
             PROVE  /\ FirstFailure(k)' /\ LastFailure(k)'
                    /\ \A i, j \in Dead(saves', k) : i = j
  BY DEF CancelInv
<1>3. FirstFailure(k) /\ LastFailure(k) /\ \A i, j \in Dead(saves, k) : i = j
  BY DEF CancelInv
<1>4. FirstFailure(k)'
  <2> SUFFICES ASSUME NEW u \in Workers,
                      work'[u].key = k, work'[u].pc = "save", ~ work'[u].ok
               PROVE  ctxDone /\ Dead(saves, k) = {}
    BY <1>1 DEF FirstFailure
  <2>1. work[u].key = k
    BY <1>2
  <2>2. Dead(saves, k) = {}
    BY <1>3, <2>1 DEF LastFailure
  <2>3. ctxDone
    <3>1. CASE u = w
      BY <1>2, <2>1, <3>1
    <3>2. CASE u # w
      BY <1>2, <1>3, <2>1, <3>2 DEF FirstFailure
    <3> QED
      BY <3>1, <3>2
  <2> QED
    BY <2>2, <2>3
<1>5. LastFailure(k)'
  BY <1>1, <1>2, <1>3 DEF LastFailure
<1> QED
  BY <1>1, <1>3, <1>4, <1>5

LEMMA SaveVerdictKeepsCancel ==
  ASSUME CycleInv, CancelInv, NEW w \in Workers, SaveVerdict(w)
  PROVE  CancelInv'
<1>1. PICK h, ok, p : h = work[w].key /\ ok = work[w].ok /\ p = Rechecked(read[h], ok)
  OBVIOUS
<1>2. /\ work[w].pc = "save" /\ h \in Keys /\ p \in Row /\ SaveOrUpdateProxy(h, p)
      /\ ok \in BOOLEAN /\ read[h] \in Row
      /\ work' = [work EXCEPT ![w] = [pc |-> "idle", key |-> None, ok |-> FALSE]]
      /\ UNCHANGED ctxDone
  BY <1>1, SavingWorker
<1>3. p.alive = ok
  BY <1>1, <1>2, RecheckedIsRow
<1>4. /\ \A j \in Keys \ {h} : Dead(saves', j) = Dead(saves, j)
      /\ Dead(saves', h) = IF ok THEN Dead(saves, h) ELSE Dead(saves, h) \cup {Len(saves) + 1}
  BY <1>2, <1>3, OneMoreDead DEF CycleInv
<1>5. /\ work'[w].pc = "idle" /\ work'[w].key = None
      /\ \A u \in Workers : u # w => work'[u] = work[u]
  BY <1>2 DEF CycleInv, CycleTyped
<1>6. h # None /\ \A u \in Workers : u # w => work[u].key # h
  BY <1>1, <1>2, VerdictsAssumption DEF CycleInv, HandsApart
<1> SUFFICES ASSUME NEW k \in Keys, Verdicts[k] = {TRUE}
             PROVE  /\ FirstFailure(k)' /\ LastFailure(k)'
                    /\ \A i, j \in Dead(saves', k) : i = j
  BY DEF CancelInv
<1>7. FirstFailure(k) /\ LastFailure(k) /\ \A i, j \in Dead(saves, k) : i = j
  BY DEF CancelInv
<1>8. k # None
  BY VerdictsAssumption
<1>9. CASE k # h \/ ok
  <2>1. Dead(saves', k) = Dead(saves, k)
    BY <1>4, <1>9
  <2>2. FirstFailure(k)'
    BY <1>2, <1>5, <1>7, <1>8, <2>1 DEF FirstFailure
  <2>3. LastFailure(k)'
    BY <1>2, <1>5, <1>7, <1>8, <2>1 DEF LastFailure
  <2> QED
    BY <1>7, <2>1, <2>2, <2>3
<1>10. CASE k = h /\ ~ ok
  <2>1. ctxDone /\ Dead(saves, k) = {}
    BY <1>1, <1>2, <1>7, <1>10 DEF FirstFailure
  <2>2. Dead(saves', k) = {Len(saves) + 1}
    BY <1>4, <1>10, <2>1
  <2>3. \A u \in Workers : work'[u].key # k
    BY <1>5, <1>6, <1>10
  <2>4. FirstFailure(k)' /\ LastFailure(k)'
    BY <1>2, <2>1, <2>3 DEF FirstFailure, LastFailure
  <2> QED
    BY <2>2, <2>4
<1> QED
  BY <1>9, <1>10

LEMMA ScanKeepsCancel ==
  ASSUME CycleInv, CancelInv, NEW h \in Keys, ScanFinds(h)
  PROVE  CancelInv'
<1>1. Scanned \in Row /\ Scanned.alive /\ SaveOrUpdateProxy(h, Scanned)
  BY DEF ScanFinds, Scanned, Row
<1>2. \A j \in Keys : Dead(saves', j) = Dead(saves, j)
  BY <1>1, OneMoreDead DEF CycleInv
<1>3. UNCHANGED <<work, ctxDone>>
  BY DEF ScanFinds
<1> QED
  BY <1>2, <1>3 DEF CancelInv, FirstFailure, LastFailure

LEMMA CancelInvStep == CycleInv /\ CancelInv /\ [DaemonNext]_allVars => CancelInv'
<1> SUFFICES ASSUME CycleInv, CancelInv, [DaemonNext]_allVars PROVE CancelInv'
  OBVIOUS
<1>1. CASE StartCycle
  <2>1. \A w \in Workers : work'[w].key = None
    BY <1>1 DEF StartCycle, Rested
  <2>2. UNCHANGED <<saves, ctxDone>>
    BY <1>1 DEF StartCycle, store
  <2> QED
    BY <2>1, <2>2, QuietKeepsCancel
<1>2. ASSUME NEW w \in Workers, WorkerStep(w) PROVE CancelInv'
  BY <1>2, TakeKeepsCancel, CheckKeepsCancel, SaveVerdictKeepsCancel DEF WorkerStep
<1>3. CASE CycleStep
  <2>1. WaitWorkers \/ Flush \/ SyncAliveFiles \/ RunReturns => UNCHANGED <<saves, work, ctxDone>>
    BY DEF WaitWorkers, Flush, SyncAliveFiles, RunReturns, store
  <2>2. PurgeDeadProxies => UNCHANGED <<saves, work, ctxDone>>
    BY PurgeKeepsStore DEF PurgeDeadProxies, CycleInv
  <2> QED
    BY <1>3, <2>1, <2>2, QuietKeepsCancel DEF CycleStep
<1>4. CASE QueryFails \/ UNCHANGED allVars
  <2>1. UNCHANGED <<saves, work, ctxDone>>
    BY <1>4 DEF QueryFails, allVars, daemonVars, store
  <2> QED
    BY <2>1, QuietKeepsCancel
<1>5. CASE Cancel
  <2>1. UNCHANGED <<saves, work>> /\ ctxDone'
    BY <1>5 DEF Cancel, store
  <2> QED
    BY <2>1, QuietKeepsCancel
<1>6. CASE CommitSaves
  <2>1. UNCHANGED <<saves, work, ctxDone>>
    BY <1>6, SettleKeepsStore DEF CommitSaves, daemonVars, CycleInv
  <2> QED
    BY <2>1, QuietKeepsCancel
<1> QED
  BY <1>1, <1>2, <1>3, <1>4, <1>5, <1>6, ScanKeepsCancel DEF DaemonNext

LEMMA InvCancelCosts == CycleInv /\ CancelInv => CancelCostsOneFailure
<1> SUFFICES ASSUME CycleInv, CancelInv, NEW k \in Keys, Verdicts[k] = {TRUE}
             PROVE  Cardinality({i \in Saved(k) : ~ saves[i].data.alive}) <= 1
  BY DEF CancelCostsOneFailure
<1>1. {i \in Saved(k) : ~ saves[i].data.alive} = Dead(saves, k)
  BY DEF Saved, Dead
<1>2. \A i, j \in Dead(saves, k) : i = j
  BY DEF CancelInv
<1>3. Dead(saves, k) = {} => Cardinality(Dead(saves, k)) <= 1
  <2>1. Cardinality({}) = 0
    BY FS_EmptySet
  <2> QED
    BY <2>1
<1>4. Dead(saves, k) # {} => Cardinality(Dead(saves, k)) <= 1
  <2> SUFFICES ASSUME Dead(saves, k) # {} PROVE Cardinality(Dead(saves, k)) <= 1
    OBVIOUS
  <2>1. PICK i : Dead(saves, k) = {i}
    BY <1>2
  <2>2. Cardinality(Dead(saves, k)) = 1
    BY <2>1, FS_Singleton
  <2> QED
    BY <2>2
<1>5. Cardinality(Dead(saves, k)) <= 1
  BY <1>3, <1>4
<1> QED
  BY <1>1, <1>5

LEMMA CancelInvInit == DaemonInit => CancelInv
<1> SUFFICES ASSUME DaemonInit PROVE CancelInv
  OBVIOUS
<1>1. saves = <<>> /\ \A w \in Workers : work[w].pc = "idle"
  BY DEF DaemonInit, Rested
<1>2. \A k \in Keys : Dead(saves, k) = {}
  BY <1>1 DEF Dead
<1> QED
  BY <1>1, <1>2 DEF CancelInv, FirstFailure, LastFailure

(* Whenever the signal comes, a proxy that answers is saved as dead at most*)
(* once, for any number of workers and of cycles that begin after it.      *)
THEOREM SignalCostsOneFailure == DaemonSpec => []CancelCostsOneFailure
<1>1. DaemonInit => CycleInv /\ CancelInv
  BY CycleInvInit, CancelInvInit
<1>2. CycleInv /\ CancelInv /\ [DaemonNext]_allVars => (CycleInv /\ CancelInv)'
  BY CycleInvStep, CancelInvStep
<1>3. CycleInv /\ CancelInv => CancelCostsOneFailure
  BY InvCancelCosts
<1> QED
  BY <1>1, <1>2, <1>3, PTL DEF DaemonSpec

(***************************************************************************)
(* The commands (RunCommand).  Every step of theirs is a step of the       *)
(* daemon, a flush that fails because the database is closed, or a step of *)
(* main that leaves the daemon alone.                                      *)
(***************************************************************************)
LEMMA CommandStepsAreDaemonSteps == [RunNext]_runVars => [DaemonNext]_allVars \/ FlushOfClosed
<1> SUFFICES ASSUME [RunNext]_runVars PROVE [DaemonNext]_allVars \/ FlushOfClosed
  OBVIOUS
<1>1. CASE SignalCancels \/ CancelAndCloseExporter
  BY <1>1 DEF SignalCancels, CancelAndCloseExporter, DaemonNext
<1>2. CASE SignalStopsServer \/ RunHasReturned \/ CloseStore \/ CloseDatabase \/ Exit
  BY <1>2 DEF SignalStopsServer, RunHasReturned, CloseStore, CloseDatabase, Exit
<1>3. CASE Alive(QueryStep)
  BY <1>3 DEF Alive, QueryStep, DaemonNext
<1>4. CASE Alive(CycleGoesOn)
  BY <1>4 DEF Alive, CycleGoesOn, CycleStep, DaemonNext
<1>5. CASE Alive(CommitStep)
  BY <1>5 DEF Alive, CommitStep, DaemonNext
<1>6. ASSUME NEW w \in Workers, Alive(WorkerStep(w)) PROVE DaemonNext
  BY <1>6 DEF Alive, DaemonNext
<1>7. UNCHANGED runVars => UNCHANGED allVars
  BY DEF runVars
<1> QED
  BY <1>1, <1>2, <1>3, <1>4, <1>5, <1>6, <1>7 DEF RunNext, MainStep

LEMMA FlushOfClosedKeepsInvs ==
  ASSUME CycleInv, FlushOfClosed
  PROVE  /\ CycleInv'
         /\ FailsInv => FailsInv'
         /\ KeptInv => KeptInv'
         /\ CancelInv => CancelInv'
<1>1. /\ cycle = "flush" /\ cycle' = "purge" /\ lost' = lost \cup Pending
      /\ UNCHANGED <<rows, saves, committed, ctxDone, count, read, todo, work, found, alive,
                     start, checked, dropped, scans>>
  BY DEF FlushOfClosed, history
<1>2. StoreTyped'
  <2>1. DOMAIN saves = 1 .. Len(saves)
    BY LenProperties DEF CycleInv, StoreTyped
  <2>2. Pending \subseteq (DOMAIN saves) \ committed
    BY <2>1 DEF Pending
  <2> QED
    BY <1>1, <2>2 DEF CycleInv, StoreTyped
<1>3. CycleInv'
  <2>1. /\ count \in 0 .. MaxCycles /\ scans \in 0 .. MaxScans
        /\ alive \subseteq Keys /\ ctxDone \in BOOLEAN
    BY DEF CycleInv, CycleTyped
  <2>2. /\ UNCHANGED <<start, read, todo, work, found, checked, dropped>>
        /\ count' \in 0 .. MaxCycles /\ scans' \in 0 .. MaxScans
        /\ alive' \subseteq Keys /\ ctxDone' \in BOOLEAN /\ (ctxDone => ctxDone')
    BY <1>1, <2>1
  <2> QED
    BY <1>1, <1>2, <2>2, StoreStepsKeepCycle
<1>4. FailsInv => FailsInv'
  BY <1>1, ReadKeepsFails
<1>5. KeptInv => KeptInv'
  BY <1>1 DEF KeptInv
<1>6. CancelInv => CancelInv'
  BY <1>1, QuietKeepsCancel
<1> QED
  BY <1>3, <1>4, <1>5, <1>6

DaemonInv == CycleInv /\ FailsInv /\ KeptInv /\ CancelInv

LEMMA DaemonInvHolds ==
  /\ DaemonInit => DaemonInv
  /\ DaemonInv /\ [DaemonNext]_allVars => DaemonInv'
  /\ DaemonInv => /\ DaemonTypeOK /\ OnceEachCycle
                  /\ FailsAreChecks /\ HealthyProxyIsKept /\ CancelCostsOneFailure
<1>1. DaemonInit => DaemonInv
  BY CycleInvInit, FailsInvInit, KeptInvInit, CancelInvInit DEF DaemonInv
<1>2. DaemonInv /\ [DaemonNext]_allVars => DaemonInv'
  BY CycleInvStep, FailsInvStep, KeptInvStep, CancelInvStep DEF DaemonInv
<1>3. DaemonInv => /\ DaemonTypeOK /\ OnceEachCycle
                   /\ FailsAreChecks /\ HealthyProxyIsKept /\ CancelCostsOneFailure
  <2> SUFFICES ASSUME DaemonInv
               PROVE  /\ DaemonTypeOK /\ OnceEachCycle
                      /\ FailsAreChecks /\ HealthyProxyIsKept /\ CancelCostsOneFailure
    OBVIOUS
  <2>1. CycleInv /\ FailsInv /\ KeptInv /\ CancelInv /\ StoreTyped
    BY DEF DaemonInv, CycleInv
  <2> QED
    BY <2>1, InvIsTyped, InvOnceEach, InvFailsAreChecks, KeptIsInTable, InvCancelCosts
<1> QED
  BY <1>1, <1>2, <1>3

(* What the daemon promises holds of both commands too, up to the end of   *)
(* the process: also while main closes the store under the daemon.         *)
THEOREM CommandsKeepDaemon ==
  RunSpec => [](/\ DaemonTypeOK /\ OnceEachCycle
                /\ FailsAreChecks /\ HealthyProxyIsKept /\ CancelCostsOneFailure)
<1>1. RunInit => DaemonInv
  BY DaemonInvHolds DEF RunInit
<1>2. DaemonInv /\ [RunNext]_runVars => DaemonInv'
  <2> SUFFICES ASSUME DaemonInv, [RunNext]_runVars PROVE DaemonInv'
    OBVIOUS
  <2>1. CASE [DaemonNext]_allVars
    BY <2>1, DaemonInvHolds
  <2>2. CASE FlushOfClosed
    BY <2>2, FlushOfClosedKeepsInvs DEF DaemonInv
  <2> QED
    BY <2>1, <2>2, CommandStepsAreDaemonSteps
<1>3. DaemonInv => /\ DaemonTypeOK /\ OnceEachCycle
                   /\ FailsAreChecks /\ HealthyProxyIsKept /\ CancelCostsOneFailure
  BY DaemonInvHolds
<1> QED
  BY <1>1, <1>2, <1>3, PTL DEF RunSpec

(***************************************************************************)
(* The end of the process.  The daemon command closes the store when Run   *)
(* has returned, so nothing is saved after Close; Close waits for what is  *)
(* due, or leaves it to a flush that is under way.                         *)
(***************************************************************************)
ExitInv ==
  /\ due \subseteq DOMAIN saves
  /\ main = "server" => command = "run"
  /\ command = "daemon" /\ main # "running" => cycle = "returned"
  /\ command = "daemon" /\ main \in {"drain", "exited"} => Pending \subseteq due
  /\ ~ open => main \in {"drain", "exited"} /\ (due \cap Pending # {} => cycle = "flush")
  /\ main = "exited" => ~ open

(* Steps of the daemon's goroutines, by what they do to what is pending.   *)
LEMMA DaemonStepsKeepExit ==
  ASSUME ExitInv, UNCHANGED mainVars,
         DOMAIN saves \subseteq DOMAIN saves',
         Pending' \cap (DOMAIN saves) \subseteq Pending,
         cycle = "returned" => cycle' = "returned" /\ Pending' \subseteq Pending,
         \/ ~ open /\ due \cap Pending' = {}
         \/ ~ open /\ cycle' = cycle
         \/ ~ open /\ cycle # "flush"
         \/ open
  PROVE  ExitInv'
<1>1. UNCHANGED <<command, main, open, due>>
  BY DEF mainVars
<1>2. due' \subseteq DOMAIN saves'
  BY <1>1 DEF ExitInv
<1>3. /\ main' = "server" => command' = "run"
      /\ command' = "daemon" /\ main' # "running" => cycle' = "returned"
      /\ main' = "exited" => ~ open'
  BY <1>1 DEF ExitInv
<1>4. command' = "daemon" /\ main' \in {"drain", "exited"} => Pending' \subseteq due'
  BY <1>1 DEF ExitInv
<1>5. due \cap Pending' \subseteq due \cap Pending
  BY DEF ExitInv
<1>6. ~ open' => main' \in {"drain", "exited"} /\ (due' \cap Pending' # {} => cycle' = "flush")
  BY <1>1, <1>5 DEF ExitInv
<1> QED
  BY <1>2, <1>3, <1>4, <1>6 DEF ExitInv

LEMMA SettleKeepsPending ==
  ASSUME StoreTyped, Settle
  PROVE  UNCHANGED saves /\ Pending' \subseteq Pending
<1>1. saves' = saves /\ committed \subseteq committed' /\ lost \subseteq lost'
  BY SettleKeepsStore
<1> QED
  BY <1>1 DEF Pending

LEMMA SaveKeepsPending ==
  ASSUME StoreTyped, NEW k \in Keys, NEW p \in Row, SaveOrUpdateProxy(k, p)
  PROVE  /\ DOMAIN saves \subseteq DOMAIN saves'
         /\ Pending' \cap (DOMAIN saves) \subseteq Pending
<1>1. /\ UNCHANGED <<committed, lost>>
      /\ Len(saves) \in Nat /\ Len(saves') = Len(saves) + 1
      /\ DOMAIN saves = 1 .. Len(saves)
      /\ DOMAIN saves' = 1 .. Len(saves')
  BY SaveKeepsStore
<1> QED
  BY <1>1 DEF Pending

LEMMA WorkersKeepExit ==
  ASSUME CycleInv, ExitInv, NEW w \in Workers, Alive(WorkerStep(w))
  PROVE  ExitInv'
<1>1. UNCHANGED mainVars /\ WorkerStep(w)
  BY DEF Alive
<1>2. UNCHANGED cycle /\ cycle = "check"
  BY <1>1 DEF WorkerStep, TakeProxy, CheckIPPort, SaveVerdict, CycleInv, HandsHold
<1>3. DOMAIN saves \subseteq DOMAIN saves' /\ Pending' \cap (DOMAIN saves) \subseteq Pending
  <2>1. CASE TakeProxy(w) \/ CheckIPPort(w)
    <3>1. UNCHANGED <<saves, committed, lost>>
      BY <2>1 DEF TakeProxy, CheckIPPort, store
    <3> QED
      BY <3>1 DEF Pending
  <2>2. CASE SaveVerdict(w)
    <3>1. PICK k \in Keys, p \in Row : SaveOrUpdateProxy(k, p)
      BY <2>2, SavingWorker
    <3> QED
      BY <3>1, SaveKeepsPending DEF CycleInv
  <2> QED
    BY <1>1, <2>1, <2>2 DEF WorkerStep
<1>4. open \/ (~ open /\ cycle' = cycle)
  BY <1>2
<1> QED
  BY <1>1, <1>2, <1>3, <1>4, DaemonStepsKeepExit

LEMMA GoroutinesKeepExit ==
  ASSUME CycleInv, ExitInv, Alive(QueryStep) \/ Alive(CycleGoesOn) \/ Alive(CommitStep)
  PROVE  ExitInv'
<1>1. UNCHANGED mainVars /\ (QueryStep \/ CycleGoesOn \/ CommitStep)
  BY DEF Alive
<1>2. StoreTyped
  BY DEF CycleInv
<1>3. CASE QueryStep \/ WaitWorkers \/ SyncAliveFiles \/ RunReturns
  <2>1. UNCHANGED <<saves, committed, lost>> /\ cycle # "returned" /\ cycle # "flush"
    BY <1>3 DEF QueryStep, StartCycle, QueryFails, WaitWorkers, SyncAliveFiles, RunReturns, store
  <2>2. UNCHANGED <<saves, Pending>>
    BY <2>1 DEF Pending
  <2>3. open \/ (~ open /\ cycle # "flush")
    BY <2>1
  <2> QED
    BY <1>1, <2>1, <2>2, <2>3, DaemonStepsKeepExit
<1>4. CASE open /\ Flush
  <2>1. UNCHANGED <<saves, committed, lost>> /\ cycle # "returned"
    BY <1>4 DEF Flush, store
  <2>2. UNCHANGED <<saves, Pending>>
    BY <2>1 DEF Pending
  <2> QED
    BY <1>1, <1>4, <2>1, <2>2, DaemonStepsKeepExit
<1>5. CASE PurgeDeadProxies
  <2>1. cycle # "returned" /\ cycle # "flush"
    BY <1>5 DEF PurgeDeadProxies
  <2>2. UNCHANGED <<saves, committed, lost>>
    BY <1>2, <1>5, PurgeKeepsStore DEF PurgeDeadProxies
  <2>3. UNCHANGED <<saves, Pending>>
    BY <2>2 DEF Pending
  <2>4. open \/ (~ open /\ cycle # "flush")
    BY <2>1
  <2> QED
    BY <1>1, <2>1, <2>3, <2>4, DaemonStepsKeepExit
<1>6. CASE ~ open /\ FlushOfClosed
  <2>1. UNCHANGED <<saves, committed>> /\ lost' = lost \cup Pending /\ cycle # "returned"
    BY <1>6 DEF FlushOfClosed
  <2>2. Pending' = {}
    BY <2>1 DEF Pending
  <2> QED
    BY <1>1, <1>6, <2>1, <2>2, DaemonStepsKeepExit
<1>7. CASE CommitStep
  <2>1. Settle /\ UNCHANGED cycle
    BY <1>7 DEF CommitStep, CommitSaves, daemonVars
  <2>2. UNCHANGED saves /\ Pending' \subseteq Pending
    BY <1>2, <2>1, SettleKeepsPending
  <2>3. open \/ (~ open /\ cycle' = cycle)
    BY <2>1
  <2> QED
    BY <1>1, <2>1, <2>2, <2>3, DaemonStepsKeepExit
<1> QED
  BY <1>1, <1>3, <1>4, <1>5, <1>6, <1>7 DEF CycleGoesOn

LEMMA MainKeepsExit ==
  ASSUME CycleInv, ExitInv, SignalCancels \/ SignalStopsServer \/ MainStep
  PROVE  ExitInv'
<1>1. UNCHANGED <<saves, Pending, cycle>>
  BY DEF SignalCancels, SignalStopsServer, MainStep, RunHasReturned, CancelAndCloseExporter,
         CloseStore, CloseDatabase, Exit, Cancel, allVars, daemonVars, store, Pending
<1>2. Pending \subseteq DOMAIN saves
  <2>1. DOMAIN saves = 1 .. Len(saves)
    BY LenProperties DEF CycleInv, StoreTyped
  <2> QED
    BY <2>1 DEF Pending
<1>3. CASE SignalCancels
  BY <1>1, <1>3 DEF SignalCancels, mainVars, ExitInv
<1>4. CASE SignalStopsServer
  BY <1>1, <1>4 DEF SignalStopsServer, ExitInv
<1>5. CASE RunHasReturned
  BY <1>1, <1>5 DEF RunHasReturned, ExitInv
<1>6. CASE CancelAndCloseExporter
  BY <1>1, <1>6 DEF CancelAndCloseExporter, ExitInv
<1>7. CASE CloseStore
  BY <1>1, <1>2, <1>7 DEF CloseStore, ExitInv
<1>8. CASE CloseDatabase
  BY <1>1, <1>8 DEF CloseDatabase, ExitInv
<1>9. CASE Exit
  BY <1>1, <1>9 DEF Exit, ExitInv
<1> QED
  BY <1>3, <1>4, <1>5, <1>6, <1>7, <1>8, <1>9 DEF MainStep

(* The daemon command ends with every save committed or reported lost, and *)
(* the run command with every save that it had when it closed the store,   *)
(* but for what a flush held: for any timing of the signal.                *)
THEOREM CommandsSettleSaves == RunSpec => []ExitKeepsSaves
<1>1. RunInit => CycleInv /\ ExitInv
  BY CycleInvInit DEF RunInit, ExitInv
<1>2. CycleInv /\ ExitInv /\ [RunNext]_runVars => (CycleInv /\ ExitInv)'
  <2> SUFFICES ASSUME CycleInv, ExitInv, [RunNext]_runVars PROVE CycleInv' /\ ExitInv'
    OBVIOUS
  <2>1. CycleInv'
    BY CommandStepsAreDaemonSteps, CycleInvStep, FlushOfClosedKeepsInvs
  <2>2. ExitInv'
    <3>1. CASE UNCHANGED runVars
      <4>1. UNCHANGED <<saves, Pending, cycle, command, main, open, due>>
        BY <3>1 DEF runVars, mainVars, allVars, daemonVars, store, Pending
      <4> QED
        BY <4>1 DEF ExitInv
    <3> QED
      BY <3>1, MainKeepsExit, GoroutinesKeepExit, WorkersKeepExit DEF RunNext
  <2> QED
    BY <2>1, <2>2
<1>3. ExitInv => ExitKeepsSaves
  BY DEF ExitInv, ExitKeepsSaves
<1> QED
  BY <1>1, <1>2, <1>3, PTL DEF RunSpec

=============================================================================
