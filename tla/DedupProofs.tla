---------------------------- MODULE DedupProofs ----------------------------
(***************************************************************************)
(* Proofs about Dedup.  The inductive invariant says that the last time a  *)
(* key was let through is either still in its shard or already a window    *)
(* old, and that every earlier one is a window old: then a call that finds *)
(* no entry, or an expired one, decides a window after all of them.        *)
(***************************************************************************)
EXTENDS Dedup, TLAPS, SequenceTheorems

(* Every shard, caller and history has its type, in all reachable states.  *)
THEOREM TypeCorrect == Spec => []TypeOK
<1>1. Init => TypeOK
  BY DEF Init, TypeOK, Accepted
<1>2. TypeOK /\ [Next]_vars => TypeOK'
  <2> SUFFICES ASSUME TypeOK, [Next]_vars PROVE TypeOK'
    OBVIOUS
  <2>1. CASE Tick
    BY <2>1 DEF Tick, TypeOK
  <2>2. ASSUME NEW c \in Callers, NEW k \in Keys, ReadClock(c, k) PROVE TypeOK'
    BY <2>2 DEF ReadClock, TypeOK
  <2>3. ASSUME NEW c \in Callers, Accept(c) PROVE TypeOK'
    <3>1. call[c] \in [key : Keys, now : Nat]
      BY <2>3 DEF Accept, TypeOK
    <3>2. [captured |-> call[c].now, decided |-> clock] \in Accepted
      BY <3>1 DEF TypeOK, Accepted
    <3>3. Append(accepts[call[c].key], [captured |-> call[c].now, decided |-> clock])
            \in Seq(Accepted)
      BY <3>1, <3>2, AppendProperties DEF TypeOK
    <3> QED
      BY <2>3, <3>1, <3>3 DEF Accept, TypeOK
  <2>4. ASSUME NEW c \in Callers, Reject(c) PROVE TypeOK'
    BY <2>4 DEF Reject, TypeOK
  <2>5. CASE StartSweep
    BY <2>5, NumShardsAssumption DEF StartSweep, TypeOK
  <2>6. CASE SweepShard
    <3>1. sweep' \in [shard : 1 .. NumShards, now : Nat] \cup {None}
      BY <2>6, NumShardsAssumption DEF SweepShard, IsLast, TypeOK
    <3> QED
      BY <2>6, <3>1 DEF SweepShard, IsLast, TypeOK
  <2>7. CASE UNCHANGED vars
    BY <2>7 DEF vars, TypeOK
  <2> QED
    BY <2>1, <2>2, <2>3, <2>4, <2>5, <2>6, <2>7 DEF Next
<1> QED
  BY <1>1, <1>2, PTL DEF Spec

(* What the shards remember about one key: its entry is the latest reading *)
(* that was let through or has expired, and all earlier ones have expired. *)
Remembers(k) ==
  LET n == Len(accepts[k])
  IN  /\ n = 0 => entries[k] = None
      /\ n > 0 => \/ entries[k] = accepts[k][n].captured
                  \/ entries[k] = None /\ clock - accepts[k][n].captured >= Window
      /\ \A i \in 1 .. n - 1 : clock - accepts[k][i].captured >= Window

Spaced(k) ==
  \A j \in 1 .. Len(accepts[k]) : \A i \in 1 .. j - 1 :
    accepts[k][j].decided - accepts[k][i].captured >= Window

DedupInv ==
  /\ TypeOK
  /\ \A c \in Callers : call[c] # None => call[c].now <= clock
  /\ sweep # None => sweep.now <= clock
  /\ \A k \in Keys : Remembers(k) /\ Spaced(k)

(* The readings and decision times in a key's history are numbers.         *)
LEMMA HistoryTyped ==
  ASSUME TypeOK, NEW k \in Keys
  PROVE  /\ accepts[k] \in Seq(Accepted)
         /\ Len(accepts[k]) \in Nat
         /\ \A i \in 1 .. Len(accepts[k]) :
              accepts[k][i].captured \in Nat /\ accepts[k][i].decided \in Nat
<1>1. accepts[k] \in Seq(Accepted)
  BY DEF TypeOK
<1>2. Len(accepts[k]) \in Nat /\ \A i \in 1 .. Len(accepts[k]) : accepts[k][i] \in Accepted
  BY <1>1
<1> QED
  BY <1>1, <1>2 DEF Accepted

LEMMA DedupInvInit == Init => DedupInv
  <1> SUFFICES ASSUME Init PROVE DedupInv
    OBVIOUS
  <1>1. TypeOK
    BY DEF Init, TypeOK, Accepted
  <1> QED
    BY <1>1 DEF Init, DedupInv, Remembers, Spaced

(* The step that lets a key through is the one that has to find the window *)
(* over: no entry, or an expired one, means that all earlier readings are. *)
LEMMA AcceptKeepsInv ==
  ASSUME DedupInv, TypeOK', NEW c \in Callers, Accept(c)
  PROVE  DedupInv'
<1>k. PICK k \in Keys : k = call[c].key
  BY DEF Accept, DedupInv, TypeOK
<1>n. PICK n \in Nat : n = Len(accepts[k])
  BY HistoryTyped DEF DedupInv
<1>r. PICK r \in Accepted : r = [captured |-> call[c].now, decided |-> clock]
  BY DEF Accept, Accepted, DedupInv, TypeOK
<1>1. /\ call[c] \in [key : Keys, now : Nat]
      /\ call[c].now <= clock
      /\ clock \in Nat /\ Window \in Nat /\ Window > 0
  BY WindowAssumption DEF Accept, DedupInv, TypeOK
<1>2. /\ accepts[k] \in Seq(Accepted)
      /\ \A i \in 1 .. n : accepts[k][i].captured \in Nat /\ accepts[k][i].decided \in Nat
  BY HistoryTyped, <1>n DEF DedupInv
<1>3. /\ accepts'[k] = Append(accepts[k], r)
      /\ entries'[k] = call[c].now
      /\ clock' = clock
      /\ sweep' = sweep
      /\ \A x \in Keys : x # k => accepts'[x] = accepts[x] /\ entries'[x] = entries[x]
      /\ call' = [call EXCEPT ![c] = None]
  BY <1>k, <1>r DEF Accept, DedupInv, TypeOK
<1>4. \A i \in 1 .. n : clock - accepts[k][i].captured >= Window
  <2>1. Remembers(k)
    BY DEF DedupInv
  <2>2. \A i \in 1 .. n - 1 : clock - accepts[k][i].captured >= Window
    BY <2>1, <1>n DEF Remembers
  <2>3. ASSUME n > 0 PROVE clock - accepts[k][n].captured >= Window
    <3>1. CASE entries[k] = None
      BY <2>1, <2>3, <3>1, <1>2, <1>n, NoneAssumption DEF Remembers
    <3>2. CASE entries[k] # None
      <4>1. call[c].now - entries[k] >= Window
        <5>1. entries[k] \in Nat
          BY <3>2 DEF DedupInv, TypeOK
        <5>2. ~ (call[c].now - entries[k] < Window)
          BY <3>2, <1>k DEF Accept, Duplicate
        <5> QED
          BY <5>1, <5>2, <1>1
      <4>2. entries[k] = accepts[k][n].captured
        BY <2>1, <2>3, <3>2, <1>n DEF Remembers
      <4> QED
        BY <4>1, <4>2, <1>1, <1>2, <2>3
    <3> QED
      BY <3>1, <3>2
  <2> QED
    BY <2>2, <2>3, <1>2
<1>5. /\ Len(accepts'[k]) = n + 1
      /\ \A i \in 1 .. n : accepts'[k][i] = accepts[k][i]
      /\ accepts'[k][n + 1] = r
  BY <1>2, <1>3, <1>n
<1>6. ASSUME NEW x \in Keys PROVE Remembers(x)' /\ Spaced(x)'
  <2>1. CASE x = k
    <3>1. Remembers(k)'
      BY <1>3, <1>4, <1>5, <1>r DEF Remembers
    <3>2. Spaced(k)'
      <4>1. Spaced(k)
        BY DEF DedupInv
      <4> SUFFICES ASSUME NEW j \in 1 .. n + 1, NEW i \in 1 .. j - 1
                   PROVE accepts'[k][j].decided - accepts'[k][i].captured >= Window
        BY <1>5, <1>2 DEF Spaced
      <4>2. CASE j = n + 1
        BY <4>2, <1>4, <1>5, <1>r
      <4>3. CASE j \in 1 .. n
        BY <4>3, <4>1, <1>5, <1>n DEF Spaced
      <4> QED
        BY <4>2, <4>3, <1>2
    <3> QED
      BY <2>1, <3>1, <3>2
  <2>2. CASE x # k
    BY <2>2, <1>3 DEF DedupInv, Remembers, Spaced
  <2> QED
    BY <2>1, <2>2
<1>7. /\ \A d \in Callers : call'[d] # None => call'[d].now <= clock'
      /\ sweep' # None => sweep'.now <= clock'
  BY <1>3 DEF DedupInv, TypeOK
<1> QED
  BY <1>6, <1>7 DEF DedupInv

(* The clock only makes entries older, and the sweep forgets expired ones. *)
LEMMA SweepKeepsInv ==
  ASSUME DedupInv, TypeOK', SweepShard
  PROVE  DedupInv'
<1>1. /\ clock' = clock /\ call' = call /\ accepts' = accepts
      /\ sweep # None /\ sweep.now \in Nat /\ sweep.now <= clock
      /\ clock \in Nat /\ Window \in Nat
      /\ sweep' # None => sweep'.now = sweep.now
  BY WindowAssumption DEF SweepShard, IsLast, DedupInv, TypeOK
<1>2. ASSUME NEW k \in Keys PROVE Remembers(k)' /\ Spaced(k)'
  <2>1. Spaced(k)'
    BY <1>1 DEF DedupInv, Spaced
  <2>2. \/ entries'[k] = entries[k]
        \/ entries'[k] = None /\ entries[k] # None /\ sweep.now - entries[k] >= Window
    BY DEF SweepShard, Expired
  <2>3. entries[k] \in Nat \cup {None}
    BY DEF DedupInv, TypeOK
  <2>4. /\ accepts[k] \in Seq(Accepted)
        /\ \A i \in 1 .. Len(accepts[k]) : accepts[k][i].captured \in Nat
    BY HistoryTyped DEF DedupInv
  <2>5. Remembers(k)
    BY DEF DedupInv
  <2>6. CASE entries'[k] = entries[k]
    BY <2>1, <2>5, <2>6, <1>1 DEF Remembers
  <2>7. CASE entries'[k] = None /\ entries[k] # None /\ sweep.now - entries[k] >= Window
    <3>1. Len(accepts[k]) \in Nat
      BY <2>4
    <3>2. Len(accepts[k]) # 0 /\ entries[k] = accepts[k][Len(accepts[k])].captured
      BY <2>5, <2>7, <3>1 DEF Remembers
    <3>3. clock - accepts[k][Len(accepts[k])].captured >= Window
      BY <3>2, <2>7, <2>3, <1>1
    <3> QED
      BY <2>1, <2>5, <2>7, <3>2, <3>3, <1>1 DEF Remembers
  <2> QED
    BY <2>1, <2>2, <2>6, <2>7
<1> QED
  BY <1>1, <1>2 DEF DedupInv

LEMMA TickKeepsInv ==
  ASSUME DedupInv, TypeOK', Tick
  PROVE  DedupInv'
<1>1. /\ clock \in Nat /\ clock' = clock + 1 /\ Window \in Nat
      /\ entries' = entries /\ call' = call /\ sweep' = sweep /\ accepts' = accepts
  BY WindowAssumption DEF Tick, DedupInv, TypeOK
<1>2. ASSUME NEW k \in Keys PROVE Remembers(k)' /\ Spaced(k)'
  <2>1. \A i \in 1 .. Len(accepts[k]) : accepts[k][i].captured \in Nat
    BY HistoryTyped DEF DedupInv
  <2>2. Len(accepts[k]) \in Nat
    BY HistoryTyped DEF DedupInv
  <2>3. Remembers(k) /\ Spaced(k)
    BY DEF DedupInv
  <2>4. \A i \in 1 .. Len(accepts[k]) :
          clock - accepts[k][i].captured >= Window => clock' - accepts[k][i].captured >= Window
    BY <1>1, <2>1
  <2>5. Remembers(k)'
    BY <1>1, <2>2, <2>3, <2>4 DEF Remembers
  <2>6. Spaced(k)'
    BY <1>1, <2>3 DEF Spaced
  <2> QED
    BY <2>5, <2>6
<1>3. \A c \in Callers : call[c] # None => call[c].now \in Nat
  BY DEF DedupInv, TypeOK
<1>4. sweep # None => sweep.now \in Nat
  BY DEF DedupInv, TypeOK
<1> QED
  BY <1>1, <1>2, <1>3, <1>4 DEF DedupInv

LEMMA DedupInvStep == DedupInv /\ TypeOK' /\ [Next]_vars => DedupInv'
<1> SUFFICES ASSUME DedupInv, TypeOK', [Next]_vars PROVE DedupInv'
  OBVIOUS
<1>1. CASE Tick
  BY <1>1, TickKeepsInv
<1>2. ASSUME NEW c \in Callers, NEW k \in Keys, ReadClock(c, k) PROVE DedupInv'
  BY <1>2 DEF ReadClock, DedupInv, TypeOK, Remembers, Spaced
<1>3. ASSUME NEW c \in Callers, Accept(c) PROVE DedupInv'
  BY <1>3, AcceptKeepsInv
<1>4. ASSUME NEW c \in Callers, Reject(c) PROVE DedupInv'
  BY <1>4 DEF Reject, DedupInv, TypeOK, Remembers, Spaced
<1>5. CASE StartSweep
  BY <1>5 DEF StartSweep, DedupInv, TypeOK, Remembers, Spaced
<1>6. CASE SweepShard
  BY <1>6, SweepKeepsInv
<1>7. CASE UNCHANGED vars
  BY <1>7 DEF vars, DedupInv, TypeOK, Remembers, Spaced
<1> QED
  BY <1>1, <1>2, <1>3, <1>4, <1>5, <1>6, <1>7 DEF Next

LEMMA DedupInvariant == Spec => []DedupInv
<1>1. Init => DedupInv
  BY DedupInvInit
<1>2. DedupInv /\ TypeOK' /\ [Next]_vars => DedupInv'
  BY DedupInvStep
<1> QED
  BY <1>1, <1>2, TypeCorrect, PTL DEF Spec

(* CheckAndSet never lets a key through twice within a window of the first *)
(* call's clock reading, for any number of callers, keys and shards and    *)
(* any window, in spite of the timestamps read before the lock.            *)
THEOREM WindowIsKept == Spec => []AcceptsSpaced
<1>1. DedupInv => AcceptsSpaced
  BY DEF DedupInv, TypeOK, Spaced, AcceptsSpaced
<1> QED
  BY <1>1, DedupInvariant, PTL

(* A shard holds the latest reading that was let through until that is a   *)
(* window old: neither the sweep nor a stale caller removes a live entry.  *)
THEOREM LiveEntriesAreKept == Spec => []EntriesAreLastAccepts
<1>1. DedupInv => EntriesAreLastAccepts
  <2> SUFFICES ASSUME DedupInv, NEW k \in Keys
               PROVE IF accepts[k] = <<>> THEN entries[k] = None
                     ELSE LET last == accepts[k][Len(accepts[k])].captured
                          IN  entries[k] = last \/ (entries[k] = None /\ clock - last >= Window)
    BY DEF EntriesAreLastAccepts
  <2>1. accepts[k] \in Seq(Accepted)
    BY DEF DedupInv, TypeOK
  <2>2. accepts[k] = <<>> <=> Len(accepts[k]) = 0
    BY <2>1, EmptySeq
  <2>3. Len(accepts[k]) \in Nat
    BY <2>1
  <2> QED
    BY <2>2, <2>3 DEF DedupInv, Remembers
<1> QED
  BY <1>1, DedupInvariant, PTL

(* A call is refused only because of a reading within a window of its own. *)
THEOREM OnlyDuplicatesAreRefused == Spec => RejectsOnlyDuplicates
<1> DEFINE OK == \A c \in Callers, k \in Keys :
                   Rejected(c, k) =>
                     /\ accepts[k] # <<>>
                     /\ call[c].now - accepts[k][Len(accepts[k])].captured < Window
<1>1. DedupInv /\ [Next]_vars => [OK]_vars
  <2> SUFFICES ASSUME DedupInv, Next, NEW c \in Callers, NEW k \in Keys, Rejected(c, k)
               PROVE /\ accepts[k] # <<>>
                     /\ call[c].now - accepts[k][Len(accepts[k])].captured < Window
    BY DEF vars
  <2>1. Reject(c)
    <3>1. ASSUME NEW d \in Callers, Accept(d) PROVE d = c /\ FALSE
      <4>1. d = c
        BY <3>1 DEF Accept, Rejected, DedupInv, TypeOK
      <4>2. accepts[k] \in Seq(Accepted)
        BY DEF DedupInv, TypeOK
      <4>3. accepts'[k] = Append(accepts[k], [captured |-> call[c].now, decided |-> clock])
        BY <3>1, <4>1 DEF Accept, Rejected, DedupInv, TypeOK
      <4>4. Len(accepts'[k]) = Len(accepts[k]) + 1
        BY <4>2, <4>3
      <4> QED
        BY <4>1, <4>2, <4>4 DEF Rejected
    <3>2. ASSUME NEW d \in Callers, Reject(d) PROVE d = c
      BY <3>2 DEF Reject, Rejected, DedupInv, TypeOK
    <3>3. ASSUME NEW d \in Callers, NEW x \in Keys, ReadClock(d, x) PROVE FALSE
      BY <3>3, NoneAssumption DEF ReadClock, Rejected, DedupInv, TypeOK
    <3>4. ~ Tick /\ ~ StartSweep /\ ~ SweepShard
      BY DEF Tick, StartSweep, SweepShard, Rejected
    <3> QED
      BY <3>1, <3>2, <3>3, <3>4 DEF Next
  <2>2. entries[k] # None /\ call[c].now - entries[k] < Window
    BY <2>1 DEF Reject, Duplicate, Rejected
  <2>3. accepts[k] \in Seq(Accepted)
    BY DEF DedupInv, TypeOK
  <2>4. Len(accepts[k]) # 0 /\ entries[k] = accepts[k][Len(accepts[k])].captured
    <3>1. Remembers(k) /\ Len(accepts[k]) \in Nat
      BY <2>3 DEF DedupInv
    <3> QED
      BY <2>2, <3>1 DEF Remembers
  <2> QED
    BY <2>2, <2>3, <2>4
<1> QED
  BY <1>1, DedupInvariant, PTL DEF Spec, RejectsOnlyDuplicates
=============================================================================
