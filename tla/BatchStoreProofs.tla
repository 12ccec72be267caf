-------------------------- MODULE BatchStoreProofs --------------------------
(***************************************************************************)
(* Proofs about BatchStore: types and rows, the fate of each save, the     *)
(* backlog of Close, and the refinement of ProxyLedger.                    *)
(*                                                                         *)
(* Type correctness is not inductive alone: a transaction looks saves up   *)
(* by number, so every number that travels through the channel and the     *)
(* buffers has to be one already given out.                                *)
(***************************************************************************)
EXTENDS BatchStore, TLAPS, SequenceTheorems, FiniteSetTheorems

LEMMA UptimeIsNat ==
  ASSUME NEW s \in Nat, NEW n \in Nat \ {0}
  PROVE  Uptime(s, n) \in Nat
<1> DEFINE a == 20000 * s + n
           b == 2 * n
<1>1. a \in Nat /\ b \in Nat /\ b > 0
  OBVIOUS
<1>2. \A x, y \in Nat : y > 0 => x \div y \in Nat
  OBVIOUS
<1>3. a \div b \in Nat
  <2> HIDE DEF a, b
  <2> QED
    BY <1>1, <1>2
<1> QED
  BY <1>3 DEF Uptime

(* Whatever the caller saved, the conflict clause leaves a consistent row. *)
LEMMA UpdatedIsConsistent ==
  ASSUME NEW row \in Row, NEW p \in Row
  PROVE  Updated(row, p) \in Row /\ Consistent(Updated(row, p))
<1>1. /\ row.success \in Nat /\ row.failed \in Nat /\ row.fails \in Nat
      /\ p.alive \in BOOLEAN
  BY DEF Row
<1> DEFINE s == row.success + (IF p.alive THEN 1 ELSE 0)
           n == row.success + row.failed + 1
<1>2. s \in Nat /\ n \in Nat \ {0}
  BY <1>1
<1>3. Uptime(s, n) \in Nat
  <2> HIDE DEF s, n
  <2> QED
    BY <1>2, UptimeIsNat
<1>4. Updated(row, p) = [alive   |-> p.alive,
                         success |-> row.success + IF p.alive THEN 1 ELSE 0,
                         failed  |-> row.failed + IF p.alive THEN 0 ELSE 1,
                         fails   |-> IF p.alive THEN 0 ELSE row.fails + 1,
                         uptime  |-> Uptime(s, n)]
  BY DEF Updated
<1> HIDE DEF s, n
<1>5. Updated(row, p) \in Row
  BY <1>1, <1>3, <1>4 DEF Row
<1>6. Updated(row, p).alive <=> Updated(row, p).fails = 0
  BY <1>1, <1>4
<1> QED
  BY <1>5, <1>6 DEF Consistent

Table == [Keys -> Row \cup {NoRow}]
TableConsistent(table) == \A k \in Keys : table[k] # NoRow => Consistent(table[k])

LEMMA UpsertIsConsistent ==
  ASSUME NEW table \in Table, TableConsistent(table),
         NEW k \in Keys, NEW p \in Row, Consistent(p)
  PROVE  Upsert(table, k, p) \in Table /\ TableConsistent(Upsert(table, k, p))
<1>1. CASE table[k] = NoRow
  <2>1. Upsert(table, k, p) = [table EXCEPT ![k] = p]
    BY <1>1 DEF Upsert, Table
  <2> QED
    BY <2>1 DEF Table, TableConsistent
<1>2. CASE table[k] # NoRow
  <2>1. table[k] \in Row
    BY <1>2 DEF Table
  <2>2. Upsert(table, k, p) = [table EXCEPT ![k] = Updated(table[k], p)]
    BY <1>2 DEF Upsert, Table
  <2>3. Updated(table[k], p) \in Row /\ Consistent(Updated(table[k], p))
    BY <2>1, UpdatedIsConsistent
  <2> QED
    BY <2>2, <2>3 DEF Table, TableConsistent
<1> QED
  BY <1>1, <1>2

LEMMA PurgedIsConsistent ==
  ASSUME NEW table \in Table, TableConsistent(table), NEW old
  PROVE  /\ Purged(table, MaxFail, old) \in Table
         /\ TableConsistent(Purged(table, MaxFail, old))
BY DEF Purged, Table, TableConsistent

(* Every number on its way is the number of a save that was made.          *)
Known ==
  /\ \A n \in 1 .. Len(chan) : chan[n] <= Len(saves)
  /\ \A d \in Drainers : \A n \in 1 .. Len(buf[d]) : buf[d][n] <= Len(saves)
  /\ \A s \in Savers : direct[s] # None => direct[s] <= Len(saves)

StoreInv == TypeOK /\ Known /\ RowsConsistent

LEMMA StoreInvInit == Init => StoreInv
<1> SUFFICES ASSUME Init PROVE StoreInv
  OBVIOUS
<1>1. TypeOK
  <2>1. /\ rows \in [Keys -> Row \cup {NoRow}]
        /\ tx \in Transaction \cup {None}
        /\ direct \in [Savers -> Ids \cup {None}]
        /\ commits \in [Ids -> Nat]
        /\ due \in [Flushers -> SUBSET Ids]
    BY DEF Init
  <2>2. /\ pc \in [Drainers -> {"select", "idle", "drain", "final", "done"}]
        /\ flushing \subseteq Drainers
        /\ closing \in BOOLEAN /\ open \in BOOLEAN
        /\ lost \subseteq Ids /\ backlog \subseteq Ids
    BY DEF Init
  <2>3. /\ chan \in Seq(Ids) /\ Len(chan) <= ChanCap
        /\ buf \in [Drainers -> Seq(Ids)]
        /\ saves \in Seq([key : Keys, data : Data]) /\ Len(saves) <= MaxSaves
    BY BoundsAssumption, EmptySeq DEF Init
  <2> QED
    BY <2>1, <2>2, <2>3 DEF TypeOK
<1>2. Known
  BY DEF Init, Known
<1>3. RowsConsistent
  BY DEF Init, RowsConsistent
<1> QED
  BY <1>1, <1>2, <1>3 DEF StoreInv

(* A save that is known has a key and consistent contents.                 *)
LEMMA SaveIsTyped ==
  ASSUME TypeOK, NEW i \in Ids, i <= Len(saves)
  PROVE  /\ saves[i].key \in Keys
         /\ saves[i].data \in Row
         /\ Consistent(saves[i].data)
<1>1. saves[i] \in [key : Keys, data : Data]
  <2>1. saves \in Seq([key : Keys, data : Data]) /\ i \in 1 .. Len(saves)
    BY DEF TypeOK, Ids
  <2> QED
    BY <2>1, ElementOfSeq
<1> QED
  BY <1>1, DataAssumption

(* What the channel and the buffers carry are numbers of saves.            *)
LEMMA QueuedAreIds ==
  ASSUME TypeOK
  PROVE  /\ Ids \subseteq Nat
         /\ chan \in Seq(Ids) /\ Len(chan) \in Nat
         /\ \A n \in 1 .. Len(chan) : chan[n] \in Ids
         /\ \A d \in Drainers : buf[d] \in Seq(Ids) /\ Len(buf[d]) \in Nat
         /\ \A d \in Drainers : \A n \in 1 .. Len(buf[d]) : buf[d][n] \in Ids
         /\ Len(saves) \in Nat
<1>1. chan \in Seq(Ids) /\ \A d \in Drainers : buf[d] \in Seq(Ids)
  BY DEF TypeOK
<1>2. Len(saves) \in Nat
  BY DEF TypeOK
<1> QED
  BY <1>1, <1>2, ElementOfSeq, LenProperties, BoundsAssumption DEF Ids

LEMMA EnqueueKeepsInv ==
  ASSUME StoreInv, NEW s \in Savers, NEW k \in Keys, NEW p \in Data,
         Enqueue(s, k, p) \/ Overflow(s, k, p)
  PROVE  StoreInv'
<1> USE DEF StoreInv
<1>1. /\ saves' = Append(saves, [key |-> k, data |-> p])
      /\ saves \in Seq([key : Keys, data : Data])
      /\ Len(saves) < MaxSaves
      /\ UNCHANGED <<rows, tx, buf, pc, flushing, closing, open, commits, lost, backlog, due>>
  BY DEF Enqueue, Overflow, NewSave, TypeOK
<1>2. /\ saves' \in Seq([key : Keys, data : Data])
      /\ Len(saves') = Len(saves) + 1
      /\ Len(saves) + 1 \in Ids
  BY <1>1, BoundsAssumption, AppendProperties DEF Ids
<1>3. /\ chan' \in Seq(Ids) /\ Len(chan') <= ChanCap
      /\ \A n \in 1 .. Len(chan') : chan'[n] <= Len(saves')
  <2>1. CASE chan' = chan
    <3>1. \A n \in 1 .. Len(chan) : chan[n] \in Nat /\ chan[n] <= Len(saves)
      BY QueuedAreIds DEF Known
    <3> QED
      BY <2>1, <3>1, <1>2, QueuedAreIds DEF TypeOK
  <2>2. CASE chan' = Append(chan, Len(saves) + 1) /\ Len(chan) < ChanCap
    <3>1. chan \in Seq(Ids) /\ \A n \in 1 .. Len(chan) : chan[n] <= Len(saves)
      BY DEF TypeOK, Known
    <3>2. /\ chan' \in Seq(Ids) /\ Len(chan') = Len(chan) + 1
          /\ \A n \in 1 .. Len(chan) : chan'[n] = chan[n]
          /\ chan'[Len(chan) + 1] = Len(saves) + 1
      BY <2>2, <3>1, <1>2, AppendProperties
    <3>3. \A n \in 1 .. Len(chan') : n \in 1 .. Len(chan) \/ n = Len(chan) + 1
      BY <3>1, <3>2
    <3>4. \A n \in 1 .. Len(chan') : chan'[n] <= Len(saves')
      <4>1. \A n \in 1 .. Len(chan) : chan[n] \in Ids
        BY <3>1, ElementOfSeq
      <4> QED
        BY <3>1, <3>2, <3>3, <4>1, <1>2 DEF Ids
    <3> QED
      BY <2>2, <3>1, <3>2, <3>4, BoundsAssumption
  <2> QED
    BY <2>1, <2>2 DEF Enqueue, Overflow, HasRoom
<1>4. /\ direct' \in [Savers -> Ids \cup {None}]
      /\ \A t \in Savers : direct'[t] # None => direct'[t] <= Len(saves')
  <2>1. \/ direct' = direct
        \/ direct' = [direct EXCEPT ![s] = Len(saves) + 1]
    BY DEF Enqueue, Overflow
  <2>2. /\ direct \in [Savers -> Ids \cup {None}]
        /\ \A t \in Savers : direct[t] # None => direct[t] \in Nat /\ direct[t] <= Len(saves)
    BY QueuedAreIds DEF TypeOK, Known
  <2>3. Len(saves) \in Nat
    BY QueuedAreIds
  <2>4. direct' \in [Savers -> Ids \cup {None}]
    BY <2>1, <2>2, <1>2
  <2>5. \A t \in Savers : direct'[t] = direct[t] \/ direct'[t] = Len(saves) + 1
    BY <2>1, <2>2
  <2> QED
    BY <2>2, <2>3, <2>4, <2>5, <1>2
<1>5. \A d \in Drainers : \A n \in 1 .. Len(buf[d]) : buf[d][n] <= Len(saves')
  <2>1. \A d \in Drainers : buf[d] \in Seq(Ids)
    BY DEF TypeOK
  <2>2. \A d \in Drainers : \A n \in 1 .. Len(buf[d]) : buf[d][n] \in Ids
    BY <2>1, ElementOfSeq
  <2> QED
    BY <2>2, <1>2 DEF Known, Ids
<1>6. TypeOK'
  BY <1>1, <1>2, <1>3, <1>4, BoundsAssumption DEF TypeOK
<1>7. Known' /\ RowsConsistent'
  BY <1>1, <1>3, <1>4, <1>5 DEF Known, RowsConsistent
<1> QED
  BY <1>6, <1>7

LEMMA SingleKeepsInv ==
  ASSUME StoreInv, NEW s \in Savers, CommitSingle(s) \/ CommitSingleFails(s)
  PROVE  StoreInv'
<1> USE DEF StoreInv
<1>1. direct[s] \in Ids /\ direct[s] <= Len(saves)
  BY DEF CommitSingle, CommitSingleFails, TypeOK, Known
<1>2. rows \in Table /\ TableConsistent(rows)
  BY DEF TypeOK, Table, RowsConsistent, TableConsistent
<1>3. rows' \in Table /\ TableConsistent(rows')
  <2>1. CASE CommitSingle(s)
    BY <1>1, <1>2, <2>1, SaveIsTyped, UpsertIsConsistent DEF CommitSingle
  <2>2. CASE CommitSingleFails(s)
    BY <1>2, <2>2 DEF CommitSingleFails
  <2> QED
    BY <2>1, <2>2
<1>4. /\ direct' \in [Savers -> Ids \cup {None}]
      /\ \A t \in Savers : direct'[t] # None => direct'[t] <= Len(saves)
      /\ commits' \in [Ids -> Nat] /\ lost' \subseteq Ids
      /\ UNCHANGED <<tx, chan, buf, pc, flushing, closing, open, saves, backlog, due>>
  <2>1. /\ direct' = [direct EXCEPT ![s] = None]
        /\ \/ commits' = [commits EXCEPT ![direct[s]] = @ + 1] /\ lost' = lost
           \/ commits' = commits /\ lost' = lost \cup {direct[s]}
        /\ UNCHANGED <<tx, chan, buf, pc, flushing, closing, open, saves, backlog, due>>
    BY DEF CommitSingle, CommitSingleFails
  <2>2. direct \in [Savers -> Ids \cup {None}] /\ commits \in [Ids -> Nat] /\ lost \subseteq Ids
    BY DEF TypeOK
  <2>3. commits' \in [Ids -> Nat] /\ lost' \subseteq Ids
    BY <2>1, <2>2, <1>1
  <2>4. \A t \in Savers : direct'[t] # None => direct'[t] = direct[t] /\ direct[t] # None
    BY <2>1, <2>2
  <2>5. direct' \in [Savers -> Ids \cup {None}]
    BY <2>1, <2>2
  <2> QED
    BY <2>1, <2>3, <2>4, <2>5 DEF Known
<1> QED
  BY <1>3, <1>4 DEF TypeOK, Known, RowsConsistent, Table, TableConsistent

(* Returning from flushBatch empties one buffer and moves one goroutine.   *)
LEMMA EndFlushTyped ==
  ASSUME TypeOK, Known, NEW d \in Drainers, EndFlush(d)
  PROVE  /\ buf' \in [Drainers -> Seq(Ids)]
         /\ pc' \in [Drainers -> {"select", "idle", "drain", "final", "done"}]
         /\ flushing' \subseteq Drainers
         /\ due' \in [Flushers -> SUBSET Ids]
         /\ UNCHANGED <<chan, direct, closing, open, saves, backlog>>
         /\ Known'
<1>1. /\ buf' = [buf EXCEPT ![d] = <<>>]
      /\ pc' = [pc EXCEPT ![d] = Resume(d)]
      /\ flushing' = flushing \ {d}
      /\ due' = Forget(d)
      /\ UNCHANGED <<chan, direct, closing, open, saves, backlog>>
  BY DEF EndFlush, Cleared
<1>2. buf' \in [Drainers -> Seq(Ids)]
  BY <1>1, EmptySeq DEF TypeOK
<1>3. pc' \in [Drainers -> {"select", "idle", "drain", "final", "done"}]
  BY <1>1 DEF TypeOK, Resume
<1>4. due' \in [Flushers -> SUBSET Ids] /\ flushing' \subseteq Drainers
  BY <1>1 DEF TypeOK, Forget
<1>5. Known'
  <2>1. Len(<<>>) = 0
    OBVIOUS
  <2>2. \A e \in Drainers : buf'[e] = buf[e] \/ buf'[e] = <<>>
    BY <1>1 DEF TypeOK
  <2> QED
    BY <1>1, <2>1, <2>2 DEF Known
<1> QED
  BY <1>1, <1>2, <1>3, <1>4, <1>5

LEMMA FlushBatchKeepsInv ==
  ASSUME StoreInv, NEW d \in Drainers, FlushBatch(d)
  PROVE  StoreInv'
<1> USE DEF StoreInv
<1>1. rows \in Table /\ TableConsistent(rows)
  BY DEF TypeOK, Table, RowsConsistent, TableConsistent
<1>2. ASSUME tx # None
      PROVE  /\ tx \in Transaction
             /\ tx.rows \in Table /\ TableConsistent(tx.rows)
  BY <1>2 DEF TypeOK, Table, Transaction, RowsConsistent, TableConsistent
<1>3. \A e \in Drainers : Range(buf[e]) \subseteq Ids
  BY QueuedAreIds DEF Range
<1>4. CASE BeginBatch(d)
  <2>1. tx' \in Transaction /\ tx'.rows = rows
    BY <1>4 DEF BeginBatch, Transaction, TypeOK
  <2>2. UNCHANGED <<rows, chan, buf, pc, flushing, direct, closing, open,
                    saves, commits, lost, backlog, due>>
    BY <1>4 DEF BeginBatch, history
  <2> QED
    BY <2>1, <2>2, <1>1 DEF TypeOK, Known, RowsConsistent, TableConsistent
<1>5. CASE BeginFails(d)
  <2>1. EndFlush(d) /\ UNCHANGED <<rows, tx, commits>> /\ lost' = lost \cup Range(buf[d])
    BY <1>5 DEF BeginFails
  <2> QED
    BY <2>1, <1>3, EndFlushTyped DEF TypeOK, RowsConsistent
<1>6. CASE ExecNext(d)
  <2>1. UNCHANGED <<rows, chan, buf, pc, flushing, direct, closing, open,
                    saves, commits, lost, backlog, due>>
    BY <1>6 DEF ExecNext, history
  <2>2. PICK i \in Ids : i = buf[d][tx.done + 1] /\ i <= Len(saves)
    <3>1. tx # None /\ tx.done \in Nat /\ tx.done < Len(buf[d])
      BY <1>6, <1>2 DEF ExecNext, InFlush, Transaction
    <3>2. tx.done + 1 \in 1 .. Len(buf[d])
      BY <3>1, QueuedAreIds
    <3> QED
      BY <3>2, QueuedAreIds DEF Known
  <2>3. tx' \in Transaction /\ tx'.rows \in Table /\ TableConsistent(tx'.rows)
    <3>1. tx # None
      BY <1>6 DEF ExecNext, InFlush
    <3>2. tx \in Transaction /\ tx.rows \in Table /\ TableConsistent(tx.rows)
      BY <3>1, <1>2
    <3>3. CASE tx' = [tx EXCEPT !.done = @ + 1]
      BY <3>2, <3>3 DEF Transaction
    <3>4. CASE tx' = [tx EXCEPT !.done = @ + 1, !.applied = @ \cup {i},
                                !.rows = Upsert(@, saves[i].key, saves[i].data)]
      <4>1. PICK view \in Table : /\ view = Upsert(tx.rows, saves[i].key, saves[i].data)
                                  /\ TableConsistent(view)
        BY <3>2, <2>2, SaveIsTyped, UpsertIsConsistent
      <4>2. tx' = [owner |-> tx.owner, rows |-> view,
                   done |-> tx.done + 1, applied |-> tx.applied \cup {i}]
        BY <3>2, <3>4, <4>1 DEF Transaction
      <4> QED
        BY <3>2, <4>1, <4>2 DEF Transaction, Table
    <3> QED
      BY <1>6, <2>2, <3>3, <3>4 DEF ExecNext
  <2> QED
    BY <2>1, <2>3 DEF TypeOK, Known, RowsConsistent, TableConsistent
<1>7. CASE CommitBatch(d)
  <2>1. /\ EndFlush(d) /\ tx # None /\ rows' = tx.rows /\ tx' = None
        /\ commits' = [i \in Ids |-> IF i \in tx.applied THEN commits[i] + 1 ELSE commits[i]]
        /\ lost' = lost \cup (Range(buf[d]) \ tx.applied)
    BY <1>7 DEF CommitBatch, InFlush
  <2>2. commits' \in [Ids -> Nat] /\ lost' \subseteq Ids
    BY <2>1, <1>3 DEF TypeOK
  <2>3. rows' \in [Keys -> Row \cup {NoRow}] /\ RowsConsistent'
    BY <2>1, <1>2 DEF Table, TableConsistent, RowsConsistent
  <2> QED
    BY <2>1, <2>2, <2>3, EndFlushTyped DEF TypeOK
<1>8. CASE CommitBatchFails(d)
  <2>1. /\ EndFlush(d) /\ UNCHANGED <<rows, commits>> /\ tx' = None
        /\ lost' = lost \cup Range(buf[d])
    BY <1>8 DEF CommitBatchFails
  <2>2. RowsConsistent'
    BY <2>1 DEF RowsConsistent
  <2> QED
    BY <2>1, <2>2, <1>3, EndFlushTyped DEF TypeOK
<1> QED
  BY <1>4, <1>5, <1>6, <1>7, <1>8 DEF FlushBatch

LEMMA ReceiveKeepsInv ==
  ASSUME StoreInv, NEW d \in Drainers, Receive(d)
  PROVE  StoreInv'
<1> USE DEF StoreInv
<1>1. /\ buf' = [buf EXCEPT ![d] = Append(buf[d], Head(chan))]
      /\ chan' = Tail(chan) /\ chan # <<>>
      /\ UNCHANGED <<rows, tx, pc, direct, closing, open, saves, commits, lost, backlog, due>>
  BY DEF Receive, history, TypeOK
<1>2. /\ chan \in Seq(Ids) /\ Len(chan) \in Nat /\ Len(chan) > 0
      /\ Head(chan) = chan[1] /\ Head(chan) \in Ids /\ Head(chan) <= Len(saves)
  BY <1>1, QueuedAreIds, HeadTailProperties, EmptySeq DEF Known
<1>3. /\ chan' \in Seq(Ids) /\ Len(chan') = Len(chan) - 1
      /\ \A n \in 1 .. Len(chan') : chan'[n] = chan[n + 1]
  BY <1>1, <1>2, HeadTailProperties
<1>4. \A n \in 1 .. Len(chan') : chan'[n] <= Len(saves)
  BY <1>2, <1>3 DEF Known
<1>5. /\ buf' \in [Drainers -> Seq(Ids)]
      /\ \A e \in Drainers : \A n \in 1 .. Len(buf'[e]) : buf'[e][n] <= Len(saves)
  <2>1. /\ Append(buf[d], Head(chan)) \in Seq(Ids)
        /\ Len(Append(buf[d], Head(chan))) = Len(buf[d]) + 1
        /\ \A n \in 1 .. Len(buf[d]) : Append(buf[d], Head(chan))[n] = buf[d][n]
        /\ Append(buf[d], Head(chan))[Len(buf[d]) + 1] = Head(chan)
    BY <1>2, QueuedAreIds, AppendProperties
  <2>2. \A n \in 1 .. Len(buf[d]) + 1 : n \in 1 .. Len(buf[d]) \/ n = Len(buf[d]) + 1
    BY QueuedAreIds
  <2>3. \A n \in 1 .. Len(Append(buf[d], Head(chan))) :
          Append(buf[d], Head(chan))[n] <= Len(saves)
    BY <2>1, <2>2, <1>2 DEF Known
  <2> QED
    BY <1>1, <2>1, <2>3 DEF TypeOK, Known
<1>6. flushing' \subseteq Drainers
  BY DEF Receive, TypeOK
<1>7. Len(chan') <= ChanCap
  BY <1>2, <1>3, BoundsAssumption DEF TypeOK
<1> QED
  BY <1>1, <1>3, <1>4, <1>5, <1>6, <1>7 DEF TypeOK, Known, RowsConsistent

(* The steps that move a goroutine without touching a queue.               *)
LEMMA ControlKeepsInv ==
  ASSUME StoreInv,
         \/ TickerFlush \/ NoticeClose \/ CallClose \/ CloseDatabase
         \/ \E d \in Drainers : Drained(d)
         \/ \E f \in Flushers : CallFlush(f)
  PROVE  StoreInv'
<1> USE DEF StoreInv
<1>1. UNCHANGED <<rows, tx, chan, buf, direct, saves, commits, lost>>
  BY DEF TickerFlush, NoticeClose, CallClose, CloseDatabase, Drained, CallFlush, history
<1>2. Returned \subseteq Ids
  BY QueuedAreIds, BoundsAssumption DEF Returned, Ids, TypeOK
<1>3. /\ pc' \in [Drainers -> {"select", "idle", "drain", "final", "done"}]
      /\ flushing' \subseteq Drainers
      /\ closing' \in BOOLEAN /\ open' \in BOOLEAN
      /\ backlog' \subseteq Ids /\ due' \in [Flushers -> SUBSET Ids]
  <2>1. CASE TickerFlush
    BY <2>1 DEF TickerFlush, TypeOK, history, Drainers
  <2>2. CASE NoticeClose
    BY <2>2 DEF NoticeClose, TypeOK, history
  <2>3. CASE CallClose
    BY <2>3, <1>2 DEF CallClose, TypeOK
  <2>4. CASE CloseDatabase
    BY <2>4 DEF CloseDatabase, TypeOK, history
  <2>5. ASSUME NEW d \in Drainers, Drained(d)
        PROVE  /\ pc' \in [Drainers -> {"select", "idle", "drain", "final", "done"}]
               /\ flushing' \subseteq Drainers
               /\ closing' \in BOOLEAN /\ open' \in BOOLEAN
               /\ backlog' \subseteq Ids /\ due' \in [Flushers -> SUBSET Ids]
    BY <2>5 DEF Drained, TypeOK, Forget
  <2>6. ASSUME NEW f \in Flushers, CallFlush(f)
        PROVE  /\ pc' \in [Drainers -> {"select", "idle", "drain", "final", "done"}]
               /\ flushing' \subseteq Drainers
               /\ closing' \in BOOLEAN /\ open' \in BOOLEAN
               /\ backlog' \subseteq Ids /\ due' \in [Flushers -> SUBSET Ids]
    BY <2>6, <1>2 DEF CallFlush, TypeOK
  <2> QED
    BY <2>1, <2>2, <2>3, <2>4, <2>5, <2>6
<1> QED
  BY <1>1, <1>3 DEF TypeOK, Known, RowsConsistent

LEMMA StoreInvStep == StoreInv /\ [Next]_vars => StoreInv'
<1> SUFFICES ASSUME StoreInv, [Next]_vars PROVE StoreInv'
  OBVIOUS
<1>1. ASSUME NEW s \in Savers, SaverStep(s) PROVE StoreInv'
  BY <1>1, EnqueueKeepsInv, SingleKeepsInv DEF SaverStep
<1>2. CASE CommitterStep
  <2>1. Committer \in Drainers
    BY DEF Drainers
  <2> QED
    BY <1>2, <2>1, ReceiveKeepsInv, ControlKeepsInv, FlushBatchKeepsInv DEF CommitterStep
<1>3. ASSUME NEW f \in Flushers, CallFlush(f) \/ FlushStep(f) PROVE StoreInv'
  <2>1. f \in Drainers
    BY DEF Drainers
  <2> QED
    BY <1>3, <2>1, ReceiveKeepsInv, ControlKeepsInv, FlushBatchKeepsInv DEF FlushStep
<1>4. CASE CallClose \/ CloseDatabase
  BY <1>4, ControlKeepsInv
<1>5. CASE PurgeDeadProxies
  <2>1. PICK old \in SUBSET Keys : rows' = Purged(rows, MaxFail, old)
    BY <1>5 DEF PurgeDeadProxies
  <2>2. rows \in Table /\ TableConsistent(rows)
    BY DEF StoreInv, TypeOK, Table, RowsConsistent, TableConsistent
  <2>3. rows' \in Table /\ TableConsistent(rows')
    BY <2>1, <2>2, PurgedIsConsistent
  <2>4. UNCHANGED <<tx, chan, buf, pc, flushing, direct, closing, open,
                    saves, commits, lost, backlog, due>>
    BY <1>5 DEF PurgeDeadProxies, history
  <2> QED
    BY <2>3, <2>4 DEF StoreInv, TypeOK, Known, RowsConsistent, Table, TableConsistent
<1>6. CASE UNCHANGED vars
  BY <1>6 DEF vars, StoreInv, TypeOK, Known, RowsConsistent
<1> QED
  BY <1>1, <1>2, <1>3, <1>4, <1>5, <1>6 DEF Next

LEMMA StoreInvariant == Spec => []StoreInv
BY StoreInvInit, StoreInvStep, PTL DEF Spec

(* Every queue, buffer, goroutine and row has its type in all states: the  *)
(* channel never exceeds its capacity and each number it carries is that   *)
(* of a save.                                                              *)
THEOREM TypeCorrect == Spec => []TypeOK
BY StoreInvariant, PTL DEF StoreInv

(* is_alive and consecutive_fail never contradict each other in the table, *)
(* whatever goroutines commit, in whatever order, and whatever fails.      *)
THEOREM RowsStayConsistent == Spec => []RowsConsistent
BY StoreInvariant, PTL DEF StoreInv

(***************************************************************************)
(* Fates.  A save is in exactly one place: the invariant says of each pair *)
(* of places that they do not share a save, of each place that it does not *)
(* hold one twice, and of every save that some place has it.  A            *)
(* transaction only ever applies what its own buffer still holds.          *)
(***************************************************************************)
HoldsOnce(q) == \A m, n \in 1 .. Len(q) : q[m] = q[n] => m = n

Apart(q, r) == \A m \in 1 .. Len(q), n \in 1 .. Len(r) : q[m] # r[n]

Holds(q, i) == \E n \in 1 .. Len(q) : q[n] = i

QueuesApart ==
  /\ HoldsOnce(chan)
  /\ \A d \in Drainers : HoldsOnce(buf[d]) /\ Apart(chan, buf[d])
  /\ \A d, e \in Drainers : d # e => Apart(buf[d], buf[e])

HandsApart ==
  \A s \in Savers : direct[s] # None =>
    /\ ~ Holds(chan, direct[s])
    /\ \A d \in Drainers : ~ Holds(buf[d], direct[s])
    /\ \A t \in Savers : direct[t] = direct[s] => t = s

SettledApart ==
  \A i \in Ids :
    /\ commits[i] <= 1
    /\ i \in lost => commits[i] = 0
    /\ Settled(i) => /\ i <= Len(saves)
                     /\ ~ Holds(chan, i)
                     /\ \A d \in Drainers : ~ Holds(buf[d], i)
                     /\ \A s \in Savers : direct[s] # i

NoneForgotten ==
  \A i \in 1 .. Len(saves) :
    \/ Settled(i)
    \/ Holds(chan, i)
    \/ \E d \in Drainers : Holds(buf[d], i)
    \/ \E s \in Savers : direct[s] = i

TxOfBuffer ==
  tx # None =>
    /\ tx.owner \in flushing
    /\ tx.done <= Len(buf[tx.owner])
    /\ \A i \in tx.applied : \E n \in 1 .. tx.done : buf[tx.owner][n] = i

FateInv == QueuesApart /\ HandsApart /\ SettledApart /\ NoneForgotten /\ TxOfBuffer

FateVars == <<chan, buf, direct, commits, lost, saves>>

(* Steps that leave every place alone and no transaction behind.           *)
LEMMA SamePlacesKeepFate ==
  ASSUME FateInv, UNCHANGED FateVars, TxOfBuffer'
  PROVE  FateInv'
<1>1. UNCHANGED <<chan, buf, direct, commits, lost, saves>>
  BY DEF FateVars
<1>2. QueuesApart'
  BY <1>1 DEF FateInv, QueuesApart
<1>3. HandsApart'
  BY <1>1 DEF FateInv, HandsApart
<1>4. SettledApart'
  BY <1>1 DEF FateInv, SettledApart, Settled
<1>5. NoneForgotten'
  BY <1>1 DEF FateInv, NoneForgotten, Settled
<1> QED
  BY <1>2, <1>3, <1>4, <1>5 DEF FateInv

(* What a queue holds after a save was appended to it.                     *)
LEMMA AppendHolds ==
  ASSUME NEW q \in Seq(Ids), NEW i \in Ids, NEW r, r = Append(q, i)
  PROVE  /\ \A j : Holds(r, j) <=> Holds(q, j) \/ j = i
         /\ HoldsOnce(q) /\ ~ Holds(q, i) => HoldsOnce(r)
<1>1. /\ r \in Seq(Ids) /\ Len(q) \in Nat /\ Len(r) = Len(q) + 1
      /\ \A n \in 1 .. Len(q) : r[n] = q[n]
      /\ r[Len(q) + 1] = i
  BY AppendProperties, LenProperties
<1>2. \A n : n \in 1 .. Len(r) <=> n \in 1 .. Len(q) \/ n = Len(q) + 1
  BY <1>1
<1>3. \A j : Holds(r, j) <=> Holds(q, j) \/ j = i
  BY <1>1, <1>2 DEF Holds
<1>4. HoldsOnce(q) /\ ~ Holds(q, i) => HoldsOnce(r)
  BY <1>1, <1>2 DEF Holds, HoldsOnce
<1> QED
  BY <1>3, <1>4

LEMMA TailHolds ==
  ASSUME NEW q \in Seq(Ids), q # <<>>, NEW r, r = Tail(q), HoldsOnce(q)
  PROVE  /\ \A j : Holds(q, j) <=> Holds(r, j) \/ j = Head(q)
         /\ ~ Holds(r, Head(q))
         /\ HoldsOnce(r)
<1>1. /\ r \in Seq(Ids) /\ Len(q) \in Nat /\ Len(q) > 0 /\ Len(r) = Len(q) - 1
      /\ Head(q) = q[1]
      /\ \A n \in 1 .. Len(r) : r[n] = q[n + 1]
  BY HeadTailProperties, EmptySeq, LenProperties
<1>2. \A n \in 1 .. Len(r) : n + 1 \in 1 .. Len(q) /\ n + 1 # 1
  BY <1>1
<1>3. \A n \in 1 .. Len(q) : n = 1 \/ (n - 1 \in 1 .. Len(r) /\ (n - 1) + 1 = n)
  BY <1>1
<1>4. 1 \in 1 .. Len(q)
  BY <1>1
<1>5. \A j : Holds(q, j) <=> Holds(r, j) \/ j = Head(q)
  BY <1>1, <1>2, <1>3, <1>4 DEF Holds
<1>6. ~ Holds(r, Head(q))
  BY <1>1, <1>2, <1>4 DEF Holds, HoldsOnce
<1>7. HoldsOnce(r)
  <2> SUFFICES ASSUME NEW m \in 1 .. Len(r), NEW n \in 1 .. Len(r), r[m] = r[n]
               PROVE  m = n
    BY DEF HoldsOnce
  <2>1. m + 1 = n + 1
    BY <1>1, <1>2 DEF HoldsOnce
  <2> QED
    BY <2>1, <1>1
<1> QED
  BY <1>5, <1>6, <1>7

LEMMA ApartIsDisjoint ==
  ASSUME NEW q, NEW r
  PROVE  Apart(q, r) <=> \A i : ~ (Holds(q, i) /\ Holds(r, i))
BY DEF Apart, Holds

LEMMA EmptyHoldsNothing == HoldsOnce(<<>>) /\ \A i : ~ Holds(<<>>, i)
BY DEF HoldsOnce, Holds

LEMMA SavesAreIds ==
  ASSUME TypeOK
  PROVE  /\ \A i \in Ids : i # None
         /\ \A i \in 1 .. Len(saves) : i \in Ids
<1>1. Len(saves) \in Nat /\ Len(saves) <= MaxSaves
  BY QueuedAreIds DEF TypeOK
<1> QED
  BY <1>1, NoneAssumption, BoundsAssumption DEF Ids

LEMMA FateInit == Init => FateInv
<1> SUFFICES ASSUME Init PROVE FateInv
  OBVIOUS
<1>1. /\ chan = <<>> /\ \A d \in Drainers : buf[d] = <<>>
      /\ tx = None /\ saves = <<>> /\ lost = {}
      /\ \A s \in Savers : direct[s] = None
      /\ \A i \in Ids : commits[i] = 0
  BY DEF Init
<1>2. QueuesApart
  BY <1>1, EmptyHoldsNothing, ApartIsDisjoint DEF QueuesApart
<1>3. HandsApart /\ TxOfBuffer
  BY <1>1 DEF HandsApart, TxOfBuffer
<1>4. SettledApart /\ NoneForgotten
  BY <1>1, BoundsAssumption DEF SettledApart, NoneForgotten, Settled, Ids
<1> QED
  BY <1>2, <1>3, <1>4 DEF FateInv

(* The new save has a number that nothing carries yet.                     *)
LEMMA NewNumberIsFree ==
  ASSUME StoreInv, FateInv, NEW i \in Ids, i = Len(saves) + 1
  PROVE  /\ ~ Holds(chan, i)
         /\ \A d \in Drainers : ~ Holds(buf[d], i)
         /\ \A s \in Savers : direct[s] # i
         /\ ~ Settled(i)
<1>1. Len(saves) \in Nat /\ ~ (i <= Len(saves))
  BY QueuedAreIds DEF StoreInv
<1>2. ~ Settled(i)
  BY <1>1 DEF FateInv, SettledApart
<1>3. i # None
  BY NoneAssumption DEF Ids
<1> QED
  BY <1>1, <1>2, <1>3 DEF StoreInv, Known, Holds

LEMMA EnqueueKeepsFate ==
  ASSUME StoreInv, FateInv, NEW s \in Savers, NEW k \in Keys, NEW p \in Data,
         Enqueue(s, k, p) \/ Overflow(s, k, p)
  PROVE  FateInv'
<1> DEFINE i == Len(saves) + 1
<1>1. /\ saves' = Append(saves, [key |-> k, data |-> p])
      /\ saves \in Seq([key : Keys, data : Data])
      /\ Len(saves) < MaxSaves /\ direct[s] = None
      /\ UNCHANGED <<tx, buf, flushing, commits, lost>>
  BY DEF Enqueue, Overflow, NewSave, StoreInv, TypeOK
<1>2. i \in Ids /\ Len(saves) \in Nat /\ Len(saves') = i
  BY <1>1, BoundsAssumption, AppendProperties, LenProperties DEF Ids
<1>3. /\ ~ Holds(chan, i)
      /\ \A d \in Drainers : ~ Holds(buf[d], i)
      /\ \A t \in Savers : direct[t] # i
      /\ ~ Settled(i)
  <2> HIDE DEF i
  <2>1. i = Len(saves) + 1
    BY DEF i
  <2> QED
    BY <1>2, <2>1, NewNumberIsFree
<1>4. \A j : Settled(j)' <=> Settled(j)
  BY <1>1 DEF Settled
<1>5. \A j \in 1 .. Len(saves') : j \in 1 .. Len(saves) \/ j = i
  BY <1>2
<1>6. i # None /\ chan \in Seq(Ids) /\ direct \in [Savers -> Ids \cup {None}]
  BY <1>2, NoneAssumption DEF Ids, StoreInv, TypeOK
<1>7. \A j \in Ids : j <= Len(saves) => j <= Len(saves')
  BY <1>2 DEF Ids
<1>8. TxOfBuffer'
  BY <1>1 DEF FateInv, TxOfBuffer
<1>9. CASE Enqueue(s, k, p)
  <2>1. chan' = Append(chan, i) /\ direct' = direct
    BY <1>9 DEF Enqueue
  <2> HIDE DEF i
  <2>2. /\ \A j : Holds(chan', j) <=> Holds(chan, j) \/ j = i
        /\ HoldsOnce(chan')
    BY <2>1, <1>2, <1>3, <1>6, AppendHolds DEF FateInv, QueuesApart
  <2>3. QueuesApart'
    BY <1>1, <1>3, <2>2, ApartIsDisjoint DEF FateInv, QueuesApart
  <2>4. HandsApart'
    BY <1>1, <1>3, <2>1, <2>2 DEF FateInv, HandsApart
  <2>5. SettledApart'
    BY <1>1, <1>3, <1>4, <1>7, <2>1, <2>2 DEF FateInv, SettledApart
  <2>6. NoneForgotten'
    BY <1>1, <1>4, <1>5, <2>1, <2>2 DEF FateInv, NoneForgotten
  <2> QED
    BY <1>8, <2>3, <2>4, <2>5, <2>6 DEF FateInv
<1>10. CASE Overflow(s, k, p)
  <2>1. direct' = [direct EXCEPT ![s] = i] /\ chan' = chan
    BY <1>10 DEF Overflow
  <2> HIDE DEF i
  <2>2. /\ direct'[s] = i
        /\ \A t \in Savers : t # s => direct'[t] = direct[t]
    BY <2>1, <1>6
  <2>3. QueuesApart'
    BY <1>1, <2>1 DEF FateInv, QueuesApart
  <2>4. HandsApart'
    BY <1>1, <1>3, <2>1, <2>2 DEF FateInv, HandsApart
  <2>5. SettledApart'
    BY <1>1, <1>3, <1>4, <1>7, <2>1, <2>2 DEF FateInv, SettledApart
  <2>6. \A j \in 1 .. Len(saves) : j # None
    BY SavesAreIds DEF StoreInv
  <2>7. \A j \in 1 .. Len(saves), t \in Savers : direct[t] = j => direct'[t] = j
    BY <1>1, <2>2, <2>6
  <2>8. NoneForgotten'
    BY <1>1, <1>4, <1>5, <2>1, <2>2, <2>7 DEF FateInv, NoneForgotten
  <2> QED
    BY <1>8, <2>3, <2>4, <2>5, <2>8 DEF FateInv
<1> QED
  BY <1>9, <1>10

(* A save in hand is written or given up: it leaves the hand and is settled.*)
LEMMA SingleKeepsFate ==
  ASSUME StoreInv, FateInv, NEW s \in Savers, CommitSingle(s) \/ CommitSingleFails(s)
  PROVE  FateInv'
<1>1. PICK i \in Ids :
      /\ i = direct[s] /\ i # None /\ i <= Len(saves)
      /\ direct' = [direct EXCEPT ![s] = None]
      /\ \/ commits' = [commits EXCEPT ![i] = @ + 1] /\ lost' = lost
         \/ commits' = commits /\ lost' = lost \cup {i}
      /\ UNCHANGED <<tx, chan, buf, flushing, saves>>
  BY DEF CommitSingle, CommitSingleFails, StoreInv, TypeOK, Known
<1>2. /\ direct \in [Savers -> Ids \cup {None}] /\ commits \in [Ids -> Nat]
      /\ lost \subseteq Ids
  BY DEF StoreInv, TypeOK
<1>3. /\ direct'[s] = None
      /\ \A t \in Savers : t # s => direct'[t] = direct[t] /\ direct[t] # i
  BY <1>1, <1>2 DEF FateInv, HandsApart
<1>4. ~ Settled(i) /\ commits[i] = 0 /\ i \notin lost
  BY <1>1, <1>2 DEF FateInv, SettledApart, Settled
<1>5. /\ Settled(i)'
      /\ \A j \in Ids : j # i => (Settled(j)' <=> Settled(j))
      /\ \A j \in Ids : commits'[j] <= 1 /\ (j \in lost' => commits'[j] = 0)
  <2>1. \A j \in Ids : commits[j] <= 1 /\ (j \in lost => commits[j] = 0)
    BY DEF FateInv, SettledApart
  <2>2. CASE commits' = [commits EXCEPT ![i] = @ + 1] /\ lost' = lost
    <3>1. commits'[i] = 1 /\ \A j \in Ids : j # i => commits'[j] = commits[j]
      BY <1>2, <1>4, <2>2
    <3> QED
      BY <1>2, <1>4, <2>1, <2>2, <3>1 DEF Settled
  <2>3. CASE commits' = commits /\ lost' = lost \cup {i}
    BY <1>1, <1>2, <1>4, <2>1, <2>3 DEF Settled
  <2> QED
    BY <1>1, <2>2, <2>3
<1>6. /\ ~ Holds(chan, i)
      /\ \A d \in Drainers : ~ Holds(buf[d], i)
  BY <1>1 DEF FateInv, HandsApart
<1>7. QueuesApart'
  BY <1>1 DEF FateInv, QueuesApart
<1>8. HandsApart'
  BY <1>1, <1>3 DEF FateInv, HandsApart
<1>9. SettledApart'
  <2> SUFFICES ASSUME NEW j \in Ids, Settled(j)'
               PROVE  /\ j <= Len(saves)
                      /\ ~ Holds(chan, j)
                      /\ \A d \in Drainers : ~ Holds(buf[d], j)
                      /\ \A t \in Savers : direct'[t] # j
    BY <1>1, <1>5 DEF SettledApart
  <2>1. j # None
    BY NoneAssumption DEF Ids
  <2>2. CASE j = i
    BY <1>1, <1>3, <1>6, <2>1, <2>2
  <2>3. CASE j # i
    BY <1>3, <1>5, <2>1, <2>3 DEF FateInv, SettledApart
  <2> QED
    BY <2>2, <2>3
<1>10. NoneForgotten'
  <2> SUFFICES ASSUME NEW j \in 1 .. Len(saves)
               PROVE  \/ Settled(j)'
                      \/ Holds(chan, j)
                      \/ \E d \in Drainers : Holds(buf[d], j)
                      \/ \E t \in Savers : direct'[t] = j
    BY <1>1 DEF NoneForgotten
  <2>1. j \in Ids
    BY SavesAreIds DEF StoreInv
  <2>2. CASE j = i
    BY <1>5, <2>2
  <2>3. CASE j # i
    <3>1. \A t \in Savers : direct[t] = j => direct'[t] = j
      BY <1>1, <1>3, <2>3
    <3> QED
      BY <1>5, <2>1, <2>3, <3>1 DEF FateInv, NoneForgotten
  <2> QED
    BY <2>2, <2>3
<1>11. TxOfBuffer'
  BY <1>1 DEF FateInv, TxOfBuffer
<1> QED
  BY <1>7, <1>8, <1>9, <1>10, <1>11 DEF FateInv

(* What one step of flushBatch settles: the saves of one buffer, each once. *)
SettlesBuffer(d) ==
  \A i \in Ids :
    IF Holds(buf[d], i)
    THEN \/ commits'[i] = commits[i] + 1 /\ (i \in lost' <=> i \in lost)
         \/ commits'[i] = commits[i] /\ i \in lost'
    ELSE commits'[i] = commits[i] /\ (i \in lost' <=> i \in lost)

LEMMA SettlingKeepsFate ==
  ASSUME StoreInv, FateInv, NEW d \in Drainers, EndFlush(d), SettlesBuffer(d),
         tx' = None \/ (tx' = tx /\ (tx # None => tx.owner # d))
  PROVE  FateInv'
<1>1. /\ buf' = [buf EXCEPT ![d] = <<>>]
      /\ flushing' = flushing \ {d}
      /\ UNCHANGED <<chan, direct, saves>>
  BY DEF EndFlush, Cleared
<1>2. /\ buf \in [Drainers -> Seq(Ids)] /\ commits \in [Ids -> Nat]
      /\ tx # None => tx.owner \in Drainers
  BY DEF StoreInv, TypeOK, Transaction
<1>3. /\ buf'[d] = <<>>
      /\ \A e \in Drainers : e # d => buf'[e] = buf[e]
      /\ \A i : ~ Holds(buf'[d], i)
      /\ HoldsOnce(buf'[d])
  BY <1>1, <1>2, EmptyHoldsNothing
<1>4. \A i \in Ids : commits[i] <= 1 /\ (i \in lost => commits[i] = 0)
  BY DEF FateInv, SettledApart
<1>5. ASSUME NEW i \in Ids, Holds(buf[d], i)
      PROVE  Settled(i)' /\ commits'[i] <= 1 /\ (i \in lost' => commits'[i] = 0)
  <2>1. ~ Settled(i)
    BY <1>5 DEF FateInv, SettledApart
  <2>2. commits[i] = 0 /\ i \notin lost
    BY <1>2, <2>1 DEF Settled
  <2> QED
    BY <1>5, <2>2 DEF SettlesBuffer, Settled
<1>6. ASSUME NEW i \in Ids, ~ Holds(buf[d], i)
      PROVE  /\ Settled(i)' <=> Settled(i)
             /\ commits'[i] <= 1 /\ (i \in lost' => commits'[i] = 0)
  BY <1>4, <1>6 DEF SettlesBuffer, Settled
<1>7. QueuesApart'
  BY <1>1, <1>3, ApartIsDisjoint DEF FateInv, QueuesApart
<1>8. HandsApart'
  BY <1>1, <1>3 DEF FateInv, HandsApart
<1>9. ASSUME NEW i \in Ids, Holds(buf[d], i)
      PROVE  /\ i <= Len(saves)
             /\ ~ Holds(chan, i)
             /\ \A e \in Drainers : e # d => ~ Holds(buf[e], i)
             /\ \A s \in Savers : direct[s] # i
  <2>1. i <= Len(saves)
    BY <1>9 DEF StoreInv, Known, Holds
  <2>2. ~ Holds(chan, i) /\ \A e \in Drainers : e # d => ~ Holds(buf[e], i)
    BY <1>9, ApartIsDisjoint DEF FateInv, QueuesApart
  <2>3. \A s \in Savers : direct[s] # i
    <3>1. i # None
      BY NoneAssumption DEF Ids
    <3> QED
      BY <1>9, <3>1 DEF FateInv, HandsApart
  <2> QED
    BY <2>1, <2>2, <2>3
<1>10. SettledApart'
  <2> SUFFICES ASSUME NEW i \in Ids, Settled(i)'
               PROVE  /\ i <= Len(saves)
                      /\ ~ Holds(chan, i)
                      /\ \A e \in Drainers : ~ Holds(buf'[e], i)
                      /\ \A s \in Savers : direct[s] # i
    BY <1>1, <1>5, <1>6 DEF SettledApart
  <2>1. CASE Holds(buf[d], i)
    BY <1>3, <1>9, <2>1
  <2>2. CASE ~ Holds(buf[d], i)
    BY <1>3, <1>6, <2>2 DEF FateInv, SettledApart
  <2> QED
    BY <2>1, <2>2
<1>11. NoneForgotten'
  <2> SUFFICES ASSUME NEW i \in 1 .. Len(saves)
               PROVE  \/ Settled(i)'
                      \/ Holds(chan, i)
                      \/ \E e \in Drainers : Holds(buf'[e], i)
                      \/ \E s \in Savers : direct[s] = i
    BY <1>1 DEF NoneForgotten
  <2>1. i \in Ids
    BY SavesAreIds DEF StoreInv
  <2>2. CASE Holds(buf[d], i)
    BY <1>5, <2>1, <2>2
  <2>3. CASE ~ Holds(buf[d], i)
    BY <1>3, <1>6, <2>1, <2>3 DEF FateInv, NoneForgotten
  <2> QED
    BY <2>2, <2>3
<1>12. TxOfBuffer'
  BY <1>1, <1>2, <1>3 DEF FateInv, TxOfBuffer
<1> QED
  BY <1>7, <1>8, <1>10, <1>11, <1>12 DEF FateInv

LEMMA ReceiveKeepsFate ==
  ASSUME StoreInv, FateInv, NEW d \in Drainers, Receive(d)
  PROVE  FateInv'
<1>1. PICK i \in Ids : /\ chan # <<>> /\ i = Head(chan)
                       /\ chan' = Tail(chan)
                       /\ buf' = [buf EXCEPT ![d] = Append(buf[d], i)]
                       /\ d \notin flushing /\ flushing \subseteq flushing'
                       /\ UNCHANGED <<tx, direct, saves, commits, lost>>
  <2>1. Head(chan) \in Ids
    BY QueuedAreIds, HeadTailProperties DEF Receive, StoreInv
  <2> QED
    BY <2>1 DEF Receive, history, StoreInv, TypeOK
<1>2. chan \in Seq(Ids) /\ buf \in [Drainers -> Seq(Ids)]
  BY DEF StoreInv, TypeOK
<1>3. /\ \A j : Holds(chan, j) <=> Holds(chan', j) \/ j = i
      /\ ~ Holds(chan', i)
      /\ HoldsOnce(chan')
  BY <1>1, <1>2, TailHolds DEF FateInv, QueuesApart
<1>4. Holds(chan, i)
  BY <1>3
<1>5. /\ \A e \in Drainers : ~ Holds(buf[e], i)
      /\ \A s \in Savers : direct[s] # i
      /\ ~ Settled(i)
  <2>1. \A e \in Drainers : ~ Holds(buf[e], i)
    BY <1>4, ApartIsDisjoint DEF FateInv, QueuesApart
  <2>2. i # None
    BY SavesAreIds DEF StoreInv
  <2> QED
    BY <1>4, <2>1, <2>2 DEF FateInv, HandsApart, SettledApart
<1>6. /\ \A j : Holds(buf'[d], j) <=> Holds(buf[d], j) \/ j = i
      /\ HoldsOnce(buf'[d])
      /\ \A e \in Drainers : e # d => buf'[e] = buf[e]
  <2>1. buf'[d] = Append(buf[d], i) /\ buf[d] \in Seq(Ids)
    BY <1>1, <1>2
  <2>2. HoldsOnce(buf[d])
    BY DEF FateInv, QueuesApart
  <2> QED
    BY <1>1, <1>2, <1>5, <2>1, <2>2, AppendHolds
<1>7. \A j : Settled(j)' <=> Settled(j)
  BY <1>1 DEF Settled
<1>8. QueuesApart'
  <2>1. \A e \in Drainers : HoldsOnce(buf'[e])
    BY <1>6 DEF FateInv, QueuesApart
  <2>2. \A e \in Drainers : Apart(chan', buf'[e])
    BY <1>3, <1>6, ApartIsDisjoint DEF FateInv, QueuesApart
  <2>3. \A e, f \in Drainers : e # f => Apart(buf'[e], buf'[f])
    BY <1>5, <1>6, ApartIsDisjoint DEF FateInv, QueuesApart
  <2> QED
    BY <1>3, <2>1, <2>2, <2>3 DEF QueuesApart
<1>9. HandsApart'
  BY <1>1, <1>3, <1>5, <1>6 DEF FateInv, HandsApart
<1>10. SettledApart'
  <2> SUFFICES ASSUME NEW j \in Ids, Settled(j)
               PROVE  /\ j <= Len(saves)
                      /\ ~ Holds(chan', j)
                      /\ \A e \in Drainers : ~ Holds(buf'[e], j)
                      /\ \A s \in Savers : direct[s] # j
    BY <1>1, <1>7 DEF FateInv, SettledApart
  <2>1. j # i
    BY <1>5
  <2> QED
    BY <1>3, <1>6, <2>1 DEF FateInv, SettledApart
<1>11. NoneForgotten'
  <2> SUFFICES ASSUME NEW j \in 1 .. Len(saves)
               PROVE  \/ Settled(j)
                      \/ Holds(chan', j)
                      \/ \E e \in Drainers : Holds(buf'[e], j)
                      \/ \E s \in Savers : direct[s] = j
    BY <1>1, <1>7 DEF NoneForgotten
  <2>1. \A e \in Drainers : Holds(buf[e], j) => Holds(buf'[e], j)
    BY <1>6
  <2> QED
    BY <1>3, <1>6, <2>1 DEF FateInv, NoneForgotten
<1>12. TxOfBuffer'
  <2>1. tx # None => tx.owner # d /\ tx.owner \in Drainers
    BY <1>1 DEF FateInv, TxOfBuffer, StoreInv, TypeOK
  <2> QED
    BY <1>1, <1>6, <2>1 DEF FateInv, TxOfBuffer
<1> QED
  BY <1>8, <1>9, <1>10, <1>11, <1>12 DEF FateInv

LEMMA RangeHolds ==
  ASSUME NEW q \in Seq(Ids), NEW i
  PROVE  i \in Range(q) <=> Holds(q, i)
BY LenProperties DEF Range, Holds

LEMMA FlushBatchKeepsFate ==
  ASSUME StoreInv, FateInv, NEW d \in Drainers, FlushBatch(d)
  PROVE  FateInv'
<1>1. /\ buf[d] \in Seq(Ids) /\ Len(buf[d]) \in Nat
      /\ \A i : i \in Range(buf[d]) <=> Holds(buf[d], i)
      /\ tx # None => tx \in Transaction /\ tx.done \in Nat
  BY QueuedAreIds, RangeHolds DEF StoreInv, TypeOK, Transaction
<1>2. CASE BeginBatch(d)
  <2>1. UNCHANGED FateVars /\ UNCHANGED flushing
    BY <1>2 DEF BeginBatch, history, FateVars
  <2>2. tx'.owner = d /\ tx'.done = 0 /\ tx'.applied = {} /\ d \in flushing
    BY <1>2 DEF BeginBatch
  <2>3. TxOfBuffer'
    BY <1>1, <2>1, <2>2 DEF TxOfBuffer, FateVars
  <2> QED
    BY <2>1, <2>3, SamePlacesKeepFate
<1>3. CASE BeginFails(d)
  <2>1. /\ EndFlush(d) /\ UNCHANGED <<tx, commits>>
        /\ lost' = lost \cup Range(buf[d])
        /\ tx # None => tx.owner # d
    BY <1>3 DEF BeginFails, InFlush
  <2>2. SettlesBuffer(d)
    BY <1>1, <2>1 DEF SettlesBuffer
  <2> QED
    BY <2>1, <2>2, SettlingKeepsFate
<1>4. CASE ExecNext(d)
  <2>1. UNCHANGED FateVars /\ UNCHANGED flushing
    BY <1>4 DEF ExecNext, history, FateVars
  <2>2. /\ tx # None /\ tx.owner = d /\ tx.done < Len(buf[d])
        /\ tx \in Transaction /\ tx.done \in Nat
    BY <1>1, <1>4 DEF ExecNext, InFlush
  <2>3. /\ tx'.owner = d /\ tx'.done = tx.done + 1
        /\ \A i \in tx'.applied : i \in tx.applied \/ i = buf[d][tx.done + 1]
    <3>1. PICK i : /\ i = buf[d][tx.done + 1]
                   /\ \/ tx' = [tx EXCEPT !.done = tx.done + 1, !.applied = tx.applied \cup {i},
                                         !.rows = Upsert(tx.rows, saves[i].key, saves[i].data)]
                      \/ tx' = [tx EXCEPT !.done = tx.done + 1]
      BY <1>4, <2>2 DEF ExecNext, Transaction
    <3>2. PICK view : \/ tx' = [tx EXCEPT !.done = tx.done + 1, !.applied = tx.applied \cup {i},
                                         !.rows = view]
                      \/ tx' = [tx EXCEPT !.done = tx.done + 1]
      BY <3>1
    <3>3. tx = [owner |-> tx.owner, rows |-> tx.rows, done |-> tx.done, applied |-> tx.applied]
      BY <2>2 DEF Transaction
    <3>4. CASE tx' = [tx EXCEPT !.done = tx.done + 1, !.applied = tx.applied \cup {i},
                                !.rows = view]
      <4>1. tx' = [owner |-> tx.owner, rows |-> view,
                   done |-> tx.done + 1, applied |-> tx.applied \cup {i}]
        BY <3>3, <3>4
      <4> QED
        BY <2>2, <3>1, <4>1
    <3>5. CASE tx' = [tx EXCEPT !.done = tx.done + 1]
      BY <2>2, <3>3, <3>5
    <3> QED
      BY <3>2, <3>4, <3>5
  <2>4. d \in flushing /\ \A i \in tx.applied : \E n \in 1 .. tx.done : buf[d][n] = i
    BY <2>2 DEF FateInv, TxOfBuffer
  <2>5. \A i \in tx'.applied : \E n \in 1 .. tx'.done : buf[d][n] = i
    <3>1. tx.done + 1 \in 1 .. tx'.done /\ \A n \in 1 .. tx.done : n \in 1 .. tx'.done
      BY <2>2, <2>3
    <3> QED
      BY <2>3, <2>4, <3>1
  <2>6. tx'.done <= Len(buf[d])
    BY <1>1, <2>2, <2>3
  <2>7. TxOfBuffer'
    BY <2>1, <2>3, <2>4, <2>5, <2>6 DEF TxOfBuffer, FateVars
  <2> QED
    BY <2>1, <2>7, SamePlacesKeepFate
<1>5. CASE CommitBatch(d)
  <2>1. /\ EndFlush(d) /\ tx' = None /\ tx # None /\ tx.owner = d
        /\ tx.done = Len(buf[d])
        /\ commits' = [i \in Ids |-> IF i \in tx.applied THEN commits[i] + 1 ELSE commits[i]]
        /\ lost' = lost \cup (Range(buf[d]) \ tx.applied)
    BY <1>5 DEF CommitBatch, InFlush
  <2>2. \A i \in tx.applied : Holds(buf[d], i)
    BY <2>1 DEF FateInv, TxOfBuffer, Holds
  <2>3. SettlesBuffer(d)
    BY <1>1, <2>1, <2>2 DEF SettlesBuffer
  <2> QED
    BY <2>1, <2>3, SettlingKeepsFate
<1>6. CASE CommitBatchFails(d)
  <2>1. /\ EndFlush(d) /\ tx' = None /\ UNCHANGED commits
        /\ lost' = lost \cup Range(buf[d])
    BY <1>6 DEF CommitBatchFails
  <2>2. SettlesBuffer(d)
    BY <1>1, <2>1 DEF SettlesBuffer
  <2> QED
    BY <2>1, <2>2, SettlingKeepsFate
<1> QED
  BY <1>2, <1>3, <1>4, <1>5, <1>6 DEF FlushBatch

(* The steps that move a goroutine, and the purge.                         *)
LEMMA ControlKeepsFate ==
  ASSUME StoreInv, FateInv,
         \/ TickerFlush \/ NoticeClose \/ CallClose \/ CloseDatabase \/ PurgeDeadProxies
         \/ \E d \in Drainers : Drained(d)
         \/ \E f \in Flushers : CallFlush(f)
         \/ UNCHANGED vars
  PROVE  FateInv'
<1>1. /\ UNCHANGED FateVars /\ UNCHANGED tx
      /\ flushing \subseteq flushing'
  BY DEF TickerFlush, NoticeClose, CallClose, CloseDatabase, PurgeDeadProxies,
         Drained, CallFlush, history, vars, FateVars
<1>2. TxOfBuffer'
  BY <1>1 DEF FateInv, TxOfBuffer, FateVars
<1> QED
  BY <1>1, <1>2, SamePlacesKeepFate

LEMMA FateStep == StoreInv /\ FateInv /\ [Next]_vars => FateInv'
<1> SUFFICES ASSUME StoreInv, FateInv, [Next]_vars PROVE FateInv'
  OBVIOUS
<1>1. ASSUME NEW s \in Savers, SaverStep(s) PROVE FateInv'
  BY <1>1, EnqueueKeepsFate, SingleKeepsFate DEF SaverStep
<1>2. CASE CommitterStep
  <2>1. Committer \in Drainers
    BY DEF Drainers
  <2> QED
    BY <1>2, <2>1, ReceiveKeepsFate, ControlKeepsFate, FlushBatchKeepsFate DEF CommitterStep
<1>3. ASSUME NEW f \in Flushers, CallFlush(f) \/ FlushStep(f) PROVE FateInv'
  <2>1. f \in Drainers
    BY DEF Drainers
  <2> QED
    BY <1>3, <2>1, ReceiveKeepsFate, ControlKeepsFate, FlushBatchKeepsFate DEF FlushStep
<1>4. CASE CallClose \/ CloseDatabase \/ PurgeDeadProxies \/ UNCHANGED vars
  BY <1>4, ControlKeepsFate
<1> QED
  BY <1>1, <1>2, <1>3, <1>4 DEF Next

LEMMA FateInvariant == Spec => [](StoreInv /\ FateInv)
<1>1. Init => StoreInv /\ FateInv
  BY StoreInvInit, FateInit
<1>2. StoreInv /\ FateInv /\ [Next]_vars => (StoreInv /\ FateInv)'
  BY StoreInvStep, FateStep
<1> QED
  BY <1>1, <1>2, PTL DEF Spec

LEMMA OneTag ==
  ASSUME NEW P, NEW x, P = {x}
  PROVE  Cardinality(P) = 1
BY FS_Singleton

(* Every save has exactly one place: a queue, a hand, the table, or the    *)
(* ones given up; whoever takes it from the channel, whatever fails, and   *)
(* whenever the store is closed.                                           *)
THEOREM FatesAreUnique == Spec => []EachSaveHasOneFate
<1>1. StoreInv /\ FateInv => EachSaveHasOneFate
  <2> SUFFICES ASSUME StoreInv, FateInv, NEW i \in 1 .. Len(saves)
               PROVE  Cardinality(Places(i)) = 1
    BY DEF EachSaveHasOneFate
  <2> DEFINE C == {m \in DOMAIN chan : chan[m] = i}
             B(d) == {m \in DOMAIN buf[d] : buf[d][m] = i}
             H == {t \in Savers : direct[t] = i}
             N == 1 .. commits[i]
             L == IF i \in lost THEN {<<"lost">>} ELSE {}
             InChan == {<<"chan", n>> : n \in C}
             InBuf == UNION {{<<d, n>> : n \in B(d)} : d \in Drainers}
             InHand == {<<s>> : s \in H}
             InTable == {<<"commit", n>> : n \in N}
  <2>1. Places(i) = InChan \cup InBuf \cup InHand \cup InTable \cup L
    BY DEF Places
  <2>2. /\ i \in Ids /\ i # None
        /\ commits[i] \in Nat
        /\ DOMAIN chan = 1 .. Len(chan)
        /\ \A d \in Drainers : DOMAIN buf[d] = 1 .. Len(buf[d])
    BY SavesAreIds, LenProperties DEF StoreInv, TypeOK
  <2>3. /\ C # {} <=> Holds(chan, i)
        /\ \A d \in Drainers : B(d) # {} <=> Holds(buf[d], i)
        /\ N # {} <=> commits[i] > 0
        /\ L # {} <=> i \in lost
    <3>1. C # {} <=> Holds(chan, i)
      BY <2>2 DEF Holds
    <3>2. ASSUME NEW d \in Drainers PROVE B(d) # {} <=> Holds(buf[d], i)
      <4>1. DOMAIN buf[d] = 1 .. Len(buf[d])
        BY <2>2
      <4> QED
        BY <4>1 DEF Holds
    <3>3. N # {} <=> commits[i] > 0
      BY <2>2
    <3> QED
      BY <3>1, <3>2, <3>3
  <2>4. /\ \A m, n \in C : m = n
        /\ \A d \in Drainers : \A m, n \in B(d) : m = n
        /\ \A s, t \in H : s = t
        /\ \A m, n \in N : m = n
    <3>1. (\A m, n \in C : m = n) /\ \A d \in Drainers : \A m, n \in B(d) : m = n
      BY <2>2 DEF FateInv, QueuesApart, HoldsOnce
    <3>2. \A s, t \in H : s = t
      BY <2>2 DEF FateInv, HandsApart
    <3>3. \A m, n \in N : m = n
      BY <2>2 DEF FateInv, SettledApart
    <3> QED
      BY <3>1, <3>2, <3>3
  <2>5. \A s \in Savers : s \in H <=> direct[s] = i
    OBVIOUS
  <2>6. N = {} <=> ~ (commits[i] > 0)
    BY <2>2
  <2>7. L = IF i \in lost THEN {<<"lost">>} ELSE {}
    OBVIOUS
  <2>8. H \subseteq Savers
    OBVIOUS
  <2> HIDE DEF C, B, H, N, L
  <2>9. C = {} => InChan = {}
    OBVIOUS
  <2>10. ASSUME \A d \in Drainers : B(d) = {} PROVE InBuf = {}
    BY <2>10
  <2>11. H = {} => InHand = {}
    OBVIOUS
  <2>12. N = {} => InTable = {}
    OBVIOUS
  <2>13. CASE Settled(i)
    <3>1. /\ ~ Holds(chan, i) /\ \A d \in Drainers : ~ Holds(buf[d], i)
          /\ \A s \in Savers : direct[s] # i
      BY <2>2, <2>13 DEF FateInv, SettledApart
    <3>2. InChan = {} /\ InBuf = {} /\ InHand = {}
      BY <3>1, <2>3, <2>5, <2>8, <2>9, <2>10, <2>11
    <3>3. CASE commits[i] > 0
      <4>1. N = {1} /\ L = {}
        BY <2>2, <2>7, <3>3 DEF FateInv, SettledApart, N
      <4>2. InTable = {<<"commit", 1>>}
        BY <4>1
      <4>3. Places(i) = {<<"commit", 1>>}
        <5> HIDE DEF InChan, InBuf, InHand, InTable
        <5> QED
          BY <2>1, <3>2, <4>1, <4>2
      <4> QED
        BY <4>3, OneTag
    <3>4. CASE ~ (commits[i] > 0)
      <4>1. InTable = {} /\ L = {<<"lost">>}
        BY <2>2, <2>6, <2>7, <2>12, <2>13, <3>4 DEF Settled
      <4>2. Places(i) = {<<"lost">>}
        <5> HIDE DEF InChan, InBuf, InHand, InTable
        <5> QED
          BY <2>1, <3>2, <4>1
      <4> QED
        BY <4>2, OneTag
    <3> QED
      BY <3>3, <3>4
  <2>14. CASE ~ Settled(i)
    <3>1. InTable = {} /\ L = {}
      BY <2>2, <2>6, <2>7, <2>12, <2>14 DEF Settled
    <3>2. CASE Holds(chan, i)
      <4>1. \A d \in Drainers : B(d) = {}
        BY <2>3, <3>2, ApartIsDisjoint DEF FateInv, QueuesApart
      <4>2. InBuf = {}
        BY <2>10, <4>1
      <4>3. InHand = {}
        BY <2>2, <2>5, <2>8, <2>11, <3>2 DEF FateInv, HandsApart
      <4>4. PICK n : C = {n}
        BY <2>3, <2>4, <3>2
      <4>5. InChan = {<<"chan", n>>}
        BY <4>4
      <4>6. Places(i) = {<<"chan", n>>}
        <5> HIDE DEF InChan, InBuf, InHand, InTable
        <5> QED
          BY <2>1, <3>1, <4>2, <4>3, <4>5
      <4> QED
        BY <4>6, OneTag
    <3>3. ASSUME NEW d \in Drainers, Holds(buf[d], i)
          PROVE  Cardinality(Places(i)) = 1
      <4>1. C = {} /\ \A e \in Drainers : e # d => B(e) = {}
        BY <2>3, <3>3, ApartIsDisjoint DEF FateInv, QueuesApart
      <4>2. InHand = {}
        BY <2>2, <2>5, <2>8, <2>11, <3>3 DEF FateInv, HandsApart
      <4>3. PICK n : B(d) = {n}
        <5>1. PICK n : n \in B(d)
          BY <2>3, <3>3
        <5>2. \A m \in B(d) : m = n
          BY <2>4, <5>1
        <5> QED
          BY <5>1, <5>2
      <4>4. InBuf = {<<d, n>>}
        BY <4>1, <4>3
      <4>5. Places(i) = {<<d, n>>}
        <5>1. InChan = {}
          BY <2>9, <4>1
        <5> HIDE DEF InChan, InBuf, InHand, InTable
        <5> QED
          BY <2>1, <3>1, <4>2, <4>4, <5>1
      <4> QED
        BY <4>5, OneTag
    <3>4. ASSUME NEW s \in Savers, direct[s] = i
          PROVE  Cardinality(Places(i)) = 1
      <4>1. C = {} /\ \A d \in Drainers : B(d) = {}
        BY <2>2, <2>3, <3>4 DEF FateInv, HandsApart
      <4>2. H = {s}
        BY <2>4, <2>5, <2>8, <3>4
      <4>3. InHand = {<<s>>}
        BY <4>2
      <4>4. InChan = {} /\ InBuf = {}
        BY <2>9, <2>10, <4>1
      <4>5. Places(i) = {<<s>>}
        <5> HIDE DEF InChan, InBuf, InHand, InTable
        <5> QED
          BY <2>1, <3>1, <4>3, <4>4
      <4> QED
        BY <4>5, OneTag
    <3> QED
      BY <2>14, <3>2, <3>3, <3>4 DEF FateInv, NoneForgotten
  <2> QED
    BY <2>13, <2>14
<1> QED
  BY <1>1, FateInvariant, PTL

(***************************************************************************)
(* Close.  What counts as the backlog left every saver's hands before the  *)
(* call, and the committer goes through its stages in one direction: when  *)
(* it is past draining, the channel holds later saves only.                *)
(***************************************************************************)
BacklogIsOut ==
  /\ \A i \in backlog : i \in Ids /\ i <= Len(saves)
  /\ \A s \in Savers : direct[s] \notin backlog

CommitterStages ==
  /\ pc[Committer] \in {"select", "drain", "final", "done"}
  /\ pc[Committer] # "select" => closing
  /\ pc[Committer] \in {"final", "done"} => \A i \in backlog : ~ Holds(chan, i)
  /\ pc[Committer] = "done" => buf[Committer] = <<>> /\ Committer \notin flushing
  /\ ~ open => pc[Committer] = "done"

BacklogInv == BacklogIsOut /\ CommitterStages

LEMMA BacklogInit == Init => BacklogInv
<1> SUFFICES ASSUME Init PROVE BacklogInv
  OBVIOUS
<1>1. Committer \in Drainers
  BY DEF Drainers
<1>2. pc[Committer] = "select" /\ open /\ backlog = {}
  BY <1>1 DEF Init
<1> QED
  BY <1>2 DEF BacklogInv, BacklogIsOut, CommitterStages

LEMMA SaverKeepsBacklog ==
  ASSUME StoreInv, FateInv, BacklogInv, NEW s \in Savers, SaverStep(s)
  PROVE  BacklogInv'
<1>1. UNCHANGED <<buf, pc, flushing, closing, open, backlog>>
  BY DEF SaverStep, Enqueue, Overflow, NewSave, CommitSingle, CommitSingleFails
<1>2. None \notin backlog
  BY SavesAreIds DEF StoreInv, BacklogInv, BacklogIsOut
<1>3. CASE CommitSingle(s) \/ CommitSingleFails(s)
  <2>1. UNCHANGED <<saves, chan>> /\ direct' = [direct EXCEPT ![s] = None]
    BY <1>3 DEF CommitSingle, CommitSingleFails
  <2>2. direct \in [Savers -> Ids \cup {None}]
    BY DEF StoreInv, TypeOK
  <2>3. \A t \in Savers : direct'[t] \notin backlog
    BY <1>2, <2>1, <2>2 DEF BacklogInv, BacklogIsOut
  <2> QED
    BY <1>1, <2>1, <2>3 DEF BacklogInv, BacklogIsOut, CommitterStages
<1>4. ASSUME NEW k \in Keys, NEW p \in Data, Enqueue(s, k, p) \/ Overflow(s, k, p)
      PROVE  BacklogInv'
  <2>1. PICK i : /\ i = Len(saves) + 1
                 /\ saves' = Append(saves, [key |-> k, data |-> p])
                 /\ Len(saves) < MaxSaves
                 /\ \/ chan' = Append(chan, i) /\ direct' = direct
                    \/ chan' = chan /\ direct' = [direct EXCEPT ![s] = i]
    BY <1>4 DEF Enqueue, Overflow, NewSave
  <2>2. /\ saves \in Seq([key : Keys, data : Data]) /\ Len(saves) \in Nat
        /\ chan \in Seq(Ids) /\ direct \in [Savers -> Ids \cup {None}]
    BY QueuedAreIds DEF StoreInv, TypeOK
  <2>3. Len(saves') = i /\ i \in Ids
    BY <2>1, <2>2, AppendProperties, BoundsAssumption DEF Ids
  <2>4. \A j \in backlog : j \in Ids /\ j <= Len(saves') /\ j # i
    BY <2>1, <2>2, <2>3 DEF BacklogInv, BacklogIsOut, Ids
  <2>5. \A t \in Savers : direct'[t] = direct[t] \/ direct'[t] = i
    BY <2>1, <2>2
  <2>6. \A j \in backlog : Holds(chan', j) => Holds(chan, j)
    BY <2>1, <2>2, <2>3, <2>4, AppendHolds
  <2>7. BacklogIsOut'
    BY <1>1, <2>4, <2>5 DEF BacklogInv, BacklogIsOut
  <2> QED
    BY <1>1, <2>6, <2>7 DEF BacklogInv, CommitterStages
<1> QED
  BY <1>3, <1>4 DEF SaverStep

LEMMA FlushBatchKeepsBacklog ==
  ASSUME StoreInv, FateInv, BacklogInv, NEW d \in Drainers, FlushBatch(d)
  PROVE  BacklogInv'
<1>1. UNCHANGED <<chan, direct, closing, open, saves, backlog>>
  BY DEF FlushBatch, BeginBatch, BeginFails, ExecNext, CommitBatch, CommitBatchFails,
         EndFlush, history
<1>2. BacklogIsOut'
  BY <1>1 DEF BacklogInv, BacklogIsOut
<1>3. CASE BeginBatch(d) \/ ExecNext(d)
  <2>1. UNCHANGED <<buf, pc, flushing>>
    BY <1>3 DEF BeginBatch, ExecNext
  <2> QED
    BY <1>1, <1>2, <2>1 DEF BacklogInv, CommitterStages
<1>4. CASE EndFlush(d) /\ d \in flushing
  <2>1. /\ buf' = [buf EXCEPT ![d] = <<>>]
        /\ pc' = [pc EXCEPT ![d] = Resume(d)]
        /\ flushing' = flushing \ {d}
    BY <1>4 DEF EndFlush, Cleared
  <2>2. Committer \in Drainers
    BY DEF Drainers
  <2>3. DOMAIN buf = Drainers /\ DOMAIN pc = Drainers
    BY DEF StoreInv, TypeOK
  <2>4. CASE d = Committer
    <3>1. pc[Committer] # "done"
      BY <1>4, <2>4 DEF BacklogInv, CommitterStages
    <3>2. /\ buf'[Committer] = <<>> /\ Committer \notin flushing'
          /\ pc'[Committer] = IF pc[Committer] # "final" THEN pc[Committer] ELSE "done"
      BY <2>1, <2>2, <2>3, <2>4 DEF Resume
    <3> QED
      BY <1>1, <1>2, <3>1, <3>2 DEF BacklogInv, CommitterStages
  <2>5. CASE d # Committer
    <3>1. /\ buf'[Committer] = buf[Committer] /\ pc'[Committer] = pc[Committer]
          /\ Committer \in flushing' <=> Committer \in flushing
      BY <2>1, <2>2, <2>3, <2>5
    <3> QED
      BY <1>1, <1>2, <3>1 DEF BacklogInv, CommitterStages
  <2> QED
    BY <2>4, <2>5
<1>5. BeginFails(d) \/ CommitBatch(d) \/ CommitBatchFails(d) => EndFlush(d) /\ d \in flushing
  BY DEF BeginFails, CommitBatch, CommitBatchFails, InFlush
<1> QED
  BY <1>3, <1>4, <1>5 DEF FlushBatch

LEMMA ReceiveKeepsBacklog ==
  ASSUME StoreInv, FateInv, BacklogInv, NEW d \in Drainers, Receive(d)
  PROVE  BacklogInv'
<1>1. /\ buf' = [buf EXCEPT ![d] = Append(@, Head(chan))]
      /\ chan' = Tail(chan) /\ chan # <<>>
      /\ pc[d] \in {"select", "drain"}
      /\ d # Committer => flushing' = flushing
      /\ UNCHANGED <<pc, direct, closing, open, saves, backlog>>
  BY DEF Receive, history
<1>2. Committer \in Drainers /\ DOMAIN buf = Drainers /\ chan \in Seq(Ids)
  BY DEF Drainers, StoreInv, TypeOK
<1>3. \A i : Holds(chan', i) => Holds(chan, i)
  BY <1>1, <1>2, TailHolds DEF FateInv, QueuesApart
<1>4. pc[Committer] = "done" => buf'[Committer] = buf[Committer] /\ flushing' = flushing
  BY <1>1, <1>2
<1> QED
  BY <1>1, <1>3, <1>4 DEF BacklogInv, BacklogIsOut, CommitterStages

LEMMA ControlKeepsBacklog ==
  ASSUME StoreInv, FateInv, BacklogInv,
         \/ TickerFlush \/ NoticeClose \/ CallClose \/ CloseDatabase \/ PurgeDeadProxies
         \/ \E d \in Drainers : Drained(d)
         \/ \E f \in Flushers : CallFlush(f)
         \/ UNCHANGED vars
  PROVE  BacklogInv'
<1>1. Committer \in Drainers /\ DOMAIN pc = Drainers
  BY DEF Drainers, StoreInv, TypeOK
<1>2. UNCHANGED <<chan, buf, direct, saves>>
  BY DEF TickerFlush, NoticeClose, CallClose, CloseDatabase, PurgeDeadProxies,
         Drained, CallFlush, history, vars
<1>3. CASE TickerFlush
  BY <1>2, <1>3 DEF TickerFlush, history, BacklogInv, BacklogIsOut, CommitterStages
<1>4. CASE NoticeClose
  <2>1. pc'[Committer] = "drain"
    BY <1>1, <1>4 DEF NoticeClose
  <2> QED
    BY <1>2, <1>4, <2>1
    DEF NoticeClose, history, BacklogInv, BacklogIsOut, CommitterStages
<1>5. CASE CallClose
  <2>1. /\ ~ closing /\ closing' /\ backlog' = Returned
        /\ UNCHANGED <<pc, flushing, open>>
    BY <1>5 DEF CallClose
  <2>2. Len(saves) \in Nat /\ Len(saves) <= MaxSaves /\ DOMAIN direct = Savers
    BY QueuedAreIds DEF StoreInv, TypeOK
  <2>3. \A i \in Returned : i \in Ids /\ i <= Len(saves)
    BY <2>2, BoundsAssumption DEF Returned, Ids
  <2>4. \A s \in Savers : direct[s] \notin Returned
    BY <2>2 DEF Returned, Range
  <2>5. BacklogIsOut'
    BY <1>2, <2>1, <2>3, <2>4 DEF BacklogIsOut
  <2>6. pc[Committer] = "select"
    BY <2>1 DEF BacklogInv, CommitterStages
  <2>7. CommitterStages'
    BY <1>2, <2>1, <2>6 DEF BacklogInv, CommitterStages
  <2> QED
    BY <2>5, <2>7 DEF BacklogInv
<1>6. CASE CloseDatabase
  BY <1>2, <1>6 DEF CloseDatabase, history, BacklogInv, BacklogIsOut, CommitterStages
<1>7. CASE PurgeDeadProxies \/ UNCHANGED vars
  BY <1>2, <1>7
  DEF PurgeDeadProxies, vars, history, BacklogInv, BacklogIsOut, CommitterStages
<1>8. ASSUME NEW d \in Drainers, Drained(d)
      PROVE  BacklogInv'
  <2>1. /\ pc[d] = "drain" /\ d \notin flushing /\ chan = <<>>
        /\ UNCHANGED <<closing, open, backlog>>
        /\ \/ /\ buf[d] = <<>> /\ UNCHANGED flushing
              /\ pc' = [pc EXCEPT ![d] = IF d = Committer THEN "done" ELSE "idle"]
           \/ /\ pc' = [pc EXCEPT ![d] = "final"]
              /\ flushing' = flushing \cup {d}
    BY <1>8 DEF Drained
  <2>2. BacklogIsOut'
    BY <1>2, <2>1 DEF BacklogInv, BacklogIsOut
  <2>3. \A i : ~ Holds(chan, i)
    BY <2>1, EmptyHoldsNothing
  <2>4. CASE d = Committer
    <3>1. \/ pc'[Committer] = "done" /\ buf[Committer] = <<>> /\ Committer \notin flushing'
          \/ pc'[Committer] = "final"
      BY <1>1, <2>1, <2>4
    <3> QED
      BY <1>2, <2>1, <2>2, <2>3, <2>4, <3>1 DEF BacklogInv, CommitterStages
  <2>5. CASE d # Committer
    <3>1. pc'[Committer] = pc[Committer] /\ (Committer \in flushing' => Committer \in flushing)
      BY <1>1, <2>1, <2>5
    <3> QED
      BY <1>2, <2>1, <2>2, <3>1 DEF BacklogInv, CommitterStages
  <2> QED
    BY <2>4, <2>5
<1>9. ASSUME NEW f \in Flushers, CallFlush(f)
      PROVE  BacklogInv'
  <2>1. pc'[Committer] = pc[Committer]
    BY <1>1, <1>9, ProcessAssumption DEF CallFlush
  <2> QED
    BY <1>2, <1>9, <2>1 DEF CallFlush, BacklogInv, BacklogIsOut, CommitterStages
<1> QED
  BY <1>3, <1>4, <1>5, <1>6, <1>7, <1>8, <1>9

LEMMA BacklogStep == StoreInv /\ FateInv /\ BacklogInv /\ [Next]_vars => BacklogInv'
<1> SUFFICES ASSUME StoreInv, FateInv, BacklogInv, [Next]_vars PROVE BacklogInv'
  OBVIOUS
<1>1. ASSUME NEW s \in Savers, SaverStep(s) PROVE BacklogInv'
  BY <1>1, SaverKeepsBacklog
<1>2. CASE CommitterStep
  <2>1. Committer \in Drainers
    BY DEF Drainers
  <2> QED
    BY <1>2, <2>1, ReceiveKeepsBacklog, ControlKeepsBacklog, FlushBatchKeepsBacklog
    DEF CommitterStep
<1>3. ASSUME NEW f \in Flushers, CallFlush(f) \/ FlushStep(f) PROVE BacklogInv'
  <2>1. f \in Drainers
    BY DEF Drainers
  <2> QED
    BY <1>3, <2>1, ReceiveKeepsBacklog, ControlKeepsBacklog, FlushBatchKeepsBacklog
    DEF FlushStep
<1>4. CASE CallClose \/ CloseDatabase \/ PurgeDeadProxies \/ UNCHANGED vars
  BY <1>4, ControlKeepsBacklog
<1> QED
  BY <1>1, <1>2, <1>3, <1>4 DEF Next

(* Once the database is closed, every save that had returned before Close  *)
(* was called is in the table or given up, except what a concurrent Flush  *)
(* holds in its own buffer: the committer never leaves one behind.         *)
THEOREM ClosingCommitsTheBacklog == Spec => []CloseCommitsBacklog
<1>1. Spec => []BacklogInv
  <2>1. Spec => [](StoreInv /\ FateInv)
    BY FateInvariant
  <2>2. Init => BacklogInv
    BY BacklogInit
  <2>3. StoreInv /\ FateInv /\ BacklogInv /\ [Next]_vars => BacklogInv'
    BY BacklogStep
  <2> QED
    BY <2>1, <2>2, <2>3, PTL DEF Spec
<1>2. StoreInv /\ FateInv /\ BacklogInv => CloseCommitsBacklog
  <2> SUFFICES ASSUME StoreInv, FateInv, BacklogInv, ~ open, NEW i \in backlog
               PROVE  Settled(i) \/ \E f \in Flushers : i \in Range(buf[f])
    BY DEF CloseCommitsBacklog
  <2>1. /\ pc[Committer] = "done" /\ buf[Committer] = <<>> /\ ~ Holds(chan, i)
        /\ \A s \in Savers : direct[s] # i
    BY DEF BacklogInv, BacklogIsOut, CommitterStages
  <2>2. i \in 1 .. Len(saves)
    BY QueuedAreIds DEF StoreInv, BacklogInv, BacklogIsOut, Ids
  <2>3. Settled(i) \/ \E d \in Drainers : Holds(buf[d], i)
    BY <2>1, <2>2 DEF FateInv, NoneForgotten
  <2>4. ASSUME NEW d \in Drainers, Holds(buf[d], i)
        PROVE  d \in Flushers /\ i \in Range(buf[d])
    <3>1. d # Committer
      BY <2>1, <2>4, EmptyHoldsNothing
    <3>2. buf[d] \in Seq(Ids)
      BY DEF StoreInv, TypeOK
    <3> QED
      BY <2>4, <3>1, <3>2, RangeHolds DEF Drainers
  <2> QED
    BY <2>3, <2>4
<1> QED
  BY <1>1, <1>2, FateInvariant, PTL

(***************************************************************************)
(* The refinement.  The view of an open transaction is the table after     *)
(* some sequence of the saves it applied: Run relates a sequence of saves  *)
(* to the tables it passes through.  That such a run exists and that every *)
(* one ends in tx.rows is carried from one Exec to the next, so nothing    *)
(* has to be shown by induction over the sequence.                         *)
(***************************************************************************)
Run(table, s, ids, v) ==
  v = [n \in 0 .. Len(ids) |->
         IF n = 0 THEN table
         ELSE Upsert(v[n - 1], s[ids[n]].key, s[ids[n]].data)]

RunsEndIn(table, s, ids, end) ==
  /\ \E v : Run(table, s, ids, v)
  /\ \A v : Run(table, s, ids, v) => v[Len(ids)] = end

TxIsRun ==
  tx # None =>
    \E ids \in Seq(Ids) :
      /\ HoldsOnce(ids)
      /\ \A i : Holds(ids, i) <=> i \in tx.applied
      /\ RunsEndIn(rows, saves, ids, tx.rows)

LEMMA EmptyRun ==
  ASSUME NEW table, NEW s
  PROVE  RunsEndIn(table, s, <<>>, table)
<1>1. Len(<<>>) = 0
  OBVIOUS
<1>2. Run(table, s, <<>>, [n \in 0 .. 0 |-> table])
  BY <1>1 DEF Run
<1>3. ASSUME NEW v, Run(table, s, <<>>, v) PROVE v[Len(<<>>)] = table
  BY <1>1, <1>3 DEF Run
<1> QED
  BY <1>2, <1>3 DEF RunsEndIn

LEMMA NextRun ==
  ASSUME NEW table, NEW s, NEW ids \in Seq(Ids), NEW i \in Ids, NEW end,
         RunsEndIn(table, s, ids, end)
  PROVE  RunsEndIn(table, s, Append(ids, i), Upsert(end, s[i].key, s[i].data))
<1> DEFINE L == Len(ids)
           more == Append(ids, i)
           next == Upsert(end, s[i].key, s[i].data)
<1>1. /\ L \in Nat /\ Len(more) = L + 1 /\ more[L + 1] = i
      /\ \A n \in 1 .. L : more[n] = ids[n]
  BY AppendProperties, LenProperties
<1> HIDE DEF L, more
<1>2. /\ 0 \in 0 .. L /\ L \in 0 .. L /\ L + 1 \in 0 .. L + 1 /\ L + 1 # 0
      /\ (L + 1) - 1 = L
      /\ \A n \in 0 .. L : n \in 0 .. L + 1 /\ n # L + 1
      /\ \A n \in 0 .. L : n # 0 => n \in 1 .. L /\ n - 1 \in 0 .. L
      /\ \A n \in 0 .. L + 1 : n \in 0 .. L \/ n = L + 1
  BY <1>1
<1>3. ASSUME NEW w, Run(table, s, more, w)
      PROVE  w[Len(more)] = next
  <2> DEFINE v == [n \in 0 .. L |-> w[n]]
  <2>1. \A n \in 0 .. L + 1 :
          w[n] = IF n = 0 THEN table ELSE Upsert(w[n - 1], s[more[n]].key, s[more[n]].data)
    BY <1>1, <1>3 DEF Run
  <2>2. \A n \in 0 .. L :
          v[n] = IF n = 0 THEN table ELSE Upsert(v[n - 1], s[ids[n]].key, s[ids[n]].data)
    BY <1>1, <1>2, <2>1
  <2>3. v = [n \in 0 .. L |->
               IF n = 0 THEN table ELSE Upsert(v[n - 1], s[ids[n]].key, s[ids[n]].data)]
    BY <2>2
  <2>4. Run(table, s, ids, v)
    BY <2>3 DEF Run, L
  <2>5. v[L] = end
    BY <2>4 DEF RunsEndIn, L
  <2>6. w[L] = end
    BY <1>2, <2>5
  <2> QED
    BY <1>1, <1>2, <2>1, <2>6
<1>4. \E w : Run(table, s, more, w)
  <2>1. PICK v : Run(table, s, ids, v)
    BY DEF RunsEndIn
  <2>2. v[L] = end
    BY <2>1 DEF RunsEndIn, L
  <2>3. \A n \in 0 .. L :
          v[n] = IF n = 0 THEN table ELSE Upsert(v[n - 1], s[ids[n]].key, s[ids[n]].data)
    BY <2>1 DEF Run, L
  <2> DEFINE w == [n \in 0 .. L + 1 |-> IF n = L + 1 THEN next ELSE v[n]]
  <2>4. \A n \in 0 .. L : w[n] = v[n]
    BY <1>2
  <2>5. w[L + 1] = next
    BY <1>2
  <2> HIDE DEF next
  <2>6. ASSUME NEW n \in 0 .. L + 1
        PROVE  w[n] = IF n = 0 THEN table
                      ELSE Upsert(w[n - 1], s[more[n]].key, s[more[n]].data)
    <3>1. CASE n = L + 1
      <4>1. Upsert(w[n - 1], s[more[n]].key, s[more[n]].data) = next
        BY <1>1, <1>2, <2>2, <2>4, <3>1 DEF next
      <4> QED
        BY <1>2, <2>5, <3>1, <4>1
    <3>2. CASE n \in 0 .. L /\ n # 0
      BY <1>1, <1>2, <2>3, <2>4, <3>2
    <3>3. CASE n = 0
      BY <1>2, <2>3, <2>4, <3>3
    <3> QED
      BY <1>2, <3>1, <3>2, <3>3
  <2>7. w = [n \in 0 .. L + 1 |->
               IF n = 0 THEN table ELSE Upsert(w[n - 1], s[more[n]].key, s[more[n]].data)]
    BY <2>6
  <2>8. Run(table, s, more, w)
    BY <1>1, <2>7 DEF Run
  <2> QED
    BY <2>8
<1> QED
  BY <1>3, <1>4 DEF RunsEndIn, more, next

(* Later saves do not change what a run of earlier ones does.              *)
LEMMA RunOfEarlierSaves ==
  ASSUME NEW table, NEW s, NEW t, NEW ids \in Seq(Ids), NEW end,
         \A i : Holds(ids, i) => s[i] = t[i],
         RunsEndIn(table, s, ids, end)
  PROVE  RunsEndIn(table, t, ids, end)
<1>1. \A n \in 0 .. Len(ids) : n # 0 => s[ids[n]] = t[ids[n]]
  <2>1. Len(ids) \in Nat
    BY LenProperties
  <2> QED
    BY <2>1 DEF Holds
<1>2. \A v : [n \in 0 .. Len(ids) |->
                IF n = 0 THEN table ELSE Upsert(v[n - 1], s[ids[n]].key, s[ids[n]].data)]
           = [n \in 0 .. Len(ids) |->
                IF n = 0 THEN table ELSE Upsert(v[n - 1], t[ids[n]].key, t[ids[n]].data)]
  BY <1>1
<1>3. \A v : Run(table, s, ids, v) <=> Run(table, t, ids, v)
  BY <1>2 DEF Run
<1> QED
  BY <1>3 DEF RunsEndIn

(* The ledger runs the same statements.                                    *)
LEMMA LedgerStatements ==
  /\ \A t, k, p : Ledger!Upsert(t, k, p) = Upsert(t, k, p)
  /\ \A t, m, old : Ledger!Purged(t, m, old) = Purged(t, m, old)
BY DEF Ledger!Upsert, Ledger!Updated, Ledger!Uptime, Ledger!Purged,
       Upsert, Updated, Uptime, Purged

LEMMA LedgerApplies ==
  ASSUME NEW table, NEW ids \in Seq(Ids), NEW end, RunsEndIn(table, saves, ids, end)
  PROVE  Ledger!ApplyAll(table, ids) = end
<1>1. PICK v : Run(table, saves, ids, v)
  BY DEF RunsEndIn
<1>2. \A w : Run(table, saves, ids, w) <=>
        w = [n \in 0 .. Len(ids) |->
               IF n = 0 THEN table
               ELSE Ledger!Upsert(w[n - 1], saves[ids[n]].key, saves[ids[n]].data)]
  BY LedgerStatements DEF Run
<1> DEFINE view == CHOOSE w : w = [n \in 0 .. Len(ids) |->
               IF n = 0 THEN table
               ELSE Ledger!Upsert(w[n - 1], saves[ids[n]].key, saves[ids[n]].data)]
<1>3. Run(table, saves, ids, view)
  BY <1>1, <1>2
<1>4. view[Len(ids)] = end
  BY <1>3 DEF RunsEndIn
<1>5. Ledger!ApplyAll(table, ids) = view[Len(ids)]
  BY DEF Ledger!ApplyAll
<1> QED
  BY <1>4, <1>5

(* A sequence without repetitions is one of the orders of what it holds.   *)
LEMMA OrdersOfABatch ==
  ASSUME NEW ids \in Seq(Ids), HoldsOnce(ids),
         NEW batch, \A i : Holds(ids, i) => i \in batch
  PROVE  /\ ids \in Ledger!SetToAllKPermutations(batch)
         /\ \A i : i \in Ledger!ToSet(ids) <=> Holds(ids, i)
<1> DEFINE L == Len(ids)
           T == {ids[n] : n \in 1 .. L}
<1>1. L \in Nat /\ DOMAIN ids = 1 .. L /\ ids \in [1 .. L -> Ids]
  BY LenProperties
<1>2. ids \in Bijection(1 .. L, T)
  <2>1. ids \in [1 .. L -> T]
    BY <1>1
  <2>2. \A m, n \in 1 .. L : ids[m] = ids[n] => m = n
    BY DEF HoldsOnce
  <2>3. \A t \in T : \E n \in 1 .. L : ids[n] = t
    OBVIOUS
  <2> HIDE DEF T, L
  <2> QED
    BY <1>1, <2>1, <2>2, <2>3
    DEF Bijection, Injection, Surjection, IsInjective
<1>3. Cardinality(T) = L
  <2>1. IsFiniteSet(1 .. L) /\ Cardinality(1 .. L) = L
    BY <1>1, FS_Interval
  <2>2. ExistsBijection(1 .. L, T)
    BY <1>2 DEF ExistsBijection
  <2> HIDE DEF T, L
  <2> QED
    BY <2>1, <2>2, FS_Bijection
<1>4. ids \in Ledger!SetToSeqs(T)
  <2>1. ids \in [1 .. L -> T]
    BY <1>1
  <2>2. \A m, n \in 1 .. L : m # n => ids[m] # ids[n]
    BY DEF HoldsOnce
  <2>3. Ledger!SetToSeqs(T) = {f \in [1 .. L -> T] : \A m, n \in 1 .. L : m # n => f[m] # f[n]}
    <3> HIDE DEF T, L
    <3>1. Ledger!Cardinality(T) = Cardinality(T)
      BY Zenon DEF Cardinality, Ledger!Cardinality
    <3> QED
      BY <1>3, <3>1 DEF Ledger!SetToSeqs
  <2> HIDE DEF T, L
  <2> QED
    BY <2>1, <2>2, <2>3
<1>5. T \in SUBSET batch
  BY DEF Holds
<1>6. ids \in Ledger!SetToAllKPermutations(batch)
  <2> HIDE DEF T
  <2> QED
    BY <1>4, <1>5 DEF Ledger!SetToAllKPermutations
<1>7. \A i : i \in Ledger!ToSet(ids) <=> Holds(ids, i)
  BY <1>1 DEF Ledger!ToSet, Holds
<1> QED
  BY <1>6, <1>7

(* A step that settles the saves of a batch, some of them in the table.    *)
LEMMA SettleIsALedgerStep ==
  ASSUME StoreInv, FateInv,
         NEW batch \in SUBSET Ids, NEW ids \in Seq(Ids), HoldsOnce(ids),
         \A i : Holds(ids, i) => i \in batch,
         \A i \in batch : i <= Len(saves) /\ ~ Settled(i),
         RunsEndIn(rows, saves, ids, rows'),
         \A i \in Ids : commits'[i] > 0 <=> commits[i] > 0 \/ Holds(ids, i),
         \A i : i \in lost' <=> i \in lost \/ (i \in batch /\ ~ Holds(ids, i)),
         saves' = saves
  PROVE  [Ledger!Next]_(Ledger!vars)
<1> DEFINE before == {i \in 1 .. Len(saves) : commits[i] > 0}
           after == {i \in 1 .. Len(saves) : commits'[i] > 0}
<1>1. after = {i \in 1 .. Len(saves) : commits[i] > 0}'
  OBVIOUS
<1>2. /\ \A i \in 1 .. Len(saves) : i \in Ids
      /\ Len(saves) \in Nat
  BY SavesAreIds, QueuedAreIds DEF StoreInv
<1>3. /\ ids \in Ledger!SetToAllKPermutations(batch)
      /\ \A i : i \in Ledger!ToSet(ids) <=> Holds(ids, i)
  BY OrdersOfABatch
<1>4. \A i \in batch : i \in 1 .. Len(saves) /\ i \notin before /\ i \notin lost
  BY <1>2 DEF Settled, Ids
<1>5. after = before \cup Ledger!ToSet(ids)
  <2>1. \A i \in after : i \in before \cup Ledger!ToSet(ids)
    BY <1>2, <1>3
  <2>2. \A i \in before \cup Ledger!ToSet(ids) : i \in after
    BY <1>2, <1>3, <1>4
  <2> QED
    BY <2>1, <2>2
<1>6. lost' = lost \cup (batch \ Ledger!ToSet(ids))
  BY <1>3
<1>7. rows' = Ledger!ApplyAll(rows, ids)
  BY LedgerApplies
<1>8. CASE batch # {}
  <2>1. batch \in SUBSET Ledger!Pending
    BY <1>4 DEF Ledger!Pending
  <2> QED
    BY <1>1, <1>3, <1>5, <1>6, <1>7, <1>8, <2>1 DEF Ledger!Next, Ledger!Settle
<1>9. CASE batch = {}
  <2>1. \A i : ~ Holds(ids, i)
    BY <1>9
  <2>2. ids = <<>>
    <3>1. Len(ids) \in Nat /\ ~ (1 \in 1 .. Len(ids))
      BY <2>1, LenProperties DEF Holds
    <3> QED
      BY <3>1, EmptySeq
  <2>3. RunsEndIn(rows, saves, ids, rows)
    BY <2>2, EmptyRun
  <2>4. rows' = rows
    BY <2>3 DEF RunsEndIn
  <2>5. after = before /\ lost' = lost
    BY <1>3, <1>5, <1>6, <1>9, <2>1
  <2> QED
    BY <1>1, <2>4, <2>5 DEF Ledger!vars
<1> QED
  BY <1>8, <1>9

(* What the two callers of it settle.                                      *)
LEMMA BufferedIsPending ==
  ASSUME StoreInv, FateInv, NEW d \in Drainers
  PROVE  /\ Range(buf[d]) \in SUBSET Ids
         /\ \A i : i \in Range(buf[d]) <=> Holds(buf[d], i)
         /\ \A i \in Range(buf[d]) : i <= Len(saves) /\ ~ Settled(i)
<1>1. buf[d] \in Seq(Ids) /\ \A n \in 1 .. Len(buf[d]) : buf[d][n] \in Ids
  BY QueuedAreIds DEF StoreInv
<1>2. \A i : i \in Range(buf[d]) <=> Holds(buf[d], i)
  BY <1>1, RangeHolds
<1>3. \A i : Holds(buf[d], i) => i \in Ids /\ i <= Len(saves)
  BY <1>1 DEF StoreInv, Known, Holds
<1>4. \A i \in Ids : Holds(buf[d], i) => ~ Settled(i)
  BY DEF FateInv, SettledApart
<1> QED
  BY <1>2, <1>3, <1>4

LEMMA CommitIsALedgerStep ==
  ASSUME StoreInv, FateInv, TxIsRun, NEW d \in Drainers,
         BeginFails(d) \/ CommitBatch(d) \/ CommitBatchFails(d)
  PROVE  [Ledger!Next]_(Ledger!vars)
<1>1. saves' = saves
  BY DEF BeginFails, CommitBatch, CommitBatchFails, EndFlush
<1>2. CASE BeginFails(d) \/ CommitBatchFails(d)
  <2>1. UNCHANGED <<rows, commits>> /\ lost' = lost \cup Range(buf[d])
    BY <1>2 DEF BeginFails, CommitBatchFails
  <2>2. <<>> \in Seq(Ids) /\ RunsEndIn(rows, saves, <<>>, rows')
    BY <2>1, EmptyRun, EmptySeq
  <2> QED
    BY <1>1, <2>1, <2>2, EmptyHoldsNothing, BufferedIsPending, SettleIsALedgerStep
<1>3. CASE CommitBatch(d)
  <2>1. /\ tx # None /\ tx.owner = d /\ rows' = tx.rows
        /\ commits' = [i \in Ids |-> IF i \in tx.applied THEN commits[i] + 1 ELSE commits[i]]
        /\ lost' = lost \cup (Range(buf[d]) \ tx.applied)
    BY <1>3 DEF CommitBatch, InFlush
  <2>2. PICK ids \in Seq(Ids) : /\ HoldsOnce(ids)
                                /\ \A i : Holds(ids, i) <=> i \in tx.applied
                                /\ RunsEndIn(rows, saves, ids, rows')
    BY <2>1 DEF TxIsRun
  <2>3. \A i : Holds(ids, i) => i \in Range(buf[d])
    <3>1. \A i \in tx.applied : Holds(buf[d], i)
      <4>1. /\ tx.done \in Nat /\ Len(buf[d]) \in Nat /\ tx.done <= Len(buf[d])
            /\ \A i \in tx.applied : \E n \in 1 .. tx.done : buf[d][n] = i
        BY <2>1, QueuedAreIds DEF FateInv, TxOfBuffer, StoreInv, TypeOK, Transaction
      <4> QED
        BY <4>1 DEF Holds
    <3> QED
      BY <2>2, <3>1, BufferedIsPending
  <2>4. \A i \in Ids : commits'[i] > 0 <=> commits[i] > 0 \/ Holds(ids, i)
    <3>1. \A i \in Ids : commits[i] \in Nat
      BY DEF StoreInv, TypeOK
    <3> QED
      BY <2>1, <2>2, <3>1
  <2>5. \A i : i \in lost' <=> i \in lost \/ (i \in Range(buf[d]) /\ ~ Holds(ids, i))
    BY <2>1, <2>2
  <2> QED
    BY <1>1, <2>2, <2>3, <2>4, <2>5, BufferedIsPending, SettleIsALedgerStep
<1> QED
  BY <1>2, <1>3

LEMMA SingleIsALedgerStep ==
  ASSUME StoreInv, FateInv, NEW s \in Savers, CommitSingle(s) \/ CommitSingleFails(s)
  PROVE  [Ledger!Next]_(Ledger!vars)
<1>1. PICK i \in Ids : /\ i = direct[s] /\ i # None /\ i <= Len(saves) /\ ~ Settled(i)
  BY DEF CommitSingle, CommitSingleFails, StoreInv, TypeOK, Known,
         FateInv, SettledApart
<1>2. saves' = saves /\ {i} \in SUBSET Ids /\ commits \in [Ids -> Nat]
  BY DEF CommitSingle, CommitSingleFails, StoreInv, TypeOK
<1>3. CASE CommitSingleFails(s)
  <2>1. UNCHANGED <<rows, commits>> /\ lost' = lost \cup {i}
    BY <1>1, <1>3 DEF CommitSingleFails
  <2>2. <<>> \in Seq(Ids) /\ RunsEndIn(rows, saves, <<>>, rows')
    BY <2>1, EmptyRun, EmptySeq
  <2> QED
    BY <1>1, <1>2, <2>1, <2>2, EmptyHoldsNothing, SettleIsALedgerStep
<1>4. CASE CommitSingle(s)
  <2>1. /\ rows' = Upsert(rows, saves[i].key, saves[i].data)
        /\ commits' = [commits EXCEPT ![i] = @ + 1] /\ lost' = lost
    BY <1>1, <1>4 DEF CommitSingle
  <2>2. PICK ids \in Seq(Ids) : ids = Append(<<>>, i)
    BY EmptySeq, AppendProperties
  <2>3. RunsEndIn(rows, saves, ids, rows')
    <3>1. <<>> \in Seq(Ids) /\ RunsEndIn(rows, saves, <<>>, rows)
      BY EmptyRun, EmptySeq
    <3> QED
      BY <2>1, <2>2, <3>1, NextRun
  <2>4. HoldsOnce(ids) /\ \A j : Holds(ids, j) <=> j = i
    <3>1. <<>> \in Seq(Ids)
      BY EmptySeq
    <3> QED
      BY <2>2, <3>1, EmptyHoldsNothing, AppendHolds
  <2>5. \A j \in Ids : commits'[j] > 0 <=> commits[j] > 0 \/ Holds(ids, j)
    <3>1. commits[i] \in Nat /\ commits'[i] = commits[i] + 1
      BY <1>2, <2>1
    <3>2. \A j \in Ids : j # i => commits'[j] = commits[j]
      BY <1>2, <2>1
    <3> QED
      BY <2>4, <3>1, <3>2
  <2>6. \A j : j \in lost' <=> j \in lost \/ (j \in {i} /\ ~ Holds(ids, j))
    BY <2>1, <2>4
  <2> QED
    BY <1>1, <1>2, <2>3, <2>4, <2>5, <2>6, SettleIsALedgerStep
<1> QED
  BY <1>3, <1>4

LEMMA SaveIsALedgerStep ==
  ASSUME StoreInv, FateInv, NEW s \in Savers, NEW k \in Keys, NEW p \in Data,
         Enqueue(s, k, p) \/ Overflow(s, k, p)
  PROVE  [Ledger!Next]_(Ledger!vars)
<1>1. /\ saves' = Append(saves, [key |-> k, data |-> p])
      /\ UNCHANGED <<rows, commits, lost>>
      /\ Len(saves) < MaxSaves
  BY DEF Enqueue, Overflow, NewSave
<1>2. PICK i : i = Len(saves) + 1 /\ i \in Ids /\ Len(saves') = i /\ Len(saves) \in Nat
  <2>1. saves \in Seq([key : Keys, data : Data]) /\ Len(saves) \in Nat
    BY QueuedAreIds DEF StoreInv, TypeOK
  <2> QED
    BY <1>1, <2>1, AppendProperties, BoundsAssumption DEF Ids
<1>3. ~ (commits[i] > 0)
  BY <1>2, NewNumberIsFree DEF Settled
<1>4. {j \in 1 .. Len(saves) : commits[j] > 0}' = {j \in 1 .. Len(saves) : commits[j] > 0}
  <2>1. \A j : j \in 1 .. Len(saves') <=> j \in 1 .. Len(saves) \/ j = i
    BY <1>2
  <2>2. commits' = commits
    BY <1>1
  <2> QED
    BY <1>3, <2>1, <2>2
<1>5. [key |-> k, data |-> p] \in Ledger!Save
  BY DEF Ledger!Save
<1>6. Ledger!Submit
  BY <1>1, <1>4, <1>5 DEF Ledger!Submit
<1> QED
  BY <1>6 DEF Ledger!Next

LEMMA TxRunStep ==
  ASSUME StoreInv, FateInv, TxIsRun, [Next]_vars
  PROVE  TxIsRun'
<1>1. CASE tx' = None
  BY <1>1 DEF TxIsRun
<1>2. CASE tx' = tx /\ rows' = rows /\ saves' = saves
  BY <1>2 DEF TxIsRun
<1>3. ASSUME NEW s \in Savers, NEW k \in Keys, NEW p \in Data,
             Enqueue(s, k, p) \/ Overflow(s, k, p), tx # None
      PROVE  TxIsRun'
  <2>1. /\ saves' = Append(saves, [key |-> k, data |-> p])
        /\ UNCHANGED <<rows, tx>>
    BY <1>3 DEF Enqueue, Overflow, NewSave
  <2>2. PICK ids \in Seq(Ids) : /\ HoldsOnce(ids)
                                /\ \A i : Holds(ids, i) <=> i \in tx.applied
                                /\ RunsEndIn(rows, saves, ids, tx.rows)
    BY <1>3 DEF TxIsRun
  <2>3. \A i \in tx.applied : i \in 1 .. Len(saves)
    <3>1. tx \in Transaction /\ tx.owner \in Drainers
      BY <1>3 DEF StoreInv, TypeOK, Transaction
    <3>2. \A i \in tx.applied : Holds(buf[tx.owner], i)
      <4>1. /\ tx.done \in Nat /\ Len(buf[tx.owner]) \in Nat
            /\ tx.done <= Len(buf[tx.owner])
            /\ \A i \in tx.applied : \E n \in 1 .. tx.done : buf[tx.owner][n] = i
        BY <1>3, <3>1, QueuedAreIds
        DEF FateInv, TxOfBuffer, StoreInv, TypeOK, Transaction
      <4> QED
        BY <4>1 DEF Holds
    <3>3. \A i \in tx.applied : i \in Ids /\ i <= Len(saves)
      BY <3>1, <3>2, BufferedIsPending
    <3> QED
      BY <3>3, QueuedAreIds DEF StoreInv, Ids
  <2>4. \A i : Holds(ids, i) => saves[i] = saves'[i]
    <3>1. saves \in Seq([key : Keys, data : Data])
      BY DEF StoreInv, TypeOK
    <3> QED
      BY <2>1, <2>2, <2>3, <3>1, AppendProperties
  <2>5. RunsEndIn(rows, saves', ids, tx.rows)
    BY <2>2, <2>4, RunOfEarlierSaves
  <2> QED
    BY <2>1, <2>2, <2>5 DEF TxIsRun
<1>4. ASSUME NEW d \in Drainers, BeginBatch(d)
      PROVE  TxIsRun'
  <2>1. tx'.rows = rows /\ tx'.applied = {} /\ UNCHANGED <<rows, saves>>
    BY <1>4 DEF BeginBatch, history
  <2>2. <<>> \in Seq(Ids) /\ HoldsOnce(<<>>) /\ \A i : ~ Holds(<<>>, i)
    BY EmptySeq, EmptyHoldsNothing
  <2>3. RunsEndIn(rows, saves, <<>>, rows)
    BY EmptyRun
  <2> QED
    BY <2>1, <2>2, <2>3 DEF TxIsRun
<1>5. ASSUME NEW d \in Drainers, ExecNext(d)
      PROVE  TxIsRun'
  <2>1. /\ tx # None /\ tx.owner = d /\ tx.done < Len(buf[d])
        /\ UNCHANGED <<rows, saves>>
        /\ tx \in Transaction /\ tx.done \in Nat
    BY <1>5 DEF ExecNext, InFlush, history, StoreInv, TypeOK, Transaction
  <2>2. PICK ids \in Seq(Ids) : /\ HoldsOnce(ids)
                                /\ \A i : Holds(ids, i) <=> i \in tx.applied
                                /\ RunsEndIn(rows, saves, ids, tx.rows)
    BY <2>1 DEF TxIsRun
  <2>3. PICK i \in Ids : i = buf[d][tx.done + 1]
    <3>1. tx.done + 1 \in 1 .. Len(buf[d])
      BY <2>1, QueuedAreIds DEF StoreInv
    <3> QED
      BY <3>1, QueuedAreIds DEF StoreInv
  <2>4. ~ Holds(ids, i)
    <3>1. \A j \in tx.applied : \E n \in 1 .. tx.done : buf[d][n] = j
      BY <2>1 DEF FateInv, TxOfBuffer
    <3>2. Len(buf[d]) \in Nat
      BY QueuedAreIds DEF StoreInv
    <3>3. \A n \in 1 .. tx.done : n \in 1 .. Len(buf[d]) /\ n # tx.done + 1
      BY <2>1, <3>2
    <3>4. tx.done + 1 \in 1 .. Len(buf[d])
      BY <2>1, <3>2
    <3>5. \A n \in 1 .. tx.done : buf[d][n] # i
      BY <2>3, <3>3, <3>4 DEF FateInv, QueuesApart, HoldsOnce
    <3> QED
      BY <2>2, <3>1, <3>5
  <2>5. \/ tx' = [tx EXCEPT !.done = @ + 1, !.applied = @ \cup {i},
                            !.rows = Upsert(@, saves[i].key, saves[i].data)]
        \/ tx' = [tx EXCEPT !.done = @ + 1]
    BY <1>5, <2>3 DEF ExecNext
  <2>6. tx = [owner |-> tx.owner, rows |-> tx.rows, done |-> tx.done, applied |-> tx.applied]
    BY <2>1 DEF Transaction
  <2>7. CASE tx' = [tx EXCEPT !.done = @ + 1]
    <3>1. tx'.rows = tx.rows /\ tx'.applied = tx.applied
      BY <2>6, <2>7
    <3> QED
      BY <2>1, <2>2, <3>1 DEF TxIsRun
  <2>8. CASE tx' = [tx EXCEPT !.done = @ + 1, !.applied = @ \cup {i},
                              !.rows = Upsert(@, saves[i].key, saves[i].data)]
    <3>1. PICK view : view = Upsert(tx.rows, saves[i].key, saves[i].data)
      OBVIOUS
    <3>2. tx' = [owner |-> tx.owner, rows |-> view, done |-> tx.done + 1,
                 applied |-> tx.applied \cup {i}]
      BY <2>6, <2>8, <3>1
    <3>3. tx'.rows = view /\ tx'.applied = tx.applied \cup {i}
      BY <3>2
    <3>4. PICK more \in Seq(Ids) : more = Append(ids, i)
      BY AppendProperties
    <3>5. RunsEndIn(rows, saves, more, view)
      BY <2>2, <3>1, <3>4, NextRun
    <3>6. HoldsOnce(more) /\ \A j : Holds(more, j) <=> Holds(ids, j) \/ j = i
      BY <2>2, <2>4, <3>4, AppendHolds
    <3>7. \A j : Holds(more, j) <=> j \in tx'.applied
      BY <2>2, <3>3, <3>6
    <3> QED
      BY <2>1, <3>3, <3>5, <3>6, <3>7 DEF TxIsRun
  <2> QED
    BY <2>5, <2>7, <2>8
<1>6. ASSUME NEW d \in Drainers, FlushBatch(d)
      PROVE  TxIsRun'
  <2>1. CASE BeginFails(d) /\ tx' # None
    BY <1>2, <2>1 DEF BeginFails, EndFlush
  <2>2. CASE CommitBatch(d) \/ CommitBatchFails(d)
    BY <1>1, <2>2 DEF CommitBatch, CommitBatchFails
  <2> QED
    BY <1>1, <1>4, <1>5, <1>6, <2>1, <2>2 DEF FlushBatch
<1>7. ASSUME NEW s \in Savers, SaverStep(s)
      PROVE  TxIsRun'
  <2>1. CASE CommitSingle(s)
    <3>1. tx' = None
      BY <2>1 DEF CommitSingle
    <3> QED
      BY <1>1, <3>1
  <2>2. CASE CommitSingleFails(s)
    BY <1>2, <2>2 DEF CommitSingleFails
  <2>3. ASSUME NEW k \in Keys, NEW p \in Data, Enqueue(s, k, p) \/ Overflow(s, k, p)
        PROVE  TxIsRun'
    <3>1. tx' = tx
      BY <2>3 DEF Enqueue, Overflow, NewSave
    <3> QED
      BY <1>1, <1>3, <2>3, <3>1
  <2> QED
    BY <1>7, <2>1, <2>2, <2>3 DEF SaverStep
<1>8. ASSUME NEW d \in Drainers, Receive(d) \/ Drained(d)
      PROVE  TxIsRun'
  BY <1>2, <1>8 DEF Receive, Drained, history
<1>9. ASSUME \/ TickerFlush \/ NoticeClose \/ CallClose \/ CloseDatabase \/ UNCHANGED vars
             \/ \E f \in Flushers : CallFlush(f)
      PROVE  TxIsRun'
  BY <1>2, <1>9
  DEF TickerFlush, NoticeClose, CallClose, CloseDatabase, CallFlush, vars, history
<1>10. CASE PurgeDeadProxies
  BY <1>1, <1>10 DEF PurgeDeadProxies
<1>11. Committer \in Drainers /\ Flushers \subseteq Drainers
  BY DEF Drainers
<1> QED
  BY <1>6, <1>7, <1>8, <1>9, <1>10, <1>11 DEF Next, CommitterStep, FlushStep

LEMMA StepIsALedgerStep ==
  ASSUME StoreInv, FateInv, TxIsRun, [Next]_vars
  PROVE  [Ledger!Next]_(Ledger!vars)
<1>1. ASSUME NEW s \in Savers, SaverStep(s)
      PROVE  [Ledger!Next]_(Ledger!vars)
  BY <1>1, SaveIsALedgerStep, SingleIsALedgerStep DEF SaverStep
<1>2. CASE UNCHANGED <<rows, saves, commits, lost>>
  BY <1>2 DEF Ledger!vars
<1>3. ASSUME NEW d \in Drainers, FlushBatch(d)
      PROVE  [Ledger!Next]_(Ledger!vars)
  <2>1. BeginBatch(d) \/ ExecNext(d) => UNCHANGED <<rows, saves, commits, lost>>
    BY DEF BeginBatch, ExecNext, history
  <2> QED
    BY <1>2, <1>3, <2>1, CommitIsALedgerStep DEF FlushBatch
<1>4. ASSUME NEW d \in Drainers, Receive(d) \/ Drained(d)
      PROVE  [Ledger!Next]_(Ledger!vars)
  BY <1>2, <1>4 DEF Receive, Drained, history
<1>5. ASSUME \/ TickerFlush \/ NoticeClose \/ CallClose \/ CloseDatabase \/ UNCHANGED vars
             \/ \E f \in Flushers : CallFlush(f)
      PROVE  [Ledger!Next]_(Ledger!vars)
  BY <1>2, <1>5
  DEF TickerFlush, NoticeClose, CallClose, CloseDatabase, CallFlush, vars, history
<1>6. CASE PurgeDeadProxies
  <2>1. UNCHANGED <<saves, commits, lost>>
        /\ \E old \in SUBSET Keys : rows' = Ledger!Purged(rows, MaxFail, old)
    BY <1>6, LedgerStatements DEF PurgeDeadProxies, history
  <2> QED
    BY <2>1 DEF Ledger!Next, Ledger!Purge
<1>7. Committer \in Drainers /\ Flushers \subseteq Drainers
  BY DEF Drainers
<1> QED
  BY <1>1, <1>3, <1>4, <1>5, <1>6, <1>7 DEF Next, CommitterStep, FlushStep

(* The store implements the ledger: whatever way a save travels, the table *)
(* changes only by whole batches of pending saves, each applied at most    *)
(* once and one after the other, and by purges.                            *)
THEOREM StoreImplementsLedger == Spec => ImplementsLedger
<1>1. Init => Ledger!Init
  BY DEF Init, Ledger!Init
<1>2. Init => TxIsRun
  BY DEF Init, TxIsRun
<1>3. StoreInv /\ FateInv /\ TxIsRun /\ [Next]_vars => TxIsRun'
  BY TxRunStep
<1>4. StoreInv /\ FateInv /\ TxIsRun /\ [Next]_vars => [Ledger!Next]_(Ledger!vars)
  BY StepIsALedgerStep
<1>5. Spec => [](StoreInv /\ FateInv)
  BY FateInvariant
<1> QED
  BY <1>1, <1>2, <1>3, <1>4, <1>5, PTL DEF Spec, ImplementsLedger, Ledger!Spec
=============================================================================
