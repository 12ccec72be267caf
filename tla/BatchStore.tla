----------------------------- MODULE BatchStore -----------------------------
(***************************************************************************)
(* SQLiteStore (src/pkg/storage/sqlite.go): savers put proxies on a        *)
(* bounded channel, or write them synchronously when it is full; the       *)
(* committer goroutine collects them in a buffer of its own and writes     *)
(* them in one transaction when the buffer is full, on a ticker, and when  *)
(* the store is closed; Flush drains the channel from the caller's         *)
(* goroutine.  SQLite admits one writer at a time.                         *)
(*                                                                         *)
(* saves, commits, lost, backlog and due are history: they number the      *)
(* saves and record what became of each.                                   *)
(***************************************************************************)
EXTENDS ProxyRows, Sequences, FiniteSets, Functions

CONSTANTS
  Savers,      \* goroutines calling SaveOrUpdateProxy
  Flushers,    \* goroutines calling Flush
  Committer,   \* the batchCommitter goroutine
  Data,        \* the model.Proxy contents that callers save
  ChanCap,     \* capacity of batchChan, 50000 in the code
  BatchSize,   \* batchSize, 200 in the code
  MaxFail,     \* maxFail of PurgeDeadProxies, 5 in the code
  MayFail,     \* whether SQLite may return errors
  MaxSaves,    \* bound: how many saves are made
  None         \* no transaction, no save in hand

ASSUME BoundsAssumption ==
  /\ ChanCap \in Nat \ {0} /\ BatchSize \in Nat \ {0}
  /\ MaxFail \in Nat \ {0} /\ MaxSaves \in Nat
ASSUME DataAssumption == Data \subseteq Row /\ \A p \in Data : Consistent(p)
ASSUME ProcessAssumption == Committer \notin Flushers
ASSUME MayFailAssumption == MayFail \in BOOLEAN
ASSUME NoneAssumption == None \notin 1 .. MaxSaves

VARIABLES
  rows,      \* the committed table
  tx,        \* the open write transaction: its owner, its view, what it did
  chan,      \* batchChan
  buf,       \* the committer's buffer and the local buffers of Flush
  pc,        \* where each of these goroutines is
  flushing,  \* those of them that are inside flushBatch
  direct,    \* a saver in commitSingleProxy: the save it writes
  closing,   \* closeChan is closed
  open,      \* the database is open
  saves, commits, lost, backlog, due

vars == <<rows, tx, chan, buf, pc, flushing, direct, closing, open,
          saves, commits, lost, backlog, due>>
history == <<saves, commits, lost, backlog, due>>

Drainers == Flushers \cup {Committer}
Ids == 1 .. MaxSaves
Transaction == [owner : Drainers, rows : [Keys -> Row \cup {NoRow}],
                done : Nat, applied : SUBSET Ids]

Settled(i) == commits[i] > 0 \/ i \in lost

Init ==
  /\ rows = [k \in Keys |-> NoRow]
  /\ tx = None
  /\ chan = <<>>
  /\ buf = [d \in Drainers |-> <<>>]
  /\ pc = [d \in Drainers |-> IF d = Committer THEN "select" ELSE "idle"]
  /\ flushing = {}
  /\ direct = [s \in Savers |-> None]
  /\ closing = FALSE
  /\ open = TRUE
  /\ saves = <<>>
  /\ commits = [i \in Ids |-> 0]
  /\ lost = {}
  /\ backlog = {}
  /\ due = [f \in Flushers |-> {}]

(*************************** SaveOrUpdateProxy *****************************)

NewSave(s, k, p) ==
  /\ direct[s] = None
  /\ Len(saves) < MaxSaves
  /\ saves' = Append(saves, [key |-> k, data |-> p])
  /\ UNCHANGED <<rows, tx, buf, pc, flushing, closing, open, commits, lost, backlog, due>>

HasRoom == Len(chan) < ChanCap

Enqueue(s, k, p) ==
  /\ NewSave(s, k, p)
  /\ HasRoom
  /\ chan' = Append(chan, Len(saves) + 1)
  /\ UNCHANGED direct

(* The channel is full: the default branch writes the row synchronously.   *)
Overflow(s, k, p) ==
  /\ NewSave(s, k, p)
  /\ ~ HasRoom
  /\ direct' = [direct EXCEPT ![s] = Len(saves) + 1]
  /\ UNCHANGED chan

CommitSingle(s) ==
  /\ direct[s] # None
  /\ open /\ tx = None
  /\ rows' = Upsert(rows, saves[direct[s]].key, saves[direct[s]].data)
  /\ commits' = [commits EXCEPT ![direct[s]] = @ + 1]
  /\ direct' = [direct EXCEPT ![s] = None]
  /\ UNCHANGED <<tx, chan, buf, pc, flushing, closing, open, saves, lost, backlog, due>>

CommitSingleFails(s) ==
  /\ direct[s] # None
  /\ MayFail \/ ~ open
  /\ lost' = lost \cup {direct[s]}
  /\ direct' = [direct EXCEPT ![s] = None]
  /\ UNCHANGED <<rows, tx, chan, buf, pc, flushing, closing, open, saves, commits, backlog, due>>

(************** flushBatch: one transaction for a whole buffer *************)

InFlush(d) == d \in flushing /\ tx # None /\ tx.owner = d

(* Where a goroutine goes when flushBatch returns.                         *)
Resume(d) == IF pc[d] # "final" THEN pc[d] ELSE IF d = Committer THEN "done" ELSE "idle"

(* A call of Flush that returns in this step no longer owes anything.      *)
Forget(d) == [f \in Flushers |-> IF f = d THEN {} ELSE due[f]]

(* Mutant of Cleared: buffer = buffer[:0] is missing.                      *)
NotCleared(d) == buf

Cleared(d) == [buf EXCEPT ![d] = <<>>]

EndFlush(d) ==
  /\ buf' = Cleared(d)
  /\ pc' = [pc EXCEPT ![d] = Resume(d)]
  /\ flushing' = flushing \ {d}
  /\ due' = Forget(d)
  /\ UNCHANGED <<chan, direct, closing, open, saves, backlog>>

(* Begin and the first Exec, which takes SQLite's write lock.              *)
BeginBatch(d) ==
  /\ d \in flushing
  /\ open /\ tx = None
  /\ tx' = [owner |-> d, rows |-> rows, done |-> 0, applied |-> {}]
  /\ UNCHANGED <<rows, chan, buf, pc, flushing, direct, closing, open, history>>

(* Begin or Prepare returns an error: the whole batch is dropped.          *)
BeginFails(d) ==
  /\ d \in flushing /\ ~ InFlush(d)
  /\ MayFail \/ ~ open
  /\ lost' = lost \cup Range(buf[d])
  /\ EndFlush(d)
  /\ UNCHANGED <<rows, tx, commits>>

(* Exec of the next proxy; its error is ignored.                           *)
ExecNext(d) ==
  /\ InFlush(d)
  /\ tx.done < Len(buf[d])
  /\ LET i == buf[d][tx.done + 1]
     IN  \/ tx' = [tx EXCEPT !.done = @ + 1, !.applied = @ \cup {i},
                             !.rows = Upsert(@, saves[i].key, saves[i].data)]
         \/ MayFail /\ tx' = [tx EXCEPT !.done = @ + 1]
  /\ UNCHANGED <<rows, chan, buf, pc, flushing, direct, closing, open, history>>

CommitBatch(d) ==
  /\ InFlush(d)
  /\ tx.done = Len(buf[d])
  /\ rows' = tx.rows
  /\ commits' = [i \in Ids |-> IF i \in tx.applied THEN commits[i] + 1 ELSE commits[i]]
  /\ lost' = lost \cup (Range(buf[d]) \ tx.applied)
  /\ tx' = None
  /\ EndFlush(d)

CommitBatchFails(d) ==
  /\ InFlush(d)
  /\ MayFail
  /\ tx.done = Len(buf[d])
  /\ lost' = lost \cup Range(buf[d])
  /\ tx' = None
  /\ EndFlush(d)
  /\ UNCHANGED <<rows, commits>>

(************************* the committer and Flush *************************)

(* One receive.  The committer writes when its buffer is full; Flush       *)
(* collects until the channel is empty.                                    *)
Receive(d) ==
  /\ d \notin flushing
  /\ pc[d] \in {"select", "drain"}
  /\ chan # <<>>
  /\ buf' = [buf EXCEPT ![d] = Append(@, Head(chan))]
  /\ chan' = Tail(chan)
  /\ flushing' = IF d = Committer /\ Len(buf[d]) + 1 >= BatchSize
                 THEN flushing \cup {d} ELSE flushing
  /\ UNCHANGED <<rows, tx, pc, direct, closing, open, history>>

(* Mutant of Waiting: the ticker, too, waits for a full batch.             *)
WaitingForFullBatch == Len(buf[Committer]) >= BatchSize

Waiting == buf[Committer] # <<>>

(* The ticker fires while something is buffered.                           *)
TickerFlush ==
  /\ pc[Committer] = "select" /\ Committer \notin flushing
  /\ Waiting
  /\ flushing' = flushing \cup {Committer}
  /\ UNCHANGED <<rows, tx, chan, buf, pc, direct, closing, open, history>>

(* Mutant of NoticeClose: the committer returns without draining.          *)
NoticeCloseAndReturn ==
  /\ pc[Committer] = "select" /\ Committer \notin flushing
  /\ closing
  /\ pc' = [pc EXCEPT ![Committer] = "done"]
  /\ UNCHANGED <<rows, tx, chan, buf, flushing, direct, closing, open, history>>

NoticeClose ==
  /\ pc[Committer] = "select" /\ Committer \notin flushing
  /\ closing
  /\ pc' = [pc EXCEPT ![Committer] = "drain"]
  /\ UNCHANGED <<rows, tx, chan, buf, flushing, direct, closing, open, history>>

(* The default branch of the two draining loops.                           *)
Drained(d) ==
  /\ pc[d] = "drain" /\ d \notin flushing
  /\ chan = <<>>
  /\ IF buf[d] = <<>>
     THEN /\ pc' = [pc EXCEPT ![d] = IF d = Committer THEN "done" ELSE "idle"]
          /\ due' = Forget(d)
          /\ UNCHANGED flushing
     ELSE /\ pc' = [pc EXCEPT ![d] = "final"]
          /\ flushing' = flushing \cup {d}
          /\ UNCHANGED due
  /\ UNCHANGED <<rows, tx, chan, buf, direct, closing, open, saves, commits, lost, backlog>>

(* Saves whose call has returned: enqueued, or written synchronously.      *)
Returned == 1 .. Len(saves) \ Range(direct)

CallFlush(f) ==
  /\ pc[f] = "idle"
  /\ pc' = [pc EXCEPT ![f] = "drain"]
  /\ due' = [due EXCEPT ![f] = Returned]
  /\ UNCHANGED <<rows, tx, chan, buf, flushing, direct, closing, open,
                 saves, commits, lost, backlog>>

(************************** Close and the purge ****************************)

CallClose ==
  /\ ~ closing
  /\ closing' = TRUE
  /\ backlog' = Returned
  /\ UNCHANGED <<rows, tx, chan, buf, pc, flushing, direct, open, saves, commits, lost, due>>

(* wg.Wait has returned; a transaction that is under way may still finish. *)
CloseDatabase ==
  /\ closing /\ open
  /\ pc[Committer] = "done"
  /\ open' = FALSE
  /\ UNCHANGED <<rows, tx, chan, buf, pc, flushing, direct, closing, history>>

PurgeDeadProxies ==
  /\ open /\ tx = None
  /\ \E old \in SUBSET Keys : rows' = Purged(rows, MaxFail, old)
  /\ UNCHANGED <<tx, chan, buf, pc, flushing, direct, closing, open, history>>

SaverStep(s) ==
  \/ \E k \in Keys, p \in Data : Enqueue(s, k, p) \/ Overflow(s, k, p)
  \/ CommitSingle(s)
  \/ CommitSingleFails(s)

FlushBatch(d) ==
  BeginBatch(d) \/ BeginFails(d) \/ ExecNext(d) \/ CommitBatch(d) \/ CommitBatchFails(d)

CommitterStep ==
  Receive(Committer) \/ TickerFlush \/ NoticeClose \/ Drained(Committer) \/ FlushBatch(Committer)

FlushStep(f) == Receive(f) \/ Drained(f) \/ FlushBatch(f)

Next ==
  \/ \E s \in Savers : SaverStep(s)
  \/ CommitterStep
  \/ \E f \in Flushers : CallFlush(f) \/ FlushStep(f)
  \/ CallClose
  \/ CloseDatabase
  \/ PurgeDeadProxies

Spec == Init /\ [][Next]_vars

(* The committer goroutine runs until it returns, its ticker fires again   *)
(* and again; a call of Flush, Close or the synchronous write that has     *)
(* begun goes on.  Nobody has to call anything.                            *)
Fairness ==
  /\ WF_vars(CommitterStep)
  /\ WF_vars(CloseDatabase)
  /\ \A f \in Flushers : WF_vars(FlushStep(f))
  /\ \A s \in Savers : WF_vars(CommitSingle(s) \/ CommitSingleFails(s))

FairSpec == Spec /\ Fairness

-----------------------------------------------------------------------------

(* The goroutines, the channel and the table are well typed.               *)
TypeOK ==
  /\ rows \in [Keys -> Row \cup {NoRow}]
  /\ tx \in Transaction \cup {None}
  /\ chan \in Seq(Ids) /\ Len(chan) <= ChanCap
  /\ buf \in [Drainers -> Seq(Ids)]
  /\ pc \in [Drainers -> {"select", "idle", "drain", "final", "done"}]
  /\ flushing \subseteq Drainers
  /\ direct \in [Savers -> Ids \cup {None}]
  /\ closing \in BOOLEAN /\ open \in BOOLEAN
  /\ saves \in Seq([key : Keys, data : Data]) /\ Len(saves) <= MaxSaves
  /\ commits \in [Ids -> Nat]
  /\ lost \subseteq Ids /\ backlog \subseteq Ids
  /\ due \in [Flushers -> SUBSET Ids]

(* Everywhere save i is: each queue position that holds it, each commit.   *)
Places(i) ==
  {<<"chan", n>> : n \in {m \in DOMAIN chan : chan[m] = i}}
  \cup (UNION {{<<d, n>> : n \in {m \in DOMAIN buf[d] : buf[d][m] = i}} : d \in Drainers})
  \cup {<<s>> : s \in {t \in Savers : direct[t] = i}}
  \cup {<<"commit", n>> : n \in 1 .. commits[i]}
  \cup (IF i \in lost THEN {<<"lost">>} ELSE {})

(* No save is duplicated or forgotten on its way: it is in one queue, or   *)
(* was applied to the table exactly once, or was given up on an error,     *)
(* although three kinds of goroutine take saves from the same channel.     *)
EachSaveHasOneFate == \A i \in 1 .. Len(saves) : Cardinality(Places(i)) = 1

(* In the table, and in a transaction's view, a proxy is alive exactly     *)
(* when it has no failure since its last success: PurgeDeadProxies and the *)
(* recheck order read the one column as if it implied the other.           *)
RowsConsistent ==
  /\ \A k \in Keys : rows[k] # NoRow => Consistent(rows[k])
  /\ tx # None => \A k \in Keys : tx.rows[k] # NoRow => Consistent(tx.rows[k])

(* Once Close has returned, whatever was saved before Close was called is  *)
(* in the table or was given up on an error, except what a concurrent      *)
(* Flush had already taken from the channel.                               *)
CloseCommitsBacklog ==
  ~ open => \A i \in backlog : Settled(i) \/ \E f \in Flushers : i \in Range(buf[f])

(* A save that returned before Close is settled in the end.                *)
SavesAreSettled ==
  \A i \in Ids : (i \in Returned /\ ~ closing) ~> Settled(i)

(* Flush "immediately commits all currently buffered items in the batch    *)
(* channel" (sqlite.go:211), and sqlite_test.go:41-53 expects a saved row  *)
(* to be there after it: when Flush has returned, the saves that returned  *)
(* before it was called are settled.                                       *)
FlushMakesSavesVisible ==
  [][\A f \in Flushers :
       pc[f] # "idle" /\ pc'[f] = "idle" => \A i \in due[f] : Settled(i)']_vars

Ledger == INSTANCE ProxyLedger
            WITH committed <- {i \in 1 .. Len(saves) : commits[i] > 0}

(* The store behaves as the ledger its callers count on: each commit makes *)
(* a batch of pending saves visible at once, each save at most once.       *)
ImplementsLedger == Ledger!Spec
=============================================================================
