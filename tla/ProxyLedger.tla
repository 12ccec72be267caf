---------------------------- MODULE ProxyLedger ----------------------------
(***************************************************************************)
(* What the asynchronous store promises to its callers: every save is      *)
(* applied to the table at most once and as a whole, in no promised order, *)
(* or is given up; what is neither is still pending.  How saves travel     *)
(* (channel, committer's buffer, Flush, synchronous fallback) is BatchStore*)
(* which implements this module.                                           *)
(***************************************************************************)
EXTENDS ProxyRows, SequencesExt

CONSTANTS
  Data,       \* the contents that callers save
  MaxFail     \* the purge threshold of PurgeDeadProxies

VARIABLES
  rows,       \* the table
  saves,      \* the saves so far, in order: [key, data]
  committed,  \* the saves that are in the table
  lost        \* the saves that were given up

vars == <<rows, saves, committed, lost>>

Save == [key : Keys, data : Data]

Init ==
  /\ rows = [k \in Keys |-> NoRow]
  /\ saves = <<>>
  /\ committed = {}
  /\ lost = {}

Pending == (1 .. Len(saves)) \ (committed \cup lost)

Submit ==
  /\ \E s \in Save : saves' = Append(saves, s)
  /\ UNCHANGED <<rows, committed, lost>>

(* The table after a batch of saves, one Exec after the other.             *)
ApplyAll(table, ids) ==
  LET view[n \in 0 .. Len(ids)] ==
        IF n = 0 THEN table
        ELSE Upsert(view[n - 1], saves[ids[n]].key, saves[ids[n]].data)
  IN  view[Len(ids)]

(* One transaction: a batch of pending saves becomes visible at once, and  *)
(* others that were to go with it are given up.                            *)
Settle ==
  \E batch \in SUBSET Pending :
    /\ batch # {}
    /\ \E ids \in SetToAllKPermutations(batch) :
         /\ rows' = ApplyAll(rows, ids)
         /\ committed' = committed \cup ToSet(ids)
         /\ lost' = lost \cup (batch \ ToSet(ids))
    /\ UNCHANGED saves

Purge ==
  /\ \E old \in SUBSET Keys : rows' = Purged(rows, MaxFail, old)
  /\ UNCHANGED <<saves, committed, lost>>

Next == Submit \/ Settle \/ Purge

Spec == Init /\ [][Next]_vars
=============================================================================
