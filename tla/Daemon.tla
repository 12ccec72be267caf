------------------------------- MODULE Daemon -------------------------------
(***************************************************************************)
(* The health daemon (src/pkg/daemon/daemon.go): every interval it reads   *)
(* the table, checks the proxies with a pool of workers, saves each        *)
(* verdict through the asynchronous store, flushes, purges dead rows and   *)
(* rewrites the output files; a signal cancels its context.                *)
(*                                                                         *)
(* The store is the one of module ProxyLedger: saves are committed in any  *)
(* order and at any time, also after Flush has returned.  A check command  *)
(* started by cron may share the database and the files (DEPLOYMENT.md).   *)
(***************************************************************************)
EXTENDS ProxyLedger, FiniteSets

CONSTANTS
  Workers,      \* the goroutines of a cycle
  Verdicts,     \* what a check of a key may find when it is not cancelled
  InitialRows,  \* what a row may be when the daemon starts
  QueryLimit,   \* Limit of QueryProxies, 15000 in the code
  BatchSize,    \* how many saves the committer may have in hand, 200
  MayCancel,    \* whether a signal may arrive
  MaxScans,     \* bound: proxies that a check command beside it finds
  MaxCycles,    \* bound: recheck cycles
  None          \* a worker without a proxy

ASSUME KeysAssumption == IsFiniteSet(Keys)
ASSUME WorkersAssumption == Workers # {}   \* NewDaemon: none given means 500
ASSUME LimitsAssumption ==
  /\ QueryLimit \in Nat \ {0} /\ BatchSize \in Nat /\ MaxCycles \in Nat \ {0} /\ MaxScans \in Nat
ASSUME MayCancelAssumption == MayCancel \in BOOLEAN
ASSUME InitialRowsAssumption ==
  InitialRows \subseteq Row \cup {NoRow} /\ \A r \in InitialRows \ {NoRow} : Consistent(r)
ASSUME VerdictsAssumption == Verdicts \in [Keys -> (SUBSET BOOLEAN) \ {{}}] /\ None \notin Keys

VARIABLES
  ctxDone,   \* the context is cancelled
  cycle,     \* where recheckPool is: idle, check, flush, purge, sync, returned
  count,     \* how many cycles have begun
  read,      \* the rows that QueryProxies returned, NoRow for the others
  todo,      \* the jobs channel: the proxies no worker has taken
  work,      \* the workers: [pc, key, ok]
  found,     \* aliveList
  alive,     \* the lines of alive.txt
  start,     \* history: the table when the daemon started
  checked,   \* history: proxies whose verdict this cycle saved
  dropped,   \* history: proxies a cancelled worker took and did not check
  scans      \* history: how many proxies the check command found

store == <<rows, saves, committed, lost>>
history == <<start, checked, dropped, scans>>
daemonVars == <<ctxDone, cycle, count, read, todo, work, found, alive, history>>
allVars == <<store, daemonVars>>

Rested == [w \in Workers |-> [pc |-> "idle", key |-> None, ok |-> FALSE]]
Stored(table) == {k \in Keys : table[k] # NoRow}

DaemonInit ==
  /\ rows \in [Keys -> InitialRows]
  /\ saves = <<>> /\ committed = {} /\ lost = {}
  /\ ctxDone = FALSE
  /\ cycle = "idle" /\ count = 0
  /\ read = [k \in Keys |-> NoRow]
  /\ todo = {} /\ work = Rested /\ found = {}
  /\ alive = {k \in Keys : rows[k] # NoRow /\ rows[k].alive}
  /\ start = rows /\ checked = {} /\ dropped = {} /\ scans = 0

SaveOrUpdateProxy(k, p) ==
  /\ saves' = Append(saves, [key |-> k, data |-> p])
  /\ UNCHANGED <<rows, committed, lost>>

(******************************* recheckPool *******************************)

(* QueryProxies returns the best rows up to the limit; the order in which  *)
(* they are checked depends on columns that are left out here.  Run starts *)
(* a cycle although the context may be done: its select takes either case. *)
StartCycle ==
  /\ cycle = "idle" /\ count < MaxCycles
  /\ \E best \in SUBSET Stored(rows) :
       /\ Cardinality(best) <= QueryLimit
       /\ Cardinality(best) = QueryLimit \/ best = Stored(rows)
       /\ read' = [k \in Keys |-> IF k \in best THEN rows[k] ELSE NoRow]
       /\ todo' = best
       /\ cycle' = IF best = {} THEN "idle" ELSE "check"
  /\ count' = count + 1
  /\ work' = Rested /\ found' = {} /\ checked' = {} /\ dropped' = {}
  /\ UNCHANGED <<store, ctxDone, alive, start, scans>>

QueryFails ==
  /\ cycle = "idle" /\ count < MaxCycles
  /\ count' = count + 1
  /\ UNCHANGED <<store, ctxDone, cycle, read, todo, work, found, alive, history>>

(* Mutant of TakeProxy: the branches of the select are swapped.            *)
TakeProxyAndReturn(w) ==
  /\ cycle = "check" /\ work[w].pc = "idle"
  /\ \E k \in todo :
       /\ todo' = todo \ {k}
       /\ work' = [work EXCEPT ![w] = [pc |-> "gone", key |-> None, ok |-> FALSE]]
       /\ dropped' = dropped \cup {k}
  /\ UNCHANGED <<store, ctxDone, cycle, count, read, found, alive, start, checked, scans>>

(* Mutant of TakeProxy: the context is not looked at.                      *)
TakeProxyAlways(w) ==
  /\ cycle = "check" /\ work[w].pc = "idle"
  /\ \E k \in todo :
       /\ todo' = todo \ {k}
       /\ work' = [work EXCEPT ![w].pc = "check", ![w].key = k]
  /\ UNCHANGED <<store, ctxDone, cycle, count, read, found, alive, start, checked, dropped, scans>>

(* A worker looks at the context after it has taken a proxy; if that is    *)
(* done it returns, and the proxy is not checked.                          *)
TakeProxy(w) ==
  /\ cycle = "check" /\ work[w].pc = "idle"
  /\ \E k \in todo :
       /\ todo' = todo \ {k}
       /\ IF ctxDone
          THEN /\ work' = [work EXCEPT ![w].pc = "gone"]
               /\ dropped' = dropped \cup {k}
          ELSE /\ work' = [work EXCEPT ![w].pc = "check", ![w].key = k]
               /\ UNCHANGED dropped
  /\ UNCHANGED <<store, ctxDone, cycle, count, read, found, alive, start, checked, scans>>

(* Connections fail once the context is done (see Pipeline).               *)
CheckIPPort(w) ==
  /\ work[w].pc = "check"
  /\ \E ok \in Verdicts[work[w].key] \cup (IF ctxDone THEN {FALSE} ELSE {}) :
       work' = [work EXCEPT ![w].pc = "save", ![w].ok = ok]
  /\ UNCHANGED <<store, ctxDone, cycle, count, read, todo, found, alive, history>>

SaveVerdict(w) ==
  /\ work[w].pc = "save"
  /\ SaveOrUpdateProxy(work[w].key, Rechecked(read[work[w].key], work[w].ok))
  /\ found' = IF work[w].ok THEN found \cup {work[w].key} ELSE found
  /\ checked' = checked \cup {work[w].key}
  /\ work' = [work EXCEPT ![w] = Rested[w]]
  /\ UNCHANGED <<ctxDone, cycle, count, read, todo, alive, start, dropped, scans>>

(* Mutants of WorkersReturned: wg.Wait is missing; a worker that returns   *)
(* early does not call wg.Done.                                            *)
WorkersReturnedAtOnce == TRUE
WorkersReturnedIdle == todo = {} /\ \A w \in Workers : work[w].pc = "idle"

(* A worker returns when the closed channel is empty, or cancelled.        *)
WorkersReturned ==
  \A w \in Workers : work[w].pc = "gone" \/ (work[w].pc = "idle" /\ todo = {})

WaitWorkers ==
  /\ cycle = "check"
  /\ WorkersReturned
  /\ cycle' = "flush"
  /\ UNCHANGED <<store, ctxDone, count, read, todo, work, found, alive, history>>

(* Flush leaves what the committer holds in its own buffer (BatchStore).   *)
Flush ==
  /\ cycle = "flush"
  /\ Cardinality(Pending) <= BatchSize
  /\ cycle' = "purge"
  /\ UNCHANGED <<store, ctxDone, count, read, todo, work, found, alive, history>>

(* Its error, too, is ignored.                                             *)
PurgeDeadProxies ==
  /\ cycle = "purge"
  /\ Purge \/ UNCHANGED store
  /\ cycle' = "sync"
  /\ UNCHANGED <<ctxDone, count, read, todo, work, found, alive, history>>

(* SyncAliveFiles, if a proxy was found alive; the cycle ends.             *)
SyncAliveFiles ==
  /\ cycle = "sync"
  /\ alive' = IF found # {} THEN found ELSE alive
  /\ cycle' = "idle"
  /\ UNCHANGED <<store, ctxDone, count, read, todo, work, found, history>>

RunReturns ==
  /\ cycle = "idle" /\ count > 0 /\ ctxDone
  /\ cycle' = "returned"
  /\ UNCHANGED <<store, ctxDone, count, read, todo, work, found, alive, history>>

(************************** around the daemon ******************************)

Cancel ==
  /\ MayCancel /\ ~ ctxDone
  /\ ctxDone' = TRUE
  /\ UNCHANGED <<store, cycle, count, read, todo, work, found, alive, history>>

(* A check command finds a proxy: files first, then the store.             *)
ScanFinds(k) ==
  /\ scans < MaxScans /\ TRUE \in Verdicts[k]
  /\ alive' = alive \cup {k}
  /\ SaveOrUpdateProxy(k, Scanned)
  /\ scans' = scans + 1
  /\ UNCHANGED <<ctxDone, cycle, count, read, todo, work, found, start, checked, dropped>>

CommitSaves == Settle /\ UNCHANGED daemonVars

WorkerStep(w) == TakeProxy(w) \/ CheckIPPort(w) \/ SaveVerdict(w)
CycleStep == WaitWorkers \/ Flush \/ PurgeDeadProxies \/ SyncAliveFiles \/ RunReturns

DaemonNext ==
  \/ StartCycle \/ QueryFails
  \/ \E w \in Workers : WorkerStep(w)
  \/ CycleStep
  \/ Cancel
  \/ \E k \in Keys : ScanFinds(k)
  \/ CommitSaves

DaemonSpec == DaemonInit /\ [][DaemonNext]_allVars

-----------------------------------------------------------------------------

Saved(k) == {i \in DOMAIN saves : saves[i].key = k}
InHand == {work[w].key : w \in Workers} \ {None}

(* The cycle, the workers and the store are well typed; a worker has a     *)
(* proxy in hand only while the cycle waits for it.                        *)
DaemonTypeOK ==
  /\ rows \in [Keys -> Row \cup {NoRow}] /\ start \in [Keys -> Row \cup {NoRow}]
  /\ saves \in Seq([key : Keys, data : Row])
  /\ committed \subseteq DOMAIN saves /\ lost \subseteq DOMAIN saves \ committed
  /\ ctxDone \in BOOLEAN
  /\ cycle \in {"idle", "check", "flush", "purge", "sync", "returned"}
  /\ count \in 0 .. MaxCycles /\ scans \in 0 .. MaxScans
  /\ read \in [Keys -> Row \cup {NoRow}]
  /\ todo \subseteq Keys /\ found \subseteq Keys /\ alive \subseteq Keys
  /\ checked \subseteq Keys /\ dropped \subseteq Keys
  /\ work \in [Workers -> [pc : {"idle", "check", "save", "gone"},
                           key : Keys \cup {None}, ok : BOOLEAN]]
  /\ InHand # {} => cycle = "check"

(* Every proxy a cycle read is checked and saved exactly once, whichever   *)
(* worker takes it; only a cancelled cycle leaves some out, and none is    *)
(* left when an uncancelled cycle goes on to purge and synchronise.        *)
OnceEachCycle ==
  /\ Stored(read) = todo \cup InHand \cup checked \cup dropped
  /\ Cardinality(Stored(read)) =
       Cardinality(todo) + Cardinality(InHand) + Cardinality(checked) + Cardinality(dropped)
  /\ dropped # {} \/ (todo # {} /\ cycle # "check") => ctxDone

(* No failure is counted twice, although the daemon adds one to            *)
(* ConsecutiveFail and the upsert adds one to the column, and although     *)
(* a purge may delete the row between the two: a proxy is purged for as    *)
(* many failures as checks found.                                          *)
FailsAreChecks ==
  \A k \in Stored(rows) :
    rows[k].fails <= (IF start[k] = NoRow THEN 0 ELSE start[k].fails)
      + Cardinality({i \in Saved(k) \cap committed : ~ saves[i].data.alive})

(* A proxy that every check of the daemon and the scans found alive is in  *)
(* the table as alive from the first commit on: neither a purge that reads *)
(* the table while saves are pending, nor the order of commits, loses it.  *)
HealthyProxyIsKept ==
  \A k \in Keys :
    /\ Saved(k) \cap committed # {}
    /\ \A i \in Saved(k) : saves[i].data.alive
    => rows[k] # NoRow /\ rows[k].alive

(* A signal costs a working proxy at most one failed check, the one that    *)
(* was under way: no later cycle that begins although the context is done   *)
(* counts it as failed again.                                               *)
CancelCostsOneFailure ==
  \A k \in Keys : Verdicts[k] = {TRUE} =>
    Cardinality({i \in Saved(k) : ~ saves[i].data.alive}) <= 1

(* alive.txt is the "list of all living proxies" (README.md:455): a proxy  *)
(* that answers every check is never taken out of it.                      *)
LiveProxiesStayListed ==
  [][\A k \in alive : Verdicts[k] = {TRUE} => k \in alive']_allVars
=============================================================================
