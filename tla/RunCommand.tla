----------------------------- MODULE RunCommand -----------------------------
(***************************************************************************)
(* The two commands that run the daemon, to the end of the process.        *)
(* daemon (src/cmd/daemon.go): main is inside Daemon.Run, a goroutine turns*)
(* the first signal into a cancellation, and when Run has returned the     *)
(* deferred calls close the exporter and the store.                        *)
(* run (src/cmd/run.go): Run is a goroutine, main waits for the signal; the*)
(* deferred calls close the API server, cancel the context and close the   *)
(* exporter and the store, and nobody waits for Run.                       *)
(*                                                                         *)
(* After SQLiteStore.Close a save goes into a channel that nobody reads,   *)
(* and the other operations return errors, which the daemon ignores.       *)
(***************************************************************************)
EXTENDS Daemon

VARIABLES
  command,   \* "daemon" or "run"
  main,      \* running; server, store, drain: what main closes; exited
  open,      \* the database is open
  due        \* history: the saves the store had when Close was called

mainVars == <<command, main, open, due>>
runVars == <<allVars, mainVars>>

RunInit ==
  /\ DaemonInit
  /\ command \in {"daemon", "run"}
  /\ main = "running" /\ open = TRUE /\ due = {}

(****************************** the daemon *********************************)

(* Begin fails and drops what Flush has taken from the channel.            *)
FlushOfClosed ==
  /\ cycle = "flush"
  /\ lost' = lost \cup Pending
  /\ cycle' = "purge"
  /\ UNCHANGED <<rows, saves, committed, ctxDone, count, read, todo, work, found, alive, history>>

QueryStep == (open /\ StartCycle) \/ QueryFails
CycleGoesOn ==
  \/ WaitWorkers \/ SyncAliveFiles \/ RunReturns
  \/ open /\ (Flush \/ PurgeDeadProxies)
  \/ ~ open /\ (FlushOfClosed \/ (PurgeDeadProxies /\ UNCHANGED store))

(* A transaction of Flush that is under way may outlast Close.             *)
CommitStep == (open \/ cycle = "flush") /\ CommitSaves

(* The goroutines of the daemon and the store live as long as the process. *)
Alive(step) == main # "exited" /\ step /\ UNCHANGED mainVars

(********************************* main ************************************)

(* Only the first signal is received, by the goroutine that cancels ...     *)
SignalCancels ==
  /\ command = "daemon" /\ main = "running"
  /\ Cancel
  /\ UNCHANGED mainVars

(* ... or by main, which first closes the server: that waits for clients,  *)
(* at most five seconds.                                                   *)
SignalStopsServer ==
  /\ command = "run" /\ main = "running"
  /\ main' = "server"
  /\ UNCHANGED <<allVars, command, open, due>>

(* Mutant of RunHasReturned: main waits for the signal, and not for Run.   *)
RunIsCancelled ==
  /\ command = "daemon" /\ main = "running"
  /\ ctxDone
  /\ main' = "store"
  /\ UNCHANGED <<allVars, command, open, due>>

RunHasReturned ==
  /\ command = "daemon" /\ main = "running"
  /\ cycle = "returned"
  /\ main' = "store"
  /\ UNCHANGED <<allVars, command, open, due>>

CancelAndCloseExporter ==
  /\ main = "server"
  /\ Cancel
  /\ main' = "store"
  /\ UNCHANGED <<command, open, due>>

CloseStore ==
  /\ main = "store"
  /\ main' = "drain"
  /\ due' = Pending
  /\ UNCHANGED <<allVars, command, open>>

(* The committer returns when it has committed what it found; what Flush   *)
(* took from the channel at the same time it does not wait for.            *)
CloseDatabase ==
  /\ main = "drain"
  /\ open
  /\ due \cap Pending = {} \/ cycle = "flush"
  /\ open' = FALSE
  /\ UNCHANGED <<allVars, command, main, due>>

Exit ==
  /\ main = "drain" /\ ~ open
  /\ main' = "exited"
  /\ UNCHANGED <<allVars, command, open, due>>

MainStep ==
  \/ RunHasReturned \/ CancelAndCloseExporter \/ CloseStore \/ CloseDatabase \/ Exit

RunNext ==
  \/ SignalCancels \/ SignalStopsServer \/ MainStep
  \/ Alive(QueryStep) \/ Alive(CycleGoesOn) \/ Alive(CommitStep)
  \/ \E w \in Workers : Alive(WorkerStep(w))

(* Checks end (every connection has a deadline), the committer's ticker    *)
(* fires, the server's shutdown has a deadline, and goroutines are         *)
(* scheduled; the signal need not come.                                    *)
RunFairness ==
  /\ WF_runVars(MainStep)
  /\ WF_runVars(Alive(QueryStep)) /\ WF_runVars(Alive(CycleGoesOn))
  /\ WF_runVars(Alive(CommitStep))
  /\ \A w \in Workers : WF_runVars(Alive(WorkerStep(w)))

RunSpec == RunInit /\ [][RunNext]_runVars /\ RunFairness

-----------------------------------------------------------------------------

(* The daemon command ends with nothing saved and not settled, because it  *)
(* closes the store after the last worker has returned.  The run command   *)
(* loses at most what the daemon saved after Close was called, and what a  *)
(* Flush had in hand at that moment.                                       *)
ExitKeepsSaves ==
  main = "exited" =>
    /\ command = "daemon" => Pending = {}
    /\ due \cap Pending # {} => cycle = "flush"

(* A signal ends the process, although workers leave proxies in the        *)
(* channel, and although the daemon goes on while the store is closed.     *)
SignalEndsCommand == ctxDone \/ main = "server" ~> main = "exited"
=============================================================================
