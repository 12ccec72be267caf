---------------------------- MODULE CheckCommand ----------------------------
(***************************************************************************)
(* The check command (src/cmd/check.go): the scan pipeline together with   *)
(* the goroutine that feeds it, the signal goroutine, the store and the    *)
(* shutdown that main runs.  The store is the one its callers may count on *)
(* (module ProxyLedger): pending saves are committed in batches, in no     *)
(* promised order, and Close waits until none is left.                     *)
(***************************************************************************)
EXTENDS Pipeline

CONSTANTS
  Loop,       \* Engine.Loop and an input file
  MayFail     \* whether SQLite may return errors

ASSUME FlagsAssumption == Loop \in BOOLEAN /\ MayFail \in BOOLEAN

VARIABLES
  main,         \* where runCheck is
  ingestDone,   \* the ingestion goroutine has reported
  cmdDone,      \* the command's own context is cancelled
  signal,       \* where the signal goroutine is
  committed,    \* jobs whose row is in the database
  lost,         \* jobs whose save failed
  store,        \* the SQLite store: open, closing, closed
  exporterOpen, \* the output files are open
  exited        \* os.Exit: not yet, at the end, or forced by a signal

cmdVars == <<main, ingestDone, cmdDone, signal, committed, lost, store, exporterOpen, exited>>
vars == <<pipeVars, cmdVars>>

CheckInit ==
  /\ Init
  /\ main = "waiting"
  /\ ingestDone = FALSE
  /\ cmdDone = FALSE
  /\ signal = "none"
  /\ committed = {} /\ lost = {}
  /\ store = IF HasStore THEN "open" ELSE "closed"
  /\ exporterOpen = TRUE
  /\ exited = "no"

(************************ the ingestion goroutine **************************)

IngestEnds ==
  /\ ingestDone' = TRUE
  /\ UNCHANGED <<pipeVars, main, cmdDone, signal, committed, lost, store, exporterOpen, exited>>

(* Without --loop, or when the file cannot be opened again, it reports ... *)
ReportDone ==
  /\ IngestReturned /\ ~ ingestDone
  /\ IngestEnds

(* ... and with --loop it reads the file again after two seconds, unless   *)
(* the command was cancelled.                                              *)
NextPass ==
  /\ Loop /\ ~ ingestDone
  /\ ReadAgain
  /\ UNCHANGED cmdVars

(************************** the signal goroutine ***************************)

SignalVars(s) ==
  /\ signal' = s
  /\ UNCHANGED <<main, ingestDone, committed, lost, store, exporterOpen, exited>>

FirstSignal ==
  /\ signal = "none"
  /\ SignalVars("caught")
  /\ UNCHANGED <<pipeVars, cmdDone>>

SignalCancelsPipeline ==
  /\ signal = "caught"
  /\ SignalVars("cancelled")
  /\ Cancel
  /\ UNCHANGED cmdDone

SignalCancelsCommand ==
  /\ signal = "cancelled"
  /\ SignalVars("armed")
  /\ cmdDone' = TRUE
  /\ UNCHANGED pipeVars

(* Mutant of ForcedExit: without the two-second timer only a second signal *)
(* ends a program that hangs.                                              *)
ForcedExitBySecondSignal == FALSE /\ UNCHANGED vars

(* The two seconds pass, or a second signal arrives.                       *)
ForcedExit ==
  /\ signal = "armed"
  /\ exited' = "forced"
  /\ UNCHANGED <<pipeVars, main, ingestDone, cmdDone, signal, committed, lost, store, exporterOpen>>

(******************************** the store ********************************)

Pending == Range(saved) \ (committed \cup lost)

CommitBatch ==
  /\ store # "closed"
  /\ \E batch \in (SUBSET Pending) \ {{}} : \E kept \in SUBSET batch :
       /\ kept = batch \/ MayFail
       /\ committed' = committed \cup kept
       /\ lost' = lost \cup (batch \ kept)
  /\ UNCHANGED <<pipeVars, main, ingestDone, cmdDone, signal, store, exporterOpen, exited>>

(******************** the end of runCheck, step by step ********************)

Proceed(to) ==
  /\ main' = to
  /\ UNCHANGED <<ingestDone, cmdDone, signal, committed, lost>>

(* The select, and p.Stop: it cancels the workers although the channel may *)
(* still hold jobs ...                                                     *)
CallStop ==
  /\ main = "waiting"
  /\ ingestDone \/ cmdDone
  /\ Proceed("stopping")
  /\ Cancel
  /\ UNCHANGED <<store, exporterOpen, exited>>

(* Mutant of StopReturns: wg.Wait is missing.                              *)
StopReturnsAtOnce ==
  /\ main = "stopping"
  /\ Proceed(IF HasStore THEN "flush" ELSE "closeExporter")
  /\ UNCHANGED <<pipeVars, store, exporterOpen, exited>>

(* ... and waits for those that are at work.                               *)
StopReturns ==
  /\ main = "stopping"
  /\ WorkersExited
  /\ Proceed(IF HasStore THEN "flush" ELSE "closeExporter")
  /\ UNCHANGED <<pipeVars, store, exporterOpen, exited>>

(* store.Flush commits what it finds in the channel (CommitBatch), and     *)
(* store.Close tells the committer to drain the rest.                      *)
FlushAndCallClose ==
  /\ main = "flush"
  /\ Proceed("closeStore")
  /\ store' = "closing"
  /\ UNCHANGED <<pipeVars, exporterOpen, exited>>

(* Mutant of CloseReturns: Close does not wait for the committer.          *)
CloseReturnsAtOnce ==
  /\ main = "closeStore"
  /\ Proceed("closeExporter")
  /\ store' = "closed"
  /\ UNCHANGED <<pipeVars, exporterOpen, exited>>

CloseReturns ==
  /\ main = "closeStore"
  /\ Pending = {}
  /\ Proceed("closeExporter")
  /\ store' = "closed"
  /\ UNCHANGED <<pipeVars, exporterOpen, exited>>

CloseExporter ==
  /\ main = "closeExporter"
  /\ Proceed("summary")
  /\ exporterOpen' = FALSE
  /\ UNCHANGED <<pipeVars, store, exited>>

PrintSummaryAndExit ==
  /\ main = "summary"
  /\ Proceed("done")
  /\ exited' = "clean"
  /\ UNCHANGED <<pipeVars, store, exporterOpen>>

MainStep ==
  \/ CallStop \/ StopReturns \/ FlushAndCallClose \/ CloseReturns
  \/ CloseExporter \/ PrintSummaryAndExit

-----------------------------------------------------------------------------

Pipe(step) == step /\ UNCHANGED cmdVars

Running ==
  \/ Pipe(Next)
  \/ ReportDone \/ NextPass
  \/ FirstSignal \/ SignalCancelsPipeline \/ SignalCancelsCommand \/ ForcedExit
  \/ CommitBatch
  \/ MainStep

(* os.Exit ends every goroutine where it is.                               *)
CheckNext ==
  \/ exited = "no" /\ Running
  \/ exited # "no" /\ UNCHANGED vars

CheckSpec == CheckInit /\ [][CheckNext]_vars

(* A goroutine's step is taken only while the process runs.                *)
Alive(step) == exited = "no" /\ step

(* The signal goroutine and its timer run, the workers and main are        *)
(* scheduled (a check ends: its connections have deadlines).  The next     *)
(* line may never come, and SQLite may never let the committer write.      *)
CheckFairness ==
  /\ WF_vars(Alive(SignalCancelsPipeline))
  /\ WF_vars(Alive(SignalCancelsCommand))
  /\ WF_vars(Alive(ForcedExit))
  /\ WF_vars(Alive(Pipe(QueueLine)))
  /\ \A w \in Workers : WF_vars(Alive(Pipe(WorkerStep(w))))
  /\ WF_vars(Alive(MainStep))

FairCheckSpec == CheckSpec /\ CheckFairness

-----------------------------------------------------------------------------

(* Every variable of the command has its type, those of its pipeline       *)
(* included.                                                               *)
CheckTypeOK ==
  /\ TypeOK
  /\ main \in {"waiting", "stopping", "flush", "closeStore", "closeExporter", "summary", "done"}
  /\ ingestDone \in BOOLEAN /\ cmdDone \in BOOLEAN /\ exporterOpen \in BOOLEAN
  /\ signal \in {"none", "caught", "cancelled", "armed"}
  /\ committed \subseteq JobIds /\ lost \subseteq JobIds
  /\ store \in {"open", "closing", "closed"}
  /\ exited \in {"no", "clean", "forced"}

(* Whenever the process ends, every row of the database belongs to a proxy *)
(* that went to the output files before its save (the order of the two     *)
(* writes in processJob), and no proxy is saved twice.  A forced exit can  *)
(* only lose rows that the files still have; the database holds a proxy    *)
(* that alive.txt does not only if alive.txt failed to take its line.      *)
DbWithinFiles == FilesBeforeStore /\ committed \subseteq Exported

(* A worker never writes to a closed store or to closed files, and none is *)
(* at work when they are closed, so no save is put on a channel that       *)
(* nobody reads any more.                                                  *)
NoWorkAfterClose == (HasStore /\ store = "closed") \/ ~ exporterOpen => WorkersExited

(* When the command reaches its summary, every proxy it counted as alive   *)
(* is in alive.txt unless its line failed, and, whether or not it did, in  *)
(* the database unless its save failed: no shutdown loses anything.        *)
CleanExitIsComplete ==
  exited = "clean" =>
    /\ stats.alive = Len(files) + Cardinality(missed)
    /\ HasStore => Exported = committed \cup lost

(* After an interrupt the process ends even if the store cannot write, or  *)
(* the reader waits for input forever.                                     *)
SignalEndsProcess == signal # "none" ~> exited # "no"

(* When the input has been read, the command ends by itself, unless SQLite *)
(* never lets the committer write.                                         *)
ScanEnds == WF_vars(Alive(CommitBatch)) => (ingestDone ~> exited # "no")

(* "processes a stream of IP addresses ..., validates them ... and exports *)
(* healthy proxies" (check.go:37-39), and Stop "waits for all jobs in      *)
(* processing to end" (pipeline.go:245): a scan that ends by itself has    *)
(* exported every accepted proxy that works.                               *)
ScanCoversInput ==
  exited = "clean" /\ signal = "none" =>
    \A i \in JobIds : Verdicts[accepted[i]] = {TRUE} => i \in Range(files)
=============================================================================
