------------------------- MODULE CheckCommandProofs -------------------------
(***************************************************************************)
(* Proofs about CheckCommand: what holds of the scan and of its shutdown   *)
(* for every input, number of workers, capacity and order of signals.  The *)
(* invariant is PipeInv for the pipeline, and beside it what main has      *)
(* already waited for when it closes the store and the files.              *)
(***************************************************************************)
EXTENDS CheckCommand, PipelineProofs

ShutdownInv ==
  /\ main # "waiting" => ctxDone
  /\ main \notin {"waiting", "stopping"} => WorkersExited
  /\ HasStore =>
       /\ store = "closed" <=> main \in {"closeExporter", "summary", "done"}
       /\ store = "closed" => Pending = {}
  /\ ~ exporterOpen => main \in {"summary", "done"}
  /\ exited = "clean" => main = "done"
  /\ committed \cup lost \subseteq Range(saved)

CheckInv == PipeInv /\ CheckTypeOK /\ ShutdownInv

LEMMA CheckInvInit == CheckInit => CheckInv
<1> SUFFICES ASSUME CheckInit PROVE CheckInv
  OBVIOUS
<1>1. PipeInv
  BY PipeInvInit DEF CheckInit
<1>2. CheckTypeOK
  BY <1>1, HasStoreAssumption DEF CheckInit, CheckTypeOK, PipeInv
<1>3. ShutdownInv
  BY DEF CheckInit, ShutdownInv
<1> QED
  BY <1>1, <1>2, <1>3 DEF CheckInv

(* A worker that has exited takes no step, so nothing that main has waited *)
(* for comes undone.                                                       *)
LEMMA ExitedStay ==
  ASSUME TypeOK, WorkersExited, Next
  PROVE  UNCHANGED <<work, saved>>
<1>1. \A w \in Workers : work[w].pc = "exited"
  BY DEF WorkersExited
<1>2. ~ \E w \in Workers : WorkerStep(w)
  BY <1>1 DEF WorkerStep, WorkerExits, TakeJob, CheckIPPort, RecordResult, WriteAlive,
            LineIsLost, SaveProxy
<1>3. ReadLine \/ QueueLine \/ \E k \in Keys : ForgetKey(k)
  BY <1>2 DEF Next
<1> QED
  BY <1>3 DEF ReadLine, ReadCancelled, EndOfInput, SkipLine, AcceptLine, QueueLine, IncQueued,
              PushJob, PushCancelled, ForgetKey

(* The context stays cancelled, and the jobs and saves stay what they are. *)
LEMMA PipelineGrows ==
  ASSUME PipeInv, Next
  PROVE  /\ ctxDone' = ctxDone
         /\ JobIds \subseteq JobIds'
         /\ Range(saved) \subseteq Range(saved')
<1> USE DEF PipeInv
<1>1. ctxDone' = ctxDone
  BY DEF Next, ReadLine, ReadCancelled, EndOfInput, SkipLine, AcceptLine, QueueLine, IncQueued,
         PushJob, PushCancelled, ForgetKey, WorkerStep, WorkerExits, TakeJob, CheckIPPort,
         RecordResult, WriteAlive, LineIsLost, SaveProxy
<1>2. CASE AcceptLine
  <2>1. Len(accepted') = Len(accepted) + 1
    <3>1. Lines[ingest.line] \in Keys
      <4>1. Lines[ingest.line] \in Keys \cup {Junk}
        BY <1>2, LinesAssumption, LenProperties, ElementOfSeq DEF AcceptLine, TypeOK
      <4> QED
        BY <1>2, <4>1 DEF AcceptLine
    <3> QED
      BY <1>2, <3>1, AppendFacts DEF AcceptLine, TypeOK
  <2> QED
    BY <1>1, <1>2, <2>1, PartTypes DEF AcceptLine, JobIds
<1>3. ASSUME NEW w \in Workers, SaveProxy(w)
      PROVE  UNCHANGED accepted /\ Range(saved) \subseteq Range(saved')
  <2>1. work[w].job \in JobIds
    BY <1>3, BusyJob DEF SaveProxy, Busy
  <2> QED
    BY <1>3, <2>1, AppendFacts DEF SaveProxy, TypeOK
<1>4. ASSUME ~ AcceptLine, ~ \E w \in Workers : SaveProxy(w)
      PROVE  UNCHANGED <<accepted, saved>>
  BY <1>4 DEF Next, ReadLine, ReadCancelled, EndOfInput, SkipLine, QueueLine, IncQueued,
         PushJob, PushCancelled, ForgetKey, WorkerStep, WorkerExits, TakeJob, CheckIPPort,
         RecordResult, WriteAlive, LineIsLost
<1> QED
  BY <1>1, <1>2, <1>3, <1>4 DEF JobIds

LEMMA PipeStepKeepsInv ==
  ASSUME CheckInv, Pipe(Next)
  PROVE  CheckInv'
<1> USE DEF CheckInv
<1>1. Next /\ UNCHANGED cmdVars
  BY DEF Pipe
<1>2. PipeInv'
  BY <1>1, PipelineKeepsInv
<1>3. /\ ctxDone' = ctxDone /\ JobIds \subseteq JobIds' /\ Range(saved) \subseteq Range(saved')
  BY <1>1, PipelineGrows
<1>4. CheckTypeOK'
  BY <1>1, <1>2, <1>3 DEF cmdVars, CheckTypeOK, PipeInv
<1>5. WorkersExited => UNCHANGED <<work, saved>>
  BY <1>1, ExitedStay DEF PipeInv
<1>6. ShutdownInv'
  <2>1. main \notin {"waiting", "stopping"} => WorkersExited' /\ saved' = saved
    BY <1>5 DEF ShutdownInv, WorkersExited
  <2> QED
    BY <1>1, <1>3, <2>1 DEF cmdVars, ShutdownInv, Pending
<1> QED
  BY <1>2, <1>4, <1>6

(* The steps of the signal goroutine, of the committer and of main: they   *)
(* leave the pipeline alone, or cancel it, or have it read its input again.*)
LEMMA CommandStepKeepsInv ==
  ASSUME CheckInv,
         \/ ReportDone \/ NextPass
         \/ FirstSignal \/ SignalCancelsPipeline \/ SignalCancelsCommand \/ ForcedExit
         \/ CommitBatch \/ MainStep
  PROVE  CheckInv'
<1> USE DEF CheckInv
<1>1. ReadAgain \/ Cancel \/ UNCHANGED pipeVars
  BY DEF ReportDone, IngestEnds, NextPass, FirstSignal, SignalCancelsPipeline,
         SignalCancelsCommand, ForcedExit, CommitBatch, MainStep, CallStop, StopReturns,
         FlushAndCallClose, CloseReturns, CloseExporter, PrintSummaryAndExit
<1>2. PipeInv'
  BY <1>1, PipelineKeepsInv
<1>3. /\ UNCHANGED <<accepted, work, saved>> /\ (ctxDone => ctxDone')
      /\ JobIds' = JobIds /\ (WorkersExited' <=> WorkersExited)
  BY <1>1 DEF ReadAgain, Cancel, pipeVars, JobIds, WorkersExited
<1>4. Range(saved) \subseteq JobIds
  BY PartTypes DEF PipeInv
<1>5. CASE ReportDone \/ NextPass \/ FirstSignal \/ SignalCancelsPipeline
           \/ SignalCancelsCommand \/ ForcedExit
  <2>1. /\ UNCHANGED <<main, committed, lost, store, exporterOpen>>
        /\ exited' \in {exited, "forced"}
        /\ ingestDone' \in BOOLEAN /\ cmdDone' \in BOOLEAN
        /\ signal' \in {"none", "caught", "cancelled", "armed"}
    BY <1>5 DEF ReportDone, IngestEnds, NextPass, cmdVars, FirstSignal, SignalCancelsPipeline,
       SignalVars, SignalCancelsCommand, ForcedExit, CheckTypeOK
  <2>2. CheckTypeOK'
    BY <1>2, <1>3, <2>1 DEF CheckTypeOK, PipeInv
  <2>3. ShutdownInv'
    BY <1>3, <2>1 DEF ShutdownInv, Pending
  <2> QED
    BY <1>2, <2>2, <2>3
<1>6. CASE CommitBatch
  <2>1. /\ UNCHANGED <<main, ingestDone, cmdDone, signal, store, exporterOpen, exited>>
        /\ store # "closed"
        /\ committed' \cup lost' \subseteq committed \cup lost \cup Range(saved)
    BY <1>6 DEF CommitBatch, Pending
  <2>2. committed' \subseteq JobIds /\ lost' \subseteq JobIds
    BY <1>4, <2>1 DEF CheckTypeOK
  <2>3. CheckTypeOK'
    BY <1>2, <1>3, <2>1, <2>2 DEF CheckTypeOK, PipeInv
  <2>4. ShutdownInv'
    BY <1>3, <2>1 DEF ShutdownInv
  <2> QED
    BY <1>2, <2>3, <2>4
<1>7. CASE MainStep
  <2>1. UNCHANGED <<ingestDone, cmdDone, signal, committed, lost>>
    BY <1>7 DEF MainStep, CallStop, StopReturns, FlushAndCallClose, CloseReturns, CloseExporter,
                PrintSummaryAndExit, Proceed
  <2>2. /\ main' \in {"waiting", "stopping", "flush", "closeStore", "closeExporter", "summary",
                     "done"}
        /\ exporterOpen' \in BOOLEAN /\ store' \in {"open", "closing", "closed"}
        /\ exited' \in {"no", "clean", "forced"}
    BY <1>7 DEF MainStep, CallStop, StopReturns, FlushAndCallClose, CloseReturns, CloseExporter,
                PrintSummaryAndExit, Proceed, CheckTypeOK
  <2>3. CheckTypeOK'
    BY <1>2, <1>3, <2>1, <2>2 DEF CheckTypeOK, PipeInv
  <2>4. ShutdownInv'
    <3>1. CASE CallStop
      BY <1>3, <2>1, <3>1 DEF CallStop, Proceed, Cancel, ShutdownInv, Pending
    <3>2. CASE StopReturns
      BY <1>3, <2>1, <3>2, HasStoreAssumption DEF StopReturns, Proceed, ShutdownInv, Pending
    <3>3. CASE FlushAndCallClose
      BY <1>3, <2>1, <3>3 DEF FlushAndCallClose, Proceed, ShutdownInv, Pending
    <3>4. CASE CloseReturns
      BY <1>3, <2>1, <3>4 DEF CloseReturns, Proceed, ShutdownInv, Pending
    <3>5. CASE CloseExporter
      BY <1>3, <2>1, <3>5 DEF CloseExporter, Proceed, ShutdownInv, Pending
    <3>6. CASE PrintSummaryAndExit
      BY <1>3, <2>1, <3>6 DEF PrintSummaryAndExit, Proceed, ShutdownInv, Pending
    <3> QED
      BY <1>7, <3>1, <3>2, <3>3, <3>4, <3>5, <3>6 DEF MainStep
  <2> QED
    BY <1>2, <2>3, <2>4
<1> QED
  BY <1>5, <1>6, <1>7

(* The invariant that the theorems below are read off.                     *)
LEMMA CheckInvariant == CheckSpec => []CheckInv
<1>1. CheckInit => CheckInv
  BY CheckInvInit
<1>2. CheckInv /\ [CheckNext]_vars => CheckInv'
  <2>1. ASSUME CheckInv, Running PROVE CheckInv'
    BY <2>1, PipeStepKeepsInv, CommandStepKeepsInv DEF Running
  <2>2. ASSUME CheckInv, UNCHANGED vars PROVE CheckInv'
    <3>1. UNCHANGED pipeVars /\ UNCHANGED cmdVars
      BY <2>2 DEF vars
    <3>2. PipeInv'
      BY <2>2, <3>1, PipelineKeepsInv DEF CheckInv
    <3>3. UNCHANGED <<accepted, ctxDone, work, saved>>
      BY <3>1 DEF pipeVars
    <3>4. CheckTypeOK'
      BY <2>2, <3>1, <3>2, <3>3 DEF CheckInv, CheckTypeOK, cmdVars, PipeInv, JobIds
    <3>5. ShutdownInv'
      BY <2>2, <3>1, <3>3 DEF CheckInv, ShutdownInv, cmdVars, WorkersExited, Pending
    <3> QED
      BY <3>2, <3>4, <3>5 DEF CheckInv
  <2> QED
    BY <2>1, <2>2 DEF CheckNext
<1> QED
  BY <1>1, <1>2, PTL DEF CheckSpec

(* Every variable of the command and of its pipeline keeps its type: the   *)
(* channel never exceeds its capacity.                                     *)
THEOREM CheckTypeCorrect == CheckSpec => []CheckTypeOK
<1>1. CheckInv => CheckTypeOK
  BY DEF CheckInv
<1> QED
  BY <1>1, CheckInvariant, PTL

(* Every accepted job is in exactly one place, and counted as queued       *)
(* before it is counted as scanned (IngestFromReader, worker, processJob). *)
THEOREM NoJobIsLostOrRepeated == CheckSpec => []JobsConserved
<1>1. CheckInv => JobsConserved
  BY PipeInvMeans DEF CheckInv
<1> QED
  BY <1>1, CheckInvariant, PTL

(* The proxies counted as alive are in alive.txt once each, but for those  *)
(* that a worker has in hand and those whose line was lost because the     *)
(* file failed; with files that do not fail there are none of the latter   *)
(* (processJob, Exporter.WriteAlive).                                      *)
THEOREM CountersAgreeWithFiles == CheckSpec => []AliveIsExported
<1>1. CheckInv => AliveIsExported
  BY PipeInvMeans DEF CheckInv
<1> QED
  BY <1>1, CheckInvariant, PTL

(* Whenever the process ends, every row of the database is of a proxy that *)
(* went to the files before its save: it is in alive.txt, or alive.txt     *)
(* failed to take its line (the order of the two writes in processJob).    *)
THEOREM DatabaseIsWithinFiles == CheckSpec => []DbWithinFiles
<1>1. CheckInv => DbWithinFiles
  <2>1. ASSUME CheckInv PROVE FilesBeforeStore /\ committed \subseteq Range(saved)
    BY <2>1, PipeInvMeans DEF CheckInv, ShutdownInv
  <2> QED
    BY <2>1 DEF DbWithinFiles, FilesBeforeStore
<1> QED
  BY <1>1, CheckInvariant, PTL

(* No worker is left when the store or the files are closed: runCheck      *)
(* closes them only after p.Stop has returned.                             *)
THEOREM NothingWritesAfterClose == CheckSpec => []NoWorkAfterClose
<1>1. CheckInv => NoWorkAfterClose
  BY DEF CheckInv, ShutdownInv, NoWorkAfterClose
<1> QED
  BY <1>1, CheckInvariant, PTL

(* A command that reaches its summary has every working proxy in the files *)
(* unless its line failed and, either way, in the database unless its save *)
(* failed (the order of p.Stop and the closes in runCheck).                *)
THEOREM CleanExitLosesNothing == CheckSpec => []CleanExitIsComplete
<1>1. CheckInv => CleanExitIsComplete
  <2> SUFFICES ASSUME CheckInv, exited = "clean"
               PROVE  /\ stats.alive = Len(files) + Cardinality(missed)
                      /\ HasStore => Exported = committed \cup lost
    BY DEF CleanExitIsComplete
  <2>1. \A w \in Workers : work[w].pc = "exited"
    BY DEF CheckInv, ShutdownInv, WorkersExited
  <2>2. stats.alive = Len(files) + Cardinality(missed)
    <3>1. At({"export"}) = {}
      BY <2>1 DEF At
    <3>2. Writing = 0
      BY <3>1, FS_EmptySet DEF Writing
    <3>3. stats.alive = Written + Writing /\ Written \in Nat
      BY CountTypes DEF CheckInv, PipeInv, CountInv
    <3>4. stats.alive = Written
      BY <3>2, <3>3
    <3> QED
      BY <3>4 DEF Written
  <2>3. ASSUME HasStore PROVE Exported = committed \cup lost
    <3>1. Exported = Range(saved)
      BY <2>1, <2>3 DEF CheckInv, PipeInv, FilesInv
    <3>2. Range(saved) = committed \cup lost
      BY <2>3 DEF CheckInv, ShutdownInv, Pending
    <3> QED
      BY <3>1, <3>2
  <2> QED
    BY <2>2, <2>3
<1> QED
  BY <1>1, CheckInvariant, PTL
=============================================================================
