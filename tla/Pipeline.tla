------------------------------ MODULE Pipeline ------------------------------
(***************************************************************************)
(* The scan pipeline (src/pkg/pipeline/pipeline.go): IngestFromReader      *)
(* turns input lines into jobs on a bounded channel, a pool of workers     *)
(* checks them, counts the results, appends working proxies to the output  *)
(* files and hands them to the store; one context cancels all of them.     *)
(*                                                                         *)
(* A job is named by the number IngestFromReader accepted it under, so     *)
(* that the same address accepted again in a later pass is another job.    *)
(***************************************************************************)
EXTENDS Integers, Sequences, FiniteSets, Functions

CONSTANTS
  Workers,    \* the worker goroutines
  Keys,       \* the "ip:port:protocol" of a job
  Lines,      \* the input: keys, and Junk for what parseLineToJob refuses
  Junk,       \* an empty line, a comment, or a line with no address
  QueueCap,   \* capacity of jobsChan, Engine.MaxQueueSize
  Verdicts,   \* what a check of a key may find when it is not cancelled
  HasStore,   \* FALSE with --no-db, or when the database does not open
  FilesMayFail, \* whether alive.txt may fail to open or to take a line
  MaxPasses   \* bound: how often the input is read (--loop)

ASSUME WorkersAssumption == IsFiniteSet(Workers)
ASSUME LinesAssumption == Lines \in Seq(Keys \cup {Junk}) /\ Junk \notin Keys
ASSUME QueueCapAssumption == QueueCap \in Nat \ {0} /\ MaxPasses \in Nat \ {0}
ASSUME HasStoreAssumption == HasStore \in BOOLEAN /\ FilesMayFail \in BOOLEAN
ASSUME VerdictsAssumption == Verdicts \in [Keys -> (SUBSET BOOLEAN) \ {{}}]

VARIABLES
  ctxDone,    \* the pipeline's context is cancelled
  ingest,     \* IngestFromReader: where it is, its next line, its pass,
              \* and whether a cancelled push dropped a job
  seen,       \* keys that CheckAndSet refuses: let through within the window
  accepted,   \* history: the key of each job, in the order of acceptance
  jobs,       \* jobsChan
  work,       \* the workers: where each is, its job, the verdict
  stats,      \* the counters of model.Stats that the pipeline moves
  recorded,   \* history: jobs whose result was counted, with the verdict
  files,      \* the lines of alive.txt
  missed,     \* history: jobs whose line alive.txt did not take
  saved       \* the calls of SaveOrUpdateProxy

pipeVars == <<ctxDone, ingest, seen, accepted, jobs, work, stats, recorded, files, missed, saved>>

JobIds == 1 .. Len(accepted)

Init ==
  /\ ctxDone = FALSE
  /\ ingest = [pc |-> "read", line |-> 1, pass |-> 1, dropped |-> 0]
  /\ seen = {}
  /\ accepted = <<>>
  /\ jobs = <<>>
  /\ work = [w \in Workers |-> [pc |-> "idle", job |-> 0, ok |-> FALSE]]
  /\ stats = [queued |-> 0, scanned |-> 0, alive |-> 0, dead |-> 0]
  /\ recorded = {}
  /\ files = <<>> /\ missed = {}
  /\ saved = <<>>

(*************************** IngestFromReader ******************************)

NextLine == [ingest EXCEPT !.pc = "read", !.line = @ + 1]

(* The context is looked at before each line.                              *)
ReadCancelled ==
  /\ ingest.pc = "read" /\ ingest.line <= Len(Lines) /\ ctxDone
  /\ ingest' = [ingest EXCEPT !.pc = "cancelled"]
  /\ UNCHANGED <<ctxDone, seen, accepted, jobs, work, stats, recorded, files, missed, saved>>

EndOfInput ==
  /\ ingest.pc = "read" /\ ingest.line > Len(Lines)
  /\ ingest' = [ingest EXCEPT !.pc = "eof"]
  /\ UNCHANGED <<ctxDone, seen, accepted, jobs, work, stats, recorded, files, missed, saved>>

(* A line that is no address, or that CheckAndSet has seen, is skipped.    *)
SkipLine ==
  /\ ingest.pc = "read" /\ ingest.line <= Len(Lines) /\ ~ ctxDone
  /\ Lines[ingest.line] \in seen \cup {Junk}
  /\ ingest' = NextLine
  /\ UNCHANGED <<ctxDone, seen, accepted, jobs, work, stats, recorded, files, missed, saved>>

AcceptLine ==
  /\ ingest.pc = "read" /\ ingest.line <= Len(Lines) /\ ~ ctxDone
  /\ Lines[ingest.line] \notin seen \cup {Junk}
  /\ seen' = seen \cup {Lines[ingest.line]}
  /\ accepted' = Append(accepted, Lines[ingest.line])
  /\ ingest' = [ingest EXCEPT !.pc = "count"]
  /\ UNCHANGED <<ctxDone, jobs, work, stats, recorded, files, missed, saved>>

IncQueued ==
  /\ ingest.pc = "count"
  /\ stats' = [stats EXCEPT !.queued = @ + 1]
  /\ ingest' = [ingest EXCEPT !.pc = "push"]
  /\ UNCHANGED <<ctxDone, seen, accepted, jobs, work, recorded, files, missed, saved>>

RoomInQueue == Len(jobs) < QueueCap

(* The two branches of the select: a cancelled context may be preferred    *)
(* over room in the channel, and room over a cancelled context.            *)
PushJob ==
  /\ ingest.pc = "push"
  /\ RoomInQueue
  /\ jobs' = Append(jobs, Len(accepted))
  /\ ingest' = NextLine
  /\ UNCHANGED <<ctxDone, seen, accepted, work, stats, recorded, files, missed, saved>>

PushCancelled ==
  /\ ingest.pc = "push" /\ ctxDone
  /\ ingest' = [ingest EXCEPT !.pc = "cancelled", !.dropped = 1]
  /\ UNCHANGED <<ctxDone, seen, accepted, jobs, work, stats, recorded, files, missed, saved>>

IngestReturned == ingest.pc \in {"eof", "cancelled"}

(* The input is read again from its first line (--loop).                   *)
ReadAgain ==
  /\ IngestReturned
  /\ ingest.pass < MaxPasses
  /\ ingest' = [ingest EXCEPT !.pc = "read", !.line = 1, !.pass = @ + 1]
  /\ UNCHANGED <<ctxDone, seen, accepted, jobs, work, stats, recorded, files, missed, saved>>

(* The window of a key passes (module Dedup has the clock).                *)
ForgetKey(k) ==
  /\ k \in seen
  /\ seen' = seen \ {k}
  /\ UNCHANGED <<ctxDone, ingest, accepted, jobs, work, stats, recorded, files, missed, saved>>

(*************************** worker, processJob ****************************)

Goto(w, pc) == [work EXCEPT ![w].pc = pc]
Idle(w) == [work EXCEPT ![w] = [pc |-> "idle", job |-> 0, ok |-> FALSE]]

(* Mutant of WorkerExits: an empty channel is taken for the end.           *)
WorkerExitsWhenEmpty(w) ==
  /\ work[w].pc = "idle" /\ (ctxDone \/ jobs = <<>>)
  /\ work' = Goto(w, "exited")
  /\ UNCHANGED <<ctxDone, ingest, seen, accepted, jobs, stats, recorded, files, missed, saved>>

(* Mutant of WorkerExits: the branch for the context is missing.           *)
WorkerNeverExits(w) == FALSE /\ w \in Workers /\ UNCHANGED pipeVars

WorkerExits(w) ==
  /\ work[w].pc = "idle" /\ ctxDone
  /\ work' = Goto(w, "exited")
  /\ UNCHANGED <<ctxDone, ingest, seen, accepted, jobs, stats, recorded, files, missed, saved>>

TakeJob(w) ==
  /\ work[w].pc = "idle"
  /\ jobs # <<>>
  /\ work' = [work EXCEPT ![w] = [pc |-> "check", job |-> Head(jobs), ok |-> FALSE]]
  /\ jobs' = Tail(jobs)
  /\ UNCHANGED <<ctxDone, ingest, seen, accepted, stats, recorded, files, missed, saved>>

(* CheckIPPort runs under the pipeline's context: once that is cancelled   *)
(* its connections fail, and a check that has not ended yet may report a   *)
(* working proxy as dead.                                                  *)
CheckIPPort(w) ==
  /\ work[w].pc = "check"
  /\ \E ok \in Verdicts[accepted[work[w].job]] \cup (IF ctxDone THEN {FALSE} ELSE {}) :
       work' = [work EXCEPT ![w].pc = "record", ![w].ok = ok]
  /\ UNCHANGED <<ctxDone, ingest, seen, accepted, jobs, stats, recorded, files, missed, saved>>

(* Mutant of RecordResult: only working proxies are counted as scanned.    *)
RecordResultOfAlive(w) ==
  /\ work[w].pc = "record"
  /\ stats' = IF work[w].ok
              THEN [stats EXCEPT !.scanned = @ + 1, !.alive = @ + 1]
              ELSE [stats EXCEPT !.dead = @ + 1]
  /\ recorded' = recorded \cup {[job |-> work[w].job, ok |-> work[w].ok]}
  /\ work' = IF work[w].ok THEN Goto(w, "export") ELSE Idle(w)
  /\ UNCHANGED <<ctxDone, ingest, seen, accepted, jobs, files, missed, saved>>

RecordResult(w) ==
  /\ work[w].pc = "record"
  /\ stats' = IF work[w].ok
              THEN [stats EXCEPT !.scanned = @ + 1, !.alive = @ + 1]
              ELSE [stats EXCEPT !.scanned = @ + 1, !.dead = @ + 1]
  /\ recorded' = recorded \cup {[job |-> work[w].job, ok |-> work[w].ok]}
  /\ work' = IF work[w].ok THEN Goto(w, "export") ELSE Idle(w)
  /\ UNCHANGED <<ctxDone, ingest, seen, accepted, jobs, files, missed, saved>>

(* Mutants of WriteAlive: it writes twice, or leaves the line to someone   *)
(* else.                                                                   *)
WriteAliveTwice(w) ==
  /\ work[w].pc = "export"
  /\ files' = files \o <<work[w].job, work[w].job>>
  /\ work' = Goto(w, "save")
  /\ UNCHANGED <<ctxDone, ingest, seen, accepted, jobs, stats, recorded, missed, saved>>

WriteAliveSkipped(w) ==
  /\ work[w].pc = "export"
  /\ work' = Goto(w, "save")
  /\ UNCHANGED <<ctxDone, ingest, seen, accepted, jobs, stats, recorded, files, missed, saved>>

(* The proxy goes to the output files first ...                            *)
WriteAlive(w) ==
  /\ work[w].pc = "export"
  /\ files' = Append(files, work[w].job)
  /\ work' = IF HasStore THEN Goto(w, "save") ELSE Idle(w)
  /\ UNCHANGED <<ctxDone, ingest, seen, accepted, jobs, stats, recorded, missed, saved>>

(* ... where its line is lost without a word when alive.txt does not open, *)
(* or the write fails: WriteAlive reports nothing ...                      *)
LineIsLost(w) ==
  /\ FilesMayFail
  /\ work[w].pc = "export"
  /\ missed' = missed \cup {work[w].job}
  /\ work' = IF HasStore THEN Goto(w, "save") ELSE Idle(w)
  /\ UNCHANGED <<ctxDone, ingest, seen, accepted, jobs, stats, recorded, files, saved>>

(* ... and then to the store, if there is one, either way.                 *)
SaveProxy(w) ==
  /\ work[w].pc = "save"
  /\ saved' = Append(saved, work[w].job)
  /\ work' = Idle(w)
  /\ UNCHANGED <<ctxDone, ingest, seen, accepted, jobs, stats, recorded, files, missed>>

(* cancel may be called more than once: by Cancel, by Stop.                *)
Cancel ==
  /\ ctxDone' = TRUE
  /\ UNCHANGED <<ingest, seen, accepted, jobs, work, stats, recorded, files, missed, saved>>

-----------------------------------------------------------------------------

ReadLine == ReadCancelled \/ EndOfInput \/ SkipLine \/ AcceptLine
QueueLine == IncQueued \/ PushJob \/ PushCancelled

WorkerStep(w) ==
  \/ WorkerExits(w) \/ TakeJob(w) \/ CheckIPPort(w) \/ RecordResult(w)
  \/ WriteAlive(w) \/ LineIsLost(w) \/ SaveProxy(w)

WorkersExited == \A w \in Workers : work[w].pc = "exited"

(* The steps of the pipeline's own goroutines; who cancels it and who      *)
(* reads the input again is the command's affair (CheckCommand).           *)
Next ==
  \/ ReadLine \/ QueueLine
  \/ \E k \in Keys : ForgetKey(k)
  \/ \E w \in Workers : WorkerStep(w)

-----------------------------------------------------------------------------

(* Every variable of the pipeline has its type: the channel never exceeds  *)
(* its capacity, and the counters never fall below zero.                   *)
TypeOK ==
  /\ ctxDone \in BOOLEAN
  /\ ingest \in [pc : {"read", "count", "push", "eof", "cancelled"},
                 line : Nat \ {0}, pass : 1 .. MaxPasses, dropped : 0 .. 1]
  /\ seen \subseteq Keys
  /\ accepted \in Seq(Keys)
  /\ jobs \in Seq(JobIds) /\ Len(jobs) <= QueueCap
  /\ work \in [Workers -> [pc : {"idle", "check", "record", "export", "save", "exited"},
                           job : 0 .. Len(accepted), ok : BOOLEAN]]
  /\ stats \in [queued : Nat, scanned : Nat, alive : Nat, dead : Nat]
  /\ recorded \subseteq [job : JobIds, ok : BOOLEAN]
  /\ files \in Seq(JobIds)
  /\ missed \subseteq IF FilesMayFail THEN JobIds ELSE {}
  /\ saved \in Seq(JobIds)

At(pcs) == {w \in Workers : work[w].pc \in pcs}
InHand == ingest.dropped + IF ingest.pc \in {"count", "push"} THEN 1 ELSE 0

EachJobInOnePlace ==
  Len(accepted) = InHand + Len(jobs) + Cardinality(At({"check", "record"})) + stats.scanned

QueuedCoversScanned == stats.queued >= stats.scanned + Len(jobs)

(* Every accepted job is in one place: with the reader, in the channel,    *)
(* with a worker that has not counted it, or counted, so nothing is        *)
(* checked twice and nothing vanishes between the goroutines; and a job is *)
(* counted as queued before any worker can count it as scanned, so that    *)
(* the dashboard's "remaining" is never negative.                          *)
JobsConserved == EachJobInOnePlace /\ QueuedCoversScanned

(* The jobs that went to the output files, whether or not their line       *)
(* arrived.                                                                *)
Exported == Range(files) \cup missed

(* What the counters call alive is in alive.txt exactly once, except the   *)
(* proxies whose line the exporter dropped because the file did not open   *)
(* or take it, which no counter and no log tells apart, and the workers    *)
(* that have counted a proxy and not yet written it: with files that do    *)
(* not fail, a forced exit loses at most one line per worker.              *)
AliveIsExported ==
  /\ stats.alive = Len(files) + Cardinality(missed) + Cardinality(At({"export"}))
  /\ IsInjective(files) /\ missed \cap Range(files) = {}
  /\ \A j \in Exported : [job |-> j, ok |-> TRUE] \in recorded

FilesBeforeStore == Range(saved) \subseteq Exported /\ IsInjective(saved)

(* As long as nobody cancels, every accepted job is checked in the end,    *)
(* also one that waits for room in the channel and for the jobs before it. *)
(* A pass accepts at most one job for each line.                           *)
JobsAreChecked ==
  \A i \in 1 .. MaxPasses * Len(Lines) :
    (i \in JobIds) ~> (ctxDone \/ \E r \in recorded : r.job = i)
=============================================================================
