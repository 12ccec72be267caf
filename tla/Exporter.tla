------------------------------ MODULE Exporter ------------------------------
(***************************************************************************)
(* storage.Exporter (src/pkg/storage/exporter.go): the output files.       *)
(* WriteAlive appends one proxy to every file it belongs to, SyncAliveFiles*)
(* overwrites the files with the proxies that a recheck found alive.  One  *)
(* mutex serialises the calls of a process, so the goroutines that wait    *)
(* for it need no state; the process may be killed between two writes and  *)
(* started again on the files it left.                                     *)
(*                                                                         *)
(* A file is a sequence of proxies: the wording of a line is left out.     *)
(***************************************************************************)
EXTENDS Integers, Sequences, FiniteSets, Functions, SequencesExt

CONSTANTS
  Proxies,         \* [protocol, elite, fast, good, country]: what the choice
                   \* of files reads of a model.Proxy
  NoCountry,       \* "" and "XX"
  SplitByType, SplitByCountry, SaveJSON, SaveCSV,   \* model.StorageConfig
  Syncs,           \* whether SyncAliveFiles is called (by the daemon)
  MayFail,         \* whether a file may fail to open or to be written
  MaxCalls,        \* bound: calls of WriteAlive and SyncAliveFiles
  Sync, None       \* a call of SyncAliveFiles, no call

ASSUME FlagsAssumption ==
  {SplitByType, SplitByCountry, SaveJSON, SaveCSV, Syncs, MayFail} \subseteq BOOLEAN
ASSUME FiniteAssumption == IsFiniteSet(Proxies)
ASSUME ProxiesAssumption ==
  \A p \in Proxies : {p.elite, p.fast, p.good} \subseteq BOOLEAN
ASSUME MaxCallsAssumption == MaxCalls \in Nat /\ {Sync, None} \cap Proxies = {} /\ Sync # None

VARIABLES
  files,     \* the contents on disk; a file that does not exist is empty
  handles,   \* fileHandles: the files the pool holds open
  csv,       \* csvWriter # nil
  call,      \* the call that holds the mutex
  todo,      \* WriteAlive: the files still to append to
  lines,     \* SyncAliveFiles: the new contents, linesByFile
  torn,      \* SyncAliveFiles: the file that is truncated and not written
  running,   \* the process runs
  calls,     \* history: how many calls were made
  written,   \* history: the proxies whose WriteAlive returned since the
             \* last call of SyncAliveFiles
  missed,    \* history: <<proxy, file>> for a line that was not appended
  unsynced,  \* history: the files that the last SyncAliveFiles did not
             \* overwrite, or not completely
  synced     \* history: SyncAliveFiles was called

vars == <<files, handles, csv, call, todo, lines, torn, running, calls, written, missed, unsynced,
          synced>>

Alive == <<"alive">>
Csv == <<"csv">>
When(cond, names) == IF cond THEN names ELSE <<>>

(* Mutant of TextFiles: the general list comes after the special ones.     *)
TextFilesAliveLast(p) ==
  <<<<"alive_url">>>>
  \o When(SplitByType, <<<<"type", p.protocol>>>>)
  \o When(p.elite, <<<<"elite">>>> \o When(p.protocol = "socks5", <<<<"socks5_elite">>>>))
  \o When(p.fast, <<<<"fast">>>>)
  \o When(p.good, <<<<"high_quality">>>>)
  \o When(SplitByCountry /\ p.country # NoCountry,
          <<<<"country", p.country>>, <<"country", p.country, p.protocol>>>>)
  \o <<Alive>>

(* The text files of a proxy, in the order in which WriteAlive appends.    *)
TextFiles(p) ==
  <<Alive, <<"alive_url">>>>
  \o When(SplitByType, <<<<"type", p.protocol>>>>)
  \o When(p.elite, <<<<"elite">>>> \o When(p.protocol = "socks5", <<<<"socks5_elite">>>>))
  \o When(p.fast, <<<<"fast">>>>)
  \o When(p.good, <<<<"high_quality">>>>)
  \o When(SplitByCountry /\ p.country # NoCountry,
          <<<<"country", p.country>>, <<"country", p.country, p.protocol>>>>)

AllFiles(p) == TextFiles(p) \o When(SaveJSON, <<<<"json">>>>) \o When(csv, <<Csv>>)

FileNames == (UNION {ToSet(TextFiles(p)) : p \in Proxies}) \cup {Alive, <<"json">>, Csv}
NoLines == [f \in FileNames |-> <<>>]

Init ==
  /\ files = NoLines
  /\ handles = {}
  /\ csv = SaveCSV
  /\ call = None
  /\ todo = <<>>
  /\ lines = NoLines
  /\ torn = {}
  /\ running = TRUE
  /\ calls = 0
  /\ written = {}
  /\ missed = {} /\ unsynced = {}
  /\ synced = FALSE

Call(c) ==
  /\ running /\ call = None /\ calls < MaxCalls
  /\ call' = c
  /\ calls' = calls + 1

(******************************* WriteAlive ********************************)

CallWriteAlive(p) ==
  /\ Call(p)
  /\ todo' = AllFiles(p)
  /\ UNCHANGED <<files, handles, csv, lines, torn, running, written, missed, unsynced, synced>>

(* Mutant of Appended: files are opened without O_APPEND, with O_TRUNC.    *)
AppendedToEmpty(f, p) == IF f \in handles THEN Append(files[f], p) ELSE <<p>>

Appended(f, p) == Append(files[f], p)

(* appendLine through the pool of handles, or the CSV writer, flushed at   *)
(* once.                                                                   *)
AppendLine ==
  /\ call \in Proxies /\ todo # <<>>
  /\ files' = [files EXCEPT ![Head(todo)] = Appended(Head(todo), call)]
  /\ handles' = IF Head(todo) = Csv THEN handles ELSE handles \cup {Head(todo)}
  /\ todo' = Tail(todo)
  /\ UNCHANGED <<csv, call, lines, torn, running, calls, written, missed, unsynced, synced>>

(* The line is skipped without a word when its file does not open, or when *)
(* the first write to it fails, which leaves a handle but no line ...      *)
OpenFails ==
  /\ call \in Proxies /\ todo # <<>>
  /\ MayFail /\ Head(todo) \notin handles \cup {Csv}
  /\ missed' = missed \cup {<<call, Head(todo)>>}
  /\ todo' = Tail(todo)
  /\ UNCHANGED <<files, handles, csv, call, lines, torn, running, calls, written, unsynced, synced>>

(* ... and lost when a write to an open file fails.  The buffer under the  *)
(* CSV writer keeps its first error, and writes nothing more.              *)
WriteFails ==
  /\ call \in Proxies /\ todo # <<>>
  /\ MayFail /\ Head(todo) \in handles \cup {Csv}
  /\ missed' = missed \cup {<<call, Head(todo)>>}
  /\ csv' = (csv /\ Head(todo) # Csv)
  /\ todo' = Tail(todo)
  /\ UNCHANGED <<files, handles, call, lines, torn, running, calls, written, unsynced, synced>>

WriteAliveReturns ==
  /\ call \in Proxies /\ todo = <<>>
  /\ written' = written \cup {call}
  /\ call' = None
  /\ UNCHANGED <<files, handles, csv, todo, lines, torn, running, calls, missed, unsynced, synced>>

(***************************** SyncAliveFiles ******************************)

(* linesByFile, one proxy after the other: only files with at least one    *)
(* line are in the map.                                                    *)
LinesByFile(list) ==
  LET sofar[n \in 0 .. Len(list)] ==
        IF n = 0 THEN NoLines
        ELSE [f \in FileNames |-> IF f \in ToSet(TextFiles(list[n]))
                                  THEN Append(sofar[n - 1][f], list[n]) ELSE sofar[n - 1][f]]
  IN  sofar[Len(list)]

CallSyncAliveFiles(list) ==
  /\ Syncs
  /\ Call(Sync)
  /\ lines' = LinesByFile(list)
  /\ handles' = {}
  /\ written' = {}
  /\ unsynced' = {}
  /\ synced' = TRUE
  /\ UNCHANGED <<files, csv, todo, torn, running, missed>>

(* os.WriteFile, one file after the other in the order of the map: it      *)
(* truncates the file, then writes it.  The errors of MkdirAll and of      *)
(* WriteFile are thrown away: a file that does not open keeps its old      *)
(* lines, one that cannot be written has the first of the new ones.        *)
TruncateFile(f) ==
  /\ call = Sync /\ torn = {} /\ lines[f] # <<>>
  /\ files' = [files EXCEPT ![f] = <<>>]
  /\ torn' = {f}
  /\ UNCHANGED <<handles, csv, call, todo, lines, running, calls, written, missed, unsynced,
                 synced>>

(* Mutant of WriteFile: the old lines are kept below the new ones.         *)
WriteFileAppending(f) ==
  /\ f \in torn
  /\ files' = [files EXCEPT ![f] = lines[f] \o lines[f]]
  /\ torn' = {}
  /\ lines' = [lines EXCEPT ![f] = <<>>]
  /\ UNCHANGED <<handles, csv, call, todo, running, calls, written, missed, unsynced, synced>>

WriteFile(f) ==
  /\ f \in torn
  /\ files' = [files EXCEPT ![f] = lines[f]]
  /\ torn' = {}
  /\ lines' = [lines EXCEPT ![f] = <<>>]
  /\ UNCHANGED <<handles, csv, call, todo, running, calls, written, missed, unsynced, synced>>

OverwriteFails(f) ==
  /\ call = Sync /\ torn = {} /\ lines[f] # <<>>
  /\ MayFail
  /\ lines' = [lines EXCEPT ![f] = <<>>]
  /\ unsynced' = unsynced \cup {f}
  /\ UNCHANGED <<files, handles, csv, call, todo, torn, running, calls, written, missed, synced>>

WriteFileFails(f) ==
  /\ f \in torn
  /\ MayFail
  /\ \E n \in 0 .. Len(lines[f]) - 1 :
       files' = [files EXCEPT ![f] = SubSeq(lines[f], 1, n)]
  /\ torn' = {}
  /\ lines' = [lines EXCEPT ![f] = <<>>]
  /\ unsynced' = unsynced \cup {f}
  /\ UNCHANGED <<handles, csv, call, todo, running, calls, written, missed, synced>>

SyncReturns ==
  /\ call = Sync /\ lines = NoLines
  /\ call' = None
  /\ UNCHANGED <<files, handles, csv, todo, lines, torn, running, calls, written, missed, unsynced,
                 synced>>

(********************* Close, the end of the process ***********************)

(* Close comes after the last call, right before the process ends.         *)
Close ==
  /\ running /\ call = None
  /\ handles' = {}
  /\ running' = FALSE
  /\ UNCHANGED <<files, csv, call, todo, lines, torn, calls, written, missed, unsynced, synced>>

(* The process is killed: what was written stays on disk.                  *)
Kill ==
  /\ running
  /\ running' = FALSE
  /\ handles' = {}
  /\ call' = None /\ todo' = <<>> /\ lines' = NoLines /\ torn' = {}
  /\ UNCHANGED <<files, csv, calls, written, missed, unsynced, synced>>

(* NewExporter in a new process: the files are appended to.                *)
NewExporter ==
  /\ ~ running
  /\ running' = TRUE
  /\ csv' \in {SaveCSV, SaveCSV /\ ~ MayFail}
  /\ UNCHANGED <<files, handles, call, todo, lines, torn, calls, written, missed, unsynced, synced>>

(* What a recheck may hand over: some proxies, each once, in any order.    *)
AliveLists == SetToAllKPermutations(Proxies) \ {<<>>}

Next ==
  \/ \E p \in Proxies : CallWriteAlive(p)
  \/ AppendLine \/ OpenFails \/ WriteFails \/ WriteAliveReturns
  \/ \E list \in AliveLists : CallSyncAliveFiles(list)
  \/ \E f \in FileNames :
       TruncateFile(f) \/ WriteFile(f) \/ OverwriteFails(f) \/ WriteFileFails(f)
  \/ SyncReturns
  \/ Close \/ Kill \/ NewExporter

Spec == Init /\ [][Next]_vars

-----------------------------------------------------------------------------

(* The files, the pool and the running call are well typed; SyncAliveFiles *)
(* never has more than one file truncated.                                 *)
TypeOK ==
  /\ files \in [FileNames -> Seq(Proxies)] /\ lines \in [FileNames -> Seq(Proxies)]
  /\ handles \subseteq FileNames
  /\ csv \in BOOLEAN /\ running \in BOOLEAN
  /\ call \in Proxies \cup {Sync, None}
  /\ todo \in Seq(FileNames)
  /\ torn \subseteq FileNames /\ Cardinality(torn) <= 1
  /\ calls \in 0 .. MaxCalls
  /\ written \subseteq Proxies /\ synced \in BOOLEAN
  /\ missed \subseteq Proxies \X FileNames /\ unsynced \subseteq FileNames

Lists(f, p) == p \in Range(files[f])

(* "Every living proxy is written at once ... so that no data is lost when *)
(* the program is ended abruptly" (exporter.go:17-19): a proxy whose       *)
(* WriteAlive returned is in each of its files until a recheck overwrites  *)
(* them, across kills and restarts, unless the file did not open or take   *)
(* its line, which the code does not report.                               *)
LinesAreKept ==
  \A p \in written : \A f \in ToSet(TextFiles(p)) \cup (IF SaveJSON THEN {<<"json">>} ELSE {}) :
    Lists(f, p) \/ <<p, f>> \in missed

(* Before the first SyncAliveFiles no special list ever names a proxy that *)
(* alive.txt does not: WriteAlive appends to alive.txt first, so a kill    *)
(* between two appends leaves the special lists short, never alive.txt.    *)
AliveListsEveryone ==
  ~ synced =>
    \A f \in FileNames, p \in Proxies :
      Lists(f, p) => Lists(Alive, p) \/ <<p, Alive>> \in missed

SyncEnds == call = Sync /\ call' = None /\ running'

(* When SyncAliveFiles returns and alive.txt did not fail, alive.txt names *)
(* nobody twice, and every list of a proxy that it names, unless that file *)
(* failed, names exactly the proxies of alive.txt that belong to it: no    *)
(* living proxy is missing from it, and no dead one is left in it, whatever*)
(* was appended or left behind by a kill before.  A list to which no       *)
(* proxy of alive.txt belongs is not overwritten, and may be stale.        *)
SyncedFilesAgree ==
  [][SyncEnds /\ Alive \notin unsynced =>
       /\ IsInjective(files'[Alive])
       /\ \A p \in Range(files'[Alive]) : \A f \in ToSet(TextFiles(p)) \ unsynced :
            Range(files'[f]) = {q \in Range(files'[Alive]) : f \in ToSet(TextFiles(q))}]_vars
=============================================================================
