--------------------------- MODULE PipelineProofs ---------------------------
(***************************************************************************)
(* Proofs about Pipeline.  That the counters agree with the files is not   *)
(* inductive alone: a worker could write a job that another one has        *)
(* written.  The invariant follows each job through the one place it can   *)
(* be in, and what has happened to it there: it is with the reader, in the *)
(* channel, or with a worker, uncounted; with a worker, counted and not    *)
(* yet written; or with a worker, written and not yet saved.               *)
(***************************************************************************)
EXTENDS Pipeline, TLAPS, SequenceTheorems, FiniteSetTheorems

Uncounted(j) == \A r \in recorded : r.job # j
Busy(w) == work[w].pc \in {"check", "record", "export", "save"}
InNoHand(j) == \A w \in Workers : Busy(w) => work[w].job # j

(* The job that the reader has in hand is nowhere else.                    *)
ReaderInv ==
  /\ ingest.pc \in {"count", "push"} =>
       /\ Len(accepted) > 0
       /\ Len(accepted) \notin Range(jobs)
       /\ InNoHand(Len(accepted)) /\ Uncounted(Len(accepted))
  /\ ingest.dropped = 1 => ctxDone /\ ingest.pc \in {"read", "eof", "cancelled"}
  /\ stats.queued = Len(accepted) - (IF ingest.pc = "count" THEN 1 ELSE 0)

QueueInv ==
  /\ IsInjective(jobs)
  /\ \A j \in Range(jobs) : InNoHand(j) /\ Uncounted(j)

WorkInv ==
  /\ \A v, w \in Workers : Busy(v) /\ Busy(w) /\ work[v].job = work[w].job => v = w
  /\ \A w \in Workers :
       /\ Busy(w) => work[w].job > 0
       /\ work[w].pc \in {"check", "record"} => Uncounted(work[w].job)
       /\ work[w].pc \in {"export", "save"} =>
            [job |-> work[w].job, ok |-> TRUE] \in recorded
       /\ work[w].pc = "export" => work[w].job \notin Exported
       /\ work[w].pc = "save" =>
            HasStore /\ work[w].job \in Exported /\ work[w].job \notin Range(saved)

FilesInv ==
  /\ IsInjective(files) /\ missed \cap Range(files) = {}
  /\ \A j \in Exported : [job |-> j, ok |-> TRUE] \in recorded
  /\ HasStore => \A j \in Exported :
       j \in Range(saved) \/ \E w \in Workers : work[w].pc = "save" /\ work[w].job = j
  /\ IsInjective(saved) /\ Range(saved) \subseteq Exported

Checking == Cardinality(At({"check", "record"}))
Writing == Cardinality(At({"export"}))
Written == Len(files) + Cardinality(missed)

CountInv ==
  /\ Len(accepted) = InHand + Len(jobs) + Checking + stats.scanned
  /\ stats.alive = Written + Writing

PipeInv == TypeOK /\ ReaderInv /\ QueueInv /\ WorkInv /\ FilesInv /\ CountInv

(* What appending does to a sequence without repetitions.                  *)
LEMMA AppendFacts ==
  ASSUME NEW S, NEW s \in Seq(S), NEW x \in S
  PROVE  /\ Append(s, x) \in Seq(S) /\ Len(Append(s, x)) = Len(s) + 1
         /\ Range(Append(s, x)) = Range(s) \cup {x}
         /\ IsInjective(s) /\ x \notin Range(s) => IsInjective(Append(s, x))
<1>1. /\ Append(s, x) \in Seq(S) /\ Len(Append(s, x)) = Len(s) + 1
      /\ \A n \in 1 .. Len(s) : Append(s, x)[n] = s[n]
      /\ Append(s, x)[Len(s) + 1] = x
  BY AppendProperties
<1>2. Len(s) \in Nat /\ DOMAIN s = 1 .. Len(s) /\ DOMAIN Append(s, x) = 1 .. Len(s) + 1
  BY <1>1, LenProperties
<1>3. \A n \in 1 .. Len(s) + 1 : n \in 1 .. Len(s) \/ n = Len(s) + 1
  BY <1>2
<1>4. Range(Append(s, x)) = Range(s) \cup {x}
  <2>1. Len(s) + 1 \in DOMAIN Append(s, x) /\ DOMAIN s \subseteq DOMAIN Append(s, x)
    BY <1>2
  <2> QED
    BY <1>1, <1>2, <1>3, <2>1 DEF Range
<1>5. ASSUME IsInjective(s), x \notin Range(s) PROVE IsInjective(Append(s, x))
  BY <1>1, <1>2, <1>3, <1>5 DEF IsInjective, Range
<1> QED
  BY <1>1, <1>4, <1>5

(* What taking the head does to a sequence without repetitions.            *)
LEMMA TailFacts ==
  ASSUME NEW S, NEW s \in Seq(S), s # <<>>
  PROVE  /\ Head(s) \in S /\ Head(s) \in Range(s)
         /\ Tail(s) \in Seq(S) /\ Len(Tail(s)) = Len(s) - 1
         /\ Range(Tail(s)) \subseteq Range(s)
         /\ IsInjective(s) => IsInjective(Tail(s)) /\ Head(s) \notin Range(Tail(s))
<1>1. /\ Head(s) \in S /\ Tail(s) \in Seq(S) /\ Len(Tail(s)) = Len(s) - 1
      /\ \A n \in 1 .. Len(Tail(s)) : Tail(s)[n] = s[n + 1]
  BY HeadTailProperties
<1>2. /\ Len(s) \in Nat \ {0} /\ DOMAIN s = 1 .. Len(s)
      /\ DOMAIN Tail(s) = 1 .. Len(s) - 1
  BY <1>1, LenProperties, EmptySeq
<1>3. Head(s) = s[1] /\ 1 \in DOMAIN s
  BY <1>2
<1>4. \A n \in DOMAIN Tail(s) : n + 1 \in DOMAIN s /\ n + 1 # 1 /\ Tail(s)[n] = s[n + 1]
  BY <1>1, <1>2
<1>5. Head(s) \in Range(s) /\ Range(Tail(s)) \subseteq Range(s)
  BY <1>3, <1>4 DEF Range
<1>6. ASSUME IsInjective(s) PROVE IsInjective(Tail(s)) /\ Head(s) \notin Range(Tail(s))
  <2>1. \A m, n \in DOMAIN s : s[m] = s[n] => m = n
    BY <1>6 DEF IsInjective
  <2>2. \A m, n \in DOMAIN Tail(s) : Tail(s)[m] = Tail(s)[n] => m + 1 = n + 1
    BY <1>4, <2>1
  <2>3. \A m, n \in DOMAIN Tail(s) : m + 1 = n + 1 => m = n
    BY <1>2
  <2> QED
    BY <1>3, <1>4, <2>1, <2>2, <2>3 DEF IsInjective, Range
<1> QED
  BY <1>1, <1>5, <1>6

LEMMA CountMove ==
  ASSUME NEW S, NEW T, NEW U, IsFiniteSet(S), T \subseteq S, NEW w,
         U = T \/ (U = T \cup {w} /\ w \notin T) \/ (U = T \ {w} /\ w \in T)
  PROVE  /\ Cardinality(T) \in Nat
         /\ Cardinality(U) = Cardinality(T) + (IF w \in U THEN 1 ELSE 0) - (IF w \in T THEN 1 ELSE 0)
<1>1. IsFiniteSet(T) /\ Cardinality(T) \in Nat
  BY FS_Subset, FS_CardinalityType
<1>2. CASE U = T
  BY <1>1, <1>2
<1>3. CASE U = T \cup {w} /\ w \notin T
  <2>1. Cardinality(T \cup {w}) = Cardinality(T) + 1
    BY <1>1, <1>3, FS_AddElement
  <2> QED
    BY <1>1, <1>3, <2>1
<1>4. CASE U = T \ {w} /\ w \in T
  <2>1. Cardinality(T \ {w}) = Cardinality(T) - 1
    BY <1>1, <1>4, FS_RemoveElement
  <2> QED
    BY <1>1, <1>4, <2>1
<1> QED
  BY <1>2, <1>3, <1>4

(* One worker's step moves one worker between the places that are counted. *)
LEMMA MoveWorker ==
  ASSUME NEW w \in Workers, NEW r, NEW pcs, NEW Records,
         work \in [Workers -> Records],
         work' = [work EXCEPT ![w] = r]
  PROVE  /\ Cardinality(At(pcs)) \in Nat
         /\ Cardinality(At(pcs)') =
              Cardinality(At(pcs)) + (IF r.pc \in pcs THEN 1 ELSE 0)
                                   - (IF work[w].pc \in pcs THEN 1 ELSE 0)
<1> DEFINE T == At(pcs)
           U == At(pcs)'
<1>1. T \subseteq Workers
  BY DEF At
<1>2. \/ U = T
      \/ U = T \cup {w} /\ w \notin T
      \/ U = T \ {w} /\ w \in T
  BY DEF At
<1>3. (w \in U <=> r.pc \in pcs) /\ (w \in T <=> work[w].pc \in pcs)
  BY DEF At
<1> HIDE DEF T, U
<1>4. /\ Cardinality(T) \in Nat
      /\ Cardinality(U) = Cardinality(T) + (IF w \in U THEN 1 ELSE 0) - (IF w \in T THEN 1 ELSE 0)
  BY <1>1, <1>2, WorkersAssumption, CountMove
<1> QED
  BY <1>3, <1>4 DEF T, U

LEMMA EmptyFacts ==
  /\ Len(<<>>) = 0 /\ \A S : <<>> \in Seq(S)
  /\ Range(<<>>) = {} /\ IsInjective(<<>>)
<1>1. Len(<<>>) = 0 /\ \A S : <<>> \in Seq(S)
  BY EmptySeq
<1>2. DOMAIN <<>> = {}
  OBVIOUS
<1> QED
  BY <1>1, <1>2 DEF Range, IsInjective

LEMMA PipeInvInit == Init => PipeInv
<1> SUFFICES ASSUME Init PROVE PipeInv
  OBVIOUS
<1>1. /\ jobs = <<>> /\ files = <<>> /\ missed = {} /\ saved = <<>> /\ accepted = <<>>
      /\ work = [w \in Workers |-> [pc |-> "idle", job |-> 0, ok |-> FALSE]]
      /\ recorded = {}
  BY DEF Init
<1>2. TypeOK
  <2>1. <<>> \in Seq(Keys) /\ <<>> \in Seq(JobIds)
    BY EmptySeq
  <2>2. Len(jobs) <= QueueCap /\ Len(accepted) = 0
    BY <1>1, EmptyFacts, QueueCapAssumption
  <2>3. /\ ingest \in [pc : {"read", "count", "push", "eof", "cancelled"},
                       line : Nat \ {0}, pass : 1 .. MaxPasses, dropped : 0 .. 1]
        /\ stats \in [queued : Nat, scanned : Nat, alive : Nat, dead : Nat]
    BY QueueCapAssumption DEF Init
  <2>4. work \in [Workers -> [pc : {"idle", "check", "record", "export", "save", "exited"},
                              job : 0 .. Len(accepted), ok : BOOLEAN]]
    BY <1>1, <2>2
  <2> QED
    BY <1>1, <2>1, <2>2, <2>3, <2>4 DEF Init, TypeOK
<1>3. ReaderInv /\ QueueInv /\ WorkInv /\ FilesInv
  BY <1>1, EmptyFacts DEF Init, ReaderInv, QueueInv, WorkInv, FilesInv, Exported, Busy
<1>4. CountInv
  <2>1. At({"check", "record"}) = {} /\ At({"export"}) = {}
    BY <1>1 DEF At
  <2> QED
    <3>1. Cardinality({}) = 0
      BY FS_EmptySet
    <3>2. /\ InHand = 0 /\ stats.scanned = 0 /\ stats.alive = 0
          /\ Len(jobs) = 0 /\ Written = 0 /\ Len(accepted) = 0
      BY <1>1, <3>1, EmptyFacts DEF Init, InHand, Written
    <3>3. Checking = 0 /\ Writing = 0
      BY <2>1, <3>1 DEF Checking, Writing
    <3> QED
      BY <3>2, <3>3 DEF CountInv
<1> QED
  BY <1>2, <1>3, <1>4 DEF PipeInv

(* The types of the parts, in the form in which the steps need them.       *)
LEMMA PartTypes ==
  ASSUME TypeOK
  PROVE  /\ Len(accepted) \in Nat /\ Len(jobs) \in Nat /\ Len(files) \in Nat /\ Len(saved) \in Nat
         /\ JobIds \subseteq Nat
         /\ Range(jobs) \subseteq JobIds /\ Exported \subseteq JobIds
         /\ IsFiniteSet(missed) /\ Cardinality(missed) \in Nat
         /\ Range(saved) \subseteq JobIds
         /\ ingest.dropped \in 0 .. 1
         /\ stats.queued \in Nat /\ stats.scanned \in Nat /\ stats.alive \in Nat /\ stats.dead \in Nat
         /\ \A w \in Workers : /\ work[w].job \in Nat /\ work[w].job <= Len(accepted)
                               /\ work[w].ok \in BOOLEAN
<1>1. /\ accepted \in Seq(Keys) /\ jobs \in Seq(JobIds) /\ files \in Seq(JobIds)
      /\ saved \in Seq(JobIds)
  BY DEF TypeOK
<1>2. Len(accepted) \in Nat /\ Len(jobs) \in Nat /\ Len(files) \in Nat /\ Len(saved) \in Nat
  BY <1>1, LenProperties
<1>3. /\ Range(jobs) \subseteq JobIds /\ Range(files) \subseteq JobIds
      /\ Range(saved) \subseteq JobIds
  <2>1. \A S, s : s \in Seq(S) => Range(s) \subseteq S
    <3>1. ASSUME NEW S, NEW s \in Seq(S) PROVE Range(s) \subseteq S
      BY LenProperties, ElementOfSeq DEF Range
    <3> QED
      BY <3>1
  <2> QED
    BY <1>1, <2>1
<1>4. JobIds \subseteq Nat
  BY <1>2 DEF JobIds
<1>5. ingest.dropped \in 0 .. 1
  BY DEF TypeOK
<1>6. stats.queued \in Nat /\ stats.scanned \in Nat /\ stats.alive \in Nat /\ stats.dead \in Nat
  BY DEF TypeOK
<1>7. \A w \in Workers : /\ work[w].job \in Nat /\ work[w].job <= Len(accepted)
                         /\ work[w].ok \in BOOLEAN
  BY <1>2 DEF TypeOK
<1>8. missed \subseteq JobIds
  BY DEF TypeOK
<1>9. IsFiniteSet(missed) /\ Cardinality(missed) \in Nat
  <2>1. IsFiniteSet(1 .. Len(accepted))
    BY <1>2, FS_Interval
  <2> QED
    BY <1>8, <2>1, FS_Subset, FS_CardinalityType DEF JobIds
<1> QED
  BY <1>2, <1>3, <1>4, <1>5, <1>6, <1>7, <1>8, <1>9 DEF Exported

LEMMA CountTypes ==
  ASSUME TypeOK
  PROVE  /\ Checking \in Nat /\ Writing \in Nat
         /\ Len(accepted) \in Nat /\ Len(jobs) \in Nat /\ Written \in Nat
         /\ ingest.dropped \in Nat /\ InHand \in Nat
         /\ stats.queued \in Nat /\ stats.scanned \in Nat /\ stats.alive \in Nat
<1>1. \A T : T \subseteq Workers => Cardinality(T) \in Nat
  BY WorkersAssumption, FS_Subset, FS_CardinalityType
<1>2. \A pcs : At(pcs) \subseteq Workers
  BY DEF At
<1>3. InHand \in Nat
  BY PartTypes DEF InHand
<1> QED
  <2>1. Written \in Nat
    BY PartTypes DEF Written
  <2> QED
    BY <1>1, <1>2, <1>3, <2>1, PartTypes DEF Checking, Writing

(* Without a step of a worker the workers stay where they are.             *)
LEMMA NobodyMoves ==
  ASSUME UNCHANGED work
  PROVE  Checking' = Checking /\ Writing' = Writing
BY DEF Checking, Writing, At

LEMMA NothingWritten ==
  ASSUME UNCHANGED <<files, missed>>
  PROVE  Written' = Written /\ Exported' = Exported
BY DEF Written, Exported

LEMMA SomebodyMoves ==
  ASSUME TypeOK, NEW w \in Workers, NEW r, work' = [work EXCEPT ![w] = r]
  PROVE  /\ Checking' = Checking + (IF r.pc \in {"check", "record"} THEN 1 ELSE 0)
                                 - (IF work[w].pc \in {"check", "record"} THEN 1 ELSE 0)
         /\ Writing' = Writing + (IF r.pc = "export" THEN 1 ELSE 0)
                               - (IF work[w].pc = "export" THEN 1 ELSE 0)
<1>1. work \in [Workers -> [pc : {"idle", "check", "record", "export", "save", "exited"},
                            job : 0 .. Len(accepted), ok : BOOLEAN]]
  BY DEF TypeOK
<1>2. Cardinality(At({"check", "record"})') =
        Cardinality(At({"check", "record"}))
          + (IF r.pc \in {"check", "record"} THEN 1 ELSE 0)
          - (IF work[w].pc \in {"check", "record"} THEN 1 ELSE 0)
  BY <1>1, MoveWorker
<1>3. Cardinality(At({"export"})') =
        Cardinality(At({"export"}))
          + (IF r.pc \in {"export"} THEN 1 ELSE 0)
          - (IF work[w].pc \in {"export"} THEN 1 ELSE 0)
  BY <1>1, MoveWorker
<1> QED
  BY <1>2, <1>3 DEF Checking, Writing

(* The two sums stay right when what one place loses another one gains.    *)
LEMMA CountStep ==
  ASSUME CountInv,
         Len(accepted)' = Len(accepted),
         InHand' + Len(jobs)' + Checking' + stats'.scanned
           = InHand + Len(jobs) + Checking + stats.scanned,
         stats'.alive = Written' + Writing'
  PROVE  CountInv'
BY DEF CountInv

(* Steps that move the reader between two lines.                           *)
LEMMA TurnKeepsInv ==
  ASSUME PipeInv, ReadCancelled \/ EndOfInput \/ SkipLine \/ ReadAgain
  PROVE  PipeInv'
<1> USE DEF PipeInv
<1>1. /\ ingest.pc \in {"read", "eof", "cancelled"}
      /\ ingest'.pc \in {"read", "eof", "cancelled"}
      /\ ingest'.dropped = ingest.dropped
      /\ ingest' \in [pc : {"read", "count", "push", "eof", "cancelled"},
                      line : Nat \ {0}, pass : 1 .. MaxPasses, dropped : 0 .. 1]
  <2> DEFINE pcs == {"read", "count", "push", "eof", "cancelled"}
  <2>1. /\ ingest \in [pc : pcs, line : Nat \ {0}, pass : 1 .. MaxPasses, dropped : 0 .. 1]
        /\ ingest.line + 1 \in Nat \ {0} /\ ingest.pass + 1 \in Nat
    BY QueueCapAssumption DEF TypeOK
  <2>2. CASE ReadCancelled \/ EndOfInput
    BY <2>1, <2>2 DEF ReadCancelled, EndOfInput
  <2>3. CASE SkipLine
    BY <2>1, <2>3 DEF SkipLine, NextLine
  <2>4. CASE ReadAgain
    <3>1. 1 \in Nat \ {0} /\ ingest.pass + 1 \in 1 .. MaxPasses
      BY <2>1, <2>4, QueueCapAssumption DEF ReadAgain
    <3> QED
      BY <2>1, <2>4, <3>1 DEF ReadAgain, IngestReturned
  <2> QED
    BY <2>2, <2>3, <2>4
<1>2. UNCHANGED <<ctxDone, seen, accepted, jobs, work, stats, recorded, files, missed, saved>>
  BY DEF ReadCancelled, EndOfInput, SkipLine, ReadAgain
<1>3. TypeOK' /\ ReaderInv'
  BY <1>1, <1>2 DEF TypeOK, JobIds, ReaderInv
<1>4. QueueInv' /\ WorkInv' /\ FilesInv'
  BY <1>2 DEF QueueInv, WorkInv, FilesInv, Exported, InNoHand, Busy, Uncounted
<1>5. CountInv'
  BY <1>1, <1>2, NobodyMoves, NothingWritten DEF CountInv, InHand
<1> QED
  BY <1>3, <1>4, <1>5

LEMMA AcceptKeepsInv ==
  ASSUME PipeInv, AcceptLine
  PROVE  PipeInv'
<1> USE DEF PipeInv
<1> DEFINE new == Len(accepted) + 1
           k == Lines[ingest.line]
<1>1. /\ ingest.pc = "read" /\ ~ ctxDone
      /\ ingest' = [ingest EXCEPT !.pc = "count"]
      /\ accepted' = Append(accepted, k) /\ seen' = seen \cup {k}
      /\ UNCHANGED <<ctxDone, jobs, work, stats, recorded, files, missed, saved>>
  BY DEF AcceptLine
<1>2. k \in Keys
  <2>1. Lines[ingest.line] \in Keys \cup {Junk}
    <3>1. ingest.line \in 1 .. Len(Lines)
      BY LinesAssumption, LenProperties DEF AcceptLine, TypeOK
    <3> QED
      BY <3>1, LinesAssumption, ElementOfSeq
  <2> QED
    BY <2>1 DEF AcceptLine
<1>3. /\ accepted' \in Seq(Keys) /\ Len(accepted') = new
      /\ new \in Nat /\ new > 0 /\ new \notin JobIds /\ JobIds \subseteq JobIds'
  <2>1. accepted' \in Seq(Keys) /\ Len(accepted') = new
    BY <1>1, <1>2, AppendFacts DEF TypeOK
  <2> QED
    BY <2>1, PartTypes DEF JobIds
<1>4. TypeOK'
  <2>1. jobs \in Seq(JobIds') /\ files \in Seq(JobIds') /\ saved \in Seq(JobIds')
    BY <1>3, SeqMonotonic DEF TypeOK
  <2>2. recorded \subseteq [job : JobIds', ok : BOOLEAN]
    BY <1>3 DEF TypeOK
  <2>3. work \in [Workers -> [pc : {"idle", "check", "record", "export", "save", "exited"},
                              job : 0 .. Len(accepted'), ok : BOOLEAN]]
    BY <1>3, PartTypes DEF TypeOK
  <2>4. /\ ingest' \in [pc : {"read", "count", "push", "eof", "cancelled"},
                        line : Nat \ {0}, pass : 1 .. MaxPasses, dropped : 0 .. 1]
        /\ seen' \subseteq Keys
    BY <1>1, <1>2 DEF TypeOK
  <2> QED
    BY <1>1, <1>3, <2>1, <2>2, <2>3, <2>4 DEF TypeOK
<1>5. ReaderInv'
  <2>1. new \notin Range(jobs) /\ Uncounted(new)
    BY <1>3, PartTypes DEF Uncounted, TypeOK
  <2>2. InNoHand(new)
    BY <1>3, PartTypes DEF InNoHand
  <2>3. ingest'.pc = "count" /\ ingest.dropped = 0 /\ ingest'.dropped = 0
    BY <1>1, PartTypes DEF ReaderInv, TypeOK
  <2>4. stats.queued = Len(accepted)
    BY <1>1 DEF ReaderInv
  <2> QED
    BY <1>1, <1>3, <2>1, <2>2, <2>3, <2>4, PartTypes DEF ReaderInv, Uncounted, InNoHand, Busy
<1>6. QueueInv' /\ WorkInv' /\ FilesInv'
  BY <1>1 DEF QueueInv, WorkInv, FilesInv, Exported, InNoHand, Busy, Uncounted
<1>7. CountInv'
  <2>1. ingest'.pc = "count" /\ ingest'.dropped = ingest.dropped
    BY <1>1 DEF TypeOK
  <2>2. InHand = ingest.dropped /\ InHand' = ingest.dropped + 1 /\ ingest.dropped \in Nat
    BY <1>1, <2>1, PartTypes DEF InHand
  <2>3. Checking' = Checking /\ Writing' = Writing /\ Written' = Written
    BY <1>1, NobodyMoves, NothingWritten
  <2>4. /\ Len(accepted) = InHand + Len(jobs) + Checking + stats.scanned
        /\ stats.alive = Written + Writing
    BY DEF CountInv
  <2>5. Len(accepted)' = InHand' + Len(jobs)' + Checking' + stats'.scanned
    <3>1. Len(accepted)' = Len(accepted) + 1 /\ Len(jobs)' = Len(jobs) /\ stats' = stats
      BY <1>1, <1>3
    <3>2. /\ Len(jobs) \in Nat /\ Checking \in Nat /\ stats.scanned \in Nat
          /\ Len(accepted) \in Nat
      BY CountTypes
    <3>3. Len(accepted) + 1 = ingest.dropped + 1 + Len(jobs) + Checking + stats.scanned
      <4>1. Len(accepted) = ingest.dropped + Len(jobs) + Checking + stats.scanned
        BY <2>2, <2>4
      <4>2. ingest.dropped \in Nat
        BY <2>2
      <4> QED
        BY <3>2, <4>1, <4>2
    <3>4. stats'.scanned = stats.scanned
      BY <3>1
    <3> QED
      BY <2>2, <2>3, <3>1, <3>3, <3>4
  <2>6. stats'.alive = Written' + Writing'
    BY <1>1, <2>3, <2>4
  <2> QED
    BY <2>5, <2>6 DEF CountInv
<1> QED
  BY <1>4, <1>5, <1>6, <1>7

LEMMA IncQueuedKeepsInv ==
  ASSUME PipeInv, IncQueued
  PROVE  PipeInv'
<1> USE DEF PipeInv
<1>1. /\ ingest.pc = "count"
      /\ stats' = [stats EXCEPT !.queued = @ + 1]
      /\ ingest' = [ingest EXCEPT !.pc = "push"]
      /\ UNCHANGED <<ctxDone, seen, accepted, jobs, work, recorded, files, missed, saved>>
  BY DEF IncQueued
<1>2. /\ ingest'.pc = "push" /\ ingest'.dropped = ingest.dropped
      /\ stats'.queued = stats.queued + 1
      /\ stats'.scanned = stats.scanned /\ stats'.alive = stats.alive
  BY <1>1 DEF TypeOK
<1>3. TypeOK'
  <2>1. ingest' \in [pc : {"read", "count", "push", "eof", "cancelled"},
                     line : Nat \ {0}, pass : 1 .. MaxPasses, dropped : 0 .. 1]
    BY <1>1 DEF TypeOK
  <2>2. stats' \in [queued : Nat, scanned : Nat, alive : Nat, dead : Nat]
    <3>1. /\ stats \in [queued : Nat, scanned : Nat, alive : Nat, dead : Nat]
          /\ stats.queued + 1 \in Nat
      BY DEF TypeOK
    <3> QED
      BY <1>1, <3>1
  <2> QED
    BY <1>1, <2>1, <2>2 DEF TypeOK, JobIds
<1>4. ReaderInv'
  BY <1>1, <1>2, PartTypes DEF ReaderInv, Uncounted, InNoHand, Busy
<1>5. QueueInv' /\ WorkInv' /\ FilesInv'
  BY <1>1 DEF QueueInv, WorkInv, FilesInv, Exported, InNoHand, Busy, Uncounted
<1>6. CountInv'
  <2>1. InHand' = InHand + 0
    BY <1>1, <1>2, PartTypes DEF InHand
  <2>2. Checking' = Checking + 0 /\ Writing' = Writing + 0
    BY <1>1, NobodyMoves, CountTypes
  <2>3. /\ Len(accepted)' = Len(accepted) /\ Len(jobs)' = Len(jobs) + 0
        /\ Written' = Written + 0
        /\ stats'.scanned = stats.scanned + 0 /\ stats'.alive = stats.alive + 0
    BY <1>1, <1>2, NothingWritten, CountTypes
  <2>4. InHand' + Len(jobs)' + Checking' + stats'.scanned
          = InHand + Len(jobs) + Checking + stats.scanned
    BY <2>1, <2>2, <2>3, CountTypes
  <2>5. stats'.alive = Written' + Writing'
    <3>1. stats.alive = Written + Writing
      BY DEF CountInv
    <3> QED
      BY <2>2, <2>3, <3>1, CountTypes
  <2> QED
    BY <2>3, <2>4, <2>5, CountStep
<1> QED
  BY <1>3, <1>4, <1>5, <1>6

(* The job leaves the reader for the channel.                              *)
LEMMA PushKeepsInv ==
  ASSUME PipeInv, PushJob
  PROVE  PipeInv'
<1> USE DEF PipeInv
<1> DEFINE j == Len(accepted)
<1>1. /\ ingest.pc = "push" /\ Len(jobs) < QueueCap
      /\ jobs' = Append(jobs, j)
      /\ ingest' = [ingest EXCEPT !.pc = "read", !.line = @ + 1]
      /\ UNCHANGED <<ctxDone, seen, accepted, work, stats, recorded, files, missed, saved>>
  BY DEF PushJob, RoomInQueue, NextLine
<1>2. /\ j > 0 /\ j \in JobIds /\ j \notin Range(jobs) /\ InNoHand(j) /\ Uncounted(j)
      /\ stats.queued = j
  BY <1>1, PartTypes DEF ReaderInv, JobIds
<1>3. /\ jobs' \in Seq(JobIds) /\ Len(jobs') = Len(jobs) + 1
      /\ Range(jobs') = Range(jobs) \cup {j} /\ IsInjective(jobs')
  BY <1>1, <1>2, AppendFacts DEF TypeOK, QueueInv
<1>4. ingest'.pc = "read" /\ ingest'.dropped = ingest.dropped
  BY <1>1 DEF TypeOK
<1>5. TypeOK'
  <2>1. Len(jobs') <= QueueCap
    BY <1>1, <1>3, PartTypes, QueueCapAssumption
  <2>2. ingest' \in [pc : {"read", "count", "push", "eof", "cancelled"},
                     line : Nat \ {0}, pass : 1 .. MaxPasses, dropped : 0 .. 1]
    <3>1. ingest.line + 1 \in Nat \ {0}
      BY DEF TypeOK
    <3> QED
      BY <1>1, <3>1 DEF TypeOK
  <2> QED
    BY <1>1, <1>3, <2>1, <2>2 DEF TypeOK, JobIds
<1>6. ReaderInv'
  BY <1>1, <1>2, <1>4 DEF ReaderInv
<1>7. QueueInv'
  BY <1>1, <1>2, <1>3 DEF QueueInv, InNoHand, Uncounted, Busy
<1>8. WorkInv' /\ FilesInv'
  BY <1>1 DEF WorkInv, FilesInv, Exported, Busy, Uncounted
<1>9. CountInv'
  <2>1. InHand' = InHand + (-1)
    BY <1>1, <1>4, PartTypes DEF InHand
  <2>2. Checking' = Checking + 0 /\ Writing' = Writing + 0
    BY <1>1, NobodyMoves, CountTypes
  <2>3. /\ Len(accepted)' = Len(accepted) /\ Len(jobs)' = Len(jobs) + 1
        /\ Written' = Written + 0
        /\ stats'.scanned = stats.scanned + 0 /\ stats'.alive = stats.alive + 0
    BY <1>1, <1>3, NothingWritten, CountTypes
  <2>4. InHand' + Len(jobs)' + Checking' + stats'.scanned
          = InHand + Len(jobs) + Checking + stats.scanned
    BY <2>1, <2>2, <2>3, CountTypes
  <2>5. stats'.alive = Written' + Writing'
    <3>1. stats.alive = Written + Writing
      BY DEF CountInv
    <3> QED
      BY <2>2, <2>3, <3>1, CountTypes
  <2> QED
    BY <2>3, <2>4, <2>5, CountStep
<1> QED
  BY <1>5, <1>6, <1>7, <1>8, <1>9

(* The job stays with the reader for good.                                 *)
LEMMA PushCancelledKeepsInv ==
  ASSUME PipeInv, PushCancelled
  PROVE  PipeInv'
<1> USE DEF PipeInv
<1>1. /\ ingest.pc = "push" /\ ctxDone
      /\ ingest' = [ingest EXCEPT !.pc = "cancelled", !.dropped = 1]
      /\ UNCHANGED <<ctxDone, seen, accepted, jobs, work, stats, recorded, files, missed, saved>>
  BY DEF PushCancelled
<1>2. ingest.dropped = 0
  BY <1>1, PartTypes DEF ReaderInv
<1>3. ingest'.pc = "cancelled" /\ ingest'.dropped = 1
  BY <1>1 DEF TypeOK
<1>4. TypeOK'
  <2>1. ingest' \in [pc : {"read", "count", "push", "eof", "cancelled"},
                     line : Nat \ {0}, pass : 1 .. MaxPasses, dropped : 0 .. 1]
    <3>1. ingest \in [pc : {"read", "count", "push", "eof", "cancelled"},
                      line : Nat \ {0}, pass : 1 .. MaxPasses, dropped : 0 .. 1]
      BY DEF TypeOK
    <3>2. 1 \in 0 .. 1
      OBVIOUS
    <3> QED
      BY <1>1, <3>1, <3>2
  <2> QED
    BY <1>1, <2>1 DEF TypeOK, JobIds
<1>5. ReaderInv'
  BY <1>1, <1>3 DEF ReaderInv
<1>6. QueueInv' /\ WorkInv' /\ FilesInv'
  BY <1>1 DEF QueueInv, WorkInv, FilesInv, Exported, InNoHand, Busy, Uncounted
<1>7. CountInv'
  <2>1. InHand' = InHand + 0
    BY <1>1, <1>2, <1>3 DEF InHand
  <2>2. Checking' = Checking + 0 /\ Writing' = Writing + 0
    BY <1>1, NobodyMoves, CountTypes
  <2>3. /\ Len(accepted)' = Len(accepted) /\ Len(jobs)' = Len(jobs) + 0
        /\ Written' = Written + 0
        /\ stats'.scanned = stats.scanned + 0 /\ stats'.alive = stats.alive + 0
    BY <1>1, NothingWritten, CountTypes
  <2>4. InHand' + Len(jobs)' + Checking' + stats'.scanned
          = InHand + Len(jobs) + Checking + stats.scanned
    BY <2>1, <2>2, <2>3, CountTypes
  <2>5. stats'.alive = Written' + Writing'
    <3>1. stats.alive = Written + Writing
      BY DEF CountInv
    <3> QED
      BY <2>2, <2>3, <3>1, CountTypes
  <2> QED
    BY <2>3, <2>4, <2>5, CountStep
<1> QED
  BY <1>4, <1>5, <1>6, <1>7

LEMMA ForgetOrCancelKeepsInv ==
  ASSUME PipeInv, (\E k \in Keys : ForgetKey(k)) \/ Cancel
  PROVE  PipeInv'
<1> USE DEF PipeInv
<1>1. /\ UNCHANGED <<ingest, accepted, jobs, work, stats, recorded, files, missed, saved>>
      /\ ctxDone' \in BOOLEAN /\ (ctxDone => ctxDone') /\ seen' \subseteq Keys
  BY DEF ForgetKey, Cancel, TypeOK
<1>2. TypeOK'
  BY <1>1 DEF TypeOK, JobIds
<1>3. ReaderInv' /\ QueueInv' /\ WorkInv' /\ FilesInv'
  BY <1>1 DEF ReaderInv, QueueInv, WorkInv, FilesInv, Exported, InNoHand, Busy, Uncounted
<1>4. CountInv'
  BY <1>1, NobodyMoves, NothingWritten DEF CountInv, InHand
<1> QED
  BY <1>2, <1>3, <1>4

(* What a worker's step leaves alone.                                      *)
LEMMA OneMoves ==
  ASSUME TypeOK, NEW w \in Workers, NEW r, work' = [work EXCEPT ![w] = r]
  PROVE  /\ work'[w] = r
         /\ \A v \in Workers : v # w => work'[v] = work[v] /\ (Busy(v)' <=> Busy(v))
<1>1. work \in [Workers -> [pc : {"idle", "check", "record", "export", "save", "exited"},
                            job : 0 .. Len(accepted), ok : BOOLEAN]]
  BY DEF TypeOK
<1> QED
  BY <1>1 DEF Busy

LEMMA BusyJob ==
  ASSUME PipeInv, NEW w \in Workers, Busy(w)
  PROVE  /\ work[w].job \in JobIds
         /\ work[w].job \notin Range(jobs)
         /\ ingest.pc \in {"count", "push"} => work[w].job # Len(accepted)
         /\ \A v \in Workers : v # w /\ Busy(v) => work[v].job # work[w].job
<1> USE DEF PipeInv
<1>1. work[w].job \in JobIds
  <2>1. work[w].job > 0
    BY DEF WorkInv
  <2> QED
    BY <2>1, PartTypes DEF JobIds
<1>2. work[w].job \notin Range(jobs)
  BY DEF QueueInv, InNoHand
<1>3. ingest.pc \in {"count", "push"} => work[w].job # Len(accepted)
  BY DEF ReaderInv, InNoHand
<1>4. \A v \in Workers : v # w /\ Busy(v) => work[v].job # work[w].job
  BY DEF WorkInv
<1> QED
  BY <1>1, <1>2, <1>3, <1>4

LEMMA ExitKeepsInv ==
  ASSUME PipeInv, NEW w \in Workers, WorkerExits(w)
  PROVE  PipeInv'
<1> USE DEF PipeInv
<1> DEFINE r == [work[w] EXCEPT !.pc = "exited"]
<1>1. /\ work[w].pc = "idle"
      /\ work' = [work EXCEPT ![w] = r]
      /\ UNCHANGED <<ctxDone, ingest, seen, accepted, jobs, stats, recorded, files, missed, saved>>
  BY DEF WorkerExits, Goto
<1>2. /\ r \in [pc : {"idle", "check", "record", "export", "save", "exited"},
                job : 0 .. Len(accepted), ok : BOOLEAN]
      /\ r.pc = "exited"
  BY DEF TypeOK
<1>3. /\ work'[w] = r
      /\ \A v \in Workers : v # w => work'[v] = work[v] /\ (Busy(v)' <=> Busy(v))
  BY <1>1, OneMoves
<1>4. ~ Busy(w) /\ ~ Busy(w)'
  BY <1>1, <1>2, <1>3 DEF Busy
<1>5. TypeOK'
  BY <1>1, <1>2 DEF TypeOK, JobIds
<1>6. ReaderInv' /\ QueueInv'
  BY <1>1, <1>3, <1>4 DEF ReaderInv, QueueInv, InNoHand, Uncounted
<1>7. WorkInv'
  BY <1>1, <1>2, <1>3, <1>4, NothingWritten DEF WorkInv, Uncounted
<1>8. FilesInv'
  BY <1>1, <1>2, <1>3 DEF FilesInv, Exported
<1>9. CountInv'
  <2>1. Checking' = Checking /\ Writing' = Writing
    <3>1. /\ Checking' = Checking + (IF r.pc \in {"check", "record"} THEN 1 ELSE 0)
                                  - (IF work[w].pc \in {"check", "record"} THEN 1 ELSE 0)
          /\ Writing' = Writing + (IF r.pc = "export" THEN 1 ELSE 0)
                                - (IF work[w].pc = "export" THEN 1 ELSE 0)
      <4> HIDE DEF r
      <4> QED
        BY <1>1, SomebodyMoves
    <3>2. work[w].pc = "idle" /\ r.pc = "exited"
      BY <1>1, <1>2
    <3>3. Checking \in Nat /\ Writing \in Nat
      BY CountTypes
    <3> HIDE DEF r
    <3> QED
      BY <3>1, <3>2, <3>3
  <2> QED
    BY <1>1, <2>1, NothingWritten DEF CountInv, InHand
<1> QED
  BY <1>5, <1>6, <1>7, <1>8, <1>9

(* The job leaves the channel for the worker.                              *)
LEMMA TakeKeepsInv ==
  ASSUME PipeInv, NEW w \in Workers, TakeJob(w)
  PROVE  PipeInv'
<1> USE DEF PipeInv
<1> DEFINE j == Head(jobs)
           r == [pc |-> "check", job |-> j, ok |-> FALSE]
<1>1. /\ work[w].pc = "idle" /\ jobs # <<>>
      /\ work' = [work EXCEPT ![w] = r] /\ jobs' = Tail(jobs)
      /\ UNCHANGED <<ctxDone, ingest, seen, accepted, stats, recorded, files, missed, saved>>
  BY DEF TakeJob
<1>2. /\ j \in JobIds /\ j \in Range(jobs)
      /\ jobs' \in Seq(JobIds) /\ Len(jobs') = Len(jobs) - 1
      /\ Range(jobs') \subseteq Range(jobs) /\ IsInjective(jobs') /\ j \notin Range(jobs')
  BY <1>1, TailFacts DEF TypeOK, QueueInv
<1>3. /\ j > 0 /\ j \in 0 .. Len(accepted) /\ InNoHand(j) /\ Uncounted(j)
      /\ ingest.pc \in {"count", "push"} => j # Len(accepted)
  BY <1>2, PartTypes DEF JobIds, QueueInv, ReaderInv
<1>4. /\ work'[w] = r
      /\ \A v \in Workers : v # w => work'[v] = work[v] /\ (Busy(v)' <=> Busy(v))
  BY <1>1, OneMoves
<1>5. work'[w].pc = "check" /\ work'[w].job = j /\ Busy(w)' /\ ~ Busy(w)
  BY <1>1, <1>4 DEF Busy
<1>6. TypeOK'
  <2>1. r \in [pc : {"idle", "check", "record", "export", "save", "exited"},
               job : 0 .. Len(accepted), ok : BOOLEAN]
    BY <1>3
  <2>2. Len(jobs') <= QueueCap
    BY <1>2, PartTypes, QueueCapAssumption DEF TypeOK
  <2> QED
    BY <1>1, <1>2, <2>1, <2>2 DEF TypeOK, JobIds
<1>7. ReaderInv'
  BY <1>1, <1>2, <1>3, <1>4, <1>5 DEF ReaderInv, InNoHand, Uncounted
<1>8. QueueInv'
  BY <1>1, <1>2, <1>4, <1>5 DEF QueueInv, InNoHand, Uncounted
<1>9. WorkInv'
  <2>1. \A v \in Workers : v # w /\ Busy(v) => work[v].job # j
    BY <1>3 DEF InNoHand
  <2> QED
    BY <1>1, <1>3, <1>4, <1>5, <2>1, NothingWritten DEF WorkInv, Uncounted
<1>10. FilesInv'
  BY <1>1, <1>4 DEF FilesInv, Exported
<1>11. CountInv'
  <2>1. Checking' = Checking + 1 /\ Writing' = Writing
    <3>1. /\ Checking' = Checking + (IF r.pc \in {"check", "record"} THEN 1 ELSE 0)
                                  - (IF work[w].pc \in {"check", "record"} THEN 1 ELSE 0)
          /\ Writing' = Writing + (IF r.pc = "export" THEN 1 ELSE 0)
                                - (IF work[w].pc = "export" THEN 1 ELSE 0)
      <4> HIDE DEF r
      <4> QED
        BY <1>1, SomebodyMoves
    <3>2. work[w].pc = "idle" /\ r.pc = "check"
      BY <1>1
    <3>3. Checking \in Nat /\ Writing \in Nat
      BY CountTypes
    <3> HIDE DEF r
    <3> QED
      BY <3>1, <3>2, <3>3
  <2>2. /\ InHand' = InHand /\ Len(accepted)' = Len(accepted) /\ Written' = Written
        /\ stats' = stats /\ Len(jobs)' = Len(jobs) - 1
    BY <1>1, <1>2, NothingWritten DEF InHand
  <2>3. InHand' + Len(jobs)' + Checking' + stats'.scanned
          = InHand + Len(jobs) + Checking + stats.scanned
    BY <2>1, <2>2, CountTypes
  <2>4. stats'.alive = Written' + Writing'
    BY <2>1, <2>2 DEF CountInv
  <2> QED
    BY <2>2, <2>3, <2>4, CountStep
<1> QED
  BY <1>6, <1>7, <1>8, <1>9, <1>10, <1>11

LEMMA CheckKeepsInv ==
  ASSUME PipeInv, NEW w \in Workers, CheckIPPort(w)
  PROVE  PipeInv'
<1> USE DEF PipeInv
<1> DEFINE j == work[w].job
<1>1. PICK ok \in Verdicts[accepted[j]] \cup (IF ctxDone THEN {FALSE} ELSE {}) :
        work' = [work EXCEPT ![w].pc = "record", ![w].ok = ok]
  BY DEF CheckIPPort
<1> DEFINE r == [work[w] EXCEPT !.pc = "record", !.ok = ok]
<1>2. /\ work[w].pc = "check"
      /\ UNCHANGED <<ctxDone, ingest, seen, accepted, jobs, stats, recorded, files, missed, saved>>
  BY DEF CheckIPPort
<1>3. work' = [work EXCEPT ![w] = r]
  BY <1>1 DEF TypeOK
<1>4. Busy(w) /\ j \in JobIds
  BY <1>2, BusyJob DEF Busy
<1>5. ok \in BOOLEAN
  <2>1. accepted[j] \in Keys
    BY <1>4, ElementOfSeq DEF TypeOK, JobIds
  <2>2. Verdicts[accepted[j]] \subseteq BOOLEAN
    BY <2>1, VerdictsAssumption
  <2> QED
    BY <2>2
<1>6. /\ r \in [pc : {"idle", "check", "record", "export", "save", "exited"},
                job : 0 .. Len(accepted), ok : BOOLEAN]
      /\ r.pc = "record" /\ r.job = j
  BY <1>5 DEF TypeOK
<1>7. /\ work'[w] = r
      /\ \A v \in Workers : v # w => work'[v] = work[v] /\ (Busy(v)' <=> Busy(v))
  BY <1>3, OneMoves
<1>8. work'[w].pc = "record" /\ work'[w].job = j /\ Busy(w)'
  BY <1>6, <1>7 DEF Busy
<1>9. TypeOK'
  BY <1>2, <1>3, <1>6 DEF TypeOK, JobIds
<1>10. ReaderInv' /\ QueueInv'
  <2>1. \A i : InNoHand(i) => InNoHand(i)'
    BY <1>4, <1>7, <1>8 DEF InNoHand
  <2>2. \A i : Uncounted(i) => Uncounted(i)'
    BY <1>2 DEF Uncounted
  <2> QED
    BY <1>2, <2>1, <2>2 DEF ReaderInv, QueueInv
<1>11. WorkInv'
  <2>1. \A v \in Workers : (Busy(v)' <=> Busy(v)) /\ work'[v].job = work[v].job
    BY <1>4, <1>7, <1>8
  <2>2. \A u, v \in Workers : Busy(u)' /\ Busy(v)' /\ work'[u].job = work'[v].job => u = v
    BY <2>1 DEF WorkInv
  <2>3. Uncounted(j) /\ j > 0
    BY <1>2, <1>4, PartTypes DEF WorkInv, JobIds
  <2>4. \A i : Uncounted(i) => Uncounted(i)'
    BY <1>2 DEF Uncounted
  <2>5. ASSUME NEW v \in Workers
        PROVE  /\ Busy(v)' => work'[v].job > 0
               /\ work'[v].pc \in {"check", "record"} => Uncounted(work[v].job)
               /\ work'[v].pc \in {"export", "save"} => work'[v].pc = work[v].pc
    BY <1>7, <1>8, <2>1, <2>3 DEF WorkInv
  <2>6. ASSUME NEW v \in Workers
        PROVE  /\ work'[v].pc \in {"export", "save"} =>
                    [job |-> work[v].job, ok |-> TRUE] \in recorded
               /\ work'[v].pc = "export" => work[v].job \notin Exported
               /\ work'[v].pc = "save" =>
                    /\ HasStore /\ work[v].job \in Exported
                    /\ work[v].job \notin Range(saved)
    BY <2>5 DEF WorkInv
  <2> QED
    BY <1>2, <2>1, <2>2, <2>5, <2>6, NothingWritten DEF WorkInv, Uncounted
<1>12. FilesInv'
  BY <1>2, <1>7 DEF FilesInv, Exported
<1>13. CountInv'
  <2>1. Checking' = Checking /\ Writing' = Writing
    <3>1. /\ Checking' = Checking + (IF r.pc \in {"check", "record"} THEN 1 ELSE 0)
                                  - (IF work[w].pc \in {"check", "record"} THEN 1 ELSE 0)
          /\ Writing' = Writing + (IF r.pc = "export" THEN 1 ELSE 0)
                                - (IF work[w].pc = "export" THEN 1 ELSE 0)
      <4> HIDE DEF r
      <4> QED
        BY <1>3, SomebodyMoves
    <3>2. work[w].pc = "check" /\ r.pc = "record"
      BY <1>2, <1>6
    <3>3. Checking \in Nat /\ Writing \in Nat
      BY CountTypes
    <3> HIDE DEF r
    <3> QED
      BY <3>1, <3>2, <3>3
  <2> QED
    BY <1>2, <2>1, NothingWritten DEF CountInv, InHand
<1> QED
  BY <1>9, <1>10, <1>11, <1>12, <1>13

(* The job is counted; it leaves the worker's hands only if it is dead.    *)
LEMMA RecordKeepsInv ==
  ASSUME PipeInv, NEW w \in Workers, RecordResult(w)
  PROVE  PipeInv'
<1> USE DEF PipeInv
<1> DEFINE j == work[w].job
           ok == work[w].ok
           r == IF ok THEN [work[w] EXCEPT !.pc = "export"]
                      ELSE [pc |-> "idle", job |-> 0, ok |-> FALSE]
<1>1. work' = [work EXCEPT ![w] = r]
  BY DEF RecordResult, Goto, Idle, TypeOK
<1>2. /\ work[w].pc = "record" /\ recorded' = recorded \cup {[job |-> j, ok |-> ok]}
      /\ stats' = IF ok THEN [stats EXCEPT !.scanned = @ + 1, !.alive = @ + 1]
                       ELSE [stats EXCEPT !.scanned = @ + 1, !.dead = @ + 1]
      /\ UNCHANGED <<ctxDone, ingest, seen, accepted, jobs, files, missed, saved>>
  BY DEF RecordResult
<1>3. Busy(w) /\ ok \in BOOLEAN
  BY <1>2, PartTypes DEF Busy
<1>4. /\ j \in JobIds /\ j > 0 /\ j \notin Range(jobs) /\ Uncounted(j)
      /\ ingest.pc \in {"count", "push"} => j # Len(accepted)
      /\ \A v \in Workers : v # w /\ Busy(v) => work[v].job # j
  BY <1>2, <1>3, BusyJob DEF WorkInv
<1>5. j \notin Exported
  BY <1>4 DEF FilesInv, Uncounted
<1>6. /\ work'[w] = r
      /\ \A v \in Workers : v # w => work'[v] = work[v] /\ (Busy(v)' <=> Busy(v))
  BY <1>1, OneMoves
<1>7. /\ r \in [pc : {"idle", "check", "record", "export", "save", "exited"},
                job : 0 .. Len(accepted), ok : BOOLEAN]
      /\ ok => r.pc = "export" /\ r.job = j
      /\ ~ ok => r.pc = "idle"
  <2>1. work[w] \in [pc : {"idle", "check", "record", "export", "save", "exited"},
                     job : 0 .. Len(accepted), ok : BOOLEAN]
    BY DEF TypeOK
  <2>2. 0 \in 0 .. Len(accepted)
    BY PartTypes
  <2> QED
    BY <2>1, <2>2
<1>8. /\ Busy(w)' <=> ok
      /\ ok => work'[w].pc = "export" /\ work'[w].job = j
      /\ ~ ok => work'[w].pc = "idle"
  BY <1>3, <1>6, <1>7 DEF Busy
<1> HIDE DEF r
<1>9. \A i : Uncounted(i) /\ i # j => Uncounted(i)'
  BY <1>2 DEF Uncounted
<1>10. \A i : InNoHand(i) => InNoHand(i)'
  BY <1>3, <1>6, <1>8 DEF InNoHand
<1>11. /\ stats'.queued = stats.queued /\ stats'.scanned = stats.scanned + 1
       /\ stats'.alive = stats.alive + (IF ok THEN 1 ELSE 0)
       /\ stats' \in [queued : Nat, scanned : Nat, alive : Nat, dead : Nat]
  <2>1. /\ stats \in [queued : Nat, scanned : Nat, alive : Nat, dead : Nat]
        /\ stats.scanned + 1 \in Nat /\ stats.alive + 1 \in Nat /\ stats.dead + 1 \in Nat
        /\ stats.alive \in Nat
    BY DEF TypeOK
  <2>2. CASE ok
    BY <1>2, <2>1, <2>2
  <2>3. CASE ~ ok
    <3>1. stats' = [stats EXCEPT !.scanned = @ + 1, !.dead = @ + 1]
      BY <1>2, <2>3
    <3>2. /\ stats'.queued = stats.queued /\ stats'.scanned = stats.scanned + 1
          /\ stats'.alive = stats.alive /\ stats.alive + 0 = stats.alive
      BY <2>1, <3>1
    <3>3. stats' \in [queued : Nat, scanned : Nat, alive : Nat, dead : Nat]
      BY <2>1, <3>1
    <3> QED
      BY <2>3, <3>2, <3>3
  <2> QED
    BY <2>2, <2>3
<1>12. TypeOK'
  <2>1. recorded' \subseteq [job : JobIds, ok : BOOLEAN]
    BY <1>2, <1>3, <1>4 DEF TypeOK
  <2> QED
    BY <1>1, <1>2, <1>7, <1>11, <2>1 DEF TypeOK, JobIds
<1>13. ReaderInv' /\ QueueInv'
  BY <1>2, <1>4, <1>9, <1>10, <1>11 DEF ReaderInv, QueueInv
<1>14. WorkInv'
  <2>1. \A u, v \in Workers : Busy(u)' /\ Busy(v)' /\ work'[u].job = work'[v].job => u = v
    BY <1>4, <1>6, <1>8 DEF WorkInv
  <2>2. ASSUME NEW v \in Workers, v # w
        PROVE  /\ Busy(v)' => work'[v].job > 0
               /\ work'[v].pc \in {"check", "record"} =>
                    \A s \in recorded' : s.job # work'[v].job
               /\ work'[v].pc \in {"export", "save"} =>
                    [job |-> work'[v].job, ok |-> TRUE] \in recorded'
               /\ work'[v].pc = "export" => work'[v].job \notin Exported
               /\ work'[v].pc = "save" =>
                    /\ HasStore /\ work'[v].job \in Exported
                    /\ work'[v].job \notin Range(saved)
    <3>1. work'[v] = work[v] /\ (Busy(v)' <=> Busy(v))
      BY <1>6, <2>2
    <3>2. work[v].pc \in {"check", "record"} => Uncounted(work[v].job) /\ work[v].job # j
      BY <1>4, <2>2 DEF WorkInv, Busy
    <3> QED
      BY <1>2, <3>1, <3>2 DEF WorkInv, Uncounted
  <2>3. /\ Busy(w)' => work'[w].job > 0
        /\ work'[w].pc \notin {"check", "record", "save"}
        /\ work'[w].pc = "export" =>
             work'[w].job \notin Exported /\ [job |-> work'[w].job, ok |-> TRUE] \in recorded'
    <3>1. CASE ok
      <4>1. [job |-> j, ok |-> TRUE] \in recorded'
        BY <1>2, <1>3, <3>1
      <4> QED
        BY <1>4, <1>5, <1>8, <3>1, <4>1
    <3>2. CASE ~ ok
      BY <1>8, <3>2
    <3> QED
      BY <3>1, <3>2
  <2> QED
    BY <1>2, <2>1, <2>2, <2>3, NothingWritten DEF WorkInv, Uncounted
<1>15. FilesInv'
  BY <1>2, <1>6 DEF FilesInv, Exported
<1>16. CountInv'
  <2>1. Checking' = Checking - 1 /\ Writing' = Writing + (IF ok THEN 1 ELSE 0)
    <3>1. /\ Checking' = Checking + (IF r.pc \in {"check", "record"} THEN 1 ELSE 0)
                                  - (IF work[w].pc \in {"check", "record"} THEN 1 ELSE 0)
          /\ Writing' = Writing + (IF r.pc = "export" THEN 1 ELSE 0)
                                - (IF work[w].pc = "export" THEN 1 ELSE 0)
      <4> HIDE DEF r
      <4> QED
        BY <1>1, SomebodyMoves
    <3>2. work[w].pc = "record" /\ r.pc = (IF ok THEN "export" ELSE "idle")
      BY <1>2, <1>3, <1>7
    <3>3. Checking \in Nat /\ Writing \in Nat
      BY CountTypes
    <3> QED
      BY <3>1, <3>2, <3>3
  <2>2. /\ InHand' = InHand /\ Len(accepted)' = Len(accepted) /\ Written' = Written
        /\ Len(jobs)' = Len(jobs)
    BY <1>2, NothingWritten DEF InHand
  <2>3. InHand' + Len(jobs)' + Checking' + stats'.scanned
          = InHand + Len(jobs) + Checking + stats.scanned
    <3>1. Checking' = Checking - 1 /\ stats'.scanned = stats.scanned + 1
      BY <1>11, <2>1
    <3> QED
      BY <2>2, <3>1, CountTypes
  <2>4. stats'.alive = Written' + Writing'
    <3>1. stats.alive = Written + Writing
      BY DEF CountInv
    <3>2. stats'.alive = stats.alive + (IF ok THEN 1 ELSE 0)
      BY <1>11
    <3>3. Writing' = Writing + (IF ok THEN 1 ELSE 0) /\ Written' = Written
      BY <2>1, <2>2
    <3>4. Written \in Nat /\ Writing \in Nat
      BY CountTypes
    <3> HIDE DEF ok
    <3> QED
      BY <3>1, <3>2, <3>3, <3>4
  <2> QED
    BY <2>2, <2>3, <2>4, CountStep
<1> QED
  BY <1>12, <1>13, <1>14, <1>15, <1>16

(* The job goes to the exporter once: nobody else had it in hand.          *)
LEMMA ExportKeepsInv ==
  ASSUME PipeInv, NEW w \in Workers, work[w].pc = "export",
         work' = IF HasStore THEN Goto(w, "save") ELSE Idle(w),
         UNCHANGED <<ctxDone, ingest, seen, accepted, jobs, stats, recorded, saved>>,
         files' \in Seq(JobIds), IsInjective(files'),
         missed' \subseteq IF FilesMayFail THEN JobIds ELSE {},
         missed' \cap Range(files') = {},
         Exported' = Exported \cup {work[w].job}, Written' = Written + 1
  PROVE  PipeInv'
<1> USE DEF PipeInv
<1> DEFINE j == work[w].job
           r == IF HasStore THEN [work[w] EXCEPT !.pc = "save"]
                            ELSE [pc |-> "idle", job |-> 0, ok |-> FALSE]
<1>1. work' = [work EXCEPT ![w] = r]
  BY DEF Goto, Idle, TypeOK
<1>2. /\ work[w].pc = "export" /\ Exported' = Exported \cup {j}
      /\ UNCHANGED <<ctxDone, ingest, seen, accepted, jobs, stats, recorded, saved>>
  OBVIOUS
<1>3. Busy(w)
  BY <1>2 DEF Busy
<1>4. /\ j \in JobIds /\ j > 0 /\ j \notin Range(jobs)
      /\ [job |-> j, ok |-> TRUE] \in recorded
      /\ j \notin Exported /\ j \notin Range(saved)
      /\ \A v \in Workers : v # w /\ Busy(v) => work[v].job # j
  BY <1>2, <1>3, BusyJob DEF WorkInv, FilesInv
<1>5. /\ files' \in Seq(JobIds) /\ IsInjective(files') /\ missed' \cap Range(files') = {}
      /\ missed' \subseteq IF FilesMayFail THEN JobIds ELSE {}
      /\ Exported' = Exported \cup {j} /\ Written' = Written + 1
  OBVIOUS
<1>6. /\ work'[w] = r
      /\ \A v \in Workers : v # w => work'[v] = work[v] /\ (Busy(v)' <=> Busy(v))
  BY <1>1, OneMoves
<1>7. /\ r \in [pc : {"idle", "check", "record", "export", "save", "exited"},
                job : 0 .. Len(accepted), ok : BOOLEAN]
      /\ HasStore => r.pc = "save" /\ r.job = j
      /\ ~ HasStore => r.pc = "idle"
  <2>1. work[w] \in [pc : {"idle", "check", "record", "export", "save", "exited"},
                     job : 0 .. Len(accepted), ok : BOOLEAN]
    BY DEF TypeOK
  <2>2. 0 \in 0 .. Len(accepted)
    BY PartTypes
  <2> QED
    BY <2>1, <2>2
<1>8. /\ Busy(w)' <=> HasStore
      /\ HasStore => work'[w].pc = "save" /\ work'[w].job = j
      /\ ~ HasStore => work'[w].pc = "idle"
  BY <1>6, <1>7, HasStoreAssumption DEF Busy
<1> HIDE DEF r
<1>9. \A i : InNoHand(i) => InNoHand(i)'
  BY <1>3, <1>6, <1>8 DEF InNoHand
<1>10. TypeOK'
  <2>1. JobIds' = JobIds /\ accepted' = accepted
    BY <1>2 DEF JobIds
  <2>2. work' \in [Workers -> [pc : {"idle", "check", "record", "export", "save", "exited"},
                               job : 0 .. Len(accepted), ok : BOOLEAN]]
    BY <1>1, <1>7 DEF TypeOK
  <2> QED
    BY <1>2, <1>5, <2>1, <2>2 DEF TypeOK
<1>11. ReaderInv' /\ QueueInv'
  BY <1>2, <1>9 DEF ReaderInv, QueueInv, Uncounted
<1>12. WorkInv'
  <2>1. \A u, v \in Workers : Busy(u)' /\ Busy(v)' /\ work'[u].job = work'[v].job => u = v
    BY <1>4, <1>6, <1>8 DEF WorkInv
  <2>2. ASSUME NEW v \in Workers, v # w
        PROVE  /\ Busy(v)' => work'[v].job > 0
               /\ work'[v].pc \in {"check", "record"} =>
                    \A s \in recorded : s.job # work'[v].job
               /\ work'[v].pc \in {"export", "save"} =>
                    [job |-> work'[v].job, ok |-> TRUE] \in recorded
               /\ work'[v].pc = "export" => work'[v].job \notin Exported'
               /\ work'[v].pc = "save" =>
                    /\ HasStore /\ work'[v].job \in Exported'
                    /\ work'[v].job \notin Range(saved)
    <3>1. work'[v] = work[v] /\ (Busy(v)' <=> Busy(v))
      BY <1>6, <2>2
    <3>2. work[v].pc = "export" => work[v].job # j
      BY <1>4, <2>2 DEF Busy
    <3> QED
      BY <1>5, <3>1, <3>2 DEF WorkInv, Uncounted
  <2>3. /\ Busy(w)' => work'[w].job > 0
        /\ work'[w].pc \notin {"check", "record", "export"}
        /\ work'[w].pc = "save" =>
             /\ HasStore /\ [job |-> work'[w].job, ok |-> TRUE] \in recorded
             /\ work'[w].job \in Exported' /\ work'[w].job \notin Range(saved)
    BY <1>4, <1>5, <1>8, HasStoreAssumption
  <2> QED
    BY <1>2, <2>1, <2>2, <2>3 DEF WorkInv, Uncounted
<1>13. FilesInv'
  <2>1. \A i \in Exported' : [job |-> i, ok |-> TRUE] \in recorded
    BY <1>4, <1>5 DEF FilesInv
  <2>2. ASSUME HasStore, NEW i \in Exported'
        PROVE  i \in Range(saved) \/ \E v \in Workers : work'[v].pc = "save" /\ work'[v].job = i
    <3>1. CASE i = j
      BY <1>8, <2>2, <3>1
    <3>2. CASE i \in Exported
      <4>1. i \in Range(saved) \/ \E v \in Workers : work[v].pc = "save" /\ work[v].job = i
        BY <2>2, <3>2 DEF FilesInv
      <4> QED
        BY <1>2, <1>6, <4>1
    <3> QED
      BY <1>5, <2>2, <3>1, <3>2
  <2> QED
    BY <1>2, <1>5, <2>1, <2>2 DEF FilesInv
<1>14. CountInv'
  <2>1. Checking' = Checking /\ Writing' = Writing - 1
    <3>1. /\ Checking' = Checking + (IF r.pc \in {"check", "record"} THEN 1 ELSE 0)
                                  - (IF work[w].pc \in {"check", "record"} THEN 1 ELSE 0)
          /\ Writing' = Writing + (IF r.pc = "export" THEN 1 ELSE 0)
                                - (IF work[w].pc = "export" THEN 1 ELSE 0)
      BY <1>1, SomebodyMoves
    <3>2. work[w].pc = "export" /\ r.pc \in {"save", "idle"}
      BY <1>2, <1>7, HasStoreAssumption
    <3>3. Checking \in Nat /\ Writing \in Nat
      BY CountTypes
    <3> QED
      BY <3>1, <3>2, <3>3
  <2>2. /\ InHand' = InHand /\ Len(accepted)' = Len(accepted)
        /\ Written' = Written + 1
        /\ Len(jobs)' = Len(jobs) /\ stats' = stats
    BY <1>2, <1>5 DEF InHand
  <2>3. InHand' + Len(jobs)' + Checking' + stats'.scanned
          = InHand + Len(jobs) + Checking + stats.scanned
    BY <2>1, <2>2
  <2>4. stats'.alive = Written' + Writing'
    <3>1. stats.alive = Written + Writing
      BY DEF CountInv
    <3> QED
      BY <2>1, <2>2, <3>1, CountTypes
  <2> QED
    BY <2>2, <2>3, <2>4, CountStep
<1> QED
  BY <1>10, <1>11, <1>12, <1>13, <1>14

LEMMA JobToWrite ==
  ASSUME PipeInv, NEW w \in Workers, work[w].pc = "export"
  PROVE  work[w].job \in JobIds /\ work[w].job \notin Exported
<1>1. Busy(w)
  BY DEF Busy
<1> QED
  BY <1>1, BusyJob DEF PipeInv, WorkInv

LEMMA WriteKeepsInv ==
  ASSUME PipeInv, NEW w \in Workers, WriteAlive(w)
  PROVE  PipeInv'
<1> DEFINE j == work[w].job
<1>1. j \in JobIds /\ j \notin Exported
  BY JobToWrite DEF WriteAlive
<1>2. /\ files' = Append(files, j) /\ missed' = missed
      /\ files \in Seq(JobIds) /\ IsInjective(files) /\ missed \cap Range(files) = {}
      /\ missed \subseteq IF FilesMayFail THEN JobIds ELSE {}
  BY DEF WriteAlive, PipeInv, TypeOK, FilesInv
<1>3. j \notin missed /\ j \notin Range(files)
  BY <1>1 DEF Exported
<1>4. /\ files' \in Seq(JobIds) /\ Len(files') = Len(files) + 1
      /\ Range(files') = Range(files) \cup {j} /\ IsInjective(files')
  BY <1>1, <1>2, <1>3, AppendFacts
<1>5. missed' \cap Range(files') = {} /\ Exported' = Exported \cup {j}
  BY <1>2, <1>3, <1>4 DEF Exported
<1>6. Written' = Written + 1
  <2>1. Len(files) \in Nat /\ Cardinality(missed) \in Nat
    BY PartTypes DEF PipeInv
  <2> QED
    BY <1>2, <1>4, <2>1 DEF Written
<1> QED
  BY <1>2, <1>4, <1>5, <1>6, ExportKeepsInv DEF WriteAlive

LEMMA LostLineKeepsInv ==
  ASSUME PipeInv, NEW w \in Workers, LineIsLost(w)
  PROVE  PipeInv'
<1> DEFINE j == work[w].job
<1>1. j \in JobIds /\ j \notin Exported
  BY JobToWrite DEF LineIsLost
<1>2. /\ missed' = missed \cup {j} /\ files' = files /\ FilesMayFail
      /\ files \in Seq(JobIds) /\ IsInjective(files) /\ missed \cap Range(files) = {}
      /\ missed \subseteq IF FilesMayFail THEN JobIds ELSE {}
  BY DEF LineIsLost, PipeInv, TypeOK, FilesInv
<1>3. j \notin missed /\ j \notin Range(files)
  BY <1>1 DEF Exported
<1>4. /\ missed' \subseteq IF FilesMayFail THEN JobIds ELSE {}
      /\ missed' \cap Range(files') = {} /\ Exported' = Exported \cup {j}
  BY <1>1, <1>2, <1>3 DEF Exported
<1>5. Written' = Written + 1
  <2>1. Len(files) \in Nat /\ IsFiniteSet(missed) /\ Cardinality(missed) \in Nat
    BY PartTypes DEF PipeInv
  <2>2. Cardinality(missed \cup {j}) = Cardinality(missed) + 1
    BY <1>3, <2>1, FS_AddElement
  <2>3. Len(files') = Len(files) /\ Cardinality(missed') = Cardinality(missed) + 1
    BY <1>2, <2>2
  <2> QED
    BY <2>1, <2>3 DEF Written
<1> QED
  BY <1>2, <1>4, <1>5, ExportKeepsInv DEF LineIsLost

LEMMA SaveKeepsInv ==
  ASSUME PipeInv, NEW w \in Workers, SaveProxy(w)
  PROVE  PipeInv'
<1> USE DEF PipeInv
<1> DEFINE j == work[w].job
           r == [pc |-> "idle", job |-> 0, ok |-> FALSE]
<1>1. work' = [work EXCEPT ![w] = r]
  BY DEF SaveProxy, Idle
<1>2. /\ work[w].pc = "save" /\ saved' = Append(saved, j)
      /\ UNCHANGED <<ctxDone, ingest, seen, accepted, jobs, stats, recorded, files, missed>>
  BY DEF SaveProxy
<1>3. Busy(w)
  BY <1>2 DEF Busy
<1>4. /\ j \in JobIds /\ j \in Exported /\ j \notin Range(saved)
      /\ \A v \in Workers : v # w /\ Busy(v) => work[v].job # j
  BY <1>2, <1>3, BusyJob DEF WorkInv
<1>5. /\ saved' \in Seq(JobIds)
      /\ Range(saved') = Range(saved) \cup {j} /\ IsInjective(saved')
  BY <1>2, <1>4, AppendFacts DEF TypeOK, FilesInv
<1>6. /\ work'[w] = r
      /\ \A v \in Workers : v # w => work'[v] = work[v] /\ (Busy(v)' <=> Busy(v))
  BY <1>1, OneMoves
<1>7. r \in [pc : {"idle", "check", "record", "export", "save", "exited"},
             job : 0 .. Len(accepted), ok : BOOLEAN]
  BY PartTypes
<1>8. ~ Busy(w)' /\ work'[w].pc = "idle"
  BY <1>6 DEF Busy
<1>9. \A i : InNoHand(i) => InNoHand(i)'
  BY <1>3, <1>6, <1>8 DEF InNoHand
<1>10. TypeOK'
  BY <1>1, <1>2, <1>5, <1>7 DEF TypeOK, JobIds
<1>11. ReaderInv' /\ QueueInv'
  BY <1>2, <1>9 DEF ReaderInv, QueueInv, Uncounted
<1>12. WorkInv'
  <2>1. \A u, v \in Workers : Busy(u)' /\ Busy(v)' /\ work'[u].job = work'[v].job => u = v
    BY <1>6, <1>8 DEF WorkInv
  <2>2. ASSUME NEW v \in Workers, v # w
        PROVE  /\ Busy(v)' => work'[v].job > 0
               /\ work'[v].pc \in {"check", "record"} =>
                    \A s \in recorded : s.job # work'[v].job
               /\ work'[v].pc \in {"export", "save"} =>
                    [job |-> work'[v].job, ok |-> TRUE] \in recorded
               /\ work'[v].pc = "export" => work'[v].job \notin Exported
               /\ work'[v].pc = "save" =>
                    /\ HasStore /\ work'[v].job \in Exported
                    /\ work'[v].job \notin Range(saved')
    <3>1. work'[v] = work[v] /\ (Busy(v)' <=> Busy(v))
      BY <1>6, <2>2
    <3>2. work[v].pc = "save" => work[v].job # j
      BY <1>4, <2>2 DEF Busy
    <3> QED
      BY <1>5, <3>1, <3>2 DEF WorkInv, Uncounted
  <2> QED
    BY <1>2, <1>8, <2>1, <2>2, NothingWritten DEF WorkInv, Uncounted
<1>13. FilesInv'
  <2>1. ASSUME HasStore, NEW i \in Exported
        PROVE  i \in Range(saved') \/ \E v \in Workers : work'[v].pc = "save" /\ work'[v].job = i
    <3>1. i \in Range(saved) \/ \E v \in Workers : work[v].pc = "save" /\ work[v].job = i
      BY <2>1 DEF FilesInv
    <3> QED
      BY <1>5, <1>6, <3>1
  <2> QED
    BY <1>2, <1>4, <1>5, <2>1, NothingWritten DEF FilesInv
<1>14. CountInv'
  <2>1. Checking' = Checking /\ Writing' = Writing
    <3>1. /\ Checking' = Checking + (IF r.pc \in {"check", "record"} THEN 1 ELSE 0)
                                  - (IF work[w].pc \in {"check", "record"} THEN 1 ELSE 0)
          /\ Writing' = Writing + (IF r.pc = "export" THEN 1 ELSE 0)
                                - (IF work[w].pc = "export" THEN 1 ELSE 0)
      <4> HIDE DEF r
      <4> QED
        BY <1>1, SomebodyMoves
    <3>2. work[w].pc = "save" /\ r.pc = "idle"
      BY <1>2
    <3>3. Checking \in Nat /\ Writing \in Nat
      BY CountTypes
    <3> HIDE DEF r
    <3> QED
      BY <3>1, <3>2, <3>3
  <2> QED
    BY <1>2, <2>1, NothingWritten DEF CountInv, InHand
<1> QED
  BY <1>10, <1>11, <1>12, <1>13, <1>14

(* The invariant holds whatever step the pipeline, or its command, takes.  *)
LEMMA PipelineKeepsInv ==
  ASSUME PipeInv, Next \/ ReadAgain \/ Cancel \/ UNCHANGED pipeVars
  PROVE  PipeInv'
<1>1. CASE ReadLine
  BY <1>1, TurnKeepsInv, AcceptKeepsInv DEF ReadLine
<1>2. CASE QueueLine
  BY <1>2, IncQueuedKeepsInv, PushKeepsInv, PushCancelledKeepsInv DEF QueueLine
<1>3. CASE (\E k \in Keys : ForgetKey(k)) \/ Cancel
  BY <1>3, ForgetOrCancelKeepsInv
<1>4. ASSUME NEW w \in Workers, WorkerStep(w) PROVE PipeInv'
  BY <1>4, ExitKeepsInv, TakeKeepsInv, CheckKeepsInv, RecordKeepsInv, WriteKeepsInv,
     LostLineKeepsInv, SaveKeepsInv DEF WorkerStep
<1>5. CASE ReadAgain
  BY <1>5, TurnKeepsInv
<1>6. CASE UNCHANGED pipeVars
  <2>1. TypeOK' /\ ReaderInv' /\ QueueInv' /\ WorkInv' /\ FilesInv'
    BY <1>6 DEF pipeVars, PipeInv, TypeOK, ReaderInv, QueueInv, WorkInv, FilesInv, Exported, InNoHand,
                Busy, Uncounted, JobIds
  <2>2. CountInv'
    BY <1>6, NobodyMoves, NothingWritten DEF pipeVars, PipeInv, CountInv, InHand
  <2> QED
    BY <2>1, <2>2 DEF PipeInv
<1> QED
  BY <1>1, <1>2, <1>3, <1>4, <1>5, <1>6 DEF Next

(* What the invariant says of the counters and of the files.               *)
LEMMA PipeInvMeans ==
  ASSUME PipeInv
  PROVE  JobsConserved /\ AliveIsExported /\ FilesBeforeStore
<1> USE DEF PipeInv
<1>1. EachJobInOnePlace
  BY DEF EachJobInOnePlace, CountInv, Checking
<1>2. QueuedCoversScanned
  <2>1. stats.queued = Len(accepted) - (IF ingest.pc = "count" THEN 1 ELSE 0)
    BY DEF ReaderInv
  <2>2. InHand >= (IF ingest.pc = "count" THEN 1 ELSE 0)
    BY PartTypes DEF InHand
  <2>3. Len(accepted) = InHand + Len(jobs) + Checking + stats.scanned
    BY DEF CountInv
  <2> QED
    BY <2>1, <2>2, <2>3, CountTypes DEF QueuedCoversScanned
<1>3. AliveIsExported
  BY DEF AliveIsExported, FilesInv, CountInv, Writing, Written
<1>4. FilesBeforeStore
  BY DEF FilesBeforeStore, FilesInv
<1> QED
  BY <1>1, <1>2, <1>3, <1>4 DEF JobsConserved
=============================================================================
