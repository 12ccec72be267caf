--------------------------- MODULE ExporterProofs ---------------------------
(***************************************************************************)
(* Proofs about the output files (module Exporter): what WriteAlive leaves *)
(* in them across kills and restarts, and what SyncAliveFiles leaves.      *)
(***************************************************************************)
EXTENDS Exporter, FiniteSetTheorems, SequenceTheorems, TLAPS

(***************************************************************************)
(* The elements of sequences, and steps counted up to a number.            *)
(***************************************************************************)
LEMMA ToSetOfSeq ==
  ASSUME NEW S, NEW s \in Seq(S)
  PROVE  /\ ToSet(s) = Range(s) /\ ToSet(s) \subseteq S
         /\ s \in Seq(ToSet(s))
         /\ \A e \in S : ToSet(Append(s, e)) = ToSet(s) \cup {e}
         /\ s # <<>> => ToSet(s) = {Head(s)} \cup ToSet(Tail(s))
<1>1. ToSet(s) = Range(s)
  BY DEF ToSet, Range
<1>2. Range(s) \subseteq S /\ s \in Seq(Range(s))
  BY RangeOfSeq, SeqOfRange
<1>3. ASSUME NEW e \in S PROVE ToSet(Append(s, e)) = ToSet(s) \cup {e}
  <2>1. PICK t : t = Append(s, e)
    OBVIOUS
  <2>2. /\ t \in Seq(S) /\ Len(t) = Len(s) + 1
        /\ \A i \in 1 .. Len(s) : t[i] = s[i]
        /\ t[Len(s) + 1] = e
    BY <2>1, AppendProperties
  <2>3. DOMAIN t = 1 .. Len(t) /\ DOMAIN s = 1 .. Len(s) /\ Len(s) \in Nat
    BY <2>2, LenProperties
  <2>4. DOMAIN t = (DOMAIN s) \cup {Len(s) + 1}
    BY <2>2, <2>3
  <2> QED
    BY <2>1, <2>2, <2>3, <2>4 DEF ToSet
<1>4. ASSUME s # <<>> PROVE ToSet(s) = {Head(s)} \cup ToSet(Tail(s))
  <2>1. PICK t : t = Tail(s)
    OBVIOUS
  <2>2. /\ t \in Seq(S) /\ Len(t) = Len(s) - 1
        /\ \A i \in 1 .. Len(t) : t[i] = s[i + 1]
        /\ Head(s) = s[1]
    BY <1>4, <2>1, HeadTailProperties
  <2>3. /\ DOMAIN t = 1 .. Len(t) /\ DOMAIN s = 1 .. Len(s)
        /\ Len(s) \in Nat /\ Len(t) \in Nat
    BY <2>2, LenProperties
  <2>4. ASSUME NEW i \in DOMAIN s PROVE s[i] = Head(s) \/ \E j \in DOMAIN t : t[j] = s[i]
    <3>1. CASE i = 1
      BY <2>2, <3>1
    <3>2. CASE i # 1
      <4>1. i - 1 \in 1 .. Len(t) /\ i = (i - 1) + 1
        BY <2>2, <2>3, <3>2
      <4> QED
        BY <2>2, <2>3, <4>1
    <3> QED
      BY <3>1, <3>2
  <2>5. ASSUME NEW j \in DOMAIN t PROVE j + 1 \in DOMAIN s /\ t[j] = s[j + 1]
    BY <2>2, <2>3
  <2>6. 1 \in DOMAIN s
    <3>1. Len(s) # 0
      BY <1>4, EmptySeq
    <3> QED
      BY <2>3, <3>1
  <2> QED
    BY <2>1, <2>2, <2>4, <2>5, <2>6 DEF ToSet
<1> QED
  BY <1>1, <1>2, <1>3, <1>4

LEMMA ToSetOfConcat ==
  ASSUME NEW S, NEW s \in Seq(S), NEW t \in Seq(S)
  PROVE  s \o t \in Seq(S) /\ ToSet(s \o t) = ToSet(s) \cup ToSet(t)
<1>1. s \o t \in Seq(S) /\ Range(s \o t) = Range(s) \cup Range(t)
  BY ConcatProperties, RangeConcatenation
<1> QED
  BY <1>1, ToSetOfSeq

LEMMA HeadStays ==
  ASSUME NEW S, NEW s \in Seq(S), NEW t \in Seq(S), s # <<>>
  PROVE  s \o t \in Seq(S) /\ s \o t # <<>> /\ Head(s \o t) = Head(s)
<1>1. PICK u : u = s \o t
  OBVIOUS
<1>2. /\ u \in Seq(S) /\ Len(u) = Len(s) + Len(t)
      /\ \A i \in 1 .. Len(s) + Len(t) : u[i] = IF i <= Len(s) THEN s[i] ELSE t[i - Len(s)]
  BY <1>1, ConcatProperties
<1>3. Len(s) \in Nat \ {0} /\ Len(t) \in Nat
  BY EmptySeq, LenProperties
<1>4. u # <<>> /\ u[1] = s[1]
  <2>1. 1 \in 1 .. Len(s) + Len(t) /\ 1 <= Len(s) /\ Len(u) # 0
    BY <1>2, <1>3
  <2> QED
    BY <1>2, <2>1, EmptySeq
<1>5. Head(u) = u[1] /\ Head(s) = s[1]
  BY <1>2, <1>4
<1> QED
  BY <1>1, <1>2, <1>4, <1>5

LEMMA LeastNumber ==
  ASSUME NEW T, T \subseteq Nat, T # {}
  PROVE  \E n \in T : \A m \in T : n <= m
<1> DEFINE R == OpToRel(<, Nat)
<1>1. IsWellFoundedOn(R, Nat)
  BY NatLessThanWellFounded, Zenon
<1>2. \A x, y \in Nat : <<y, x>> \in R <=> y < x
  BY DEF OpToRel
<1> HIDE DEF R
<1>3. PICK n \in T : \A m \in T : ~ (<<m, n>> \in R)
  BY <1>1, WFMin
<1>4. ASSUME NEW m \in T PROVE n <= m
  <2>1. n \in Nat /\ m \in Nat /\ ~ (m < n)
    BY <1>2, <1>3
  <2> QED
    BY <2>1
<1> QED
  BY <1>4
LEMMA StepByStep ==
  ASSUME NEW L \in Nat, NEW G, 0 \in G, \A n \in 1 .. L : n - 1 \in G => n \in G
  PROVE  \A n \in 0 .. L : n \in G
<1> SUFFICES ASSUME NEW k \in 0 .. L, k \notin G PROVE FALSE
  OBVIOUS
<1>1. PICK n \in (0 .. L) \ G : \A m \in (0 .. L) \ G : n <= m
  <2>1. (0 .. L) \ G \subseteq Nat
    OBVIOUS
  <2> QED
    BY <2>1, LeastNumber
<1>2. n \in 1 .. L
  BY <1>1
<1>3. n - 1 \in 0 .. L /\ ~ (n <= n - 1)
  BY <1>2
<1> QED
  BY <1>1, <1>2, <1>3


(***************************************************************************)
(* The files of a proxy: alive.txt comes first in the order of WriteAlive. *)
(***************************************************************************)
LEMMA WhenInSeq ==
  ASSUME NEW S, NEW cond, NEW s \in Seq(S)
  PROVE  When(cond, s) \in Seq(S)
<1>1. When(cond, s) = s \/ When(cond, s) = <<>>
  BY DEF When
<1> QED
  BY <1>1, EmptySeq

LEMMA TextFilesOfProxy ==
  ASSUME NEW p \in Proxies
  PROVE  /\ TextFiles(p) \in Seq(FileNames) /\ TextFiles(p) # <<>>
         /\ Head(TextFiles(p)) = Alive /\ Alive \in ToSet(TextFiles(p))
         /\ ToSet(TextFiles(p)) \subseteq FileNames
<1> DEFINE N == {Alive, <<"alive_url">>, <<"type", p.protocol>>, <<"elite">>, <<"socks5_elite">>,
                 <<"fast">>, <<"high_quality">>, <<"country", p.country>>,
                 <<"country", p.country, p.protocol>>}
           general == <<Alive, <<"alive_url">>>>
           type == When(SplitByType, <<<<"type", p.protocol>>>>)
           socks5 == When(p.protocol = "socks5", <<<<"socks5_elite">>>>)
           elite == When(p.elite, <<<<"elite">>>> \o socks5)
           fast == When(p.fast, <<<<"fast">>>>)
           good == When(p.good, <<<<"high_quality">>>>)
           country == When(SplitByCountry /\ p.country # NoCountry,
                           <<<<"country", p.country>>, <<"country", p.country, p.protocol>>>>)
<1>1. TextFiles(p) = general \o type \o elite \o fast \o good \o country
  BY DEF TextFiles
<1>2. general \in Seq(N) /\ general # <<>> /\ Head(general) = Alive
  OBVIOUS
<1>3. type \in Seq(N)
  <2>1. <<<<"type", p.protocol>>>> \in Seq(N)
    OBVIOUS
  <2> HIDE DEF N
  <2> QED
    BY <2>1, WhenInSeq
<1>4. elite \in Seq(N)
  <2>1. <<<<"socks5_elite">>>> \in Seq(N) /\ <<<<"elite">>>> \in Seq(N)
    OBVIOUS
  <2> HIDE DEF N
  <2>2. socks5 \in Seq(N)
    BY <2>1, WhenInSeq
  <2> HIDE DEF socks5
  <2>3. <<<<"elite">>>> \o socks5 \in Seq(N)
    BY <2>1, <2>2, ConcatProperties
  <2> QED
    BY <2>3, WhenInSeq
<1>5. fast \in Seq(N) /\ good \in Seq(N)
  <2>1. <<<<"fast">>>> \in Seq(N) /\ <<<<"high_quality">>>> \in Seq(N)
    OBVIOUS
  <2> HIDE DEF N
  <2> QED
    BY <2>1, WhenInSeq
<1>6. country \in Seq(N)
  <2>1. <<<<"country", p.country>>, <<"country", p.country, p.protocol>>>> \in Seq(N)
    OBVIOUS
  <2> HIDE DEF N
  <2> QED
    BY <2>1, WhenInSeq
<1> HIDE DEF N, general, type, elite, fast, good, country
<1>7. PICK s1 : s1 = general \o type
  OBVIOUS
<1>8. s1 \in Seq(N) /\ s1 # <<>> /\ Head(s1) = Alive
  BY <1>2, <1>3, <1>7, HeadStays
<1>9. PICK s2 : s2 = s1 \o elite
  OBVIOUS
<1>10. s2 \in Seq(N) /\ s2 # <<>> /\ Head(s2) = Alive
  BY <1>4, <1>8, <1>9, HeadStays
<1>11. PICK s3 : s3 = s2 \o fast
  OBVIOUS
<1>12. s3 \in Seq(N) /\ s3 # <<>> /\ Head(s3) = Alive
  BY <1>5, <1>10, <1>11, HeadStays
<1>13. PICK s4 : s4 = s3 \o good
  OBVIOUS
<1>14. s4 \in Seq(N) /\ s4 # <<>> /\ Head(s4) = Alive
  BY <1>5, <1>12, <1>13, HeadStays
<1>15. PICK s5 : s5 = s4 \o country
  OBVIOUS
<1>16. s5 \in Seq(N) /\ s5 # <<>> /\ Head(s5) = Alive
  BY <1>6, <1>14, <1>15, HeadStays
<1>17. TextFiles(p) = s5
  BY <1>1, <1>7, <1>9, <1>11, <1>13, <1>15
<1>18. s5 \in Seq(ToSet(s5)) /\ Alive \in ToSet(s5)
  BY <1>16, ToSetOfSeq
<1>19. ToSet(s5) \subseteq FileNames
  BY <1>17 DEF FileNames
<1>20. s5 \in Seq(FileNames)
  BY <1>18, <1>19, SeqMonotonic
<1> QED
  BY <1>16, <1>17, <1>18, <1>19, <1>20

(* Where a proxy is to be found once WriteAlive has returned.              *)
Needed(p) == ToSet(TextFiles(p)) \cup (IF SaveJSON THEN {<<"json">>} ELSE {})

LEMMA AllFilesOfProxy ==
  ASSUME NEW p \in Proxies
  PROVE  /\ AllFiles(p) \in Seq(FileNames) /\ AllFiles(p) # <<>>
         /\ Head(AllFiles(p)) = Alive
         /\ Needed(p) \subseteq ToSet(AllFiles(p)) /\ Needed(p) \subseteq FileNames
<1>1. <<"json">> \in FileNames /\ Csv \in FileNames
  BY DEF FileNames
<1> DEFINE json == When(SaveJSON, <<<<"json">>>>)
           table == When(csv, <<Csv>>)
<1>2. AllFiles(p) = TextFiles(p) \o json \o table
  BY DEF AllFiles
<1>3. json \in Seq(FileNames) /\ table \in Seq(FileNames)
  <2>1. <<<<"json">>>> \in Seq(FileNames) /\ <<Csv>> \in Seq(FileNames)
    BY <1>1
  <2> QED
    BY <2>1, WhenInSeq
<1>4. SaveJSON => <<"json">> \in ToSet(json)
  BY DEF When, ToSet
<1> HIDE DEF json, table
<1>5. /\ TextFiles(p) \in Seq(FileNames) /\ TextFiles(p) # <<>>
      /\ Head(TextFiles(p)) = Alive /\ ToSet(TextFiles(p)) \subseteq FileNames
  BY TextFilesOfProxy
<1>6. PICK s : s = TextFiles(p) \o json
  OBVIOUS
<1>7. /\ s \in Seq(FileNames) /\ s # <<>> /\ Head(s) = Alive
      /\ ToSet(s) = ToSet(TextFiles(p)) \cup ToSet(json)
  BY <1>3, <1>5, <1>6, HeadStays, ToSetOfConcat
<1>8. PICK t : t = s \o table
  OBVIOUS
<1>9. /\ t \in Seq(FileNames) /\ t # <<>> /\ Head(t) = Alive
      /\ ToSet(t) = ToSet(s) \cup ToSet(table)
  BY <1>3, <1>7, <1>8, HeadStays, ToSetOfConcat
<1>10. AllFiles(p) = t
  BY <1>2, <1>6, <1>8
<1>11. Needed(p) \subseteq ToSet(t) /\ Needed(p) \subseteq FileNames
  BY <1>1, <1>4, <1>5, <1>7, <1>9 DEF Needed
<1> QED
  BY <1>9, <1>10, <1>11

(***************************************************************************)
(* Which calls the files may belong to: only SyncAliveFiles has lines to   *)
(* write and a file truncated, and it forgets what WriteAlive has written. *)
(***************************************************************************)
FilesTyped ==
  /\ files \in [FileNames -> Seq(Proxies)] /\ lines \in [FileNames -> Seq(Proxies)]
  /\ handles \subseteq FileNames
  /\ csv \in BOOLEAN /\ running \in BOOLEAN
  /\ call \in Proxies \cup {Sync, None}
  /\ todo \in Seq(FileNames)
  /\ torn \subseteq FileNames /\ \A f, g \in torn : f = g
  /\ calls \in 0 .. MaxCalls
  /\ written \subseteq Proxies /\ synced \in BOOLEAN
  /\ missed \subseteq Proxies \X FileNames /\ unsynced \subseteq FileNames

SyncOnly ==
  /\ torn # {} => call = Sync
  /\ \A f \in torn : lines[f] # <<>>
  /\ call = Sync => written = {} /\ synced

(* What WriteAlive has in hand is in a file, missed, or still to do, and   *)
(* alive.txt is what it does first.                                        *)
WriteKeeps ==
  \A p \in Proxies :
    /\ p \in written => \A f \in Needed(p) : Lists(f, p) \/ <<p, f>> \in missed
    /\ p = call =>
         \A f \in Needed(p) : f \in ToSet(todo) \/ Lists(f, p) \/ <<p, f>> \in missed

AliveFirst ==
  /\ ~ synced =>
       \A f \in FileNames, p \in Proxies :
         Lists(f, p) => Lists(Alive, p) \/ <<p, Alive>> \in missed
  /\ call \in Proxies =>
       \/ todo # <<>> /\ Head(todo) = Alive
       \/ Lists(Alive, call) \/ <<call, Alive>> \in missed

FilesInv == FilesTyped /\ SyncOnly /\ WriteKeeps /\ AliveFirst

LEMMA NoLinesTyped ==
  NoLines \in [FileNames -> Seq(Proxies)] /\ \A f \in FileNames : NoLines[f] = <<>>
BY EmptySeq DEF NoLines

LEMMA AliveIsAName == Alive \in FileNames
BY DEF FileNames

LEMMA CallsApart == Sync \notin Proxies /\ None \notin Proxies /\ Sync # None
BY MaxCallsAssumption

LEMMA FilesInvInit == Init => FilesInv
<1> SUFFICES ASSUME Init PROVE FilesInv
  OBVIOUS
<1>1. /\ files = NoLines /\ lines = NoLines /\ handles = {} /\ csv = SaveCSV /\ running = TRUE
      /\ call = None /\ todo = <<>> /\ torn = {} /\ calls = 0 /\ written = {} /\ missed = {}
      /\ unsynced = {} /\ synced = FALSE
  BY DEF Init
<1>2. 0 \in 0 .. MaxCalls
  BY MaxCallsAssumption
<1>3. FilesTyped
  BY <1>1, <1>2, NoLinesTyped, EmptySeq, FlagsAssumption DEF FilesTyped
<1>4. SyncOnly
  BY <1>1, CallsApart DEF SyncOnly
<1>5. \A f \in FileNames, p \in Proxies : ~ Lists(f, p)
  BY <1>1, NoLinesTyped DEF Lists, Range
<1>6. WriteKeeps /\ AliveFirst
  BY <1>1, <1>5, CallsApart DEF WriteKeeps, AliveFirst
<1> QED
  BY <1>3, <1>4, <1>6 DEF FilesInv

LEMMA CallWriteAliveKeeps ==
  ASSUME FilesInv, NEW q \in Proxies, CallWriteAlive(q)
  PROVE  FilesInv'
<1>1. /\ running /\ call = None /\ calls < MaxCalls /\ call' = q /\ calls' = calls + 1
      /\ todo' = AllFiles(q)
      /\ UNCHANGED <<files, handles, csv, lines, torn, running, written, missed, unsynced, synced>>
  BY DEF CallWriteAlive, Call
<1>2. PICK names : names = AllFiles(q)
  OBVIOUS
<1>3. /\ names \in Seq(FileNames) /\ names # <<>> /\ Head(names) = Alive
      /\ Needed(q) \subseteq ToSet(names)
  BY <1>2, AllFilesOfProxy
<1>4. todo' = names
  BY <1>1, <1>2
<1>5. calls' \in 0 .. MaxCalls
  BY <1>1, MaxCallsAssumption DEF FilesInv, FilesTyped
<1>6. FilesTyped'
  BY <1>1, <1>3, <1>4, <1>5 DEF FilesInv, FilesTyped
<1>7. SyncOnly'
  BY <1>1, CallsApart DEF FilesInv, SyncOnly
<1>8. WriteKeeps'
  BY <1>1, <1>3, <1>4 DEF FilesInv, WriteKeeps, Lists
<1>9. AliveFirst'
  BY <1>1, <1>3, <1>4 DEF FilesInv, AliveFirst, Lists
<1> QED
  BY <1>6, <1>7, <1>8, <1>9 DEF FilesInv

(* What is to be done shrinks by its first file.                           *)
LEMMA HeadOfTodo ==
  ASSUME FilesTyped, todo # <<>>
  PROVE  /\ Head(todo) \in FileNames /\ Tail(todo) \in Seq(FileNames)
         /\ ToSet(todo) = {Head(todo)} \cup ToSet(Tail(todo))
<1>1. todo \in Seq(FileNames)
  BY DEF FilesTyped
<1> QED
  BY <1>1, HeadTailProperties, ToSetOfSeq

LEMMA AppendLineKeeps == FilesInv /\ AppendLine => FilesInv'
<1> SUFFICES ASSUME FilesInv, AppendLine PROVE FilesInv'
  OBVIOUS
<1>1. PICK h, t, q : h = Head(todo) /\ t = Tail(todo) /\ q = call
  OBVIOUS
<1>2. /\ q \in Proxies /\ todo # <<>>
      /\ files' = [files EXCEPT ![h] = Append(files[h], q)]
      /\ handles' \subseteq handles \cup {h}
      /\ todo' = t
      /\ UNCHANGED <<csv, call, lines, torn, running, calls, written, missed, unsynced, synced>>
  BY <1>1 DEF AppendLine, Appended
<1>3. h \in FileNames /\ t \in Seq(FileNames) /\ ToSet(todo) = {h} \cup ToSet(t)
  BY <1>1, <1>2, HeadOfTodo DEF FilesInv
<1>4. files \in [FileNames -> Seq(Proxies)] /\ files[h] \in Seq(Proxies)
  BY <1>3 DEF FilesInv, FilesTyped
<1>5. Append(files[h], q) \in Seq(Proxies) /\ Range(Append(files[h], q)) = Range(files[h]) \cup {q}
  <2>1. PICK s : s = Append(files[h], q)
    OBVIOUS
  <2>2. s \in Seq(Proxies) /\ ToSet(s) = ToSet(files[h]) \cup {q}
    BY <1>2, <1>4, <2>1, AppendProperties, ToSetOfSeq
  <2>3. ToSet(s) = Range(s) /\ ToSet(files[h]) = Range(files[h])
    BY <1>4, <2>2, ToSetOfSeq
  <2> QED
    BY <2>1, <2>2, <2>3
<1>6. files' \in [FileNames -> Seq(Proxies)]
  BY <1>2, <1>4, <1>5
<1>7. ASSUME NEW f \in FileNames, NEW p \in Proxies
      PROVE  Lists(f, p)' <=> Lists(f, p) \/ (f = h /\ p = q)
  <2>1. files'[f] = IF f = h THEN Append(files[h], q) ELSE files[f]
    BY <1>2, <1>4
  <2> QED
    BY <1>5, <2>1 DEF Lists
<1>8. FilesTyped'
  BY <1>2, <1>3, <1>6 DEF FilesInv, FilesTyped
<1>9. SyncOnly'
  BY <1>2 DEF FilesInv, SyncOnly
<1>10. WriteKeeps'
  <2> SUFFICES ASSUME NEW p \in Proxies, NEW f \in Needed(p)
               PROVE  /\ p \in written => Lists(f, p)' \/ <<p, f>> \in missed
                      /\ p = call => f \in ToSet(t) \/ Lists(f, p)' \/ <<p, f>> \in missed
    BY <1>2 DEF WriteKeeps
  <2>1. f \in FileNames
    BY AllFilesOfProxy
  <2>2. /\ p \in written => Lists(f, p) \/ <<p, f>> \in missed
        /\ p = call => f \in ToSet(todo) \/ Lists(f, p) \/ <<p, f>> \in missed
    BY DEF FilesInv, WriteKeeps
  <2> QED
    BY <1>1, <1>3, <1>7, <2>1, <2>2
<1>11. AliveFirst'
  <2>1. Lists(Alive, q)' \/ <<q, Alive>> \in missed
    BY <1>1, <1>2, <1>7, AliveIsAName DEF FilesInv, AliveFirst
  <2>2. ASSUME ~ synced, NEW f \in FileNames, NEW p \in Proxies, Lists(f, p)'
        PROVE  Lists(Alive, p)' \/ <<p, Alive>> \in missed
    <3>1. CASE Lists(f, p)
      BY <1>7, <2>2, <3>1, AliveIsAName DEF FilesInv, AliveFirst
    <3>2. CASE p = q
      BY <2>1, <3>2
    <3> QED
      BY <1>7, <2>2, <3>1, <3>2
  <2> QED
    BY <1>1, <1>2, <2>1, <2>2 DEF AliveFirst
<1> QED
  BY <1>8, <1>9, <1>10, <1>11 DEF FilesInv

LEMMA LostLineKeeps == FilesInv /\ (OpenFails \/ WriteFails) => FilesInv'
<1> SUFFICES ASSUME FilesInv, OpenFails \/ WriteFails PROVE FilesInv'
  OBVIOUS
<1>1. PICK h, t, q : h = Head(todo) /\ t = Tail(todo) /\ q = call
  OBVIOUS
<1>2. /\ q \in Proxies /\ todo # <<>>
      /\ missed' = missed \cup {<<q, h>>}
      /\ todo' = t
      /\ csv' \in BOOLEAN
      /\ UNCHANGED <<files, handles, call, lines, torn, running, calls, written, unsynced, synced>>
  BY <1>1 DEF OpenFails, WriteFails, FilesInv, FilesTyped
<1>3. h \in FileNames /\ t \in Seq(FileNames) /\ ToSet(todo) = {h} \cup ToSet(t)
  BY <1>1, <1>2, HeadOfTodo DEF FilesInv
<1>4. FilesTyped'
  BY <1>2, <1>3 DEF FilesInv, FilesTyped
<1>5. SyncOnly'
  BY <1>2 DEF FilesInv, SyncOnly
<1>6. WriteKeeps'
  <2> SUFFICES ASSUME NEW p \in Proxies, NEW f \in Needed(p)
               PROVE  /\ p \in written => Lists(f, p) \/ <<p, f>> \in missed'
                      /\ p = call => f \in ToSet(t) \/ Lists(f, p) \/ <<p, f>> \in missed'
    BY <1>2 DEF WriteKeeps, Lists
  <2>1. /\ p \in written => Lists(f, p) \/ <<p, f>> \in missed
        /\ p = call => f \in ToSet(todo) \/ Lists(f, p) \/ <<p, f>> \in missed
    BY DEF FilesInv, WriteKeeps
  <2> QED
    BY <1>1, <1>2, <1>3, <2>1
<1>7. AliveFirst'
  <2>1. Lists(Alive, q) \/ <<q, Alive>> \in missed'
    BY <1>1, <1>2 DEF FilesInv, AliveFirst
  <2>2. ~ synced => \A f \in FileNames, p \in Proxies :
          Lists(f, p) => Lists(Alive, p) \/ <<p, Alive>> \in missed'
    BY <1>2 DEF FilesInv, AliveFirst
  <2> QED
    BY <1>1, <1>2, <2>1, <2>2 DEF AliveFirst, Lists
<1> QED
  BY <1>4, <1>5, <1>6, <1>7 DEF FilesInv

LEMMA WriteAliveReturnsKeeps == FilesInv /\ WriteAliveReturns => FilesInv'
<1> SUFFICES ASSUME FilesInv, WriteAliveReturns PROVE FilesInv'
  OBVIOUS
<1>1. /\ call \in Proxies /\ todo = <<>> /\ written' = written \cup {call} /\ call' = None
      /\ UNCHANGED <<files, handles, csv, todo, lines, torn, running, calls, missed, unsynced, synced>>
  BY DEF WriteAliveReturns
<1>2. ToSet(todo) = {}
  BY <1>1 DEF ToSet
<1>3. FilesTyped'
  BY <1>1 DEF FilesInv, FilesTyped
<1>4. SyncOnly'
  BY <1>1, CallsApart DEF FilesInv, SyncOnly
<1>5. WriteKeeps'
  BY <1>1, <1>2, CallsApart DEF FilesInv, WriteKeeps, Lists
<1>6. AliveFirst'
  BY <1>1, CallsApart DEF FilesInv, AliveFirst, Lists
<1> QED
  BY <1>3, <1>4, <1>5, <1>6 DEF FilesInv

(* SyncAliveFiles: nothing is claimed of the files until it has returned.  *)
LEMMA SyncStepsKeep ==
  ASSUME FilesInv, FilesTyped', SyncOnly', call' = Sync, synced', written' = {}
  PROVE  FilesInv'
<1>1. WriteKeeps'
  BY CallsApart DEF WriteKeeps
<1>2. AliveFirst'
  BY CallsApart DEF AliveFirst
<1> QED
  BY <1>1, <1>2 DEF FilesInv

(***************************************************************************)
(* SyncAliveFiles sorts the proxies into lines by file, one proxy after    *)
(* the other, and then overwrites each file that has lines.                *)
(***************************************************************************)
Sorted(before, p) ==
  [f \in FileNames |-> IF f \in ToSet(TextFiles(p)) THEN Append(before[f], p) ELSE before[f]]

SortedSoFar(list, n, v) ==
  v[0] = NoLines /\ \A m \in 1 .. n : v[m] = Sorted(v[m - 1], list[m])

LEMMA SortingExists ==
  ASSUME NEW list, Len(list) \in Nat
  PROVE  \E v : v = [n \in 0 .. Len(list) |->
                       IF n = 0 THEN NoLines ELSE Sorted(v[n - 1], list[n])]
<1> DEFINE L == Len(list)
           G == {n \in 0 .. L : \E v : SortedSoFar(list, n, v)}
<1>1. 0 \in G
  <2>1. SortedSoFar(list, 0, [n \in {0} |-> NoLines])
    BY DEF SortedSoFar
  <2> QED
    BY <2>1
<1>2. ASSUME NEW n \in 1 .. L, n - 1 \in G PROVE n \in G
  <2>1. PICK v : SortedSoFar(list, n - 1, v)
    BY <1>2
  <2> DEFINE next == Sorted(v[n - 1], list[n])
             w == [m \in 0 .. n |-> IF m = n THEN next ELSE v[m]]
  <2>2. \A m \in 0 .. n - 1 : w[m] = v[m]
    OBVIOUS
  <2>3. w[n] = next
    OBVIOUS
  <2> HIDE DEF next, w
  <2>4. w[0] = NoLines
    BY <2>1, <2>2 DEF SortedSoFar
  <2>5. ASSUME NEW m \in 1 .. n PROVE w[m] = Sorted(w[m - 1], list[m])
    <3>1. w[m - 1] = v[m - 1]
      <4>1. m - 1 \in 0 .. n - 1
        OBVIOUS
      <4> QED
        BY <2>2, <4>1
    <3>2. CASE m = n
      BY <2>3, <3>1, <3>2 DEF next
    <3>3. CASE m # n
      <4>1. m \in 1 .. n - 1 /\ m \in 0 .. n - 1
        BY <3>3
      <4>2. v[m] = Sorted(v[m - 1], list[m])
        BY <2>1, <4>1 DEF SortedSoFar
      <4> QED
        BY <2>2, <3>1, <4>1, <4>2
    <3> QED
      BY <3>2, <3>3
  <2>6. SortedSoFar(list, n, w)
    BY <2>4, <2>5 DEF SortedSoFar
  <2> QED
    BY <2>6
<1>3. L \in G
  <2>1. L \in Nat /\ L \in 0 .. L
    OBVIOUS
  <2> HIDE DEF G, L
  <2> QED
    BY <1>1, <1>2, <2>1, StepByStep
<1>4. PICK v : SortedSoFar(list, L, v)
  BY <1>3
<1> DEFINE w == [n \in 0 .. L |-> v[n]]
<1>5. w = [n \in 0 .. L |-> IF n = 0 THEN NoLines ELSE Sorted(w[n - 1], list[n])]
  <2>1. ASSUME NEW n \in 0 .. L
        PROVE  v[n] = IF n = 0 THEN NoLines ELSE Sorted(w[n - 1], list[n])
    <3>1. CASE n = 0
      BY <1>4, <3>1 DEF SortedSoFar
    <3>2. CASE n # 0
      <4>1. n \in 1 .. L /\ n - 1 \in 0 .. L
        BY <3>2
      <4>2. w[n - 1] = v[n - 1]
        BY <4>1
      <4> HIDE DEF w
      <4> QED
        BY <1>4, <3>2, <4>1, <4>2 DEF SortedSoFar
    <3> QED
      BY <3>1, <3>2
  <2>2. [n \in 0 .. L |-> v[n]] =
        [n \in 0 .. L |-> IF n = 0 THEN NoLines ELSE Sorted(w[n - 1], list[n])]
    BY <2>1
  <2> QED
    BY <2>2
<1> HIDE DEF w
<1> QED
  BY <1>5

LEMMA SortingOfList ==
  ASSUME NEW list, Len(list) \in Nat
  PROVE  \E v : SortedSoFar(list, Len(list), v) /\ LinesByFile(list) = v[Len(list)]
<1> DEFINE sofar == CHOOSE v : v = [n \in 0 .. Len(list) |->
             IF n = 0 THEN NoLines
             ELSE [f \in FileNames |-> IF f \in ToSet(TextFiles(list[n]))
                                       THEN Append(v[n - 1][f], list[n]) ELSE v[n - 1][f]]]
<1>1. sofar = [n \in 0 .. Len(list) |->
                 IF n = 0 THEN NoLines ELSE Sorted(sofar[n - 1], list[n])]
  BY SortingExists DEF Sorted
<1>2. LinesByFile(list) = sofar[Len(list)]
  BY DEF LinesByFile
<1> HIDE DEF sofar
<1>3. sofar[0] = NoLines
  <2>1. 0 \in 0 .. Len(list)
    OBVIOUS
  <2> QED
    BY <1>1, <2>1
<1>4. ASSUME NEW n \in 1 .. Len(list) PROVE sofar[n] = Sorted(sofar[n - 1], list[n])
  <2>1. n \in 0 .. Len(list) /\ n # 0
    OBVIOUS
  <2> QED
    BY <1>1, <2>1
<1>5. SortedSoFar(list, Len(list), sofar)
  BY <1>3, <1>4 DEF SortedSoFar
<1> QED
  BY <1>2, <1>5

(* The proxies of a recheck: each once, and at least one.                  *)
LEMMA AliveListTyped ==
  ASSUME NEW list \in AliveLists
  PROVE  list \in Seq(Proxies) /\ list # <<>> /\ IsInjective(list)
<1>1. PICK S \in SUBSET Proxies : list \in SetToSeqs(S) /\ list # <<>>
  BY DEF AliveLists, SetToAllKPermutations
<1>2. IsFiniteSet(S)
  BY <1>1, FiniteAssumption, FS_Subset
<1>3. PICK n \in Nat : n = Cardinality(S)
  BY <1>2, FS_CardinalityType
<1>4. list \in [1 .. n -> S] /\ \A i, j \in 1 .. n : i # j => list[i] # list[j]
  BY <1>1, <1>3 DEF SetToSeqs
<1>5. list \in Seq(Proxies)
  <2>1. list \in Seq(S)
    BY <1>4
  <2> QED
    BY <1>1, <2>1, SeqMonotonic
<1>6. IsInjective(list)
  BY <1>4 DEF IsInjective
<1> QED
  BY <1>1, <1>5, <1>6

LEMMA LinesOfList ==
  ASSUME NEW list \in AliveLists
  PROVE  /\ LinesByFile(list) \in [FileNames -> Seq(Proxies)]
         /\ LinesByFile(list)[Alive] = list
         /\ \A f \in FileNames :
              Range(LinesByFile(list)[f]) = {q \in Range(list) : f \in ToSet(TextFiles(q))}
<1>1. list \in Seq(Proxies)
  BY AliveListTyped
<1>2. PICK L \in Nat : L = Len(list) /\ DOMAIN list = 1 .. L
  BY <1>1, LenProperties
<1>3. PICK v : SortedSoFar(list, L, v) /\ LinesByFile(list) = v[L]
  BY <1>2, SortingOfList
<1> DEFINE Belongs(i, f) == f \in ToSet(TextFiles(list[i]))
           G == {n \in 0 .. L :
                   /\ v[n] \in [FileNames -> Seq(Proxies)]
                   /\ Len(v[n][Alive]) = n /\ \A m \in 1 .. n : v[n][Alive][m] = list[m]
                   /\ \A f \in FileNames :
                        ToSet(v[n][f]) = {list[m] : m \in {i \in 1 .. n : Belongs(i, f)}}}
<1>4. 0 \in G
  <2>1. v[0] = NoLines
    BY <1>3 DEF SortedSoFar
  <2>2. Len(v[0][Alive]) = 0
    BY <2>1, NoLinesTyped, AliveIsAName, EmptySeq
  <2>3. ASSUME NEW f \in FileNames
        PROVE  ToSet(v[0][f]) = {list[m] : m \in {i \in 1 .. 0 : Belongs(i, f)}}
    <3>1. ToSet(<<>>) = {}
      BY DEF ToSet
    <3> QED
      BY <2>1, <3>1, NoLinesTyped
  <2>4. 0 \in 0 .. L /\ \A m \in 1 .. 0 : v[0][Alive][m] = list[m]
    OBVIOUS
  <2>5. v[0] \in [FileNames -> Seq(Proxies)]
    BY <2>1, NoLinesTyped
  <2> QED
    BY <2>2, <2>3, <2>4, <2>5
<1>5. ASSUME NEW n \in 1 .. L, n - 1 \in G PROVE n \in G
  <2>1. PICK old, new, p : old = v[n - 1] /\ new = v[n] /\ p = list[n]
    OBVIOUS
  <2>2. /\ old \in [FileNames -> Seq(Proxies)]
        /\ Len(old[Alive]) = n - 1 /\ \A m \in 1 .. n - 1 : old[Alive][m] = list[m]
        /\ \A f \in FileNames :
             ToSet(old[f]) = {list[m] : m \in {i \in 1 .. n - 1 : Belongs(i, f)}}
    BY <1>5, <2>1
  <2>3. p \in Proxies
    BY <1>1, <1>2, <2>1, ElementOfSeq
  <2>4. new = [f \in FileNames |-> IF f \in ToSet(TextFiles(p)) THEN Append(old[f], p) ELSE old[f]]
    BY <1>3, <2>1 DEF SortedSoFar, Sorted
  <2>5. ToSet(TextFiles(p)) \subseteq FileNames /\ Alive \in ToSet(TextFiles(p))
    BY <2>3, TextFilesOfProxy
  <2>6. ASSUME NEW f \in FileNames
        PROVE  /\ new[f] \in Seq(Proxies)
               /\ ToSet(new[f]) = ToSet(old[f]) \cup {x \in {p} : Belongs(n, f)}
    <3>1. old[f] \in Seq(Proxies)
      BY <2>2
    <3>2. /\ Append(old[f], p) \in Seq(Proxies)
          /\ ToSet(Append(old[f], p)) = ToSet(old[f]) \cup {p}
      BY <2>3, <3>1, AppendProperties, ToSetOfSeq
    <3>3. new[f] = IF f \in ToSet(TextFiles(p)) THEN Append(old[f], p) ELSE old[f]
      BY <2>4
    <3>4. Belongs(n, f) <=> f \in ToSet(TextFiles(p))
      BY <2>1
    <3> QED
      BY <3>1, <3>2, <3>3, <3>4
  <2>7. new \in [FileNames -> Seq(Proxies)]
    BY <2>4, <2>6
  <2>8. Len(new[Alive]) = n /\ \A m \in 1 .. n : new[Alive][m] = list[m]
    <3>1. PICK s, t : s = old[Alive] /\ t = new[Alive]
      OBVIOUS
    <3>2. t = Append(s, p) /\ s \in Seq(Proxies) /\ Len(s) = n - 1
      BY <2>2, <2>4, <2>5, <3>1, AliveIsAName
    <3>3. /\ Len(t) = n
          /\ \A m \in 1 .. n - 1 : t[m] = s[m]
          /\ t[n] = p
      <4>1. /\ Len(t) = Len(s) + 1
            /\ \A m \in 1 .. Len(s) : t[m] = s[m]
            /\ t[Len(s) + 1] = p
        BY <2>3, <3>2, AppendProperties
      <4>2. n = (n - 1) + 1
        OBVIOUS
      <4> QED
        BY <3>2, <4>1, <4>2
    <3>4. ASSUME NEW m \in 1 .. n PROVE t[m] = list[m]
      <4>1. m \in 1 .. n - 1 \/ m = n
        OBVIOUS
      <4> QED
        BY <2>1, <2>2, <3>1, <3>3, <4>1
    <3> QED
      BY <3>1, <3>3, <3>4
  <2>9. ASSUME NEW f \in FileNames
        PROVE  ToSet(new[f]) = {list[m] : m \in {i \in 1 .. n : Belongs(i, f)}}
    <3> HIDE DEF Belongs
    <3>1. {i \in 1 .. n : Belongs(i, f)} =
            {i \in 1 .. n - 1 : Belongs(i, f)} \cup {i \in {n} : Belongs(i, f)}
      <4>1. 1 .. n = (1 .. n - 1) \cup {n}
        OBVIOUS
      <4> QED
        BY <4>1
    <3>2. {list[m] : m \in {i \in {n} : Belongs(i, f)}} = {x \in {p} : Belongs(n, f)}
      <4>1. CASE Belongs(n, f)
        BY <2>1, <4>1
      <4>2. CASE ~ Belongs(n, f)
        BY <4>2
      <4> QED
        BY <4>1, <4>2
    <3>3. PICK A, B : A = {i \in 1 .. n - 1 : Belongs(i, f)} /\ B = {i \in {n} : Belongs(i, f)}
      OBVIOUS
    <3>4. {list[m] : m \in A \cup B} = {list[m] : m \in A} \cup {list[m] : m \in B}
      OBVIOUS
    <3>5. ToSet(new[f]) = {list[m] : m \in A} \cup {list[m] : m \in B}
      <4>1. ToSet(old[f]) = {list[m] : m \in A}
        BY <2>2, <3>3
      <4>2. {x \in {p} : Belongs(n, f)} = {list[m] : m \in B}
        BY <3>2, <3>3
      <4> QED
        BY <2>6, <4>1, <4>2
    <3>6. {i \in 1 .. n : Belongs(i, f)} = A \cup B
      BY <3>1, <3>3
    <3> QED
      BY <3>4, <3>5, <3>6
  <2> HIDE DEF Belongs
  <2>10. /\ n \in 0 .. L /\ v[n] \in [FileNames -> Seq(Proxies)]
         /\ Len(v[n][Alive]) = n /\ \A m \in 1 .. n : v[n][Alive][m] = list[m]
    BY <2>1, <2>7, <2>8
  <2>11. \A f \in FileNames :
           ToSet(v[n][f]) = {list[m] : m \in {i \in 1 .. n : Belongs(i, f)}}
    BY <2>1, <2>9
  <2> QED
    BY <2>10, <2>11
<1>6. L \in G
  <2>1. L \in 0 .. L
    OBVIOUS
  <2> HIDE DEF G
  <2> QED
    BY <1>4, <1>5, <2>1, StepByStep
<1>7. PICK w : w = LinesByFile(list)
  OBVIOUS
<1>8. /\ w \in [FileNames -> Seq(Proxies)]
      /\ Len(w[Alive]) = L /\ \A m \in 1 .. L : w[Alive][m] = list[m]
      /\ \A f \in FileNames : ToSet(w[f]) = {list[m] : m \in {i \in 1 .. L : Belongs(i, f)}}
  BY <1>3, <1>6, <1>7
<1> HIDE DEF G
<1>9. w[Alive] = list
  <2>1. w[Alive] \in Seq(Proxies)
    BY <1>8, AliveIsAName
  <2> QED
    BY <1>1, <1>2, <1>8, <2>1, SeqEqual
<1>10. ASSUME NEW f \in FileNames
       PROVE  Range(w[f]) = {q \in Range(list) : f \in ToSet(TextFiles(q))}
  <2>1. w[f] \in Seq(Proxies)
    BY <1>8
  <2>2. ToSet(w[f]) = Range(w[f])
    BY <2>1, ToSetOfSeq
  <2>3. {list[m] : m \in {i \in 1 .. L : Belongs(i, f)}} =
          {q \in Range(list) : f \in ToSet(TextFiles(q))}
    BY <1>2 DEF Range
  <2> QED
    BY <1>8, <2>2, <2>3
<1> QED
  BY <1>7, <1>8, <1>9, <1>10

LEMMA CallSyncKeeps ==
  ASSUME FilesInv, NEW list \in AliveLists, CallSyncAliveFiles(list)
  PROVE  FilesInv'
<1>1. /\ running /\ call = None /\ calls < MaxCalls /\ call' = Sync /\ calls' = calls + 1
      /\ lines' = LinesByFile(list) /\ handles' = {} /\ written' = {} /\ synced' = TRUE
      /\ unsynced' = {}
      /\ UNCHANGED <<files, csv, todo, torn, running, missed>>
  BY DEF CallSyncAliveFiles, Call
<1>2. calls' \in 0 .. MaxCalls
  BY <1>1, MaxCallsAssumption DEF FilesInv, FilesTyped
<1>3. lines' \in [FileNames -> Seq(Proxies)]
  BY <1>1, LinesOfList
<1>4. FilesTyped'
  BY <1>1, <1>2, <1>3 DEF FilesInv, FilesTyped
<1>5. torn = {}
  BY <1>1, CallsApart DEF FilesInv, SyncOnly
<1>6. SyncOnly'
  BY <1>1, <1>5 DEF SyncOnly
<1> QED
  BY <1>1, <1>4, <1>6, SyncStepsKeep

LEMMA TruncateKeeps ==
  ASSUME FilesInv, NEW f \in FileNames, TruncateFile(f)
  PROVE  FilesInv'
<1>1. /\ call = Sync /\ torn = {} /\ lines[f] # <<>>
      /\ files' = [files EXCEPT ![f] = <<>>] /\ torn' = {f}
      /\ UNCHANGED <<handles, csv, call, todo, lines, running, calls, written, missed, unsynced, synced>>
  BY DEF TruncateFile
<1>2. files' \in [FileNames -> Seq(Proxies)]
  BY <1>1, EmptySeq DEF FilesInv, FilesTyped
<1>3. FilesTyped'
  BY <1>1, <1>2 DEF FilesInv, FilesTyped
<1>4. SyncOnly' /\ synced /\ written = {}
  BY <1>1 DEF FilesInv, SyncOnly
<1> QED
  BY <1>1, <1>3, <1>4, SyncStepsKeep

LEMMA WriteFileKeeps ==
  ASSUME FilesInv, NEW f \in FileNames, WriteFile(f)
  PROVE  FilesInv'
<1>1. /\ f \in torn
      /\ files' = [files EXCEPT ![f] = lines[f]] /\ torn' = {}
      /\ lines' = [lines EXCEPT ![f] = <<>>]
      /\ UNCHANGED <<handles, csv, call, todo, running, calls, written, missed, unsynced, synced>>
  BY DEF WriteFile
<1>2. /\ files' \in [FileNames -> Seq(Proxies)] /\ lines' \in [FileNames -> Seq(Proxies)]
  BY <1>1, EmptySeq DEF FilesInv, FilesTyped
<1>3. FilesTyped'
  BY <1>1, <1>2 DEF FilesInv, FilesTyped
<1>4. call = Sync /\ SyncOnly' /\ synced /\ written = {}
  BY <1>1 DEF FilesInv, SyncOnly
<1> QED
  BY <1>1, <1>3, <1>4, SyncStepsKeep

LEMMA OverwriteFailsKeeps ==
  ASSUME FilesInv, NEW f \in FileNames, OverwriteFails(f)
  PROVE  FilesInv'
<1>1. /\ call = Sync /\ torn = {}
      /\ lines' = [lines EXCEPT ![f] = <<>>] /\ unsynced' = unsynced \cup {f}
      /\ UNCHANGED <<files, handles, csv, call, todo, torn, running, calls, written, missed, synced>>
  BY DEF OverwriteFails
<1>2. lines' \in [FileNames -> Seq(Proxies)]
  BY <1>1, EmptySeq DEF FilesInv, FilesTyped
<1>3. FilesTyped'
  BY <1>1, <1>2 DEF FilesInv, FilesTyped
<1>4. SyncOnly' /\ synced /\ written = {}
  BY <1>1 DEF FilesInv, SyncOnly
<1> QED
  BY <1>1, <1>3, <1>4, SyncStepsKeep

LEMMA WriteFileFailsKeeps ==
  ASSUME FilesInv, NEW f \in FileNames, WriteFileFails(f)
  PROVE  FilesInv'
<1>1. PICK n \in 0 .. Len(lines[f]) - 1 : files' = [files EXCEPT ![f] = SubSeq(lines[f], 1, n)]
  BY DEF WriteFileFails
<1>2. /\ f \in torn /\ torn' = {}
      /\ lines' = [lines EXCEPT ![f] = <<>>] /\ unsynced' = unsynced \cup {f}
      /\ UNCHANGED <<handles, csv, call, todo, running, calls, written, missed, synced>>
  BY DEF WriteFileFails
<1>3. files' \in [FileNames -> Seq(Proxies)] /\ lines' \in [FileNames -> Seq(Proxies)]
  <2>1. lines[f] \in Seq(Proxies) /\ files \in [FileNames -> Seq(Proxies)]
    BY DEF FilesInv, FilesTyped
  <2>2. SubSeq(lines[f], 1, n) \in Seq(Proxies)
    <3>1. PICK s : s = lines[f]
      OBVIOUS
    <3>2. s \in Seq(Proxies) /\ Len(s) \in Nat /\ n \in 0 .. Len(s) - 1
      BY <2>1, <3>1, LenProperties
    <3>3. ASSUME NEW i \in 1 .. n PROVE s[i] \in Proxies
      <4>1. i \in 1 .. Len(s)
        BY <3>2
      <4> QED
        BY <3>2, <4>1, ElementOfSeq
    <3>4. SubSeq(s, 1, n) \in Seq(Proxies)
      BY <3>2, <3>3, SubSeqProperties
    <3> QED
      BY <3>1, <3>4
  <2> QED
    BY <1>1, <1>2, <2>1, <2>2, EmptySeq DEF FilesInv, FilesTyped
<1>4. FilesTyped'
  BY <1>2, <1>3 DEF FilesInv, FilesTyped
<1>5. call = Sync /\ SyncOnly' /\ synced /\ written = {}
  BY <1>2 DEF FilesInv, SyncOnly
<1> QED
  BY <1>2, <1>4, <1>5, SyncStepsKeep

(* Steps that end a call, or end or begin a process.                       *)
LEMMA EndsKeep == FilesInv /\ (SyncReturns \/ Close \/ Kill \/ NewExporter) => FilesInv'
<1> SUFFICES ASSUME FilesInv, SyncReturns \/ Close \/ Kill \/ NewExporter PROVE FilesInv'
  OBVIOUS
<1>1. /\ UNCHANGED <<files, calls, written, missed, unsynced, synced>>
      /\ handles' = handles \/ handles' = {}
      /\ csv' \in BOOLEAN /\ running' \in BOOLEAN
      /\ torn' = torn \/ torn' = {}
      /\ lines' = lines \/ (lines' = NoLines /\ torn' = {})
      /\ todo' = todo \/ (todo' = <<>> /\ call' = None)
      /\ call' = call \/ (call' = None /\ torn' = {})
  <2>1. CASE SyncReturns
    <3>1. /\ call = Sync /\ lines = NoLines /\ call' = None
          /\ UNCHANGED <<files, handles, csv, todo, lines, torn, running, calls, written, missed,
                         unsynced, synced>>
      BY <2>1 DEF SyncReturns
    <3>2. torn = {}
      BY <3>1, NoLinesTyped DEF FilesInv, FilesTyped, SyncOnly
    <3> QED
      BY <3>1, <3>2 DEF FilesInv, FilesTyped
  <2>2. CASE Close
    <3>1. torn = {}
      BY <2>2, CallsApart DEF Close, FilesInv, SyncOnly
    <3> QED
      BY <2>2, <3>1 DEF Close, FilesInv, FilesTyped
  <2>3. CASE Kill
    BY <2>3 DEF Kill, FilesInv, FilesTyped
  <2>4. CASE NewExporter
    <3>1. csv' \in BOOLEAN
      BY <2>4, FlagsAssumption DEF NewExporter
    <3> QED
      BY <2>4, <3>1 DEF NewExporter
  <2> QED
    BY <2>1, <2>2, <2>3, <2>4
<1>2. FilesTyped'
  BY <1>1, NoLinesTyped, EmptySeq DEF FilesInv, FilesTyped
<1>3. SyncOnly'
  BY <1>1, CallsApart DEF FilesInv, SyncOnly
<1>4. WriteKeeps'
  BY <1>1, CallsApart DEF FilesInv, WriteKeeps, Lists
<1>5. AliveFirst'
  BY <1>1, CallsApart DEF FilesInv, AliveFirst, Lists
<1> QED
  BY <1>2, <1>3, <1>4, <1>5 DEF FilesInv

LEMMA FilesInvStep == FilesInv /\ [Next]_vars => FilesInv'
<1> SUFFICES ASSUME FilesInv, [Next]_vars PROVE FilesInv'
  OBVIOUS
<1>1. CASE UNCHANGED vars
  BY <1>1 DEF vars, FilesInv, FilesTyped, SyncOnly, WriteKeeps, AliveFirst, Lists
<1> QED
  BY <1>1, CallWriteAliveKeeps, AppendLineKeeps, LostLineKeeps, WriteAliveReturnsKeeps,
     CallSyncKeeps, TruncateKeeps, WriteFileKeeps, OverwriteFailsKeeps, WriteFileFailsKeeps,
     EndsKeep DEF Next

LEMMA FilesInvAlways == Spec => []FilesInv
BY FilesInvInit, FilesInvStep, PTL DEF Spec

(* The variables have their types, and SyncAliveFiles truncates one file at*)
(* a time, for any proxies, options and calls.                             *)
THEOREM FilesAreTyped == Spec => []TypeOK
<1>1. FilesInv => TypeOK
  <2> SUFFICES ASSUME FilesInv PROVE TypeOK
    OBVIOUS
  <2>1. Cardinality(torn) <= 1
    <3>1. torn = {} \/ \E f \in FileNames : torn = {f}
      BY DEF FilesInv, FilesTyped
    <3>2. Cardinality({}) <= 1
      <4>1. Cardinality({}) = 0
        BY FS_EmptySet
      <4> QED
        BY <4>1
    <3>3. ASSUME NEW f \in FileNames PROVE Cardinality({f}) <= 1
      <4>1. Cardinality({f}) = 1
        BY FS_Singleton
      <4> QED
        BY <4>1
    <3> QED
      BY <3>1, <3>2, <3>3
  <2> QED
    BY <2>1 DEF FilesInv, FilesTyped, TypeOK
<1> QED
  BY <1>1, FilesInvAlways, PTL

(* No line that WriteAlive has written is lost to a kill or a restart, at  *)
(* whichever step of whichever call the process is killed.                 *)
THEOREM WrittenLinesAreKept == Spec => []LinesAreKept
<1>1. FilesInv => LinesAreKept
  BY DEF FilesInv, FilesTyped, WriteKeeps, Needed, LinesAreKept
<1> QED
  BY <1>1, FilesInvAlways, PTL

(* alive.txt names every proxy that a special list names, for any proxies  *)
(* and wherever kills cut WriteAlive short, until the first recheck.       *)
THEOREM AliveNamesEveryone == Spec => []AliveListsEveryone
<1>1. FilesInv => AliveListsEveryone
  BY DEF FilesInv, AliveFirst, AliveListsEveryone
<1> QED
  BY <1>1, FilesInvAlways, PTL

(***************************************************************************)
(* While SyncAliveFiles runs, every file is still to be overwritten, has   *)
(* the lines of the list already, or has failed.                           *)
(***************************************************************************)
Overwritten(list) ==
  \A f \in FileNames :
    \/ lines[f] = LinesByFile(list)[f]
    \/ lines[f] = <<>> /\ (files[f] = LinesByFile(list)[f] \/ f \in unsynced)

SyncInv == call = Sync => \E list \in AliveLists : Overwritten(list)

LEMMA SyncInvStep == FilesInv /\ SyncInv /\ [Next]_vars => SyncInv'
<1> SUFFICES ASSUME FilesInv, SyncInv, [Next]_vars, call' = Sync
             PROVE  \E list \in AliveLists : Overwritten(list)'
  BY DEF SyncInv
<1>1. ASSUME NEW list \in AliveLists, CallSyncAliveFiles(list)
      PROVE  \E l \in AliveLists : Overwritten(l)'
  <2>1. lines' = LinesByFile(list)
    BY <1>1 DEF CallSyncAliveFiles
  <2>2. Overwritten(list)'
    BY <2>1 DEF Overwritten
  <2> QED
    BY <2>2
<1>2. CASE UNCHANGED <<call, files, lines, unsynced>>
  <2>1. PICK list \in AliveLists : Overwritten(list)
    BY <1>2 DEF SyncInv
  <2>2. Overwritten(list)'
    BY <1>2, <2>1 DEF Overwritten
  <2> QED
    BY <2>2
<1>3. ASSUME NEW f \in FileNames, TruncateFile(f)
      PROVE  \E list \in AliveLists : Overwritten(list)'
  <2>1. /\ call = Sync /\ lines[f] # <<>> /\ lines' = lines /\ unsynced' = unsynced
        /\ files' = [files EXCEPT ![f] = <<>>]
    BY <1>3 DEF TruncateFile
  <2>2. \A g \in FileNames : g # f => files'[g] = files[g]
    BY <2>1 DEF FilesInv, FilesTyped
  <2>3. PICK list \in AliveLists : Overwritten(list)
    BY <2>1 DEF SyncInv
  <2>4. Overwritten(list)'
    BY <2>1, <2>2, <2>3 DEF Overwritten
  <2> QED
    BY <2>4
<1>4. ASSUME NEW f \in FileNames, WriteFile(f)
      PROVE  \E list \in AliveLists : Overwritten(list)'
  <2>1. /\ f \in torn /\ call = Sync
        /\ files' = [files EXCEPT ![f] = lines[f]]
        /\ lines' = [lines EXCEPT ![f] = <<>>] /\ unsynced' = unsynced
    BY <1>4 DEF WriteFile, FilesInv, SyncOnly
  <2>2. /\ files'[f] = lines[f] /\ lines'[f] = <<>>
        /\ \A g \in FileNames : g # f => files'[g] = files[g] /\ lines'[g] = lines[g]
    BY <2>1 DEF FilesInv, FilesTyped
  <2>3. PICK list \in AliveLists : Overwritten(list)
    BY <2>1 DEF SyncInv
  <2>4. lines[f] # <<>>
    BY <2>1 DEF FilesInv, SyncOnly
  <2>5. lines[f] = LinesByFile(list)[f]
    BY <2>3, <2>4 DEF Overwritten
  <2>6. Overwritten(list)'
    BY <2>1, <2>2, <2>3, <2>5 DEF Overwritten
  <2> QED
    BY <2>6
<1>5. ASSUME NEW f \in FileNames, OverwriteFails(f) \/ WriteFileFails(f)
      PROVE  \E list \in AliveLists : Overwritten(list)'
  <2>1. /\ lines' = [lines EXCEPT ![f] = <<>>] /\ unsynced' = unsynced \cup {f}
        /\ files' = files \/ \E s : files' = [files EXCEPT ![f] = s]
        /\ call = Sync
    BY <1>5 DEF OverwriteFails, WriteFileFails, FilesInv, SyncOnly
  <2>2. /\ lines'[f] = <<>> /\ f \in unsynced' /\ unsynced \subseteq unsynced'
        /\ \A g \in FileNames : g # f => files'[g] = files[g] /\ lines'[g] = lines[g]
    BY <2>1 DEF FilesInv, FilesTyped
  <2>3. PICK list \in AliveLists : Overwritten(list)
    BY <2>1 DEF SyncInv
  <2>4. Overwritten(list)'
    BY <2>2, <2>3 DEF Overwritten
  <2> QED
    BY <2>4
<1>6. ~ (\E p \in Proxies : CallWriteAlive(p))
  BY CallsApart DEF CallWriteAlive, Call
<1>7. ~ AppendLine /\ ~ OpenFails /\ ~ WriteFails /\ ~ WriteAliveReturns
  BY CallsApart DEF AppendLine, OpenFails, WriteFails, WriteAliveReturns
<1>8. ~ SyncReturns /\ ~ Close /\ ~ Kill
  BY CallsApart DEF SyncReturns, Close, Kill
<1>9. NewExporter \/ UNCHANGED vars => UNCHANGED <<call, files, lines, unsynced>>
  BY DEF NewExporter, vars
<1> QED
  BY <1>1, <1>2, <1>3, <1>4, <1>5, <1>6, <1>7, <1>8, <1>9 DEF Next

(* When SyncAliveFiles returns, and for any list and whatever the files    *)
(* held before, every list of a living proxy names exactly the living      *)
(* proxies that belong to it, but for the files that failed.               *)
THEOREM SyncLeavesFilesAgreeing == Spec => SyncedFilesAgree
<1>1. Init => SyncInv
  BY CallsApart DEF Init, SyncInv
<1> DEFINE Agree(f) == Range(files'[f]) = {q \in Range(files'[Alive]) : f \in ToSet(TextFiles(q))}
           Agreement == /\ IsInjective(files'[Alive])
                        /\ \A p \in Range(files'[Alive]) :
                             \A f \in ToSet(TextFiles(p)) \ unsynced : Agree(f)
<1>2. FilesInv /\ SyncInv /\ [Next]_vars => [SyncEnds /\ Alive \notin unsynced => Agreement]_vars
  <2> SUFFICES ASSUME FilesInv, SyncInv, [Next]_vars, SyncEnds, Alive \notin unsynced
               PROVE  Agreement
    OBVIOUS
  <2>1. call = Sync /\ call' = None /\ running'
    BY DEF SyncEnds
  <2>2. SyncReturns
    <3>1. ~ (\E p \in Proxies : CallWriteAlive(p)) /\
          ~ (\E list \in AliveLists : CallSyncAliveFiles(list))
      BY <2>1, CallsApart DEF CallWriteAlive, CallSyncAliveFiles, Call
    <3>2. ~ AppendLine /\ ~ OpenFails /\ ~ WriteFails /\ ~ WriteAliveReturns
      BY <2>1, CallsApart DEF AppendLine, OpenFails, WriteFails, WriteAliveReturns
    <3>3. ASSUME NEW f \in FileNames
          PROVE  /\ ~ TruncateFile(f) /\ ~ WriteFile(f)
                 /\ ~ OverwriteFails(f) /\ ~ WriteFileFails(f)
      BY <2>1, CallsApart DEF TruncateFile, WriteFile, OverwriteFails, WriteFileFails
    <3>4. ~ Close /\ ~ Kill /\ ~ NewExporter /\ ~ UNCHANGED vars
      BY <2>1, CallsApart DEF Close, Kill, NewExporter, vars
    <3> QED
      BY <3>1, <3>2, <3>3, <3>4 DEF Next
  <2>3. /\ files' = files /\ \A f \in FileNames : lines[f] = <<>>
    BY <2>2, NoLinesTyped DEF SyncReturns
  <2>4. PICK list \in AliveLists : Overwritten(list)
    BY <2>1 DEF SyncInv
  <2>5. PICK w : w = LinesByFile(list)
    OBVIOUS
  <2>6. \A f \in FileNames \ unsynced : w[f] = <<>> \/ files[f] = w[f]
    BY <2>3, <2>4, <2>5 DEF Overwritten
  <2>7. /\ list \in Seq(Proxies) /\ list # <<>> /\ IsInjective(list)
        /\ w[Alive] = list
        /\ \A f \in FileNames : Range(w[f]) = {q \in Range(list) : f \in ToSet(TextFiles(q))}
    BY <2>5, AliveListTyped, LinesOfList
  <2>8. files[Alive] = list
    BY <2>6, <2>7, AliveIsAName
  <2>9. ASSUME NEW p \in Range(list), NEW f \in ToSet(TextFiles(p)) \ unsynced
        PROVE  Range(files[f]) = {q \in Range(list) : f \in ToSet(TextFiles(q))}
    <3>1. f \in FileNames
      <4>1. p \in Proxies
        BY <2>7, RangeOfSeq
      <4> QED
        BY <4>1, TextFilesOfProxy
    <3>2. p \in Range(w[f])
      BY <2>7, <3>1
    <3>3. w[f] # <<>>
      BY <3>2 DEF Range
    <3>4. files[f] = w[f]
      BY <2>6, <3>1, <3>3
    <3> QED
      BY <2>7, <3>1, <3>4
  <2> QED
    BY <2>3, <2>7, <2>8, <2>9
<1> QED
  BY <1>1, <1>2, SyncInvStep, FilesInvAlways, PTL DEF Spec, SyncedFilesAgree

=============================================================================
