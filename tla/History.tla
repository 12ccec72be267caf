------------------------------ MODULE History ------------------------------
(***************************************************************************)
(* The ring of history points of model.Stats (src/pkg/model/stats.go).     *)
(* PushHistoryPoint, which only the goroutine of StartLiveDashboard calls, *)
(* advances the index and then writes the slot; GetHistory copies the ring *)
(* slot by slot without a lock.                                            *)
(*                                                                         *)
(* A point is named by the number of its push; the points that NewStats    *)
(* fills in have the numbers before the first push, in their order of time.*)
(***************************************************************************)
EXTENDS Integers, FiniteSets

CONSTANTS
  HistorySize,     \* slots of the ring, 120
  HistoryReaders,  \* goroutines in GetHistory
  Torn,            \* a slot that was read while it was written
  MaxPushes        \* bound: calls of PushHistoryPoint

ASSUME HistoryAssumption == HistorySize \in Nat \ {0} /\ MaxPushes \in Nat /\ Torn \notin Int

Slots == 0 .. HistorySize - 1

VARIABLES
  ring,      \* history
  index,     \* historyIdx: the number of the last push that has begun
  writing,   \* whether that push has yet to write its slot
  reading    \* the readers: [current, next, points] and, as history,
             \* whether a push was under way when the read began

historyVars == <<ring, index, writing, reading>>

Unread == [i \in Slots |-> Torn]

(* NewStats gives slot i the time now - (historySize - i).                 *)
HistoryInit ==
  /\ ring = [i \in Slots |-> i - HistorySize]
  /\ index = 0 /\ writing = FALSE
  /\ reading = [r \in HistoryReaders |->
       [current |-> 0, next |-> HistorySize, points |-> Unread, late |-> FALSE]]

AdvanceIndex ==
  /\ ~ writing /\ index < MaxPushes
  /\ index' = index + 1
  /\ writing' = TRUE
  /\ UNCHANGED <<ring, reading>>

WriteSlot ==
  /\ writing
  /\ ring' = [ring EXCEPT ![index % HistorySize] = index]
  /\ writing' = FALSE
  /\ UNCHANGED <<index, reading>>

LoadIndex(r) ==
  /\ reading[r].next = HistorySize
  /\ reading' = [reading EXCEPT ![r] =
       [current |-> index, next |-> 0, points |-> Unread, late |-> writing]]
  /\ UNCHANGED <<ring, index, writing>>

(* Mutant of SlotOf: the slot of the newest point is taken for the oldest. *)
SlotOfNewest(current, i) == (current + i) % HistorySize

SlotOf(current, i) == (current + i + 1) % HistorySize

(* A slot that is being written may show its old point, its new point, or  *)
(* fields of both.                                                         *)
LoadSlot(r) ==
  /\ reading[r].next < HistorySize
  /\ LET slot == SlotOf(reading[r].current, reading[r].next)
     IN  \E p \in {ring[slot]} \cup
                  (IF writing /\ slot = index % HistorySize THEN {index, Torn} ELSE {}) :
           reading' = [reading EXCEPT ![r].points[reading[r].next] = p, ![r].next = @ + 1]
  /\ UNCHANGED <<ring, index, writing>>

HistoryNext ==
  \/ AdvanceIndex \/ WriteSlot
  \/ \E r \in HistoryReaders : LoadIndex(r) \/ LoadSlot(r)

HistorySpec == HistoryInit /\ [][HistoryNext]_historyVars

-----------------------------------------------------------------------------

ReadDone(r) == reading[r].next = HistorySize /\ reading[r].points # Unread

(* The points a reader expects: the last HistorySize ones, oldest first.   *)
Expected(r, i) == reading[r].current - HistorySize + 1 + i

OutOfPlace(r) == {i \in Slots : reading[r].points[i] # Expected(r, i)}

(* A reader gets the last points in the order of time, but for one that    *)
(* was under way when it began, one for each push that has begun since,    *)
(* and the point NewStats put into slot 0 until that is first overwritten. *)
HistoryInPlace ==
  \A r \in HistoryReaders : ReadDone(r) =>
    Cardinality(OutOfPlace(r)) <=
      (index - reading[r].current) + (IF reading[r].late THEN 1 ELSE 0)
      + (IF reading[r].current < HistorySize THEN 1 ELSE 0)

(* "GetHistory returns the last N history points ordered oldest→newest"    *)
(* (stats.go:126): without any push during the read, in particular.        *)
OrderedOldestFirst ==
  \A r \in HistoryReaders :
    ReadDone(r) /\ index = reading[r].current /\ ~ reading[r].late =>
      \A i, j \in Slots : i < j => reading[r].points[i] < reading[r].points[j]
=============================================================================
