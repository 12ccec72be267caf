------------------------------- MODULE Stats -------------------------------
(***************************************************************************)
(* model.Stats (src/pkg/model/stats.go): counters that workers increment   *)
(* one by one with atomic adds, and that the dashboard and the API read    *)
(* one by one.  RecordResult is the sequence of increments of one result,  *)
(* a reader the sequence of its loads; any other step may fall between.    *)
(***************************************************************************)
EXTENDS Integers, Sequences, FiniteSets

CONSTANTS
  Workers,     \* goroutines calling RecordResult
  Snapshots,   \* goroutines calling Snapshot
  Dashboards,  \* the goroutine of StartLiveDashboard
  Classes,     \* the counters by protocol and by anonymity
  Results,     \* what a check may report: [ok, classes, country]
  MaxJobs      \* bound: how many jobs are queued

ASSUME WorkersAssumption == IsFiniteSet(Workers)
ASSUME ReadersAssumption == Snapshots \cap Dashboards = {}
ASSUME ClassesAssumption ==
  Classes \cap {"queued", "scanned", "alive", "dead", "countries"} = {}
ASSUME ResultsAssumption ==
  Results \subseteq [ok : BOOLEAN, classes : Seq(Classes), country : BOOLEAN]
ASSUME MaxJobsAssumption == MaxJobs \in Nat

Counters == {"queued", "scanned", "alive", "dead", "countries"} \cup Classes
Readers == Snapshots \cup Dashboards

VARIABLES
  count,     \* the counters; "countries" is the total of CountryCounts
  pending,   \* the increments a worker in RecordResult still has to do
  todo,      \* the loads a reader still has to do
  got        \* what a reader has loaded

vars == <<count, pending, todo, got>>

(* Mutant of Increments: a result is counted as alive before it is counted *)
(* as scanned.                                                             *)
IncrementsAliveFirst(r) ==
  IF r.ok
  THEN <<"alive", "scanned">> \o r.classes \o (IF r.country THEN <<"countries">> ELSE <<>>)
  ELSE <<"scanned", "dead">>

(* The increments of RecordResult, in order: unknown protocols, unknown    *)
(* anonymity and results without a country have no counter of their own.   *)
Increments(r) ==
  IF r.ok
  THEN <<"scanned", "alive">> \o r.classes \o (IF r.country THEN <<"countries">> ELSE <<>>)
  ELSE <<"scanned", "dead">>

(* Mutant of SnapshotLoads: the map is copied at the end.                  *)
SnapshotLoadsCountriesLast == <<"scanned", "alive", "dead", "queued", "countries">>

(* The loads of Snapshot and of printDashboard, in order; the counters by  *)
(* class, which follow, are related to no other counter.                   *)
SnapshotLoads == <<"countries", "scanned", "alive", "dead", "queued">>

DashboardLoads == <<"scanned", "queued", "alive", "dead">>

Loads(r) == IF r \in Dashboards THEN DashboardLoads ELSE SnapshotLoads

Init ==
  /\ count = [c \in Counters |-> 0]
  /\ pending = [w \in Workers |-> <<>>]
  /\ todo = [r \in Readers |-> <<>>]
  /\ got = [r \in Readers |-> [c \in Counters |-> 0]]

Add(c) == count' = [count EXCEPT ![c] = @ + 1]

(* IngestFromReader counts a job before it puts it on the channel, so the  *)
(* jobs that workers have in hand are among those that were counted.       *)
IncQueued ==
  /\ count["queued"] < MaxJobs
  /\ Add("queued")
  /\ UNCHANGED <<pending, todo, got>>

InHand == {w \in Workers : pending[w] # <<>> /\ Head(pending[w]) = "scanned"}

StartRecord(w, r) ==
  /\ pending[w] = <<>>
  /\ count["scanned"] + Cardinality(InHand) < count["queued"]
  /\ pending' = [pending EXCEPT ![w] = Increments(r)]
  /\ UNCHANGED <<count, todo, got>>

Increment(w) ==
  /\ pending[w] # <<>>
  /\ Add(Head(pending[w]))
  /\ pending' = [pending EXCEPT ![w] = Tail(@)]
  /\ UNCHANGED <<todo, got>>

StartRead(r) ==
  /\ todo[r] = <<>>
  /\ todo' = [todo EXCEPT ![r] = Loads(r)]
  /\ UNCHANGED <<count, pending, got>>

Load(r) ==
  /\ todo[r] # <<>>
  /\ got' = [got EXCEPT ![r][Head(todo[r])] = count[Head(todo[r])]]
  /\ todo' = [todo EXCEPT ![r] = Tail(@)]
  /\ UNCHANGED <<count, pending>>

Next ==
  \/ IncQueued
  \/ \E w \in Workers : Increment(w) \/ \E r \in Results : StartRecord(w, r)
  \/ \E r \in Readers : StartRead(r) \/ Load(r)

Spec == Init /\ [][Next]_vars

-----------------------------------------------------------------------------

(* The counters are natural numbers, and what is still to be counted or    *)
(* loaded are counters.                                                    *)
TypeOK ==
  /\ count \in [Counters -> Nat]
  /\ pending \in [Workers -> Seq(Counters)]
  /\ todo \in [Readers -> Seq(Counters)]
  /\ got \in [Readers -> [Counters -> Nat]]

(* At every moment the counters nest: verdicts are among the scanned jobs, *)
(* those among the queued ones, and countries among the alive ones; the    *)
(* difference is what workers have in hand.                                *)
CountersNest ==
  /\ count["scanned"] <= count["queued"]
  /\ count["alive"] + count["dead"] <= count["scanned"]
  /\ count["countries"] <= count["alive"]

(* A reader that has finished shows no fewer queued than scanned jobs, so  *)
(* that the dashboard's remaining = queued - scanned needs no clamp: both  *)
(* readers load the scanned counter first.  A snapshot never attributes    *)
(* more proxies to countries than it counts as alive: it copies the map    *)
(* before it loads the counter.                                            *)
ReadersAgree ==
  \A r \in Readers : todo[r] = <<>> =>
    /\ got[r]["scanned"] <= got[r]["queued"]
    /\ r \in Snapshots => got[r]["countries"] <= got[r]["alive"]
=============================================================================
