----------------------------- MODULE MCServices -----------------------------
(* Four components that share no state and whose goroutines read what       *)
(* others write: a behaviour is one of the component that its first state   *)
(* chooses.                                                                 *)
(* counters: two workers, a snapshot and a dashboard that may read again.   *)
(* history: a ring of four, written twice round.  alive: two callers.       *)
(* judges: two judges, one goroutine that picks and two that evaluate.      *)
EXTENDS Stats, History, AliveCount, Judge, TLC

CONSTANTS
  Parts,    \* which components a run explores
  w1, w2, h1, h2, e1, e2

VARIABLE part

all == <<part, vars, historyVars, countVars, judgeVars>>

MCInit ==
  /\ part \in Parts
  /\ Init /\ HistoryInit /\ CountInit /\ JudgeInit
  /\ part # "alive" => inTable = 0
  /\ part # "judges" => \A j \in Judges : up[j]

Others ==
  /\ part = "counters" \/ UNCHANGED vars
  /\ part = "history" \/ UNCHANGED historyVars
  /\ part = "alive" \/ UNCHANGED countVars
  /\ part = "judges" \/ UNCHANGED judgeVars
  /\ UNCHANGED part

MCNext ==
  \/ part = "counters" /\ Next /\ Others
  \/ part = "history" /\ HistoryNext /\ Others
  \/ part = "alive" /\ CountNext /\ Others
  \/ part = "judges" /\ JudgeNext /\ Others

MCSpec == MCInit /\ [][MCNext]_all

MCResults ==
  { [ok |-> FALSE, classes |-> <<>>, country |-> FALSE],
    [ok |-> TRUE, classes |-> <<>>, country |-> FALSE],
    [ok |-> TRUE, classes |-> <<"elite">>, country |-> TRUE] }

(* An answer through a transparent proxy that also announces itself.       *)
MCAnswers == {[leaks |-> TRUE, announces |-> TRUE]}
MCSample == [j \in Judges |-> IF j = 1 THEN 9 ELSE 5]

Symmetric == Permutations({w1, w2}) \cup Permutations({h1, h2}) \cup Permutations({e1, e2})
=============================================================================
