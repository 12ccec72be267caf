-------------------------------- MODULE Judge --------------------------------
(***************************************************************************)
(* The pool of judges (src/pkg/judge/judge.go): a goroutine per judge and  *)
(* minute measures it and marks it healthy or dead; checks pick the fastest*)
(* healthy judge while the marks change; and the first evaluation asks the *)
(* judges, once, for the address of this host, by which it then recognises *)
(* transparent proxies.                                                    *)
(***************************************************************************)
EXTENDS Integers, FiniteSets

CONSTANTS
  NumJudges,    \* the judges are 1 .. NumJudges, in the order of the list
  Pickers,      \* goroutines in PickJudge
  Evaluators,   \* goroutines in EvaluateAnonymity
  Answers,      \* what a judge's answer shows: [leaks, announces]
  Sample,       \* the response time of a judge that answers
  FirstLatency  \* the estimate before the first answer, 500

Judges == 1 .. NumJudges

ASSUME JudgesAssumption == NumJudges \in Nat \ {0}
ASSUME AnswersAssumption == Answers \subseteq [leaks : BOOLEAN, announces : BOOLEAN]
ASSUME SampleAssumption == Sample \in [Judges -> Nat] /\ FirstLatency \in Nat

VARIABLES
  up,        \* whether a judge answers; not the program's own state
  healthy,   \* judgeEntry.healthy
  latency,   \* judgeEntry.latencyMs
  probe,     \* the goroutines of checkAllJudges
  pick,      \* PickJudge: [pc, next, best], and history: the judges that
             \* stayed healthy, those seen healthy, whether nothing changed
  address,   \* e.myIP: none, half (a string whose length is set, and not
             \* yet its pointer), set
  once,      \* myIPOnce: new, running, done
  eval       \* EvaluateAnonymity: [pc, next, answer, verdict], and history:
             \* whether the address was set when it began

judgeVars == <<up, healthy, latency, probe, pick, address, once, eval>>
poolVars == <<up, healthy, latency, probe>>

NotPicking == [pc |-> "done", next |-> 1, best |-> 0, steady |-> {}, seen |-> {}, quiet |-> FALSE]
NotJudged == [leaks |-> FALSE, announces |-> FALSE]
NotEvaluating == [pc |-> "done", next |-> 1, answer |-> NotJudged, verdict |-> "elite",
                  began |-> FALSE]

JudgeInit ==
  /\ up \in [Judges -> BOOLEAN]
  /\ healthy = [j \in Judges |-> TRUE]
  /\ latency = [j \in Judges |-> FirstLatency]
  /\ probe = [j \in Judges |-> "asked"]
  /\ pick = [p \in Pickers |-> NotPicking]
  /\ address = "none" /\ once = "new"
  /\ eval = [e \in Evaluators |-> NotEvaluating]

(***************************** checkAllJudges ******************************)

(* Every minute; a goroutine ends within its deadline of five seconds.     *)
StartRound ==
  /\ \A j \in Judges : probe[j] = "idle"
  /\ probe' = [j \in Judges |-> "asked"]
  /\ UNCHANGED <<up, healthy, latency, pick, address, once, eval>>

NoteChange(well) ==
  pick' = [p \in Pickers |-> [pick[p] EXCEPT !.quiet = FALSE, !.steady = @ \cap well]]

MarkDead(j) ==
  /\ probe[j] = "asked" /\ ~ up[j]
  /\ healthy' = [healthy EXCEPT ![j] = FALSE]
  /\ probe' = [probe EXCEPT ![j] = "idle"]
  /\ NoteChange(Judges \ {j})
  /\ UNCHANGED <<up, latency, address, once, eval>>

Smoothed(sample, old) == (3 * sample + 7 * old) \div 10

StoreLatency(j) ==
  /\ probe[j] = "asked" /\ up[j]
  /\ latency' = [latency EXCEPT ![j] = Smoothed(Sample[j], @)]
  /\ probe' = [probe EXCEPT ![j] = "mark"]
  /\ NoteChange(Judges)
  /\ UNCHANGED <<up, healthy, address, once, eval>>

(* Mutant of MarkHealthy: a judge that was dead stays dead.                *)
MarkHealthyForgotten(j) ==
  /\ probe[j] = "mark"
  /\ probe' = [probe EXCEPT ![j] = "idle"]
  /\ UNCHANGED <<up, healthy, latency, pick, address, once, eval>>

MarkHealthy(j) ==
  /\ probe[j] = "mark"
  /\ healthy' = [healthy EXCEPT ![j] = TRUE]
  /\ probe' = [probe EXCEPT ![j] = "idle"]
  /\ NoteChange(Judges)
  /\ UNCHANGED <<up, latency, address, once, eval>>

(* A judge, such as the program's own server, starts or stops answering.   *)
JudgeTurns(j) ==
  /\ up' = [up EXCEPT ![j] = ~ @]
  /\ UNCHANGED <<healthy, latency, probe, pick, address, once, eval>>

(******************************** PickJudge ********************************)

SetPick(p, r) == pick' = [pick EXCEPT ![p] = r] /\ UNCHANGED <<poolVars, address, once, eval>>

StartPick(p) ==
  /\ pick[p].pc = "done"
  /\ SetPick(p, [pc |-> "look", next |-> 1, best |-> 0,
                 steady |-> {j \in Judges : healthy[j]}, seen |-> {}, quiet |-> TRUE])

SkipDead(p) ==
  /\ pick[p].pc = "look" /\ pick[p].next <= NumJudges /\ ~ healthy[pick[p].next]
  /\ SetPick(p, [pick[p] EXCEPT !.next = @ + 1])

(* Mutant of LookAtHealthy: the mark is not looked at.                     *)
LookAtAny(p) ==
  /\ pick[p].pc = "look" /\ pick[p].next <= NumJudges
  /\ SetPick(p, IF pick[p].best = 0
                THEN [pick[p] EXCEPT !.next = @ + 1, !.best = pick[p].next]
                ELSE [pick[p] EXCEPT !.pc = "compare"])

(* The first healthy judge is kept; a later one is compared with it ...    *)
LookAtHealthy(p) ==
  /\ pick[p].pc = "look" /\ pick[p].next <= NumJudges /\ healthy[pick[p].next]
  /\ LET r == [pick[p] EXCEPT !.seen = @ \cup {pick[p].next}]
     IN  SetPick(p, IF r.best = 0 THEN [r EXCEPT !.next = @ + 1, !.best = r.next]
                    ELSE [r EXCEPT !.pc = "compare"])

(* ... in a step of its own, by what the latencies are then.               *)
CompareLatency(p) ==
  /\ pick[p].pc = "compare"
  /\ LET j == pick[p].next
         best == IF latency[j] < latency[pick[p].best] THEN j ELSE pick[p].best
     IN  SetPick(p, [pick[p] EXCEPT !.pc = "look", !.next = @ + 1, !.best = best])

(* If all judges are dead the first one is taken.                          *)
EndPick(p) ==
  /\ pick[p].pc = "look" /\ pick[p].next > NumJudges
  /\ SetPick(p, [pick[p] EXCEPT !.pc = "done", !.best = IF @ = 0 THEN 1 ELSE @])

PickStep(p) ==
  StartPick(p) \/ SkipDead(p) \/ LookAtHealthy(p) \/ CompareLatency(p) \/ EndPick(p)

(******************* EvaluateAnonymity, GetMyPublicIP **********************)

SetEval(e, r) == eval' = [eval EXCEPT ![e] = r] /\ UNCHANGED <<poolVars, pick>>

(* Mutant of Verdict: the headers are looked at before the address.        *)
VerdictByHeadersFirst(answer, known) ==
  IF answer.announces THEN "anonymous" ELSE IF known /\ answer.leaks THEN "transparent" ELSE "elite"

Verdict(answer, known) ==
  IF known /\ answer.leaks THEN "transparent" ELSE IF answer.announces THEN "anonymous" ELSE "elite"

Judged(e, known) == [eval[e] EXCEPT !.pc = "done", !.verdict = Verdict(eval[e].answer, known)]

StartEvaluation(e, a) ==
  /\ eval[e].pc = "done"
  /\ SetEval(e, [pc |-> "read", next |-> 1, answer |-> a, verdict |-> "elite", began |-> address = "set"])
  /\ UNCHANGED <<address, once>>

(* e.myIP is read without a lock; once it is set nobody waits any more.    *)
(* Who reads it half written has a string that ends the process when used. *)
ReadAddress(e) ==
  /\ eval[e].pc = "read"
  /\ SetEval(e, CASE address = "set" -> Judged(e, TRUE)
                  [] address = "half" -> [eval[e] EXCEPT !.pc = "faulted"]
                  [] OTHER -> [eval[e] EXCEPT !.pc = "once"])
  /\ UNCHANGED <<address, once>>

(* The first caller asks the judges, the others wait until it has done so. *)
EnterOnce(e) ==
  /\ eval[e].pc = "once" /\ once # "running"
  /\ SetEval(e, IF once = "new" THEN [eval[e] EXCEPT !.pc = "ask"]
                ELSE Judged(e, address = "set"))
  /\ once' = IF once = "new" THEN "running" ELSE once
  /\ UNCHANGED address

(* A judge that is marked dead is not asked, one that is down does not     *)
(* answer, and the request is cancelled before its answer is read, so that *)
(* the answer may be cut off.                                              *)
JudgeGivesNothing(e) ==
  /\ eval[e].pc = "ask" /\ eval[e].next <= NumJudges
  /\ SetEval(e, [eval[e] EXCEPT !.next = @ + 1])
  /\ UNCHANGED <<address, once>>

JudgeGivesAddress(e) ==
  /\ eval[e].pc = "ask" /\ eval[e].next <= NumJudges
  /\ healthy[eval[e].next] /\ up[eval[e].next]
  /\ address' = "half"
  /\ SetEval(e, [eval[e] EXCEPT !.pc = "store"])
  /\ UNCHANGED once

StoreAddress(e) ==
  /\ eval[e].pc = "store"
  /\ address' = "set" /\ once' = "done"
  /\ SetEval(e, Judged(e, TRUE))

(* No judge has told the address; they are not asked again.                *)
NoAddress(e) ==
  /\ eval[e].pc = "ask" /\ eval[e].next > NumJudges
  /\ once' = "done"
  /\ SetEval(e, Judged(e, FALSE))
  /\ UNCHANGED address

EvalStep(e) ==
  \/ ReadAddress(e) \/ EnterOnce(e) \/ NoAddress(e)
  \/ JudgeGivesNothing(e) \/ JudgeGivesAddress(e) \/ StoreAddress(e)

-----------------------------------------------------------------------------

ProbeStep(j) == MarkDead(j) \/ StoreLatency(j) \/ MarkHealthy(j)

JudgeNext ==
  \/ StartRound
  \/ \E j \in Judges : ProbeStep(j) \/ JudgeTurns(j)
  \/ \E p \in Pickers : PickStep(p)
  \/ \E e \in Evaluators : EvalStep(e) \/ \E a \in Answers : StartEvaluation(e, a)

(* The ticker fires, requests have deadlines, goroutines are scheduled.    *)
JudgeFairness ==
  /\ WF_judgeVars(StartRound)
  /\ \A j \in Judges : WF_judgeVars(ProbeStep(j))
  /\ \A e \in Evaluators : WF_judgeVars(EvalStep(e))

JudgeSpec == JudgeInit /\ [][JudgeNext]_judgeVars /\ JudgeFairness

-----------------------------------------------------------------------------

Best(j) == healthy[j] /\ \A k \in Judges : healthy[k] => latency[j] <= latency[k]

(* Marks and latencies change while PickJudge goes through the list.  If   *)
(* some judge is healthy all the time, the one picked was seen healthy; if *)
(* nothing changes, it is a fastest healthy one, or the first of the dead. *)
PickIsHealthy ==
  \A p \in Pickers : pick[p].pc = "done" =>
    /\ pick[p].steady # {} => pick[p].best \in pick[p].seen
    /\ pick[p].quiet =>
         Best(pick[p].best) \/ (pick[p].best = 1 /\ \A j \in Judges : ~ healthy[j])

(* From the moment the address is known, no answer that leaks it counts as *)
(* anonymous, whatever headers it has, who fetched the address and who is  *)
(* still waiting for it.                                                   *)
LeaksAreSeenOnceKnown ==
  \A e \in Evaluators :
    eval[e].pc = "done" /\ eval[e].began /\ eval[e].answer.leaks =>
      eval[e].verdict = "transparent"

(* The marks follow the judges: one that answers again is used again, one  *)
(* that has gone for good is dropped, from the next round on.              *)
MarksFollowJudges ==
  \A j \in Judges :
    /\ <>[] up[j] => <>[] healthy[j]
    /\ <>[] ~ up[j] => <>[] ~ healthy[j]
=============================================================================
