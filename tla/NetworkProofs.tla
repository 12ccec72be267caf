---------------------------- MODULE NetworkProofs ----------------------------
(***************************************************************************)
(* Proofs about the components that wait for other hosts: the GeoIP        *)
(* resolver, and behind it the check of one address.                       *)
(*                                                                         *)
(* GeoIP: every answer fits the address it was asked for.  The inductive   *)
(* invariant follows an answer through the places it passes: the caches,   *)
(* the requests with their reply channels, and the callers, and says that  *)
(* a caller waits on a request for its own address and that the worker     *)
(* holds only numbers of requests that exist.  A second one, KeptInv, says *)
(* what the worker knows of its batch: each request was answered from the  *)
(* cache, or its address was asked for.  Each part is an operator of the   *)
(* variables it is about.                                                  *)
(***************************************************************************)
EXTENDS Checker, GeoIP, SequenceTheorems, TLAPS

GeoAnswers == IPs \cup {Unknown, Nothing}
LookStages == {"done", "cache", "database", "subnet", "copy", "store", "send", "wait", "fallback"}

(* What an answer says is true of the address, given the failures so far.  *)
Suits(i, a, fs) == (a \in IPs => SameNet(i, a)) /\ (a = Unknown => i \in fs)

CacheFits(ch, fs) ==
  /\ ch \in [IPs -> GeoAnswers]
  /\ \A i \in IPs : Suits(i, ch[i], fs)

SubnetsFit(sn) ==
  /\ sn \in [Subnets -> IPs \cup {Nothing}]
  /\ \A s \in Subnets : sn[s] # Nothing => Subnet[sn[s]] = s

Request == [ip : IPs, reply : GeoAnswers, sent : Nat]

RequestsFit(rq, fs) ==
  /\ rq \in Seq(Request)
  /\ \A r \in 1 .. Len(rq) : Suits(rq[r].ip, rq[r].reply, fs)

LookRecord == [pc : LookStages, ip : IPs \cup {Nothing}, req : Nat, answer : GeoAnswers]

LookFits(lk, rq, fs) ==
  /\ lk \in [Askers -> LookRecord]
  /\ \A c \in Askers :
       /\ Suits(lk[c].ip, lk[c].answer, fs)
       /\ lk[c].pc # "done" => lk[c].ip \in IPs
       /\ lk[c].pc = "wait" => lk[c].req \in 1 .. Len(rq) /\ rq[lk[c].req].ip = lk[c].ip

(* The numbers are those of requests, of which there are n.                *)
Numbers(q, n) ==
  /\ q \in Seq(Nat \ {0})
  /\ \A k \in 1 .. Len(q) : q[k] <= n

BatcherFits(b, n) ==
  /\ b \in [pc : {"collect", "scan", "answer"}, batch : Seq(Nat \ {0}), next : Nat \ {0},
            cached : SUBSET Nat, wanted : SUBSET IPs, results : SUBSET IPs]
  /\ Numbers(b.batch, n)

GeoInv ==
  /\ failed \subseteq IPs
  /\ CacheFits(cache, failed)
  /\ SubnetsFit(subnets)
  /\ RequestsFit(reqs, failed)
  /\ LookFits(look, reqs, failed)
  /\ Numbers(queue, Len(reqs))
  /\ BatcherFits(batcher, Len(reqs))

LEMMA SuitsSelf == ASSUME NEW i \in IPs, NEW fs PROVE Suits(i, i, fs)
BY GeoAddresses DEF Suits, SameNet

LEMMA SuitsNothing == ASSUME NEW i, NEW fs PROVE Suits(i, Nothing, fs)
BY GeoAddresses DEF Suits

LEMMA CacheSet ==
  ASSUME NEW ch, NEW fs, CacheFits(ch, fs), NEW i \in IPs, NEW a \in GeoAnswers, Suits(i, a, fs)
  PROVE  CacheFits([ch EXCEPT ![i] = a], fs)
BY DEF CacheFits

LEMMA CacheLearns ==
  ASSUME NEW ch, NEW fs, NEW gs, CacheFits(ch, fs), fs \subseteq gs
  PROVE  CacheFits(ch, gs)
BY DEF CacheFits, Suits

LEMMA SubnetsSet ==
  ASSUME NEW sn, SubnetsFit(sn), NEW i \in IPs, Subnet[i] # NoSubnet
  PROVE  SubnetsFit([sn EXCEPT ![Subnet[i]] = i])
<1>1. Subnet[i] \in Subnets
  BY DEF Subnets
<1> DEFINE tn == [sn EXCEPT ![Subnet[i]] = i]
<1>2. tn \in [Subnets -> IPs \cup {Nothing}]
  BY <1>1 DEF SubnetsFit
<1>3. ASSUME NEW s \in Subnets, tn[s] # Nothing PROVE Subnet[tn[s]] = s
  BY <1>1, <1>3 DEF SubnetsFit
<1> QED
  BY <1>2, <1>3 DEF SubnetsFit

(* A request, and the requests with one of them replaced.                  *)
RequestOf(i, a, n) == [ip |-> i, reply |-> a, sent |-> n]
Put(rq, r, e) == [rq EXCEPT ![r] = e]

(* What the requests keep when one is answered or another is added.        *)
KeepsRequests(rq, sq) ==
  /\ Len(rq) <= Len(sq)
  /\ \A r \in 1 .. Len(rq) : sq[r].ip = rq[r].ip

LEMMA LookSet ==
  ASSUME NEW lk, NEW rq, NEW fs, LookFits(lk, rq, fs), NEW c \in Askers,
         NEW pc \in LookStages, NEW i \in IPs, NEW q \in Nat, NEW a \in GeoAnswers,
         Suits(i, a, fs), pc = "wait" => q \in 1 .. Len(rq) /\ rq[q].ip = i
  PROVE  LookFits([lk EXCEPT ![c] = [pc |-> pc, ip |-> i, req |-> q, answer |-> a]], rq, fs)
<1> DEFINE mk == [lk EXCEPT ![c] = [pc |-> pc, ip |-> i, req |-> q, answer |-> a]]
<1>1. mk \in [Askers -> LookRecord]
  BY DEF LookFits, LookRecord
<1>2. mk[c] = [pc |-> pc, ip |-> i, req |-> q, answer |-> a] /\ \A d \in Askers \ {c} : mk[d] = lk[d]
  BY DEF LookFits
<1> HIDE DEF mk
<1>3. ASSUME NEW d \in Askers
      PROVE /\ Suits(mk[d].ip, mk[d].answer, fs)
            /\ mk[d].pc # "done" => mk[d].ip \in IPs
            /\ mk[d].pc = "wait" => mk[d].req \in 1 .. Len(rq) /\ rq[mk[d].req].ip = mk[d].ip
  <2>1. CASE d = c
    BY <1>2, <2>1
  <2>2. CASE d # c
    BY <1>2, <2>2 DEF LookFits
  <2> QED
    BY <2>1, <2>2
<1>4. LookFits(mk, rq, fs)
  BY <1>1, <1>3 DEF LookFits
<1> QED
  BY <1>4 DEF mk

LEMMA LookLearns ==
  ASSUME NEW lk, NEW rq, NEW sq, NEW fs, NEW gs, LookFits(lk, rq, fs), fs \subseteq gs,
         KeepsRequests(rq, sq), Len(rq) \in Nat, Len(sq) \in Nat
  PROVE  LookFits(lk, sq, gs)
<1>1. ASSUME NEW c \in Askers
      PROVE /\ Suits(lk[c].ip, lk[c].answer, gs)
            /\ lk[c].pc # "done" => lk[c].ip \in IPs
            /\ lk[c].pc = "wait" => lk[c].req \in 1 .. Len(sq) /\ sq[lk[c].req].ip = lk[c].ip
  <2>1. Suits(lk[c].ip, lk[c].answer, gs)
    BY DEF LookFits, Suits
  <2>2. lk[c].pc # "done" => lk[c].ip \in IPs
    BY DEF LookFits
  <2>3. ASSUME lk[c].pc = "wait" PROVE lk[c].req \in 1 .. Len(sq) /\ sq[lk[c].req].ip = lk[c].ip
    <3>1. lk[c].req \in 1 .. Len(rq) /\ rq[lk[c].req].ip = lk[c].ip
      BY <2>3 DEF LookFits
    <3>2. lk[c].req \in 1 .. Len(sq)
      BY <3>1 DEF KeepsRequests
    <3> QED
      BY <3>1, <3>2 DEF KeepsRequests
  <2> QED
    BY <2>1, <2>2, <2>3
<1> QED
  BY <1>1 DEF LookFits

LEMMA NumbersGrow ==
  ASSUME NEW q, NEW n \in Nat, NEW m \in Nat, Numbers(q, n), n <= m
  PROVE  Numbers(q, m)
<1>1. ASSUME NEW k \in 1 .. Len(q) PROVE q[k] <= m
  <2>1. q[k] \in Nat /\ q[k] <= n
    BY ElementOfSeq DEF Numbers
  <2> QED
    BY <2>1
<1> QED
  BY <1>1 DEF Numbers

LEMMA NumbersAppend ==
  ASSUME NEW q, NEW n \in Nat, Numbers(q, n), NEW r \in 1 .. n
  PROVE  Numbers(Append(q, r), n)
<1>1. q \in Seq(Nat \ {0}) /\ r \in Nat \ {0} /\ Len(q) \in Nat
  BY LenProperties DEF Numbers
<1>2. Append(q, r) \in Seq(Nat \ {0}) /\ Len(Append(q, r)) = Len(q) + 1
  BY <1>1, AppendProperties
<1>3. ASSUME NEW k \in 1 .. Len(q) + 1 PROVE Append(q, r)[k] <= n
  <2>1. CASE k = Len(q) + 1
    BY <1>1, <2>1, AppendProperties
  <2>2. CASE k \in 1 .. Len(q)
    BY <1>1, <2>2, AppendProperties DEF Numbers
  <2> QED
    BY <1>1, <2>1, <2>2
<1> QED
  BY <1>2, <1>3 DEF Numbers

LEMMA NumbersTail ==
  ASSUME NEW q, NEW n \in Nat, Numbers(q, n), q # <<>>
  PROVE  Numbers(Tail(q), n) /\ Head(q) \in 1 .. n
<1>1. q \in Seq(Nat \ {0}) /\ Len(q) \in Nat /\ Len(q) > 0
  BY LenProperties, EmptySeq DEF Numbers
<1>2. Tail(q) \in Seq(Nat \ {0}) /\ Len(Tail(q)) = Len(q) - 1
      /\ \A k \in 1 .. Len(Tail(q)) : Tail(q)[k] = q[k + 1]
  BY <1>1, HeadTailProperties
<1>3. ASSUME NEW k \in 1 .. Len(Tail(q)) PROVE Tail(q)[k] <= n
  <2>1. k + 1 \in 1 .. Len(q)
    BY <1>1, <1>2
  <2> QED
    BY <1>2, <2>1 DEF Numbers
<1>4. Head(q) = q[1] /\ q[1] \in Nat \ {0} /\ q[1] <= n
  BY <1>1, HeadTailProperties DEF Numbers
<1> QED
  BY <1>2, <1>3, <1>4 DEF Numbers

LEMMA RequestsReply ==
  ASSUME NEW rq, NEW fs, RequestsFit(rq, fs), NEW r \in 1 .. Len(rq), NEW a \in GeoAnswers,
         NEW n \in Nat, Suits(rq[r].ip, a, fs), NEW sq,
         sq = Put(rq, r, RequestOf(rq[r].ip, a, n))
  PROVE  RequestsFit(sq, fs) /\ KeepsRequests(rq, sq) /\ Len(sq) = Len(rq)
<1>1. rq \in Seq(Request) /\ Len(rq) \in Nat /\ rq[r] \in Request
  BY LenProperties, ElementOfSeq DEF RequestsFit
<1> DEFINE e == RequestOf(rq[r].ip, a, n)
<1>2. e \in Request /\ e.ip = rq[r].ip /\ e.reply = a
  BY <1>1 DEF Request, RequestOf
<1>5. sq = [rq EXCEPT ![r] = e]
  BY DEF Put
<1> HIDE DEF e
<1>3. sq \in Seq(Request) /\ Len(sq) = Len(rq)
      /\ \A k \in 1 .. Len(rq) : sq[k] = IF k = r THEN e ELSE rq[k]
  BY <1>1, <1>2, <1>5, ExceptSeq
<1>4. ASSUME NEW k \in 1 .. Len(sq) PROVE Suits(sq[k].ip, sq[k].reply, fs) /\ sq[k].ip = rq[k].ip
  <2>1. CASE k = r
    BY <1>2, <1>3, <2>1
  <2>2. CASE k # r
    BY <1>3, <2>2 DEF RequestsFit
  <2> QED
    BY <2>1, <2>2
<1> QED
  BY <1>1, <1>3, <1>4 DEF RequestsFit, KeepsRequests

LEMMA RequestsLearn ==
  ASSUME NEW rq, NEW fs, NEW gs, RequestsFit(rq, fs), fs \subseteq gs
  PROVE  RequestsFit(rq, gs)
BY DEF RequestsFit, Suits

LEMMA RequestsAppend ==
  ASSUME NEW rq, NEW fs, RequestsFit(rq, fs), NEW i \in IPs, NEW sq, sq = Append(rq, RequestOf(i, Nothing, 0))
  PROVE  /\ RequestsFit(sq, fs) /\ KeepsRequests(rq, sq)
         /\ Len(sq) = Len(rq) + 1 /\ sq[Len(sq)].ip = i
<1> DEFINE new == RequestOf(i, Nothing, 0)
<1>1. rq \in Seq(Request) /\ Len(rq) \in Nat /\ new \in Request /\ new.ip = i /\ new.reply = Nothing
  BY LenProperties DEF RequestsFit, Request, RequestOf, GeoAnswers
<1> HIDE DEF new
<1>2. sq \in Seq(Request) /\ Len(sq) = Len(rq) + 1 /\ sq[Len(rq) + 1] = new
      /\ \A k \in 1 .. Len(rq) : sq[k] = rq[k]
  <2>1. sq = Append(rq, new)
    BY DEF new
  <2> QED
    BY <1>1, <2>1, AppendProperties
<1>3. ASSUME NEW k \in 1 .. Len(sq) PROVE Suits(sq[k].ip, sq[k].reply, fs)
  <2>1. CASE k = Len(rq) + 1
    BY <1>1, <1>2, <2>1, SuitsNothing
  <2>2. CASE k \in 1 .. Len(rq)
    BY <1>2, <2>2 DEF RequestsFit
  <2> QED
    BY <1>1, <1>2, <2>1, <2>2
<1> QED
  BY <1>1, <1>2, <1>3 DEF RequestsFit, KeepsRequests

LEMMA GeoInvInit == GeoInit => GeoInv
<1> SUFFICES ASSUME GeoInit PROVE GeoInv
  OBVIOUS
<1> USE DEF GeoInit
<1>1. failed \subseteq IPs
  OBVIOUS
<1>2. CacheFits(cache, failed)
  BY SuitsNothing DEF CacheFits, GeoAnswers
<1>3. SubnetsFit(subnets)
  BY DEF SubnetsFit
<1>4. RequestsFit(reqs, failed)
  BY EmptySeq DEF RequestsFit
<1>5. LookFits(look, reqs, failed)
  BY SuitsNothing DEF LookFits, LookRecord, LookStages, GeoAnswers
<1>6. Numbers(queue, Len(reqs))
  BY EmptySeq DEF Numbers
<1>7. BatcherFits(batcher, Len(reqs))
  BY EmptySeq DEF BatcherFits, Collecting, Numbers
<1> QED
  BY <1>1, <1>2, <1>3, <1>4, <1>5, <1>6, <1>7 DEF GeoInv

(* A step of a caller that only changes what the caller knows.             *)
LEMMA CallerMoves ==
  ASSUME GeoInv, NEW c \in Askers, NEW pc \in LookStages \ {"wait"}, NEW i \in IPs, NEW q \in Nat,
         NEW a \in GeoAnswers, Suits(i, a, failed),
         look' = [look EXCEPT ![c] = [pc |-> pc, ip |-> i, req |-> q, answer |-> a]],
         UNCHANGED <<cache, subnets, queue, reqs, batcher, failed>>
  PROVE  GeoInv'
<1>1. LookFits(look, reqs, failed)
  BY DEF GeoInv
<1>2. LookFits([look EXCEPT ![c] = [pc |-> pc, ip |-> i, req |-> q, answer |-> a]], reqs, failed)
  BY <1>1, LookSet
<1> QED
  BY <1>2 DEF GeoInv

LEMMA CallerFields ==
  ASSUME GeoInv, NEW c \in Askers
  PROVE  /\ look[c] = [pc |-> look[c].pc, ip |-> look[c].ip, req |-> look[c].req, answer |-> look[c].answer]
         /\ look[c].pc \in LookStages /\ look[c].req \in Nat /\ look[c].answer \in GeoAnswers
         /\ look[c].pc # "done" => look[c].ip \in IPs
         /\ Suits(look[c].ip, look[c].answer, failed)
BY DEF GeoInv, LookFits, LookRecord

(* What assigning some fields of a caller comes to.                        *)
LEMMA GoIs ==
  ASSUME GeoInv, NEW c \in Askers, NEW pc, Go(c, pc)
  PROVE  look' = [look EXCEPT ![c] = [pc |-> pc, ip |-> look[c].ip, req |-> look[c].req, answer |-> look[c].answer]]
<1>1. PICK e \in LookRecord : e = look[c]
  BY DEF GeoInv, LookFits
<1>2. PICK r : r = [e EXCEPT !.pc = pc]
  OBVIOUS
<1>3. look' = [look EXCEPT ![c] = r]
  BY <1>1, <1>2 DEF Go
<1>4. e = [pc |-> e.pc, ip |-> e.ip, req |-> e.req, answer |-> e.answer]
  BY DEF LookRecord
<1>5. r = [pc |-> pc, ip |-> e.ip, req |-> e.req, answer |-> e.answer]
  BY <1>2, <1>4
<1> QED
  BY <1>1, <1>3, <1>5

LEMMA ReturnIs ==
  ASSUME GeoInv, NEW c \in Askers, NEW a, Return(c, a)
  PROVE  look' = [look EXCEPT ![c] = [pc |-> "done", ip |-> look[c].ip, req |-> 0, answer |-> a]]
<1>1. PICK e \in LookRecord : e = look[c]
  BY DEF GeoInv, LookFits
<1>2. PICK r : r = [e EXCEPT !.pc = "done", !.req = 0, !.answer = a]
  OBVIOUS
<1>3. look' = [look EXCEPT ![c] = r]
  BY <1>1, <1>2 DEF Return
<1>4. e = [pc |-> e.pc, ip |-> e.ip, req |-> e.req, answer |-> e.answer]
  BY DEF LookRecord
<1>5. r = [pc |-> "done", ip |-> e.ip, req |-> 0, answer |-> a]
  BY <1>2, <1>4
<1> QED
  BY <1>1, <1>3, <1>5

LEMMA GoFits ==
  ASSUME GeoInv, NEW c \in Askers, look[c].pc # "done", NEW pc \in LookStages \ {"wait"}, Go(c, pc),
         UNCHANGED <<cache, subnets, queue, reqs, batcher, failed>>
  PROVE  GeoInv'
<1>1. /\ look[c].ip \in IPs /\ look[c].req \in Nat /\ look[c].answer \in GeoAnswers
      /\ Suits(look[c].ip, look[c].answer, failed)
  BY CallerFields
<1>2. look' = [look EXCEPT ![c] = [pc |-> pc, ip |-> look[c].ip, req |-> look[c].req, answer |-> look[c].answer]]
  BY GoIs
<1> QED
  BY <1>1, <1>2, CallerMoves

LEMMA ReturnFits ==
  ASSUME GeoInv, NEW c \in Askers, look[c].pc # "done", NEW a \in GeoAnswers,
         Suits(look[c].ip, a, failed), Return(c, a),
         UNCHANGED <<cache, subnets, queue, reqs, batcher, failed>>
  PROVE  GeoInv'
<1>1. look' = [look EXCEPT ![c] = [pc |-> "done", ip |-> look[c].ip, req |-> 0, answer |-> a]]
  BY ReturnIs
<1>2. look[c].ip \in IPs /\ "done" \in LookStages \ {"wait"}
  BY CallerFields DEF LookStages
<1> QED
  BY <1>1, <1>2, CallerMoves

LEMMA CallLookupFits ==
  ASSUME GeoInv, NEW c \in Askers, NEW i \in IPs, CallLookup(c, i) PROVE GeoInv'
<1>1. look' = [look EXCEPT ![c] = [pc |-> "cache", ip |-> i, req |-> 0, answer |-> Nothing]]
      /\ UNCHANGED <<cache, subnets, queue, reqs, batcher, failed>>
  BY DEF CallLookup
<1>2. "cache" \in LookStages \ {"wait"} /\ Nothing \in GeoAnswers
  BY DEF LookStages, GeoAnswers
<1> QED
  BY <1>1, <1>2, SuitsNothing, CallerMoves

LEMMA LookInCacheFits ==
  ASSUME GeoInv, NEW c \in Askers, LookInCache(c) PROVE GeoInv'
<1>1. look[c].pc = "cache" /\ look[c].ip \in IPs
      /\ UNCHANGED <<cache, subnets, queue, reqs, batcher, failed>>
  BY CallerFields DEF LookInCache, At
<1> DEFINE i == look[c].ip
<1>2. CASE Return(c, i)
  BY <1>1, <1>2, SuitsSelf, ReturnFits DEF GeoAnswers
<1>3. CASE Return(c, cache[i])
  <2>1. cache[i] \in GeoAnswers /\ Suits(i, cache[i], failed)
    BY <1>1 DEF GeoInv, CacheFits
  <2> QED
    BY <1>1, <1>3, <2>1, ReturnFits
<1>4. CASE Go(c, "database")
  BY <1>1, <1>4, GoFits DEF LookStages
<1> QED
  BY <1>2, <1>3, <1>4 DEF LookInCache

LEMMA LookInDatabaseFits ==
  ASSUME GeoInv, NEW c \in Askers, LookInDatabase(c) PROVE GeoInv'
<1>1. look[c].pc = "database" /\ UNCHANGED <<cache, subnets, queue, reqs, batcher, failed>>
  BY DEF LookInDatabase, At
<1>2. PICK pc \in {"store", "subnet"} : Go(c, pc)
  BY DEF LookInDatabase
<1> QED
  BY <1>1, <1>2, GoFits DEF LookStages

LEMMA LookInSubnetsFits ==
  ASSUME GeoInv, NEW c \in Askers, LookInSubnets(c) PROVE GeoInv'
<1>1. look[c].pc = "subnet" /\ look[c].ip \in IPs
      /\ UNCHANGED <<cache, subnets, queue, reqs, batcher, failed>>
  BY CallerFields DEF LookInSubnets, At
<1> DEFINE i == look[c].ip
           a == subnets[Subnet[i]]
<1>2. CASE /\ Subnet[i] # NoSubnet /\ a # Nothing
           /\ look' = [look EXCEPT ![c].pc = "copy", ![c].answer = a]
  <2>1. look' = [look EXCEPT ![c] = [pc |-> "copy", ip |-> i, req |-> look[c].req, answer |-> a]]
    <3>1. PICK e \in LookRecord : e = look[c]
      BY DEF GeoInv, LookFits
    <3>2. PICK r : r = [e EXCEPT !.pc = "copy", !.answer = a]
      OBVIOUS
    <3>3. look' = [look EXCEPT ![c] = r]
      BY <1>2, <3>1, <3>2
    <3>4. e = [pc |-> e.pc, ip |-> e.ip, req |-> e.req, answer |-> e.answer]
      BY DEF LookRecord
    <3>5. r = [pc |-> "copy", ip |-> e.ip, req |-> e.req, answer |-> a]
      BY <3>2, <3>4
    <3> QED
      BY <3>1, <3>3, <3>5
  <2>2. Subnet[i] \in Subnets
    BY <1>1, <1>2 DEF Subnets
  <2>3. a \in IPs /\ Subnet[a] = Subnet[i]
    BY <1>2, <2>2 DEF GeoInv, SubnetsFit
  <2>4. Suits(i, a, failed) /\ a \in GeoAnswers
    BY <1>2, <2>3, GeoAddresses DEF Suits, SameNet, GeoAnswers
  <2>5. "copy" \in LookStages \ {"wait"} /\ look[c].req \in Nat
    BY CallerFields DEF LookStages
  <2> QED
    BY <1>1, <2>1, <2>4, <2>5, CallerMoves
<1>3. CASE \E pc \in {"store", "send"} : Go(c, pc)
  BY <1>1, <1>3, GoFits DEF LookStages
<1> QED
  BY <1>2, <1>3 DEF LookInSubnets

LEMMA GiveUpWaitingFits ==
  ASSUME GeoInv, NEW c \in Askers, GiveUpWaiting(c) PROVE GeoInv'
BY GoFits DEF GiveUpWaiting, At, LookStages

(* StoreBoth puts a record under its own address and its own /24.          *)
LEMMA StoreBothFits ==
  ASSUME CacheFits(cache, failed), SubnetsFit(subnets), NEW i \in IPs, StoreBoth(i, i)
  PROVE  CacheFits(cache', failed) /\ SubnetsFit(subnets')
<1>1. CacheFits(cache', failed)
  BY SuitsSelf, CacheSet DEF StoreBoth, GeoAnswers
<1>2. SubnetsFit(subnets')
  BY SubnetsSet DEF StoreBoth
<1> QED
  BY <1>1, <1>2

(* A caller that stores what it returns.                                   *)
LEMMA CallerStores ==
  ASSUME GeoInv, NEW c \in Askers, NEW i \in IPs, NEW a \in GeoAnswers, Suits(i, a, failed),
         look' = [look EXCEPT ![c] = [pc |-> "done", ip |-> i, req |-> 0, answer |-> a]],
         CacheFits(cache', failed), SubnetsFit(subnets'), UNCHANGED <<queue, reqs, batcher, failed>>
  PROVE  GeoInv'
<1>1. LookFits(look, reqs, failed) /\ "done" \in LookStages
  BY DEF GeoInv, LookStages
<1>2. LookFits([look EXCEPT ![c] = [pc |-> "done", ip |-> i, req |-> 0, answer |-> a]], reqs, failed)
  BY <1>1, LookSet
<1> QED
  BY <1>2 DEF GeoInv

LEMMA CopyFromSubnetFits ==
  ASSUME GeoInv, NEW c \in Askers, CopyFromSubnet(c) PROVE GeoInv'
<1>1. /\ look[c].ip \in IPs /\ look[c].answer \in GeoAnswers
      /\ Suits(look[c].ip, look[c].answer, failed)
  BY CallerFields DEF CopyFromSubnet, At
<1>2. cache' = [cache EXCEPT ![look[c].ip] = look[c].answer] /\ Return(c, look[c].answer)
      /\ UNCHANGED <<subnets, queue, reqs, batcher, failed>>
  BY DEF CopyFromSubnet
<1>3. CacheFits(cache', failed)
  BY <1>1, <1>2, CacheSet DEF GeoInv
<1>4. SubnetsFit(subnets')
  BY <1>2 DEF GeoInv
<1> QED
  BY <1>1, <1>2, <1>3, <1>4, ReturnIs, CallerStores

LEMMA StoreOfflineFits ==
  ASSUME GeoInv, NEW c \in Askers, StoreOffline(c) PROVE GeoInv'
<1>1. look[c].ip \in IPs /\ StoreBoth(look[c].ip, look[c].ip) /\ Return(c, look[c].ip)
      /\ UNCHANGED <<queue, reqs, batcher, failed>>
  BY CallerFields DEF StoreOffline, At
<1>2. CacheFits(cache', failed) /\ SubnetsFit(subnets')
  BY <1>1, StoreBothFits DEF GeoInv
<1> QED
  BY <1>1, <1>2, SuitsSelf, ReturnIs, CallerStores DEF GeoAnswers

LEMMA FallbackProviderFits ==
  ASSUME GeoInv, NEW c \in Askers, FallbackProvider(c) PROVE GeoInv'
<1>1. look[c].ip \in IPs /\ UNCHANGED <<queue, reqs, batcher>>
  BY CallerFields DEF FallbackProvider, At
<1> DEFINE i == look[c].ip
<1>2. CASE StoreBoth(i, i) /\ Return(c, i) /\ UNCHANGED failed
  <2>1. CacheFits(cache', failed) /\ SubnetsFit(subnets')
    BY <1>1, <1>2, StoreBothFits DEF GeoInv
  <2> QED
    BY <1>1, <1>2, <2>1, SuitsSelf, ReturnIs, CallerStores DEF GeoAnswers
<1>3. CASE Return(c, Unknown) /\ failed' = failed \cup {i} /\ UNCHANGED <<cache, subnets>>
  <2>1. look' = [look EXCEPT ![c] = [pc |-> "done", ip |-> i, req |-> 0, answer |-> Unknown]]
    BY <1>3, ReturnIs
  <2>2. PICK fs : fs = failed \cup {i}
    OBVIOUS
  <2>3. failed \subseteq fs /\ fs \subseteq IPs /\ i \in fs
    BY <1>1, <2>2 DEF GeoInv
  <2>4. LookFits(look, reqs, failed) /\ Len(reqs) \in Nat /\ KeepsRequests(reqs, reqs)
    BY LenProperties DEF GeoInv, RequestsFit, KeepsRequests
  <2>5. LookFits(look, reqs, fs)
    BY <2>3, <2>4, LookLearns
  <2>6. Suits(i, Unknown, fs) /\ Unknown \in GeoAnswers /\ "done" \in LookStages
    BY <2>3, GeoAddresses DEF Suits, GeoAnswers, LookStages
  <2>7. LookFits([look EXCEPT ![c] = [pc |-> "done", ip |-> i, req |-> 0, answer |-> Unknown]], reqs, fs)
    BY <1>1, <2>5, <2>6, LookSet
  <2>8. CacheFits(cache, fs)
    BY <2>3, CacheLearns DEF GeoInv
  <2>9. RequestsFit(reqs, fs)
    BY <2>3, RequestsLearn DEF GeoInv
  <2> QED
    BY <1>1, <1>3, <2>1, <2>2, <2>3, <2>7, <2>8, <2>9 DEF GeoInv
<1> QED
  BY <1>2, <1>3 DEF FallbackProvider

LEMMA SendRequestFits ==
  ASSUME GeoInv, NEW c \in Askers, SendRequest(c) PROVE GeoInv'
<1>1. look[c].pc = "send" /\ look[c].ip \in IPs /\ UNCHANGED <<cache, subnets, batcher, failed>>
  BY CallerFields DEF SendRequest, At
<1> DEFINE i == look[c].ip
<1>2. CASE Go(c, "fallback") /\ UNCHANGED <<queue, reqs>>
  BY <1>1, <1>2, GoFits DEF LookStages
<1>3. CASE /\ reqs' = Append(reqs, [ip |-> i, reply |-> Nothing, sent |-> 0])
           /\ queue' = Append(queue, Len(reqs'))
           /\ look' = [look EXCEPT ![c].pc = "wait", ![c].req = Len(reqs')]
  <2>1. PICK rq, sq : rq = reqs /\ sq = reqs'
    OBVIOUS
  <2>2. /\ RequestsFit(rq, failed) /\ Len(rq) \in Nat
        /\ sq = Append(rq, RequestOf(i, Nothing, 0))
    BY <1>3, <2>1, LenProperties DEF GeoInv, RequestsFit, RequestOf
  <2>3. /\ RequestsFit(sq, failed) /\ KeepsRequests(rq, sq)
        /\ Len(sq) = Len(rq) + 1 /\ sq[Len(sq)].ip = i
    <3>0. PICK j \in IPs : j = i
      BY <1>1
    <3>1. PICK fs : j = i /\ fs = failed
      BY <3>0
    <3>2. RequestsFit(rq, fs) /\ sq = Append(rq, RequestOf(j, Nothing, 0))
      BY <2>2, <3>1
    <3>3. /\ RequestsFit(sq, fs) /\ KeepsRequests(rq, sq)
          /\ Len(sq) = Len(rq) + 1 /\ sq[Len(sq)].ip = j
      BY <3>2, RequestsAppend
    <3> QED
      BY <3>1, <3>3
  <2>4. Len(sq) \in Nat /\ Len(rq) <= Len(sq) /\ Len(sq) \in 1 .. Len(sq)
    BY <2>2, <2>3
  <2>5. PICK e \in LookRecord : e = look[c]
    BY DEF GeoInv, LookFits
  <2>6. PICK r : r = [e EXCEPT !.pc = "wait", !.req = Len(sq)]
    OBVIOUS
  <2>7. look' = [look EXCEPT ![c] = r]
    BY <1>3, <2>1, <2>5, <2>6
  <2>8. r = [pc |-> "wait", ip |-> e.ip, req |-> Len(sq), answer |-> e.answer]
    <3>1. e = [pc |-> e.pc, ip |-> e.ip, req |-> e.req, answer |-> e.answer]
      BY DEF LookRecord
    <3> QED
      BY <2>6, <3>1
  <2>9. LookFits(look, sq, failed)
    BY <2>1, <2>2, <2>3, <2>4, LookLearns DEF GeoInv
  <2>10. e.ip = i /\ e.answer \in GeoAnswers /\ Suits(i, e.answer, failed) /\ "wait" \in LookStages
    BY <2>5, CallerFields DEF LookStages
  <2>11. LookFits([look EXCEPT ![c] = r], sq, failed)
    BY <1>1, <2>3, <2>4, <2>8, <2>9, <2>10, LookSet
  <2>12. Numbers(queue, Len(sq))
    BY <2>1, <2>2, <2>4, NumbersGrow DEF GeoInv
  <2>13. Numbers(queue', Len(sq))
    BY <1>3, <2>1, <2>4, <2>12, NumbersAppend
  <2>14. BatcherFits(batcher, Len(sq))
    BY <2>1, <2>2, <2>4, NumbersGrow DEF GeoInv, BatcherFits
  <2> QED
    BY <1>1, <2>1, <2>3, <2>7, <2>11, <2>13, <2>14 DEF GeoInv
<1> QED
  BY <1>2, <1>3 DEF SendRequest

(* A reply is put into a request or taken out of it.                       *)
LEMMA RequestChanges ==
  ASSUME GeoInv, NEW r \in 1 .. Len(reqs), NEW a \in GeoAnswers, NEW n \in Nat,
         Suits(reqs[r].ip, a, failed), reqs' = Put(reqs, r, RequestOf(reqs[r].ip, a, n))
  PROVE  /\ RequestsFit(reqs', failed) /\ KeepsRequests(reqs, reqs') /\ Len(reqs') = Len(reqs)
         /\ LookFits(look, reqs', failed)
<1>1. PICK rq, sq : rq = reqs /\ sq = reqs'
  OBVIOUS
<1>2. RequestsFit(rq, failed) /\ Len(rq) \in Nat
  BY <1>1, LenProperties DEF GeoInv, RequestsFit
<1>3. RequestsFit(sq, failed) /\ KeepsRequests(rq, sq) /\ Len(sq) = Len(rq)
  BY <1>1, <1>2, RequestsReply
<1>4. LookFits(look, sq, failed)
  BY <1>1, <1>2, <1>3, LookLearns DEF GeoInv
<1> QED
  BY <1>1, <1>3, <1>4

LEMMA RequestFields ==
  ASSUME GeoInv, NEW r \in 1 .. Len(reqs)
  PROVE  /\ reqs[r] \in Request
         /\ reqs[r] = [ip |-> reqs[r].ip, reply |-> reqs[r].reply, sent |-> reqs[r].sent]
         /\ reqs[r].ip \in IPs /\ reqs[r].reply \in GeoAnswers /\ reqs[r].sent \in Nat
         /\ Suits(reqs[r].ip, reqs[r].reply, failed)
<1>1. reqs[r] \in Request /\ Suits(reqs[r].ip, reqs[r].reply, failed)
  BY ElementOfSeq DEF GeoInv, RequestsFit
<1> QED
  BY <1>1 DEF Request

LEMMA ReceiveReplyFits ==
  ASSUME GeoInv, NEW c \in Askers, ReceiveReply(c) PROVE GeoInv'
<1>1. PICK q : q = look[c].req
  OBVIOUS
<1>2. q \in 1 .. Len(reqs) /\ reqs[q].ip = look[c].ip /\ look[c].ip \in IPs
  BY <1>1 DEF ReceiveReply, At, GeoInv, LookFits
<1>3. /\ Return(c, reqs[q].reply) /\ reqs' = [reqs EXCEPT ![q].reply = Nothing]
      /\ UNCHANGED <<cache, subnets, queue, batcher, failed>>
  BY <1>1 DEF ReceiveReply
<1>4. PICK e : e = reqs[q]
  OBVIOUS
<1>5. /\ e = [ip |-> e.ip, reply |-> e.reply, sent |-> e.sent]
      /\ e.reply \in GeoAnswers /\ e.sent \in Nat /\ Suits(e.ip, e.reply, failed)
  BY <1>2, <1>4, RequestFields
<1>6. PICK f : f = [e EXCEPT !.reply = Nothing]
  OBVIOUS
<1>7. f = [ip |-> e.ip, reply |-> Nothing, sent |-> e.sent]
  BY <1>5, <1>6
<1>8. reqs' = Put(reqs, q, RequestOf(reqs[q].ip, Nothing, e.sent))
  BY <1>3, <1>4, <1>6, <1>7 DEF Put, RequestOf
<1>9. Nothing \in GeoAnswers /\ Suits(reqs[q].ip, Nothing, failed)
  BY SuitsNothing DEF GeoAnswers
<1>10. RequestsFit(reqs', failed) /\ Len(reqs') = Len(reqs) /\ LookFits(look, reqs', failed)
  BY <1>2, <1>5, <1>8, <1>9, RequestChanges
<1>11. look' = [look EXCEPT ![c] = [pc |-> "done", ip |-> look[c].ip, req |-> 0, answer |-> e.reply]]
  BY <1>3, <1>4, ReturnIs
<1>12. "done" \in LookStages /\ Suits(look[c].ip, e.reply, failed)
  BY <1>2, <1>4, <1>5 DEF LookStages
<1>13. LookFits([look EXCEPT ![c] = [pc |-> "done", ip |-> look[c].ip, req |-> 0, answer |-> e.reply]], reqs', failed)
  BY <1>2, <1>5, <1>10, <1>12, LookSet
<1> QED
  BY <1>3, <1>10, <1>11, <1>13 DEF GeoInv

(* A step of the worker that only changes what it holds.                   *)
LEMMA WorkerMoves ==
  ASSUME GeoInv, BatcherFits(batcher', Len(reqs)), Numbers(queue', Len(reqs)),
         UNCHANGED <<cache, subnets, look, reqs, failed>>
  PROVE  GeoInv'
BY DEF GeoInv

BatcherRecord == [pc : {"collect", "scan", "answer"}, batch : Seq(Nat \ {0}), next : Nat \ {0},
                  cached : SUBSET Nat, wanted : SUBSET IPs, results : SUBSET IPs]

LEMMA CollectRequestFits ==
  ASSUME GeoInv, CollectRequest PROVE GeoInv'
<1>1. PICK b : b = batcher
  OBVIOUS
<1>2. PICK n : n = Len(reqs)
  OBVIOUS
<1>3. b \in BatcherRecord /\ Numbers(b.batch, n) /\ n \in Nat /\ Numbers(queue, n)
  BY <1>1, <1>2, LenProperties DEF GeoInv, BatcherFits, BatcherRecord, RequestsFit
<1>4. Numbers(Tail(queue), n) /\ Head(queue) \in 1 .. n
  BY <1>3, NumbersTail DEF CollectRequest
<1>5. PICK batch : batch = Append(b.batch, Head(queue))
  OBVIOUS
<1>6. Numbers(batch, n) /\ batch \in Seq(Nat \ {0})
  BY <1>3, <1>4, <1>5, NumbersAppend DEF Numbers
<1>7. PICK pc \in {"scan", "collect"} : batcher' = [b EXCEPT !.batch = batch, !.pc = pc]
  BY <1>1, <1>5 DEF CollectRequest
<1>8. batcher' \in BatcherRecord /\ batcher'.batch = batch
  BY <1>3, <1>6, <1>7 DEF BatcherRecord
<1>9. BatcherFits(batcher', n)
  BY <1>6, <1>8 DEF BatcherFits, BatcherRecord
<1> QED
  BY <1>2, <1>4, <1>9, WorkerMoves DEF CollectRequest

(* The worker goes through its batch; the batch stays.                     *)
LEMMA NextInBatch ==
  ASSUME NEW b \in BatcherRecord, NEW s \in SUBSET Nat, NEW w \in SUBSET IPs, NEW v,
         \/ v = [b EXCEPT !.next = @ + 1]
         \/ v = [b EXCEPT !.next = @ + 1, !.cached = @ \cup s]
         \/ v = [b EXCEPT !.next = @ + 1, !.wanted = @ \cup w]
  PROVE  v \in BatcherRecord /\ v.batch = b.batch
<1>1. PICK k \in Nat \ {0} : k = b.next + 1
  <2>1. b.next \in Nat
    BY DEF BatcherRecord
  <2> QED
    BY <2>1
<1>2. PICK cd \in SUBSET Nat, wd \in SUBSET IPs : cd = b.cached \cup s /\ wd = b.wanted \cup w
  BY DEF BatcherRecord
<1>3. \/ v = [b EXCEPT !.next = k]
      \/ v = [b EXCEPT !.next = k, !.cached = cd]
      \/ v = [b EXCEPT !.next = k, !.wanted = wd]
  BY <1>1, <1>2
<1> QED
  BY <1>3 DEF BatcherRecord

LEMMA WorkerKeepsBatch ==
  ASSUME GeoInv, batcher' \in BatcherRecord, batcher'.batch = batcher.batch
  PROVE  BatcherFits(batcher', Len(reqs))
BY DEF GeoInv, BatcherFits, BatcherRecord

LEMMA BatcherIsRecord == ASSUME GeoInv PROVE batcher \in BatcherRecord
BY DEF GeoInv, BatcherFits, BatcherRecord

LEMMA WindowEndsFits ==
  ASSUME GeoInv, WindowEnds PROVE GeoInv'
<1>1. batcher' \in BatcherRecord /\ batcher'.batch = batcher.batch
  BY BatcherIsRecord DEF WindowEnds, BatcherRecord
<1>2. Numbers(queue', Len(reqs))
  BY DEF WindowEnds, GeoInv
<1> QED
  BY <1>1, <1>2, WorkerKeepsBatch, WorkerMoves DEF WindowEnds

LEMMA CurrentExists ==
  ASSUME GeoInv, More PROVE Current \in 1 .. Len(reqs)
<1>1. PICK b, k : b = batcher.batch /\ k = batcher.next
  OBVIOUS
<1>2. b \in Seq(Nat \ {0}) /\ Numbers(b, Len(reqs)) /\ k \in Nat \ {0} /\ Len(b) \in Nat
  BY <1>1, LenProperties DEF GeoInv, BatcherFits
<1>3. k \in 1 .. Len(b)
  BY <1>1, <1>2 DEF More
<1>4. b[k] \in Nat \ {0} /\ b[k] <= Len(reqs)
  BY <1>2, <1>3, ElementOfSeq DEF Numbers
<1>5. Len(reqs) \in Nat
  BY LenProperties DEF GeoInv, RequestsFit
<1> QED
  BY <1>1, <1>4, <1>5 DEF Current

LEMMA WantAnswerFits ==
  ASSUME GeoInv, WantAnswer PROVE GeoInv'
<1>1. reqs[Current].ip \in IPs
  BY CurrentExists, RequestFields DEF WantAnswer
<1>2. PICK i \in IPs : batcher' = [batcher EXCEPT !.next = @ + 1, !.wanted = @ \cup {i}]
  BY <1>1 DEF WantAnswer
<1>3. batcher' \in BatcherRecord /\ batcher'.batch = batcher.batch
  BY <1>2, BatcherIsRecord, NextInBatch, {i} \in SUBSET IPs
<1>4. Numbers(queue', Len(reqs))
  BY DEF WantAnswer, GeoInv
<1> QED
  BY <1>3, <1>4, WorkerKeepsBatch, WorkerMoves DEF WantAnswer

LEMMA FetchBatchFits ==
  ASSUME GeoInv, FetchBatch PROVE GeoInv'
<1>1. batcher' \in BatcherRecord /\ batcher'.batch = batcher.batch
  <2>1. PICK b \in BatcherRecord : b = batcher
    BY BatcherIsRecord
  <2>2. PICK found \in SUBSET IPs :
          batcher' = [b EXCEPT !.pc = "answer", !.next = 1, !.results = found]
    BY <2>1 DEF FetchBatch, BatcherRecord
  <2>3. PICK v : v = batcher'
    OBVIOUS
  <2>4. v = [pc |-> "answer", batch |-> b.batch, next |-> 1, cached |-> b.cached,
             wanted |-> b.wanted, results |-> found]
    BY <2>2, <2>3 DEF BatcherRecord
  <2>5. v \in BatcherRecord /\ v.batch = b.batch
    BY <2>4 DEF BatcherRecord
  <2> QED
    BY <2>1, <2>3, <2>5
<1>2. Numbers(queue', Len(reqs))
  BY DEF FetchBatch, GeoInv
<1> QED
  BY <1>1, <1>2, WorkerKeepsBatch, WorkerMoves DEF FetchBatch

LEMMA SkipCachedFits ==
  ASSUME GeoInv, SkipCached PROVE GeoInv'
<1>1. batcher' \in BatcherRecord /\ batcher'.batch = batcher.batch
  BY BatcherIsRecord, NextInBatch DEF SkipCached
<1>2. Numbers(queue', Len(reqs))
  BY DEF SkipCached, GeoInv
<1> QED
  BY <1>1, <1>2, WorkerKeepsBatch, WorkerMoves DEF SkipCached

LEMMA BatchDoneFits ==
  ASSUME GeoInv, BatchDone PROVE GeoInv'
<1>1. BatcherFits(batcher', Len(reqs))
  BY EmptySeq DEF BatchDone, Collecting, BatcherFits, Numbers
<1>2. Numbers(queue', Len(reqs))
  BY DEF BatchDone, GeoInv
<1> QED
  BY <1>1, <1>2, WorkerMoves DEF BatchDone

(* What Reply does to the requests.                                        *)
LEMMA ReplyFits ==
  ASSUME GeoInv, NEW r \in 1 .. Len(reqs), NEW a \in GeoAnswers, Suits(reqs[r].ip, a, failed), Reply(r, a)
  PROVE  RequestsFit(reqs', failed) /\ Len(reqs') = Len(reqs) /\ LookFits(look, reqs', failed)
<1>1. PICK e : e = reqs[r]
  OBVIOUS
<1>2. e = [ip |-> e.ip, reply |-> e.reply, sent |-> e.sent] /\ e.sent \in Nat
  BY <1>1, RequestFields
<1>3. PICK n \in Nat : n = e.sent + 1
  BY <1>2
<1>4. PICK f : f = [e EXCEPT !.reply = a, !.sent = n]
  OBVIOUS
<1>5. f = [ip |-> e.ip, reply |-> a, sent |-> n]
  BY <1>2, <1>4
<1>6. reqs' = Put(reqs, r, RequestOf(reqs[r].ip, a, n))
  BY <1>1, <1>3, <1>4, <1>5 DEF Reply, Put, RequestOf
<1> QED
  BY <1>6, RequestChanges

LEMMA AnswerFromCacheFits ==
  ASSUME GeoInv, AnswerFromCache PROVE GeoInv'
<1>1. PICK r : r = Current
  OBVIOUS
<1>2. r \in 1 .. Len(reqs) /\ reqs[r].ip \in IPs
  BY <1>1, CurrentExists, RequestFields DEF AnswerFromCache
<1>3. PICK a : a = cache[reqs[r].ip]
  OBVIOUS
<1>4. a \in GeoAnswers /\ Suits(reqs[r].ip, a, failed)
  BY <1>2, <1>3 DEF GeoInv, CacheFits
<1>5. RequestsFit(reqs', failed) /\ Len(reqs') = Len(reqs) /\ LookFits(look, reqs', failed)
  BY <1>1, <1>2, <1>3, <1>4, ReplyFits DEF AnswerFromCache
<1>6. batcher' = [batcher EXCEPT !.next = @ + 1, !.cached = @ \cup {r}] /\ r \in Nat
  BY <1>1, <1>2 DEF AnswerFromCache
<1>7. batcher' \in BatcherRecord /\ batcher'.batch = batcher.batch
  BY <1>6, BatcherIsRecord, NextInBatch, {r} \in SUBSET Nat
<1>8. BatcherFits(batcher', Len(reqs))
  BY <1>7, WorkerKeepsBatch
<1> QED
  BY <1>5, <1>8 DEF AnswerFromCache, GeoInv

LEMMA AnswerFoundFits ==
  ASSUME GeoInv, AnswerFound PROVE GeoInv'
<1>1. PICK r : r = Current
  OBVIOUS
<1>2. r \in 1 .. Len(reqs) /\ reqs[r].ip \in IPs
  BY <1>1, CurrentExists, RequestFields DEF AnswerFound
<1>3. StoreBoth(reqs[r].ip, reqs[r].ip) /\ Reply(r, reqs[r].ip)
  BY <1>1 DEF AnswerFound, Found
<1>4. CacheFits(cache', failed) /\ SubnetsFit(subnets')
  BY <1>2, <1>3, StoreBothFits DEF GeoInv
<1>5. reqs[r].ip \in GeoAnswers /\ Suits(reqs[r].ip, reqs[r].ip, failed)
  BY <1>2, SuitsSelf DEF GeoAnswers
<1>6. RequestsFit(reqs', failed) /\ Len(reqs') = Len(reqs) /\ LookFits(look, reqs', failed)
  BY <1>2, <1>3, <1>5, ReplyFits
<1>7. batcher' \in BatcherRecord /\ batcher'.batch = batcher.batch
  BY BatcherIsRecord, NextInBatch DEF AnswerFound
<1>8. BatcherFits(batcher', Len(reqs))
  BY <1>7, WorkerKeepsBatch
<1> QED
  BY <1>4, <1>6, <1>8 DEF AnswerFound, GeoInv

(* An address that both services failed on is marked as such before any    *)
(* caller learns of it.                                                    *)
LEMMA AnswerUnknownFits ==
  ASSUME GeoInv, AnswerUnknown PROVE GeoInv'
<1>1. PICK r : r = Current
  OBVIOUS
<1>2. PICK i : i = reqs[r].ip
  OBVIOUS
<1>3. r \in 1 .. Len(reqs) /\ i \in IPs
  BY <1>1, <1>2, CurrentExists, RequestFields DEF AnswerUnknown
<1>4. /\ cache' = [cache EXCEPT ![i] = Unknown] /\ failed' = failed \cup {i}
      /\ Reply(r, Unknown) /\ UNCHANGED <<subnets, look, queue>>
  BY <1>1, <1>2 DEF AnswerUnknown, StoreUnknown
<1>5. PICK fs : fs = failed \cup {i}
  OBVIOUS
<1>6. failed \subseteq fs /\ fs \subseteq IPs /\ Suits(i, Unknown, fs) /\ Unknown \in GeoAnswers
  BY <1>3, <1>5, GeoAddresses DEF Suits, GeoAnswers, GeoInv
<1>7. CacheFits(cache', fs)
  BY <1>3, <1>4, <1>6, CacheLearns, CacheSet DEF GeoInv
<1>8. PICK rq, sq, e : rq = reqs /\ sq = reqs' /\ e = reqs[r]
  OBVIOUS
<1>9. e = [ip |-> i, reply |-> e.reply, sent |-> e.sent] /\ e.sent \in Nat
  BY <1>2, <1>3, <1>8, RequestFields
<1>10. PICK n \in Nat : n = e.sent + 1
  BY <1>9
<1>11. PICK f : f = [e EXCEPT !.reply = Unknown, !.sent = n]
  OBVIOUS
<1>12. f = RequestOf(rq[r].ip, Unknown, n) /\ rq[r].ip = i
  BY <1>2, <1>8, <1>9, <1>11 DEF RequestOf
<1>18. sq = Put(rq, r, RequestOf(rq[r].ip, Unknown, n))
  BY <1>4, <1>8, <1>10, <1>11, <1>12 DEF Reply, Put
<1>13. RequestsFit(rq, fs) /\ Len(rq) \in Nat
  BY <1>6, <1>8, RequestsLearn, LenProperties DEF GeoInv, RequestsFit
<1>14. RequestsFit(sq, fs) /\ KeepsRequests(rq, sq) /\ Len(sq) = Len(rq)
  BY <1>3, <1>6, <1>8, <1>12, <1>13, <1>18, RequestsReply
<1>15. LookFits(look, sq, fs)
  BY <1>6, <1>8, <1>13, <1>14, LookLearns DEF GeoInv
<1>16. batcher' \in BatcherRecord /\ batcher'.batch = batcher.batch
  BY BatcherIsRecord, NextInBatch DEF AnswerUnknown
<1>17. BatcherFits(batcher', Len(reqs))
  BY <1>16, WorkerKeepsBatch
<1> QED
  BY <1>4, <1>5, <1>6, <1>7, <1>8, <1>14, <1>15, <1>17 DEF GeoInv

LEMMA GeoInvStep == GeoInv /\ [GeoNext]_geoVars => GeoInv'
<1> SUFFICES ASSUME GeoInv, [GeoNext]_geoVars PROVE GeoInv'
  OBVIOUS
<1>1. ASSUME NEW c \in Askers, LookupStep(c) PROVE GeoInv'
  BY <1>1, LookInCacheFits, LookInDatabaseFits, LookInSubnetsFits, CopyFromSubnetFits,
     StoreOfflineFits, SendRequestFits, ReceiveReplyFits, GiveUpWaitingFits,
     FallbackProviderFits DEF LookupStep
<1>2. ASSUME NEW c \in Askers, NEW i \in IPs, CallLookup(c, i) PROVE GeoInv'
  BY <1>2, CallLookupFits
<1>3. CASE DownloadDatabase
  BY <1>3 DEF DownloadDatabase, GeoInv
<1>4. CASE BatcherStep
  BY <1>4, CollectRequestFits, WindowEndsFits, AnswerFromCacheFits, WantAnswerFits,
     FetchBatchFits, SkipCachedFits, AnswerFoundFits, AnswerUnknownFits, BatchDoneFits
     DEF BatcherStep
<1>5. CASE UNCHANGED geoVars
  BY <1>5 DEF geoVars, GeoInv
<1> QED
  BY <1>1, <1>2, <1>3, <1>4, <1>5 DEF GeoNext

(* What is kept of failures: Unknown is in the cache only for an address   *)
(* that a call of fetchBatch asked for in vain.  Every request of a batch  *)
(* is answered from the cache, or its address is among those asked for.    *)
Settled(b, rq, lo) ==
  \A k \in 1 .. Len(b.batch) :
    /\ b.pc = "scan" /\ k < b.next =>
         b.batch[k] \in b.cached \/ rq[b.batch[k]].ip \in b.wanted
    /\ b.pc = "answer" =>
         b.batch[k] \in b.cached \/ rq[b.batch[k]].ip \in b.results \cup lo

Kept(ch, lo) == \A i \in IPs : ch[i] = Unknown => i \in lo

Copied(lk) == \A c \in Askers : lk[c].pc = "copy" => lk[c].answer # Unknown

KeptInv ==
  /\ Kept(cache, leftOut)
  /\ Copied(look)
  /\ batcher.pc = "collect" => batcher.next = 1
  /\ Settled(batcher, reqs, leftOut)

LEMMA KeptInvInit == GeoInit => KeptInv
<1> SUFFICES ASSUME GeoInit PROVE KeptInv
  OBVIOUS
<1>1. Kept(cache, leftOut)
  BY GeoAddresses DEF GeoInit, Kept
<1>2. Copied(look)
  BY DEF GeoInit, Copied
<1>3. Settled(batcher, reqs, leftOut) /\ batcher.next = 1
  BY DEF GeoInit, Collecting, Settled
<1> QED
  BY <1>1, <1>2, <1>3 DEF KeptInv

LEMMA BatchOfRequests ==
  ASSUME GeoInv PROVE \A k \in 1 .. Len(batcher.batch) : batcher.batch[k] \in 1 .. Len(reqs)
<1>1. PICK b : b = batcher.batch
  OBVIOUS
<1>2. b \in Seq(Nat \ {0}) /\ Numbers(b, Len(reqs)) /\ Len(reqs) \in Nat
  BY <1>1, LenProperties DEF GeoInv, BatcherFits, RequestsFit
<1>3. ASSUME NEW k \in 1 .. Len(b) PROVE b[k] \in 1 .. Len(reqs)
  <2>1. b[k] \in Nat \ {0} /\ b[k] <= Len(reqs)
    BY <1>2, ElementOfSeq DEF Numbers
  <2> QED
    BY <1>2, <2>1
<1> QED
  BY <1>1, <1>3

LEMMA AddressesStay ==
  ASSUME GeoInv,
         \/ reqs' = reqs
         \/ \E e : reqs' = Append(reqs, e)
         \/ \E r, a : reqs' = [reqs EXCEPT ![r].reply = a]
         \/ \E r, a : Reply(r, a)
  PROVE  \A q \in 1 .. Len(reqs) : reqs'[q].ip = reqs[q].ip
<1>1. PICK rq, sq : rq = reqs /\ sq = reqs'
  OBVIOUS
<1>2. rq \in Seq(Request) /\ Len(rq) \in Nat /\ DOMAIN rq = 1 .. Len(rq)
  BY <1>1, LenProperties DEF GeoInv, RequestsFit
<1> SUFFICES ASSUME NEW q \in 1 .. Len(rq) PROVE sq[q].ip = rq[q].ip
  BY <1>1
<1>3. rq[q] \in Request
  BY <1>2, ElementOfSeq
<1>4. CASE sq = rq
  BY <1>4
<1>5. CASE \E e : sq = Append(rq, e)
  <2>1. PICK e : sq = Append(rq, e)
    BY <1>5
  <2>2. sq[q] = rq[q]
    BY <1>2, <2>1
  <2> QED
    BY <2>2
<1>6. CASE \E r, a : sq = [rq EXCEPT ![r].reply = a]
  <2>1. PICK r, a : sq = [rq EXCEPT ![r].reply = a]
    BY <1>6
  <2>2. sq[q] = rq[q] \/ sq[q] = [rq[q] EXCEPT !.reply = a]
    BY <1>2, <2>1
  <2> QED
    BY <1>3, <2>2 DEF Request
<1>7. CASE \E r, a : Reply(r, a)
  <2>1. PICK r, a : sq = [rq EXCEPT ![r].reply = a, ![r].sent = @ + 1]
    BY <1>1, <1>7 DEF Reply
  <2>2. sq[q] = rq[q] \/ \E n : sq[q] = [rq[q] EXCEPT !.reply = a, !.sent = n]
    BY <1>2, <2>1
  <2> QED
    BY <1>3, <2>2 DEF Request
<1> QED
  BY <1>1, <1>4, <1>5, <1>6, <1>7

(* A step that changes a request or adds one leaves a batch settled.       *)
LEMMA StaysSettled ==
  ASSUME GeoInv, KeptInv, UNCHANGED <<batcher, leftOut>>,
         \/ reqs' = reqs
         \/ \E e : reqs' = Append(reqs, e)
         \/ \E r, a : reqs' = [reqs EXCEPT ![r].reply = a]
  PROVE  Settled(batcher', reqs', leftOut') /\ (batcher'.pc = "collect" => batcher'.next = 1)
<1>1. \A k \in 1 .. Len(batcher.batch) : reqs'[batcher.batch[k]].ip = reqs[batcher.batch[k]].ip
  BY BatchOfRequests, AddressesStay
<1> QED
  BY <1>1 DEF KeptInv, Settled

LEMMA KeptUnless ==
  ASSUME NEW ch, NEW lo, Kept(ch, lo), NEW i, NEW a, a = Unknown => i \in lo
  PROVE  Kept([ch EXCEPT ![i] = a], lo)
BY DEF Kept

LEMMA CallerKeeps ==
  ASSUME GeoInv, KeptInv, NEW c \in Askers, LookupStep(c) PROVE KeptInv'
<1>1. UNCHANGED <<batcher, leftOut>>
  BY DEF LookupStep, LookInCache, LookInDatabase, LookInSubnets, CopyFromSubnet, StoreOffline,
         SendRequest, ReceiveReply, GiveUpWaiting, FallbackProvider
<1>2. \/ reqs' = reqs
      \/ \E e : reqs' = Append(reqs, e)
      \/ \E r, a : reqs' = [reqs EXCEPT ![r].reply = a]
  BY DEF LookupStep, LookInCache, LookInDatabase, LookInSubnets, CopyFromSubnet, StoreOffline,
         SendRequest, ReceiveReply, GiveUpWaiting, FallbackProvider
<1>3. \/ cache' = cache
      \/ \E i, a : cache' = [cache EXCEPT ![i] = a] /\ a # Unknown
  <2>1. CASE CopyFromSubnet(c)
    BY <2>1 DEF CopyFromSubnet, At, KeptInv, Copied
  <2>2. CASE StoreOffline(c) \/ FallbackProvider(c)
    <3>1. look[c].ip \in IPs
      BY <2>2, CallerFields DEF StoreOffline, FallbackProvider, At
    <3>2. cache' = cache \/ cache' = [cache EXCEPT ![look[c].ip] = look[c].ip]
      BY <2>2 DEF StoreOffline, FallbackProvider, StoreBoth
    <3> QED
      BY <3>1, <3>2, GeoAddresses
  <2>3. CASE ~ (CopyFromSubnet(c) \/ StoreOffline(c) \/ FallbackProvider(c))
    BY <2>3 DEF LookupStep, LookInCache, LookInDatabase, LookInSubnets, SendRequest, ReceiveReply,
                GiveUpWaiting
  <2> QED
    BY <2>1, <2>2, <2>3
<1>4. Kept(cache', leftOut)
  <2>1. Kept(cache, leftOut)
    BY DEF KeptInv
  <2>2. CASE \E i, a : cache' = [cache EXCEPT ![i] = a] /\ a # Unknown
    <3>1. PICK i, a : cache' = [cache EXCEPT ![i] = a] /\ a # Unknown
      BY <2>2
    <3> QED
      BY <2>1, <3>1 DEF Kept
  <2> QED
    BY <1>3, <2>1, <2>2
<1>5. \/ \E pc \in LookStages \ {"copy"} : Go(c, pc)
      \/ \E a : Return(c, a)
      \/ look' = [look EXCEPT ![c].pc = "wait", ![c].req = Len(reqs')]
      \/ \E a \in IPs : look' = [look EXCEPT ![c].pc = "copy", ![c].answer = a]
  <2>1. CASE LookInSubnets(c)
    <3>1. look[c].ip \in IPs
      BY <2>1, CallerFields DEF LookInSubnets, At
    <3>2. PICK i \in IPs : i = look[c].ip
      BY <3>1
    <3>3. ASSUME Subnet[i] # NoSubnet, subnets[Subnet[i]] # Nothing PROVE subnets[Subnet[i]] \in IPs
      BY <3>3 DEF GeoInv, SubnetsFit, Subnets
    <3> QED
      BY <2>1, <3>2, <3>3 DEF LookInSubnets, LookStages
  <2>2. CASE ~ LookInSubnets(c)
    BY <2>2 DEF LookupStep, LookInCache, LookInDatabase, CopyFromSubnet, StoreOffline,
                SendRequest, ReceiveReply, GiveUpWaiting, FallbackProvider, LookStages
  <2> QED
    BY <2>1, <2>2
<1>6. Copied(look')
  <2>1. look \in [Askers -> LookRecord] /\ Copied(look)
    BY DEF GeoInv, LookFits, KeptInv
  <2> SUFFICES ASSUME NEW d \in Askers, look'[d].pc = "copy" PROVE look'[d].answer # Unknown
    BY DEF Copied
  <2>2. CASE d # c
    <3>1. look'[d] = look[d]
      BY <1>5, <2>1, <2>2 DEF Go, Return
    <3> QED
      BY <2>1, <3>1 DEF Copied
  <2>3. CASE d = c
    <3>1. PICK e \in LookRecord : e = look[c]
      BY <2>1
    <3>2. \/ \E pc \in LookStages \ {"copy"} : look'[c] = [e EXCEPT !.pc = pc]
          \/ \E a : look'[c] = [e EXCEPT !.pc = "done", !.req = 0, !.answer = a]
          \/ look'[c] = [e EXCEPT !.pc = "wait", !.req = Len(reqs')]
          \/ \E a \in IPs : look'[c] = [e EXCEPT !.pc = "copy", !.answer = a]
      BY <1>5, <2>1, <3>1 DEF Go, Return
    <3>3. \E a \in IPs : look'[c] = [e EXCEPT !.pc = "copy", !.answer = a]
      BY <2>3, <3>1, <3>2 DEF LookRecord
    <3>4. look'[c].answer \in IPs
      BY <3>1, <3>3 DEF LookRecord
    <3> QED
      BY <2>3, <3>4, GeoAddresses
  <2> QED
    BY <2>2, <2>3
<1>7. Settled(batcher', reqs', leftOut') /\ (batcher'.pc = "collect" => batcher'.next = 1)
  BY <1>1, <1>2, StaysSettled
<1> QED
  BY <1>1, <1>4, <1>6, <1>7 DEF KeptInv

LEMMA CallKeeps ==
  ASSUME GeoInv, KeptInv, NEW c \in Askers, NEW i \in IPs, CallLookup(c, i) PROVE KeptInv'
<1>1. look' = [look EXCEPT ![c] = [pc |-> "cache", ip |-> i, req |-> 0, answer |-> Nothing]]
      /\ UNCHANGED <<cache, reqs, batcher, leftOut>>
  BY DEF CallLookup
<1>2. Copied(look')
  <2>1. look \in [Askers -> LookRecord] /\ Copied(look)
    BY DEF GeoInv, LookFits, KeptInv
  <2> QED
    BY <1>1, <2>1 DEF Copied
<1> QED
  BY <1>1, <1>2 DEF KeptInv

(* The worker takes one more request of its batch, or asks the service.    *)
LEMMA BatchKeeps ==
  ASSUME GeoInv, KeptInv, BatcherStep
  PROVE  Settled(batcher', reqs', leftOut') /\ (batcher'.pc = "collect" => batcher'.next = 1)
<1>1. PICK b, v, n : b = batcher /\ v = batcher' /\ n = b.next
  OBVIOUS
<1>2. b \in BatcherRecord /\ n \in Nat \ {0}
  BY <1>1, BatcherIsRecord DEF BatcherRecord
<1>3. Settled(b, reqs, leftOut) /\ (b.pc = "collect" => n = 1)
  BY <1>1 DEF KeptInv
<1>4. CASE CollectRequest \/ WindowEnds
  <2>1. b.pc = "collect" /\ leftOut' = leftOut
    BY <1>1, <1>4 DEF CollectRequest, WindowEnds
  <2>2. \E bt, pc : pc \in {"collect", "scan"} /\ v = [b EXCEPT !.batch = bt, !.pc = pc]
    <3>1. CASE CollectRequest
      BY <1>1, <3>1 DEF CollectRequest
    <3>2. CASE WindowEnds
      <4>1. v = [b EXCEPT !.pc = "scan"] /\ b = [b EXCEPT !.batch = b.batch]
        BY <1>1, <1>2, <3>2 DEF WindowEnds, BatcherRecord
      <4>2. v = [b EXCEPT !.batch = b.batch, !.pc = "scan"]
        BY <1>2, <4>1 DEF BatcherRecord
      <4> QED
        BY <4>2
    <3> QED
      BY <1>4, <3>1, <3>2
  <2>3. v.pc \in {"collect", "scan"} /\ v.next = 1
    BY <1>1, <1>2, <1>3, <2>1, <2>2 DEF BatcherRecord
  <2>4. Settled(v, reqs', leftOut')
    BY <2>3 DEF Settled
  <2> QED
    BY <1>1, <2>3, <2>4
<1>5. CASE AnswerFromCache \/ WantAnswer
  <2>1. b.pc = "scan" /\ leftOut' = leftOut /\ n <= Len(b.batch) /\ Current = b.batch[n]
    BY <1>1, <1>5 DEF AnswerFromCache, WantAnswer, More, Current
  <2>2. \/ v = [b EXCEPT !.next = n + 1, !.cached = b.cached \cup {b.batch[n]}]
        \/ v = [b EXCEPT !.next = n + 1, !.wanted = b.wanted \cup {reqs[b.batch[n]].ip}]
    BY <1>1, <1>5, <2>1 DEF AnswerFromCache, WantAnswer
  <2>3. /\ v.pc = "scan" /\ v.next = n + 1 /\ v.batch = b.batch
        /\ b.cached \subseteq v.cached /\ b.wanted \subseteq v.wanted
        /\ b.batch[n] \in v.cached \/ reqs[b.batch[n]].ip \in v.wanted
    BY <1>2, <2>1, <2>2 DEF BatcherRecord
  <2>4. \A k \in 1 .. Len(b.batch) : reqs'[b.batch[k]].ip = reqs[b.batch[k]].ip
    <3>1. reqs' = reqs \/ \E r, a : Reply(r, a)
      BY <1>5 DEF AnswerFromCache, WantAnswer
    <3> QED
      BY <1>1, <3>1, BatchOfRequests, AddressesStay
  <2>5. ASSUME NEW k \in 1 .. Len(b.batch), k < n + 1
        PROVE  b.batch[k] \in v.cached \/ reqs'[b.batch[k]].ip \in v.wanted
    <3>1. k < n \/ k = n
      BY <1>2, <2>5
    <3>2. CASE k < n
      BY <1>1, <1>3, <2>1, <2>3, <2>4, <3>2 DEF Settled
    <3>3. CASE k = n
      BY <2>3, <2>4, <3>3
    <3> QED
      BY <3>1, <3>2, <3>3
  <2>6. Settled(v, reqs', leftOut')
    BY <2>3, <2>5 DEF Settled
  <2> QED
    BY <1>1, <2>3, <2>6
<1>6. CASE FetchBatch
  <2>1. PICK found : /\ v = [b EXCEPT !.pc = "answer", !.next = 1, !.results = found]
                     /\ leftOut' = leftOut \cup (b.wanted \ found)
    BY <1>1, <1>6 DEF FetchBatch
  <2>2. b.pc = "scan" /\ ~ (n <= Len(b.batch)) /\ reqs' = reqs
    BY <1>1, <1>6 DEF FetchBatch, More
  <2>3. v.pc = "answer" /\ v.batch = b.batch /\ v.cached = b.cached /\ v.results = found
    BY <1>2, <2>1 DEF BatcherRecord
  <2>4. Len(b.batch) \in Nat
    BY <1>2, LenProperties DEF BatcherRecord
  <2>5. ASSUME NEW k \in 1 .. Len(b.batch)
        PROVE  b.batch[k] \in b.cached \/ reqs[b.batch[k]].ip \in b.wanted
    <3>1. k < n
      BY <1>2, <2>2, <2>4
    <3> QED
      BY <1>1, <1>3, <2>2, <3>1 DEF Settled
  <2>6. Settled(v, reqs', leftOut')
    BY <2>1, <2>2, <2>3, <2>5 DEF Settled
  <2> QED
    BY <1>1, <2>3, <2>6
<1>7. CASE SkipCached \/ AnswerFound \/ AnswerUnknown
  <2>1. b.pc = "answer" /\ leftOut' = leftOut /\ v = [b EXCEPT !.next = n + 1]
    BY <1>1, <1>7 DEF SkipCached, AnswerFound, AnswerUnknown
  <2>2. v.pc = "answer" /\ v.batch = b.batch /\ v.cached = b.cached /\ v.results = b.results
    BY <1>2, <2>1 DEF BatcherRecord
  <2>3. \A k \in 1 .. Len(b.batch) : reqs'[b.batch[k]].ip = reqs[b.batch[k]].ip
    <3>1. reqs' = reqs \/ \E r, a : Reply(r, a)
      BY <1>7 DEF SkipCached, AnswerFound, AnswerUnknown
    <3> QED
      BY <1>1, <3>1, BatchOfRequests, AddressesStay
  <2>4. Settled(v, reqs', leftOut')
    BY <1>3, <2>1, <2>2, <2>3 DEF Settled
  <2> QED
    BY <1>1, <2>2, <2>4
<1>8. CASE BatchDone
  <2>1. batcher' = Collecting /\ Collecting.pc = "collect" /\ Collecting.next = 1
    BY <1>8 DEF BatchDone, Collecting
  <2> QED
    BY <2>1 DEF Settled
<1> QED
  BY <1>4, <1>5, <1>6, <1>7, <1>8 DEF BatcherStep

LEMMA WorkerKeeps ==
  ASSUME GeoInv, KeptInv, BatcherStep PROVE KeptInv'
<1>1. Copied(look')
  <2>1. look' = look
    BY DEF BatcherStep, CollectRequest, WindowEnds, AnswerFromCache, WantAnswer, FetchBatch,
           SkipCached, AnswerFound, AnswerUnknown, BatchDone
  <2> QED
    BY <2>1 DEF KeptInv
<1>2. Kept(cache', leftOut')
  <2>1. CASE FetchBatch
    BY <2>1 DEF FetchBatch, KeptInv, Kept
  <2>2. CASE AnswerFound
    <3>1. PICK i : i = reqs[Current].ip
      OBVIOUS
    <3>2. i \in IPs
      BY <2>2, <3>1, CurrentExists, RequestFields DEF AnswerFound
    <3>3. cache' = [cache EXCEPT ![i] = i] /\ leftOut' = leftOut
      BY <2>2, <3>1 DEF AnswerFound, Found, StoreBoth
    <3> QED
      BY <3>2, <3>3, KeptUnless, GeoAddresses DEF KeptInv
  <2>3. CASE AnswerUnknown
    <3>1. PICK i : i = reqs[Current].ip
      OBVIOUS
    <3>2. /\ cache' = [cache EXCEPT ![i] = Unknown] /\ leftOut' = leftOut
          /\ batcher.pc = "answer" /\ More /\ Current \notin batcher.cached /\ i \notin batcher.results
      BY <2>3, <3>1 DEF AnswerUnknown, StoreUnknown
    <3>3. batcher.next \in 1 .. Len(batcher.batch)
      <4>1. batcher.next \in Nat \ {0} /\ Len(batcher.batch) \in Nat
        BY BatcherIsRecord, LenProperties DEF BatcherRecord
      <4> QED
        BY <3>2, <4>1 DEF More
    <3>4. i \in leftOut
      BY <3>1, <3>2, <3>3 DEF KeptInv, Settled, Current
    <3> QED
      BY <3>2, <3>4, KeptUnless DEF KeptInv
  <2>4. CASE CollectRequest \/ WindowEnds \/ AnswerFromCache \/ WantAnswer \/ SkipCached \/ BatchDone
    <3>1. cache' = cache /\ leftOut' = leftOut
      BY <2>4 DEF CollectRequest, WindowEnds, AnswerFromCache, WantAnswer, SkipCached, BatchDone
    <3> QED
      BY <3>1 DEF KeptInv
  <2> QED
    BY <2>1, <2>2, <2>3, <2>4 DEF BatcherStep
<1> QED
  BY <1>1, <1>2, BatchKeeps DEF KeptInv

LEMMA KeptInvStep == GeoInv /\ KeptInv /\ [GeoNext]_geoVars => KeptInv'
<1> SUFFICES ASSUME GeoInv, KeptInv, [GeoNext]_geoVars PROVE KeptInv'
  OBVIOUS
<1>1. CASE DownloadDatabase
  BY <1>1 DEF DownloadDatabase, KeptInv
<1>2. CASE UNCHANGED geoVars
  BY <1>2 DEF geoVars, KeptInv
<1> QED
  BY <1>1, <1>2, CallerKeeps, CallKeeps, WorkerKeeps DEF GeoNext

(* No answer reaches a caller of another network and no failure a caller   *)
(* of another address, and a failure is kept only for an address that both *)
(* services failed on, for any addresses, callers and sizes of queue and   *)
(* batch, whatever the services leave out and however late the worker is.  *)
THEOREM AnswersReachTheirAddress == GeoSpec => []AnswersFitAddress
<1>1. GeoInv /\ KeptInv => AnswersFitAddress
  <2> SUFFICES ASSUME GeoInv, KeptInv PROVE AnswersFitAddress
    OBVIOUS
  <2>1. ASSUME NEW s \in Subnets, subnets[s] # Nothing
        PROVE subnets[s] \in IPs /\ Subnet[subnets[s]] = s
    BY <2>1 DEF GeoInv, SubnetsFit
  <2>2. \A c \in Askers : Suits(look[c].ip, look[c].answer, failed)
    BY DEF GeoInv, LookFits
  <2>3. \A i \in IPs : Suits(i, cache[i], failed)
    BY DEF GeoInv, CacheFits
  <2>4. \A i \in IPs : cache[i] = Unknown => i \in leftOut
    BY DEF KeptInv, Kept
  <2> QED
    BY <2>1, <2>2, <2>3, <2>4 DEF AnswersFitAddress, Suits
<1> QED
  BY <1>1, GeoInvInit, GeoInvStep, KeptInvInit, KeptInvStep, PTL DEF GeoSpec

(***************************************************************************)
(* Checker: what the check has read and what is still to arrive are, one   *)
(* after the other, the rest of the stream that the other end has sent, so *)
(* each stage of a probe knows how the stream begins; and the protocols    *)
(* that were probed before are those that failed.                          *)
(***************************************************************************)

(* inbox and wire are what comes after k bytes of the stream m.            *)
Heard(ib, wr, m, k) ==
  /\ k + Len(ib) + Len(wr) = Len(m)
  /\ \A j \in 1 .. Len(ib) : ib[j] = m[k + j]
  /\ \A j \in 1 .. Len(wr) : wr[j] = m[k + Len(ib) + j]

Method5(peer) == AnswerTo(peer.socks5, 1)
Reply5(peer) == Method5(peer) \o AnswerTo(peer.socks5, 2)
All5(peer) == Reply5(peer) \o AnswerTo(peer.socks5, 3)
Reply4(peer) == AnswerTo(peer.socks4, 1)
All4(peer) == Reply4(peer) \o AnswerTo(peer.socks4, 2)

Chosen(peer) == Len(Method5(peer)) >= 2 /\ Method5(peer)[1] = 5 /\ Method5(peer)[2] # 255
Granted(peer) == Len(Reply5(peer)) >= 6 /\ Reply5(peer)[3] = 5 /\ Reply5(peer)[4] = 0

(* What each stage of a probe knows of the other end.                      *)
Dialogue(st, p, peer, ib, wr, nd) ==
  /\ st = "response" => p = "http"
  /\ st = "connect" => p = "https"
  /\ st = "tls" => p = "https" /\ peer.https.connect
  /\ st = "tlsResponse" => p = "https" /\ peer.https.connect /\ peer.https.tls
  /\ st = "auth" => p = "socks5" /\ Heard(ib, wr, Method5(peer), 0)
  /\ st = "reply" => p = "socks5" /\ Chosen(peer) /\ Heard(ib, wr, Reply5(peer), 2)
  /\ st = "length" => /\ p = "socks5" /\ Chosen(peer) /\ Granted(peer)
                      /\ Reply5(peer)[6] = 3 /\ Heard(ib, wr, Reply5(peer), 6)
  /\ st = "rest" => /\ p = "socks5" /\ Chosen(peer) /\ Granted(peer)
                    /\ Reply5(peer)[6] = 3 => Len(Reply5(peer)) >= 7
                    /\ \E k \in Nat : /\ k + nd = ReplyEnd(Reply5(peer))
                                      /\ Heard(ib, wr, Reply5(peer), k)
  /\ st = "reply4" => p \in SOCKS4 /\ Heard(ib, wr, Reply4(peer), 0)
  /\ st = "answer" =>
       \/ /\ p = "socks5" /\ Chosen(peer) /\ Granted(peer)
          /\ Len(Reply5(peer)) >= 7 /\ Len(Reply5(peer)) >= ReplyEnd(Reply5(peer))
          /\ Heard(ib, wr, All5(peer), ReplyEnd(Reply5(peer)))
       \/ /\ p \in SOCKS4 /\ Len(Reply4(peer)) >= 8 /\ Reply4(peer)[2] = 90
          /\ Heard(ib, wr, All4(peer), 8)

ProbedFor(rq) == IF rq.protocol = Automatic THEN ProbeOrder(rq.port) ELSE <<rq.protocol>>

(* order is what is left of the protocols to probe, ps, of which n are     *)
(* done with or under way.                                                 *)
LeftOver(ps, od, n) ==
  /\ n + Len(od) = Len(ps)
  /\ \A j \in 1 .. Len(od) : od[j] = ps[n + j]

(* None of the first n protocols is one that the other end relays by.      *)
NoneOf(peer, ps, n) == \A k \in 1 .. n : ~ Relays(peer, ps[k])

Progress(st, rq, p, od, calm) ==
  LET ps == ProbedFor(rq) IN
  /\ st = "next" => \E n \in Nat : /\ LeftOver(ps, od, n) /\ Len(od) > 0
                                   /\ calm => NoneOf(rq.peer, ps, n)
  /\ st \in Waiting => \E n \in Nat : /\ LeftOver(ps, od, n) /\ n > 0 /\ p = ps[n]
                                      /\ calm => NoneOf(rq.peer, ps, n - 1)

Concludes(st, rq, res, calm) ==
  LET ps == ProbedFor(rq) IN
  /\ res.success => st = "done" /\ Relays(rq.peer, res.protocol)
  /\ st = "done" /\ calm /\ res.success =>
       \E n \in 1 .. Len(ps) : res.protocol = ps[n] /\ NoneOf(rq.peer, ps, n - 1)
  /\ st = "done" /\ calm /\ ~ res.success => NoneOf(rq.peer, ps, Len(ps))

Calm == ~ disturbed /\ ~ ctxDone

Result == [success : BOOLEAN, protocol : Protocols \cup {Automatic},
           anonymity : {"unknown", "elite", "anonymous", "transparent"}, ssl : BOOLEAN]

CheckTyped ==
  /\ request \in [peer : Peers, port : PortKinds, protocol : Protocols \cup {Automatic}]
  /\ ctxDone \in BOOLEAN /\ disturbed \in BOOLEAN
  /\ stage \in Waiting \cup {"ping", "pick", "next", "done"}
  /\ proto \in Protocols \cup {Automatic}
  /\ order \in Seq(Protocols)
  /\ wire \in Seq(Byte) /\ inbox \in Seq(Byte)
  /\ need \in Nat
  /\ result \in Result

CheckInv ==
  /\ CheckTyped
  /\ stage \in Waiting => request.peer.open
  /\ Dialogue(stage, proto, request.peer, inbox, wire, need)
  /\ Progress(stage, request, proto, order, Calm)
  /\ Concludes(stage, request, result, Calm)

(****************************** the stream *********************************)

LEMMA ByteArith == \A b \in Byte : b \in Nat
BY DEF Byte

(* The first n bytes on the wire arrive.                                   *)
Passes(ib, wr, n, ic, wq) == ic = ib \o SubSeq(wr, 1, n) /\ wq = SubSeq(wr, n + 1, Len(wr))

LEMMA HeardArrives ==
  ASSUME NEW ib \in Seq(Byte), NEW wr \in Seq(Byte), NEW n \in 1 .. Len(wr), NEW ic, NEW wq,
         Passes(ib, wr, n, ic, wq)
  PROVE  /\ ic \in Seq(Byte) /\ wq \in Seq(Byte)
         /\ \A m, k : k \in Nat /\ Heard(ib, wr, m, k) => Heard(ic, wq, m, k)
<1>1. Len(ib) \in Nat /\ Len(wr) \in Nat /\ n \in Nat /\ 1 <= n /\ n <= Len(wr)
  BY LenProperties
<1>7. ic = ib \o SubSeq(wr, 1, n) /\ wq = SubSeq(wr, n + 1, Len(wr))
  BY DEF Passes
<1>2. PICK s : s = SubSeq(wr, 1, n)
  OBVIOUS
<1>3. s \in Seq(Byte) /\ Len(s) = n /\ \A i \in 1 .. n : s[i] = wr[i]
  <2>1. \A i \in 1 .. n : wr[i] \in Byte
    BY <1>1, ElementOfSeq
  <2>2. /\ s \in Seq(Byte)
        /\ Len(s) = (IF 1 <= n THEN n - 1 + 1 ELSE 0)
        /\ \A i \in 1 .. n - 1 + 1 : s[i] = wr[1 + i - 1]
    BY <1>1, <1>2, <2>1, SubSeqProperties
  <2>3. Len(s) = n
    BY <1>1, <2>2
  <2>4. ASSUME NEW i \in 1 .. n PROVE s[i] = wr[i]
    <3>1. i \in 1 .. n - 1 + 1 /\ 1 + i - 1 = i
      BY <1>1
    <3> QED
      BY <2>2, <3>1
  <2> QED
    BY <2>2, <2>3, <2>4
<1>4. wq \in Seq(Byte) /\ Len(wq) = Len(wr) - n /\ \A i \in 1 .. Len(wr) - n : wq[i] = wr[n + i]
  <2>1. \A i \in n + 1 .. Len(wr) : wr[i] \in Byte
    BY <1>1, ElementOfSeq
  <2>2. /\ wq \in Seq(Byte)
        /\ Len(wq) = (IF n + 1 <= Len(wr) THEN Len(wr) - (n + 1) + 1 ELSE 0)
        /\ \A i \in 1 .. Len(wr) - (n + 1) + 1 : wq[i] = wr[(n + 1) + i - 1]
    BY <1>1, <1>7, <2>1, SubSeqProperties
  <2>3. Len(wq) = Len(wr) - n
    BY <1>1, <2>2
  <2>4. ASSUME NEW i \in 1 .. Len(wr) - n PROVE wq[i] = wr[n + i]
    <3>1. i \in 1 .. Len(wr) - (n + 1) + 1 /\ (n + 1) + i - 1 = n + i
      BY <1>1
    <3> QED
      BY <2>2, <3>1
  <2> QED
    BY <2>2, <2>3, <2>4
<1>5. /\ ic \in Seq(Byte) /\ Len(ic) = Len(ib) + n
      /\ \A i \in 1 .. Len(ib) + n : ic[i] = IF i <= Len(ib) THEN ib[i] ELSE wr[i - Len(ib)]
  <2>1. /\ ic \in Seq(Byte) /\ Len(ic) = Len(ib) + Len(s)
        /\ \A i \in 1 .. Len(ib) + Len(s) : ic[i] = IF i <= Len(ib) THEN ib[i] ELSE s[i - Len(ib)]
    BY <1>2, <1>3, <1>7, ConcatProperties
  <2>2. ASSUME NEW i \in 1 .. Len(ib) + n, ~ (i <= Len(ib)) PROVE s[i - Len(ib)] = wr[i - Len(ib)]
    <3>1. i - Len(ib) \in 1 .. n
      BY <1>1, <2>2
    <3> QED
      BY <1>3, <3>1
  <2> QED
    BY <1>3, <2>1, <2>2
<1>6. ASSUME NEW m, NEW k \in Nat, Heard(ib, wr, m, k) PROVE Heard(ic, wq, m, k)
  <2>1. k + Len(ic) + Len(wq) = Len(m)
    <3>1. k + Len(ib) + Len(wr) = Len(m)
      BY <1>6 DEF Heard
    <3>2. Len(ic) = Len(ib) + n /\ Len(wq) = Len(wr) - n
      BY <1>4, <1>5
    <3>3. k \in Nat
      OBVIOUS
    <3> QED
      BY ONLY <1>1, <3>1, <3>2, <3>3
  <2>2. ASSUME NEW j \in 1 .. Len(ic) PROVE ic[j] = m[k + j]
    <3>1. CASE j <= Len(ib)
      <4>1. j \in 1 .. Len(ib)
        BY <1>1, <1>5, <3>1
      <4> QED
        BY <1>5, <1>6, <3>1, <4>1 DEF Heard
    <3>2. CASE ~ (j <= Len(ib))
      <4>1. PICK i : i = j - Len(ib)
        OBVIOUS
      <4>2. i \in 1 .. Len(wr) /\ k + Len(ib) + i = k + j
        BY <1>1, <1>5, <3>2, <4>1
      <4>3. wr[i] = m[k + Len(ib) + i]
        BY <1>6, <4>2 DEF Heard
      <4> QED
        BY <1>5, <3>2, <4>1, <4>2, <4>3
    <3> QED
      BY <3>1, <3>2
  <2>3. ASSUME NEW j \in 1 .. Len(wq) PROVE wq[j] = m[k + Len(ic) + j]
    <3>1. n + j \in 1 .. Len(wr) /\ k + Len(ib) + (n + j) = k + Len(ic) + j
      BY <1>1, <1>4, <1>5
    <3>2. wr[n + j] = m[k + Len(ib) + (n + j)]
      BY <1>6, <3>1 DEF Heard
    <3> QED
      BY <1>4, <3>1, <3>2
  <2> QED
    BY <2>1, <2>2, <2>3 DEF Heard
<1> QED
  BY <1>4, <1>5, <1>6

(* n bytes are read.                                                       *)
LEMMA HeardTakes ==
  ASSUME NEW ib \in Seq(Byte), NEW wr \in Seq(Byte), NEW n \in 0 .. Len(ib), NEW ic,
         ic = SubSeq(ib, n + 1, Len(ib)), NEW m, NEW k \in Nat, Heard(ib, wr, m, k)
  PROVE  ic \in Seq(Byte) /\ Heard(ic, wr, m, k + n)
<1>1. Len(ib) \in Nat /\ Len(wr) \in Nat /\ n \in Nat /\ n <= Len(ib)
  BY LenProperties
<1>2. ic \in Seq(Byte) /\ Len(ic) = Len(ib) - n /\ \A i \in 1 .. Len(ib) - n : ic[i] = ib[n + i]
  <2>1. \A i \in n + 1 .. Len(ib) : ib[i] \in Byte
    BY <1>1, ElementOfSeq
  <2>2. /\ ic \in Seq(Byte)
        /\ Len(ic) = (IF n + 1 <= Len(ib) THEN Len(ib) - (n + 1) + 1 ELSE 0)
        /\ \A i \in 1 .. Len(ib) - (n + 1) + 1 : ic[i] = ib[(n + 1) + i - 1]
    BY <1>1, <2>1, SubSeqProperties
  <2>3. Len(ic) = Len(ib) - n
    BY <1>1, <2>2
  <2>4. ASSUME NEW i \in 1 .. Len(ib) - n PROVE ic[i] = ib[n + i]
    <3>1. i \in 1 .. Len(ib) - (n + 1) + 1 /\ (n + 1) + i - 1 = n + i
      BY <1>1
    <3> QED
      BY <2>2, <3>1
  <2> QED
    BY <2>2, <2>3, <2>4
<1>3. (k + n) + Len(ic) + Len(wr) = Len(m)
  <2>1. k + Len(ib) + Len(wr) = Len(m)
    BY DEF Heard
  <2>2. Len(ic) = Len(ib) - n
    BY <1>2
  <2>3. k \in Nat
    OBVIOUS
  <2> QED
    BY ONLY <1>1, <2>1, <2>2, <2>3
<1>4. ASSUME NEW j \in 1 .. Len(ic) PROVE ic[j] = m[(k + n) + j]
  <2>1. n + j \in 1 .. Len(ib) /\ k + (n + j) = (k + n) + j
    BY <1>1, <1>2
  <2>2. ib[n + j] = m[k + (n + j)]
    BY <2>1 DEF Heard
  <2> QED
    BY <1>2, <2>1, <2>2
<1>5. ASSUME NEW j \in 1 .. Len(wr) PROVE wr[j] = m[(k + n) + Len(ic) + j]
  <2>1. wr[j] = m[k + Len(ib) + j]
    BY DEF Heard
  <2>2. k + Len(ib) + j = (k + n) + Len(ic) + j
    <3>1. Len(ic) = Len(ib) - n
      BY <1>2
    <3>2. k \in Nat /\ j \in Int
      OBVIOUS
    <3> QED
      BY ONLY <1>1, <3>1, <3>2
  <2> QED
    BY <2>1, <2>2
<1> QED
  BY <1>2, <1>3, <1>4, <1>5 DEF Heard

(* The other end sends more.                                               *)
LEMMA HeardGrows ==
  ASSUME NEW ib \in Seq(Byte), NEW wr \in Seq(Byte), NEW m \in Seq(Byte), NEW k \in Nat,
         NEW more \in Seq(Byte), Heard(ib, wr, m, k)
  PROVE  Heard(ib, wr \o more, m \o more, k)
<1>1. Len(ib) \in Nat /\ Len(wr) \in Nat /\ Len(m) \in Nat /\ Len(more) \in Nat
  BY LenProperties
<1>2. PICK w, s : w = wr \o more /\ s = m \o more
  OBVIOUS
<1>3. /\ Len(w) = Len(wr) + Len(more)
      /\ \A i \in 1 .. Len(wr) + Len(more) : w[i] = IF i <= Len(wr) THEN wr[i] ELSE more[i - Len(wr)]
  BY <1>2, ConcatProperties
<1>4. /\ Len(s) = Len(m) + Len(more)
      /\ \A i \in 1 .. Len(m) + Len(more) : s[i] = IF i <= Len(m) THEN m[i] ELSE more[i - Len(m)]
  BY <1>2, ConcatProperties
<1>5. k + Len(ib) + Len(wr) = Len(m)
  BY DEF Heard
<1>6. k + Len(ib) + Len(w) = Len(s)
  <2>1. Len(w) = Len(wr) + Len(more) /\ Len(s) = Len(m) + Len(more)
    BY <1>3, <1>4
  <2>2. k \in Nat
    OBVIOUS
  <2>3. PICK a \in Nat, b \in Nat, c \in Nat, d \in Nat :
          a = Len(ib) /\ b = Len(wr) /\ c = Len(m) /\ d = Len(more)
    BY ONLY <1>1
  <2>4. k + a + b = c
    BY ONLY <1>5, <2>3
  <2>5. k + a + (b + d) = c + d
    BY ONLY <2>2, <2>4
  <2> QED
    BY ONLY <2>1, <2>3, <2>5
<1>7. ASSUME NEW j \in 1 .. Len(ib) PROVE ib[j] = s[k + j]
  <2>1. k + j \in 1 .. Len(m) + Len(more) /\ k + j <= Len(m)
    BY <1>1, <1>5
  <2>2. ib[j] = m[k + j]
    BY DEF Heard
  <2> QED
    BY <1>4, <2>1, <2>2
<1>8. ASSUME NEW j \in 1 .. Len(w) PROVE w[j] = s[k + Len(ib) + j]
  <2>1. CASE j <= Len(wr)
    <3>1. j \in 1 .. Len(wr) /\ j \in 1 .. Len(wr) + Len(more)
      BY <1>1, <1>3, <2>1
    <3>2. k + Len(ib) + j \in 1 .. Len(m) + Len(more) /\ k + Len(ib) + j <= Len(m)
      BY <1>1, <1>5, <3>1
    <3>3. wr[j] = m[k + Len(ib) + j]
      BY <3>1 DEF Heard
    <3> QED
      BY <1>3, <1>4, <2>1, <3>1, <3>2, <3>3
  <2>2. CASE ~ (j <= Len(wr))
    <3>1. j \in 1 .. Len(wr) + Len(more)
      BY <1>3
    <3>2. PICK i : i = k + Len(ib) + j
      OBVIOUS
    <3>3. i \in 1 .. Len(m) + Len(more) /\ ~ (i <= Len(m)) /\ i - Len(m) = j - Len(wr)
      <4>1. j \in Nat /\ j <= Len(wr) + Len(more) /\ j > Len(wr)
        BY <1>1, <2>2, <3>1
      <4>2. k \in Nat
        OBVIOUS
      <4>3. PICK a \in Nat, b \in Nat, c \in Nat, d \in Nat :
              a = Len(ib) /\ b = Len(wr) /\ c = Len(m) /\ d = Len(more)
        BY ONLY <1>1
      <4>4. k + a + b = c /\ i = k + a + j /\ j \in Nat /\ j <= b + d /\ j > b
        BY ONLY <1>5, <3>2, <4>1, <4>3
      <4>5. i \in 1 .. c + d /\ ~ (i <= c) /\ i - c = j - b
        BY ONLY <4>2, <4>4
      <4> QED
        BY ONLY <4>3, <4>5
    <3>4. s[i] = more[i - Len(m)]
      BY <1>4, <3>3
    <3>5. w[j] = more[j - Len(wr)]
      BY <1>3, <2>2, <3>1
    <3> QED
      BY <3>2, <3>3, <3>4, <3>5
  <2> QED
    BY <2>1, <2>2
<1>9. Heard(ib, w, s, k)
  BY <1>6, <1>7, <1>8 DEF Heard
<1> QED
  BY <1>2, <1>9

LEMMA PrefixIs ==
  ASSUME NEW ib \in Seq(Byte)
  PROVE  IsPrefix(HttpPrefix, ib) <=> Len(ib) >= 5 /\ \A i \in 1 .. 5 : ib[i] = HttpPrefix[i]
<1>1. HttpPrefix \in Seq(Byte) /\ Len(HttpPrefix) = 5 /\ Len(ib) \in Nat
  BY LenProperties DEF HttpPrefix, Byte
<1>2. SubSeq(HttpPrefix, 1, 5) = HttpPrefix
  BY <1>1, SubSeqFull
<1>3. ASSUME Len(ib) >= 5
      PROVE  (HttpPrefix = SubSeq(ib, 1, 5)) <=> \A i \in 1 .. 5 : ib[i] = HttpPrefix[i]
  <2>1. \A i \in 1 .. 5 : ib[i] \in Byte
    BY <1>1, <1>3, ElementOfSeq
  <2>2. PICK s : s = SubSeq(ib, 1, 5)
    OBVIOUS
  <2>3. /\ s \in Seq(Byte) /\ Len(s) = (IF 1 <= 5 THEN 5 - 1 + 1 ELSE 0)
        /\ \A i \in 1 .. 5 - 1 + 1 : s[i] = ib[1 + i - 1]
    BY <2>1, <2>2, SubSeqProperties
  <2>4. Len(s) = 5 /\ \A i \in 1 .. 5 : s[i] = ib[i]
    BY <2>3
  <2>5. HttpPrefix = s <=> \A i \in 1 .. 5 : s[i] = HttpPrefix[i]
    BY <1>1, <2>3, <2>4, SeqEqual
  <2> QED
    BY <2>2, <2>4, <2>5
<1> QED
  BY <1>1, <1>2, <1>3 DEF IsPrefix

(* The beginning of the answer, read at the right place of the stream.     *)
LEMMA HttpHeard ==
  ASSUME NEW ib \in Seq(Byte), NEW wr \in Seq(Byte), NEW m, NEW k \in Nat, Heard(ib, wr, m, k)
  PROVE  /\ IsPrefix(HttpPrefix, ib) => HttpAfter(m, k)
         /\ HttpAfter(m, k) /\ Len(ib) >= 5 => IsPrefix(HttpPrefix, ib)
<1>1. DOMAIN HttpPrefix = 1 .. 5 /\ Len(HttpPrefix) = 5 /\ Len(ib) \in Nat /\ Len(wr) \in Nat
  BY LenProperties DEF HttpPrefix
<1>2. k + Len(ib) + Len(wr) = Len(m) /\ \A j \in 1 .. Len(ib) : ib[j] = m[k + j]
  BY DEF Heard
<1>3. ASSUME Len(ib) >= 5 PROVE (\A i \in 1 .. 5 : ib[i] = m[k + i]) /\ Len(m) >= k + 5
  BY <1>1, <1>2, <1>3
<1> QED
  BY <1>1, <1>3, PrefixIs DEF HttpAfter

(***************************** the check ***********************************)

LEMMA OrderTyped ==
  ASSUME NEW rq, rq \in [peer : Peers, port : PortKinds, protocol : Protocols \cup {Automatic}]
  PROVE  /\ ProbedFor(rq) \in Seq(Protocols) /\ Len(ProbedFor(rq)) \in Nat \ {0}
         /\ \A k \in 1 .. Len(ProbedFor(rq)) : ProbedFor(rq)[k] \in Protocols
<1>1. ProbedFor(rq) \in Seq(Protocols) /\ Len(ProbedFor(rq)) \in Nat \ {0}
  <2>1. CASE rq.protocol # Automatic
    <3>1. rq.protocol \in Protocols
      BY <2>1
    <3>2. <<rq.protocol>> \in Seq(Protocols) /\ Len(<<rq.protocol>>) = 1
      BY <3>1
    <3> QED
      BY <2>1, <3>2 DEF ProbedFor
  <2>2. CASE rq.protocol = Automatic
    <3>1. rq.port \in {"socks", "tls", "web"}
      BY DEF PortKinds
    <3>2. /\ <<"socks5", "socks4", "http", "https">> \in Seq(Protocols)
          /\ <<"https", "http", "socks5">> \in Seq(Protocols)
          /\ <<"http", "https", "socks5", "socks4">> \in Seq(Protocols)
      BY DEF Protocols, Supported, SOCKS4
    <3>3. ProbeOrder(rq.port) \in Seq(Protocols) /\ Len(ProbeOrder(rq.port)) \in {3, 4}
      BY <3>1, <3>2 DEF ProbeOrder
    <3>4. ProbedFor(rq) = ProbeOrder(rq.port)
      BY <2>2 DEF ProbedFor
    <3>5. Len(ProbeOrder(rq.port)) \in Nat \ {0}
      BY ONLY <3>3
    <3> QED
      BY <3>3, <3>4, <3>5
  <2> QED
    BY <2>1, <2>2
<1> QED
  BY <1>1, ElementOfSeq

LEMMA PeerTyped ==
  ASSUME CheckInv
  PROVE  LET peer == request.peer IN
         /\ AnswerTo(peer.socks5, 1) \in Seq(Byte) /\ AnswerTo(peer.socks5, 2) \in Seq(Byte)
         /\ AnswerTo(peer.socks5, 3) \in Seq(Byte)
         /\ AnswerTo(peer.socks4, 1) \in Seq(Byte) /\ AnswerTo(peer.socks4, 2) \in Seq(Byte)
         /\ Method5(peer) \in Seq(Byte) /\ Reply5(peer) \in Seq(Byte) /\ All5(peer) \in Seq(Byte)
         /\ Reply4(peer) \in Seq(Byte) /\ All4(peer) \in Seq(Byte)
<1> DEFINE peer == request.peer
<1>1. peer.socks5 \in Seq(Seq(Byte)) /\ peer.socks4 \in Seq(Seq(Byte))
  BY PeersAssumption DEF CheckInv, CheckTyped, Peer
<1>2. <<>> \in Seq(Byte)
  BY EmptySeq
<1>3. ASSUME NEW s \in Seq(Seq(Byte)), NEW n \in Nat \ {0} PROVE AnswerTo(s, n) \in Seq(Byte)
  <2>1. CASE n <= Len(s)
    <3>1. Len(s) \in Nat
      BY LenProperties
    <3>2. n \in 1 .. Len(s)
      BY <2>1, <3>1
    <3>3. s[n] \in Seq(Byte)
      BY <3>2, ElementOfSeq
    <3> QED
      BY <2>1, <3>3 DEF AnswerTo
  <2>2. CASE ~ (n <= Len(s))
    BY <1>2, <2>2 DEF AnswerTo
  <2> QED
    BY <2>1, <2>2
<1> HIDE DEF peer
<1>4. /\ AnswerTo(peer.socks5, 1) \in Seq(Byte) /\ AnswerTo(peer.socks5, 2) \in Seq(Byte)
      /\ AnswerTo(peer.socks5, 3) \in Seq(Byte)
      /\ AnswerTo(peer.socks4, 1) \in Seq(Byte) /\ AnswerTo(peer.socks4, 2) \in Seq(Byte)
  BY <1>1, <1>3
<1>5. Method5(peer) \in Seq(Byte)
  BY <1>4 DEF Method5
<1>6. Reply5(peer) \in Seq(Byte)
  BY <1>4, <1>5, ConcatProperties DEF Reply5
<1>7. All5(peer) \in Seq(Byte)
  BY <1>4, <1>6, ConcatProperties DEF All5
<1>8. Reply4(peer) \in Seq(Byte)
  BY <1>4 DEF Reply4
<1>9. All4(peer) \in Seq(Byte)
  BY <1>4, <1>8, ConcatProperties DEF All4
<1> QED
  BY <1>4, <1>5, <1>6, <1>7, <1>8, <1>9 DEF peer

LEMMA CheckInvInit == Init => CheckInv
<1> SUFFICES ASSUME Init PROVE CheckInv
  OBVIOUS
<1>1. CheckTyped
  <2>1. order \in Seq(Protocols) /\ wire \in Seq(Byte) /\ inbox \in Seq(Byte)
    BY EmptySeq DEF Init
  <2>2. result \in Result
    BY DEF Init, NoResult, Result, Automatic
  <2>3. stage \in Waiting \cup {"ping", "pick", "next", "done"}
    BY DEF Init
  <2> QED
    BY <2>1, <2>2, <2>3 DEF Init, CheckTyped
<1>2. stage \notin Waiting \cup {"next", "done"}
  BY DEF Init, Waiting
<1>3. Dialogue(stage, proto, request.peer, inbox, wire, need)
  BY <1>2 DEF Dialogue, Waiting
<1>4. Progress(stage, request, proto, order, Calm)
  BY <1>2 DEF Progress
<1>5. ~ result.success
  BY DEF Init, NoResult
<1>6. Concludes(stage, request, result, Calm)
  BY <1>2, <1>5 DEF Concludes
<1> QED
  BY <1>1, <1>2, <1>3, <1>4, <1>6 DEF CheckInv

(* The stages outside a probe know nothing of the stream.                  *)
LEMMA NoDialogue ==
  ASSUME NEW st, st \notin Waiting, NEW p, NEW peer, NEW ib, NEW wr, NEW nd
  PROVE  Dialogue(st, p, peer, ib, wr, nd)
BY DEF Dialogue, Waiting

(* A probe that fails hands over to the next protocol, or ends the check.  *)
LEMMA FailureKeeps ==
  ASSUME CheckInv, stage \in Waiting, ProbeFails, disturbed' \in BOOLEAN, disturbed => disturbed',
         ~ disturbed' /\ ~ ctxDone => ~ Relays(request.peer, proto)
  PROVE  CheckInv'
<1>1. /\ stage' = (IF order # <<>> THEN "next" ELSE "done")
      /\ wire' = <<>> /\ inbox' = <<>> /\ need' = 0
      /\ UNCHANGED <<request, ctxDone, proto, order, result>>
  BY DEF ProbeFails
<1>2. CheckTyped'
  <2>1. wire' \in Seq(Byte) /\ inbox' \in Seq(Byte)
    BY <1>1, EmptySeq
  <2> QED
    BY <1>1, <2>1 DEF CheckInv, CheckTyped
<1>3. stage' \notin Waiting
  BY <1>1 DEF Waiting
<1>4. PICK n \in Nat : /\ LeftOver(ProbedFor(request), order, n) /\ n > 0
                       /\ proto = ProbedFor(request)[n]
                       /\ Calm => NoneOf(request.peer, ProbedFor(request), n - 1)
  BY DEF CheckInv, Progress
<1>5. ~ result.success
  BY DEF CheckInv, Concludes, Waiting
<1>6. order \in Seq(Protocols) /\ Len(order) \in Nat /\ (order # <<>> => Len(order) > 0)
      /\ (order = <<>> => Len(order) = 0)
  BY LenProperties, EmptySeq DEF CheckInv, CheckTyped
<1>7. Calm' => NoneOf(request.peer, ProbedFor(request), n)
  <2> SUFFICES ASSUME Calm', NEW k \in 1 .. n PROVE ~ Relays(request.peer, ProbedFor(request)[k])
    BY DEF NoneOf
  <2>1. Calm /\ ~ disturbed' /\ ~ ctxDone
    BY <1>1 DEF Calm
  <2>2. CASE k = n
    BY <1>4, <2>1, <2>2
  <2>3. CASE k # n
    <3>1. k \in 1 .. n - 1
      BY <2>3
    <3> QED
      BY <1>4, <2>1, <3>1 DEF NoneOf
  <2> QED
    BY <2>2, <2>3
<1>8. Progress(stage', request, proto, order, Calm')
  BY <1>1, <1>3, <1>4, <1>6, <1>7 DEF Progress
<1>9. Concludes(stage', request, result, Calm')
  <2>1. stage' = "done" => n = Len(ProbedFor(request))
    BY <1>1, <1>4, <1>6 DEF LeftOver
  <2> QED
    BY <1>5, <1>7, <2>1 DEF Concludes
<1>10. Dialogue(stage', proto', request'.peer, inbox', wire', need')
  BY <1>3, NoDialogue
<1> QED
  BY <1>1, <1>2, <1>3, <1>8, <1>9, <1>10 DEF CheckInv

(* A probe that succeeds ends the check.                                   *)
LEMMA SuccessKeeps ==
  ASSUME CheckInv, stage \in Waiting, ProbeSucceeds, Relays(request.peer, proto)
  PROVE  CheckInv'
<1>1. /\ stage' = "done" /\ result' = Success
      /\ UNCHANGED <<request, ctxDone, proto, order, wire, inbox, need, disturbed>>
  BY DEF ProbeSucceeds, Finish
<1>2. Success \in Result /\ Success.success /\ Success.protocol = proto
  BY DEF Success, Result, EvaluateAnonymity, CheckInv, CheckTyped
<1>3. CheckTyped'
  BY <1>1, <1>2 DEF CheckInv, CheckTyped
<1>4. stage' \notin Waiting \cup {"next"}
  BY <1>1 DEF Waiting
<1>5. PICK n \in Nat : /\ LeftOver(ProbedFor(request), order, n) /\ n > 0
                       /\ proto = ProbedFor(request)[n]
                       /\ Calm => NoneOf(request.peer, ProbedFor(request), n - 1)
  BY DEF CheckInv, Progress
<1>6. n \in 1 .. Len(ProbedFor(request))
  <2>1. Len(order) \in Nat /\ n + Len(order) = Len(ProbedFor(request))
    BY <1>5, LenProperties DEF LeftOver, CheckInv, CheckTyped
  <2> QED
    BY <1>5, <2>1
<1>7. Calm' = Calm
  BY <1>1 DEF Calm
<1>8. Progress(stage', request, proto, order, Calm')
  BY <1>4 DEF Progress
<1>9. Concludes(stage', request, result', Calm')
  BY <1>1, <1>2, <1>5, <1>6, <1>7 DEF Concludes
<1>10. Dialogue(stage', proto', request'.peer, inbox', wire', need')
  BY <1>4, NoDialogue
<1> QED
  BY <1>1, <1>3, <1>4, <1>8, <1>9, <1>10 DEF CheckInv

(* A probe goes on.                                                        *)
LEMMA StepKeeps ==
  ASSUME CheckInv, stage \in Waiting, NEW next \in Waiting, Step(next),
         inbox' \in Seq(Byte), wire' \in Seq(Byte), need' \in Nat,
         Dialogue(next, proto, request.peer, inbox', wire', need')
  PROVE  CheckInv'
<1>1. stage' = next /\ UNCHANGED <<request, ctxDone, proto, order, result, disturbed>>
  BY DEF Step
<1>2. CheckTyped'
  BY <1>1 DEF CheckInv, CheckTyped
<1>3. stage' # "next" /\ stage' # "done"
  BY <1>1 DEF Waiting
<1>4. Calm' = Calm
  BY <1>1 DEF Calm
<1>5. Progress(stage', request, proto, order, Calm')
  BY <1>1, <1>3, <1>4 DEF CheckInv, Progress
<1>6. ~ result.success
  BY DEF CheckInv, Concludes, Waiting
<1>7. Concludes(stage', request, result, Calm')
  BY <1>3, <1>6 DEF Concludes
<1> QED
  BY <1>1, <1>2, <1>5, <1>7 DEF CheckInv

(* A check that has not succeeded ends, when nothing is claimed of it or   *)
(* the other end is closed.                                                *)
LEMMA GivingUpKeeps ==
  ASSUME CheckInv, stage \notin Waiting, stage # "done", Finish(result), disturbed' \in BOOLEAN,
         UNCHANGED <<request, ctxDone, proto, order, wire, inbox, need>>,
         Calm' => ~ request.peer.open
  PROVE  CheckInv'
<1>1. stage' = "done" /\ result' = result
  BY DEF Finish
<1>2. CheckTyped'
  BY <1>1 DEF CheckInv, CheckTyped
<1>3. stage' \notin Waiting \cup {"next"}
  BY <1>1 DEF Waiting
<1>4. ~ result.success
  BY DEF CheckInv, Concludes
<1>5. Concludes(stage', request, result, Calm')
  BY <1>1, <1>4 DEF Concludes, NoneOf, Relays
<1>6. Progress(stage', request, proto, order, Calm')
  BY <1>3 DEF Progress
<1>7. Dialogue(stage', proto', request'.peer, inbox', wire', need')
  BY <1>3, NoDialogue
<1> QED
  BY <1>1, <1>2, <1>3, <1>5, <1>6, <1>7 DEF CheckInv

LEMMA PingKeeps ==
  ASSUME CheckInv, Ping PROVE CheckInv'
<1>1. stage = "ping" /\ UNCHANGED <<request, ctxDone, proto, order, wire, inbox, need>>
      /\ disturbed \in BOOLEAN
  BY DEF Ping, CheckInv, CheckTyped
<1>2. stage \notin Waiting
  BY <1>1 DEF Waiting
<1>3. CASE Finish(result) /\ disturbed' \in BOOLEAN /\ (Calm' => ~ request.peer.open)
  BY <1>1, <1>2, <1>3, GivingUpKeeps
<1>4. CASE stage' = "pick" /\ UNCHANGED <<result, disturbed>>
  <2>1. CheckTyped'
    BY <1>1, <1>4 DEF CheckInv, CheckTyped
  <2>2. stage' \notin Waiting \cup {"next", "done"}
    BY <1>4 DEF Waiting
  <2>3. Progress(stage', request, proto, order, Calm')
    BY <2>2 DEF Progress
  <2>4. ~ result.success
    BY <1>1 DEF CheckInv, Concludes
  <2>5. Concludes(stage', request, result, Calm')
    BY <2>2, <2>4 DEF Concludes
  <2>6. Dialogue(stage', proto', request'.peer, inbox', wire', need')
    BY <2>2, NoDialogue
  <2> QED
    BY <1>1, <1>4, <2>1, <2>2, <2>3, <2>5, <2>6 DEF CheckInv
<1> QED
  BY <1>1, <1>3, <1>4 DEF Ping, Calm

LEMMA PickProtocolsKeeps ==
  ASSUME CheckInv, PickProtocols PROVE CheckInv'
<1>1. /\ stage = "pick" /\ stage' = "next" /\ order' = ProbedFor(request)
      /\ UNCHANGED <<request, ctxDone, proto, wire, inbox, need, result, disturbed>>
  BY DEF PickProtocols, ProbedFor
<1>2. PICK ps : ps = ProbedFor(request)
  OBVIOUS
<1>3. ps \in Seq(Protocols) /\ Len(ps) \in Nat \ {0}
  BY <1>2, OrderTyped DEF CheckInv, CheckTyped
<1>4. CheckTyped'
  BY <1>1, <1>2, <1>3 DEF CheckInv, CheckTyped
<1>5. stage' \notin Waiting /\ stage' # "done"
  BY <1>1 DEF Waiting
<1>6. LeftOver(ps, ps, 0) /\ NoneOf(request.peer, ps, 0) /\ Len(ps) > 0
  <2>1. 0 + Len(ps) = Len(ps) /\ Len(ps) > 0 /\ \A k : k \notin 1 .. 0
    BY <1>3
  <2>2. \A j \in 1 .. Len(ps) : ps[j] = ps[0 + j]
    OBVIOUS
  <2> QED
    BY <2>1, <2>2 DEF LeftOver, NoneOf
<1>7. Progress(stage', request, proto, order', Calm')
  BY <1>1, <1>2, <1>5, <1>6 DEF Progress
<1>8. ~ result.success
  BY <1>1 DEF CheckInv, Concludes
<1>9. Concludes(stage', request, result, Calm')
  BY <1>5, <1>8 DEF Concludes
<1>10. Dialogue(stage', proto', request'.peer, inbox', wire', need')
  BY <1>5, NoDialogue
<1> QED
  BY <1>1, <1>4, <1>5, <1>7, <1>9, <1>10 DEF CheckInv

LEMMA DetectCancelledKeeps ==
  ASSUME CheckInv, DetectCancelled PROVE CheckInv'
<1>1. stage = "next" /\ ctxDone /\ Finish(result) /\ disturbed' = disturbed /\ disturbed \in BOOLEAN
      /\ UNCHANGED <<request, ctxDone, proto, order, wire, inbox, need>>
  BY DEF DetectCancelled, CheckInv, CheckTyped
<1>2. ~ Calm'
  BY <1>1 DEF Calm
<1>3. stage \notin Waiting /\ stage # "done"
  BY <1>1 DEF Waiting
<1> QED
  BY <1>1, <1>2, <1>3, GivingUpKeeps

(* The next protocol is taken from those that are left.                    *)
LEMMA TakesNext ==
  ASSUME NEW ps \in Seq(Protocols), NEW od \in Seq(Protocols), NEW n \in Nat,
         LeftOver(ps, od, n), Len(od) > 0
  PROVE  /\ Tail(od) \in Seq(Protocols) /\ Head(od) \in Protocols
         /\ Head(od) = ps[n + 1] /\ LeftOver(ps, Tail(od), n + 1)
         /\ Tail(od) # <<>> => Len(Tail(od)) > 0
         /\ Tail(od) = <<>> => n + 1 = Len(ps)
<1>1. Len(od) \in Nat /\ Len(ps) \in Nat /\ od # <<>>
  BY LenProperties, EmptySeq
<1>2. PICK tl : tl = Tail(od)
  OBVIOUS
<1>3. /\ Head(od) \in Protocols /\ tl \in Seq(Protocols) /\ Len(tl) = Len(od) - 1
      /\ \A i \in 1 .. Len(tl) : tl[i] = od[i + 1]
  BY <1>1, <1>2, HeadTailProperties
<1>4. n + Len(od) = Len(ps) /\ \A j \in 1 .. Len(od) : od[j] = ps[n + j]
  BY DEF LeftOver
<1>5. Head(od) = ps[n + 1]
  <2>1. Head(od) = od[1] /\ 1 \in 1 .. Len(od)
    BY <1>1
  <2> QED
    BY <1>4, <2>1
<1>6. (n + 1) + Len(tl) = Len(ps)
  <2>1. Len(tl) = Len(od) - 1
    BY <1>3
  <2>2. n \in Nat /\ n + Len(od) = Len(ps)
    BY <1>4
  <2> QED
    BY ONLY <1>1, <2>1, <2>2
<1>7. ASSUME NEW j \in 1 .. Len(tl) PROVE tl[j] = ps[(n + 1) + j]
  <2>1. j + 1 \in 1 .. Len(od) /\ n + (j + 1) = (n + 1) + j
    BY <1>1, <1>3
  <2> QED
    BY <1>3, <1>4, <2>1
<1>8. (tl # <<>> => Len(tl) > 0) /\ (tl = <<>> => Len(tl) = 0) /\ Len(tl) \in Nat
  BY <1>3, LenProperties, EmptySeq
<1>9. LeftOver(ps, tl, n + 1)
  BY <1>6, <1>7 DEF LeftOver
<1>10. tl = <<>> => n + 1 = Len(ps)
  BY <1>6, <1>8
<1> QED
  BY <1>2, <1>3, <1>5, <1>8, <1>9, <1>10

LEMMA DialFailsKeeps ==
  ASSUME CheckInv, DialFails PROVE CheckInv'
<1>1. /\ stage = "next" /\ proto' = Head(order) /\ order' = Tail(order)
      /\ stage' = (IF Tail(order) # <<>> THEN "next" ELSE "done")
      /\ disturbed' = (disturbed \/ (request.peer.open /\ Head(order) \in Supported))
      /\ UNCHANGED <<request, ctxDone, wire, inbox, need, result>>
  BY DEF DialFails
<1>2. PICK ps : ps = ProbedFor(request)
  OBVIOUS
<1>3. PICK n \in Nat : /\ LeftOver(ps, order, n) /\ Len(order) > 0
                       /\ Calm => NoneOf(request.peer, ps, n)
  BY <1>1, <1>2 DEF CheckInv, Progress
<1>4. ps \in Seq(Protocols) /\ order \in Seq(Protocols)
  BY <1>2, OrderTyped DEF CheckInv, CheckTyped
<1>5. /\ order' \in Seq(Protocols) /\ proto' \in Protocols /\ LeftOver(ps, order', n + 1)
      /\ Head(order) \in Protocols /\ Head(order) = ps[n + 1]
      /\ order' # <<>> => Len(order') > 0
      /\ order' = <<>> => n + 1 = Len(ps)
  BY <1>1, <1>3, <1>4, TakesNext
<1>6. request.peer.open \in BOOLEAN
  BY PeersAssumption DEF CheckInv, CheckTyped, Peer
<1>7. CheckTyped'
  BY <1>1, <1>5, <1>6 DEF CheckInv, CheckTyped
<1>8. stage' \notin Waiting
  BY <1>1 DEF Waiting
<1>9. Calm' => NoneOf(request.peer, ps, n + 1)
  <2> SUFFICES ASSUME Calm', NEW k \in 1 .. n + 1 PROVE ~ Relays(request.peer, ps[k])
    BY DEF NoneOf
  <2>1. Calm /\ (~ request.peer.open \/ Head(order) \notin Supported)
    BY <1>1 DEF Calm
  <2>2. CASE ~ request.peer.open
    BY <2>2 DEF Relays
  <2>3. CASE Head(order) \notin Supported /\ k = n + 1
    BY <1>5, <2>3 DEF Protocols, Supported, SOCKS4, Relays
  <2>4. CASE k # n + 1
    <3>1. k \in 1 .. n
      BY <2>4
    <3> QED
      BY <1>3, <2>1, <3>1 DEF NoneOf
  <2> QED
    BY <2>1, <2>2, <2>3, <2>4
<1>10. n + 1 \in Nat
  OBVIOUS
<1>11. Progress(stage', request, proto', order', Calm')
  BY <1>1, <1>2, <1>5, <1>8, <1>9, <1>10 DEF Progress
<1>12. ~ result.success
  BY <1>1 DEF CheckInv, Concludes
<1>13. Concludes(stage', request, result, Calm')
  BY <1>1, <1>2, <1>5, <1>9, <1>12 DEF Concludes
<1>14. Dialogue(stage', proto', request'.peer, inbox', wire', need')
  BY <1>8, NoDialogue
<1> QED
  BY <1>1, <1>7, <1>8, <1>11, <1>13, <1>14 DEF CheckInv

LEMMA HeardAll ==
  ASSUME NEW m \in Seq(Byte) PROVE Heard(<<>>, m, m, 0)
<1>1. Len(m) \in Nat /\ Len(<<>>) = 0
  BY LenProperties, EmptySeq
<1>2. 0 + Len(<<>>) + Len(m) = Len(m) /\ \A j \in 1 .. Len(m) : 0 + Len(<<>>) + j = j
  BY <1>1
<1>3. \A j \in 1 .. Len(<<>>) : <<>>[j] = m[0 + j]
  BY <1>1
<1> QED
  BY <1>2, <1>3 DEF Heard

LEMMA DialKeeps ==
  ASSUME CheckInv, Dial PROVE CheckInv'
<1>1. /\ stage = "next" /\ ~ ctxDone /\ request.peer.open
      /\ proto' = Head(order) /\ order' = Tail(order)
      /\ stage' = FirstStage(Head(order))
      /\ Head(order) \in Supported
      /\ wire' = (IF Head(order) \in {"socks5"} \cup SOCKS4 THEN Script(Head(order), 1) ELSE <<>>)
      /\ inbox' = <<>> /\ need' = 0
      /\ UNCHANGED <<request, ctxDone, result, disturbed>>
  BY DEF Dial
<1>2. PICK ps : ps = ProbedFor(request)
  OBVIOUS
<1>3. PICK n \in Nat : /\ LeftOver(ps, order, n) /\ Len(order) > 0
                       /\ Calm => NoneOf(request.peer, ps, n)
  BY <1>1, <1>2 DEF CheckInv, Progress
<1>4. ps \in Seq(Protocols) /\ order \in Seq(Protocols)
  BY <1>2, OrderTyped DEF CheckInv, CheckTyped
<1>5. /\ order' \in Seq(Protocols) /\ proto' \in Protocols /\ proto' = ps[n + 1]
      /\ LeftOver(ps, order', n + 1)
  BY <1>1, <1>3, <1>4, TakesNext
<1>6. PICK p \in Protocols : p = proto' /\ p = Head(order)
  BY <1>1, <1>5
<1>7. stage' = FirstStage(p) /\ FirstStage(p) \in Waiting
  BY <1>1, <1>6 DEF FirstStage, Supported, SOCKS4, Waiting
<1>8. /\ p = "socks5" => wire' = Method5(request.peer)
      /\ p \in SOCKS4 => wire' = Reply4(request.peer)
      /\ p \notin {"socks5"} \cup SOCKS4 => wire' = <<>>
  BY <1>1, <1>6 DEF Script, Method5, Reply4, SOCKS4
<1>9. wire' \in Seq(Byte) /\ inbox' \in Seq(Byte)
  BY <1>1, <1>8, PeerTyped, EmptySeq
<1>10. CheckTyped'
  BY <1>1, <1>5, <1>7, <1>9 DEF CheckInv, CheckTyped
<1>11. Dialogue(stage', p, request.peer, inbox', wire', need')
  <2>1. p = "socks5" => Heard(inbox', wire', Method5(request.peer), 0)
    BY <1>1, <1>8, PeerTyped, HeardAll
  <2>2. p \in SOCKS4 => Heard(inbox', wire', Reply4(request.peer), 0)
    BY <1>1, <1>8, PeerTyped, HeardAll
  <2> QED
    BY <1>1, <1>6, <1>7, <2>1, <2>2 DEF FirstStage, Supported, SOCKS4, Dialogue
<1>12. stage' # "next" /\ stage' # "done"
  BY <1>7 DEF Waiting
<1>13. Calm' = Calm /\ n + 1 \in Nat /\ n + 1 > 0 /\ (n + 1) - 1 = n
  BY <1>1 DEF Calm
<1>14. Progress(stage', request, proto', order', Calm')
  BY <1>2, <1>3, <1>5, <1>12, <1>13 DEF Progress
<1>15. ~ result.success
  BY <1>1 DEF CheckInv, Concludes
<1>16. Concludes(stage', request, result, Calm')
  BY <1>12, <1>15 DEF Concludes
<1> QED
  BY <1>1, <1>6, <1>10, <1>11, <1>14, <1>16 DEF CheckInv

LEMMA ReplyEndIs ==
  ASSUME NEW m \in Seq(Byte)
  PROVE  /\ Len(m) >= 6 => m[6] \in Byte
         /\ Len(m) >= 6 /\ m[6] # 3 => ReplyEnd(m) = AddressLength(m[6]) + 8 /\ ReplyEnd(m) \in {12, 24}
         /\ Len(m) >= 7 => /\ m[7] \in Byte
                           /\ m[6] = 3 => ReplyEnd(m) = m[7] + 9
                           /\ ReplyEnd(m) \in Nat
<1>1. Len(m) \in Nat
  BY LenProperties
<1>2. Len(m) >= 6 => m[6] \in Byte
  BY <1>1, ElementOfSeq
<1>3. ASSUME Len(m) >= 6, m[6] # 3
      PROVE  ReplyEnd(m) = AddressLength(m[6]) + 8 /\ ReplyEnd(m) \in {12, 24}
  BY <1>3 DEF ReplyEnd, AddressLength
<1>4. Len(m) >= 7 => m[7] \in Byte
  BY <1>1, ElementOfSeq
<1>5. ASSUME Len(m) >= 7, m[6] = 3 PROVE ReplyEnd(m) = m[7] + 9 /\ ReplyEnd(m) \in Nat
  <2>1. m[7] \in Nat
    BY <1>4, <1>5, ByteArith
  <2>2. ReplyEnd(m) = 8 + (1 + m[7])
    BY <1>5 DEF ReplyEnd
  <2> QED
    BY <2>1, <2>2
<1> QED
  BY <1>1, <1>2, <1>3, <1>4, <1>5

LEMMA ArriveKeeps ==
  ASSUME CheckInv, Arrive PROVE CheckInv'
<1>1. UNCHANGED <<request, ctxDone, stage, proto, order, need, result, disturbed>>
  BY DEF Arrive
<1>2. PICK ib, wr : ib = inbox /\ wr = wire
  OBVIOUS
<1>3. ib \in Seq(Byte) /\ wr \in Seq(Byte)
  BY <1>2 DEF CheckInv, CheckTyped
<1>4. PICK n \in 1 .. Len(wr) : inbox' = ib \o SubSeq(wr, 1, n) /\ wire' = SubSeq(wr, n + 1, Len(wr))
  BY <1>2 DEF Arrive
<1>5. PICK ic, wq : ic = inbox' /\ wq = wire'
  OBVIOUS
<1>6. /\ ic \in Seq(Byte) /\ wq \in Seq(Byte)
      /\ \A m, k : k \in Nat /\ Heard(ib, wr, m, k) => Heard(ic, wq, m, k)
  <2>1. Passes(ib, wr, n, ic, wq)
    BY <1>4, <1>5 DEF Passes
  <2> QED
    BY <1>3, <1>4, <2>1, HeardArrives
<1>7. CheckTyped'
  BY <1>1, <1>5, <1>6 DEF CheckInv, CheckTyped
<1>8. Dialogue(stage, proto, request.peer, ic, wq, need)
  <2>1. Dialogue(stage, proto, request.peer, ib, wr, need)
    BY <1>2 DEF CheckInv
  <2>2. \A m : /\ Heard(ib, wr, m, 0) => Heard(ic, wq, m, 0)
               /\ Heard(ib, wr, m, 2) => Heard(ic, wq, m, 2)
               /\ Heard(ib, wr, m, 6) => Heard(ic, wq, m, 6)
               /\ Heard(ib, wr, m, 8) => Heard(ic, wq, m, 8)
    BY <1>6
  <2>3. ASSUME Heard(ib, wr, All5(request.peer), ReplyEnd(Reply5(request.peer))),
               Len(Reply5(request.peer)) >= 7
        PROVE  Heard(ic, wq, All5(request.peer), ReplyEnd(Reply5(request.peer)))
    <3>1. ReplyEnd(Reply5(request.peer)) \in Nat
      BY <2>3, PeerTyped, ReplyEndIs
    <3> QED
      BY <1>6, <2>3, <3>1
  <2> QED
    BY <1>6, <2>1, <2>2, <2>3 DEF Dialogue
<1>9. Calm' = Calm
  BY <1>1 DEF Calm
<1> QED
  BY <1>1, <1>5, <1>7, <1>8, <1>9 DEF CheckInv

LEMMA RelaysIs ==
  ASSUME NEW peer, peer.open
  PROVE  /\ Relays(peer, "http") <=>
              peer.http.responds /\ peer.http.ok /\ ValidJudgeResponse(peer.http)
         /\ Relays(peer, "https") <=> peer.https.connect /\ peer.https.tls /\ peer.https.ok
         /\ Relays(peer, "socks5") <=>
              /\ Chosen(peer)
              /\ Len(Reply5(peer)) >= 7 /\ Reply5(peer)[3] = 5 /\ Reply5(peer)[4] = 0
              /\ Len(Reply5(peer)) >= ReplyEnd(Reply5(peer))
              /\ HttpAfter(All5(peer), ReplyEnd(Reply5(peer)))
         /\ \A p \in SOCKS4 : Relays(peer, p) <=>
              /\ Len(Reply4(peer)) >= 8 /\ Reply4(peer)[2] = 90
              /\ HttpAfter(All4(peer), 8)
<1>1. Relays(peer, "http") <=>
        peer.http.responds /\ peer.http.ok /\ ValidJudgeResponse(peer.http)
  BY DEF Relays, SOCKS4
<1>2. Relays(peer, "https") <=> peer.https.connect /\ peer.https.tls /\ peer.https.ok
  BY DEF Relays, SOCKS4
<1>3. Relays(peer, "socks5") <=> RelaysSOCKS5(peer.socks5)
  BY DEF Relays, SOCKS4
<1>4. \A p \in SOCKS4 : Relays(peer, p) <=> RelaysSOCKS4(peer.socks4)
  BY DEF Relays, SOCKS4
<1>5. RelaysSOCKS5(peer.socks5) <=>
        /\ Chosen(peer)
        /\ Len(Reply5(peer)) >= 7 /\ Reply5(peer)[3] = 5 /\ Reply5(peer)[4] = 0
        /\ Len(Reply5(peer)) >= ReplyEnd(Reply5(peer))
        /\ HttpAfter(All5(peer), ReplyEnd(Reply5(peer)))
  BY DEF RelaysSOCKS5, Chosen, Method5, Reply5, All5
<1>6. RelaysSOCKS4(peer.socks4) <=>
        /\ Len(Reply4(peer)) >= 8 /\ Reply4(peer)[2] = 90
        /\ HttpAfter(All4(peer), 8)
  BY DEF RelaysSOCKS4, Reply4, All4
<1> QED
  BY <1>1, <1>2, <1>3, <1>4, <1>5, <1>6

LEMMA OpenWhileProbed ==
  ASSUME CheckInv, stage \in Waiting PROVE request.peer.open /\ ~ result.success
BY DEF CheckInv, Concludes, Waiting

LEMMA ReadResponseKeeps ==
  ASSUME CheckInv, ReadResponse PROVE CheckInv'
<1>1. stage \in Waiting /\ proto = "http" /\ request.peer.http.responds /\ request.peer.open
  BY OpenWhileProbed DEF ReadResponse, Waiting, CheckInv, Dialogue
<1>2. Relays(request.peer, "http") <=>
        request.peer.http.ok /\ ValidJudgeResponse(request.peer.http)
  BY <1>1, RelaysIs
<1>3. CASE request.peer.http.ok /\ ValidJudgeResponse(request.peer.http)
  BY <1>1, <1>2, <1>3, SuccessKeeps DEF ReadResponse
<1>4. CASE ~ (request.peer.http.ok /\ ValidJudgeResponse(request.peer.http))
  BY <1>1, <1>2, <1>4, FailureKeeps DEF ReadResponse, Rejected, CheckInv, CheckTyped
<1> QED
  BY <1>3, <1>4

LEMMA ReadConnectResponseKeeps ==
  ASSUME CheckInv, ReadConnectResponse PROVE CheckInv'
<1>1. stage \in Waiting /\ proto = "https" /\ request.peer.open
  BY OpenWhileProbed DEF ReadConnectResponse, Waiting, CheckInv, Dialogue
<1>2. CASE request.peer.https.connect
  <2>1. Step("tls") /\ UNCHANGED <<wire, inbox, need>> /\ "tls" \in Waiting
    BY <1>2 DEF ReadConnectResponse, Waiting
  <2>2. Dialogue("tls", proto, request.peer, inbox', wire', need')
    BY <1>1, <1>2 DEF Dialogue
  <2> QED
    BY <1>1, <2>1, <2>2, StepKeeps DEF CheckInv, CheckTyped
<1>3. CASE ~ request.peer.https.connect
  <2>1. ~ Relays(request.peer, proto)
    BY <1>1, <1>3, RelaysIs
  <2> QED
    BY <1>1, <1>3, <2>1, FailureKeeps DEF ReadConnectResponse, Rejected, CheckInv, CheckTyped
<1> QED
  BY <1>2, <1>3

LEMMA HandshakeTLSKeeps ==
  ASSUME CheckInv, HandshakeTLS PROVE CheckInv'
<1>1. stage \in Waiting /\ proto = "https" /\ request.peer.https.connect /\ request.peer.open
  BY OpenWhileProbed DEF HandshakeTLS, Waiting, CheckInv, Dialogue
<1>2. CASE request.peer.https.tls
  <2>1. Step("tlsResponse") /\ UNCHANGED <<wire, inbox, need>> /\ "tlsResponse" \in Waiting
    BY <1>2 DEF HandshakeTLS, Waiting
  <2>2. Dialogue("tlsResponse", proto, request.peer, inbox', wire', need')
    BY <1>1, <1>2 DEF Dialogue
  <2> QED
    BY <1>1, <2>1, <2>2, StepKeeps DEF CheckInv, CheckTyped
<1>3. CASE ~ request.peer.https.tls
  <2>1. ~ Relays(request.peer, proto)
    BY <1>1, <1>3, RelaysIs
  <2> QED
    BY <1>1, <1>3, <2>1, FailureKeeps DEF HandshakeTLS, Rejected, CheckInv, CheckTyped
<1> QED
  BY <1>2, <1>3

LEMMA ReadTLSResponseKeeps ==
  ASSUME CheckInv, ReadTLSResponse PROVE CheckInv'
<1>1. /\ stage \in Waiting /\ proto = "https" /\ request.peer.open
      /\ request.peer.https.connect /\ request.peer.https.tls
  BY OpenWhileProbed DEF ReadTLSResponse, Waiting, CheckInv, Dialogue
<1>2. Relays(request.peer, proto) <=> request.peer.https.ok
  BY <1>1, RelaysIs
<1>3. CASE request.peer.https.ok
  BY <1>1, <1>2, <1>3, SuccessKeeps DEF ReadTLSResponse
<1>4. CASE ~ request.peer.https.ok
  BY <1>1, <1>2, <1>4, FailureKeeps DEF ReadTLSResponse, Rejected, CheckInv, CheckTyped
<1> QED
  BY <1>3, <1>4

(* n bytes of the stream m are read and the next write is answered.        *)
LEMMA Reading ==
  ASSUME CheckInv, NEW n \in Nat, n <= Len(inbox), NEW answer \in Seq(Byte),
         inbox' = Take(n), wire' = wire \o answer,
         NEW m \in Seq(Byte), NEW k \in Nat, Heard(inbox, wire, m, k)
  PROVE  /\ inbox' \in Seq(Byte) /\ wire' \in Seq(Byte)
         /\ Heard(inbox', wire', m \o answer, k + n)
<1>1. PICK ib, wr, ic : ib = inbox /\ wr = wire /\ ic = inbox'
  OBVIOUS
<1>2. ib \in Seq(Byte) /\ wr \in Seq(Byte) /\ Len(ib) \in Nat
  BY <1>1, LenProperties DEF CheckInv, CheckTyped
<1>3. n \in 0 .. Len(ib)
  BY <1>1, <1>2
<1>4. ic = SubSeq(ib, n + 1, Len(ib)) /\ Heard(ib, wr, m, k)
  BY <1>1 DEF Take
<1>5. ic \in Seq(Byte) /\ Heard(ic, wr, m, k + n)
  BY <1>2, <1>3, <1>4, HeardTakes
<1>6. k + n \in Nat
  OBVIOUS
<1>7. Heard(ic, wr \o answer, m \o answer, k + n)
  BY <1>2, <1>5, <1>6, HeardGrows
<1>8. wr \o answer \in Seq(Byte)
  BY <1>2, ConcatProperties
<1> QED
  BY <1>1, <1>5, <1>7, <1>8

LEMMA InboxIs ==
  ASSUME CheckInv, NEW m \in Seq(Byte), NEW k \in Nat, Heard(inbox, wire, m, k)
  PROVE  /\ Len(inbox) \in Nat /\ Len(m) \in Nat /\ Len(m) >= k + Len(inbox)
         /\ \A j \in 1 .. Len(inbox) : inbox[j] = m[k + j]
<1>1. Len(inbox) \in Nat /\ Len(wire) \in Nat /\ Len(m) \in Nat
  BY LenProperties DEF CheckInv, CheckTyped
<1>2. k + Len(inbox) + Len(wire) = Len(m) /\ \A j \in 1 .. Len(inbox) : inbox[j] = m[k + j]
  BY DEF Heard
<1>3. PICK a \in Nat, b \in Nat, c \in Nat : a = Len(inbox) /\ b = Len(wire) /\ c = Len(m)
  BY <1>1
<1>4. k + a + b = c
  BY <1>2, <1>3
<1>5. c >= k + a
  BY ONLY <1>4, k \in Nat, a \in Nat, b \in Nat
<1> QED
  BY <1>1, <1>2, <1>3, <1>5

LEMMA NothingMore == ASSUME NEW m \in Seq(Byte) PROVE m \o <<>> = m
BY ConcatEmptySeq

LEMMA ReadAuthKeeps ==
  ASSUME CheckInv, ReadAuth PROVE CheckInv'
<1> DEFINE peer == request.peer
           m == Method5(peer)
           answer == AnswerTo(peer.socks5, 2)
<1>1. stage \in Waiting /\ proto = "socks5" /\ peer.open /\ Heard(inbox, wire, m, 0)
  BY OpenWhileProbed DEF ReadAuth, Waiting, CheckInv, Dialogue
<1>2. m \in Seq(Byte) /\ answer \in Seq(Byte)
  BY PeerTyped
<1>3. Len(inbox) >= 2 /\ need' = 0 /\ Script("socks5", 2) = answer
  BY DEF ReadAuth, ReadFull, Script
<1>4. Len(m) >= 2 /\ inbox[1] = m[1] /\ inbox[2] = m[2]
  <2>1. /\ Len(inbox) \in Nat /\ Len(m) \in Nat /\ Len(m) >= 0 + Len(inbox)
        /\ \A j \in 1 .. Len(inbox) : inbox[j] = m[0 + j]
    BY <1>1, <1>2, InboxIs
  <2>2. 1 \in 1 .. Len(inbox) /\ 2 \in 1 .. Len(inbox) /\ 0 + 1 = 1 /\ 0 + 2 = 2 /\ Len(m) >= 2
    BY ONLY <1>3, <2>1
  <2> QED
    BY <2>1, <2>2
<1>5. Chosen(peer) <=> m[1] = 5 /\ m[2] # 255
  BY <1>4 DEF Chosen
<1>6. CASE inbox[1] = 5 /\ inbox[2] # 255
  <2>1. Step("reply") /\ inbox' = Take(2) /\ wire' = wire \o answer /\ "reply" \in Waiting
    BY <1>3, <1>6 DEF ReadAuth, ReadFull, Waiting
  <2>2. /\ inbox' \in Seq(Byte) /\ wire' \in Seq(Byte)
        /\ Heard(inbox', wire', m \o answer, 0 + 2)
    BY <1>1, <1>2, <1>3, <2>1, Reading
  <2>3. m \o answer = Reply5(peer) /\ 0 + 2 = 2
    BY DEF Reply5
  <2>4. Dialogue("reply", proto, peer, inbox', wire', need')
    BY <1>1, <1>4, <1>5, <1>6, <2>2, <2>3 DEF Dialogue
  <2> QED
    BY <1>1, <1>3, <2>1, <2>2, <2>4, StepKeeps
<1>7. CASE ~ (inbox[1] = 5 /\ inbox[2] # 255)
  <2>1. ~ Relays(peer, proto)
    BY <1>1, <1>4, <1>5, <1>7, RelaysIs
  <2> QED
    BY <1>1, <1>7, <2>1, FailureKeeps DEF ReadAuth, ReadFull, Rejected, CheckInv, CheckTyped
<1> QED
  BY <1>6, <1>7

LEMMA ReadReplyKeeps ==
  ASSUME CheckInv, ReadReply PROVE CheckInv'
<1> DEFINE peer == request.peer
           m == Reply5(peer)
<1>1. /\ stage \in Waiting /\ proto = "socks5" /\ peer.open /\ Chosen(peer)
      /\ Heard(inbox, wire, m, 2)
  BY OpenWhileProbed DEF ReadReply, Waiting, CheckInv, Dialogue
<1>2. m \in Seq(Byte) /\ <<>> \in Seq(Byte)
  BY PeerTyped, EmptySeq
<1>3. Len(inbox) >= 4
  BY DEF ReadReply, ReadFull
<1>4. Len(m) >= 6 /\ inbox[1] = m[3] /\ inbox[2] = m[4] /\ inbox[4] = m[6]
  <2>1. /\ Len(inbox) \in Nat /\ Len(m) \in Nat /\ Len(m) >= 2 + Len(inbox)
        /\ \A j \in 1 .. Len(inbox) : inbox[j] = m[2 + j]
    BY <1>1, <1>2, InboxIs
  <2>2. /\ 1 \in 1 .. Len(inbox) /\ 2 \in 1 .. Len(inbox) /\ 4 \in 1 .. Len(inbox)
        /\ 2 + 1 = 3 /\ 2 + 2 = 4 /\ 2 + 4 = 6 /\ Len(m) >= 6
    BY ONLY <1>3, <2>1
  <2> QED
    BY <2>1, <2>2
<1>5. CASE inbox[1] = 5 /\ inbox[2] = 0
  <2>1. PICK next \in {"length", "rest"} : next = IF m[6] = 3 THEN "length" ELSE "rest"
    OBVIOUS
  <2>2. Step(next) /\ inbox' = Take(4) /\ wire' = wire \o <<>> /\ next \in Waiting
    BY <1>4, <1>5, <2>1 DEF ReadReply, ReadFull, Waiting
  <2>3. need' = AddressLength(m[6]) + 2 /\ need' \in Nat
    BY <1>4, <1>5 DEF ReadReply, AddressLength
  <2>4. inbox' \in Seq(Byte) /\ wire' \in Seq(Byte) /\ Heard(inbox', wire', m \o <<>>, 2 + 4)
    BY <1>1, <1>2, <1>3, <2>2, Reading
  <2>5. m \o <<>> = m /\ 2 + 4 = 6
    BY <1>2, NothingMore
  <2>6. Granted(peer)
    BY <1>4, <1>5 DEF Granted
  <2>7. m[6] # 3 => 6 + need' = ReplyEnd(m)
    <3>1. m[6] # 3 => ReplyEnd(m) = AddressLength(m[6]) + 8
      BY <1>2, <1>4, ReplyEndIs
    <3>2. AddressLength(m[6]) \in Nat
      BY DEF AddressLength
    <3> QED
      BY ONLY <2>3, <3>1, <3>2
  <2>8. Heard(inbox', wire', m, 6)
    BY <2>4, <2>5
  <2>9. Dialogue(next, proto, peer, inbox', wire', need')
    <3>1. CASE m[6] = 3
      BY <1>1, <2>1, <2>6, <2>8, <3>1 DEF Dialogue
    <3>2. CASE m[6] # 3
      <4>1. 6 \in Nat /\ 6 + need' = ReplyEnd(m) /\ Heard(inbox', wire', m, 6)
        BY <2>7, <2>8, <3>2
      <4> QED
        BY <1>1, <2>1, <2>6, <3>2, <4>1 DEF Dialogue
    <3> QED
      BY <3>1, <3>2
  <2> QED
    BY <1>1, <2>2, <2>3, <2>4, <2>9, StepKeeps
<1>6. CASE ~ (inbox[1] = 5 /\ inbox[2] = 0)
  <2>1. ~ Relays(peer, proto)
    BY <1>1, <1>4, <1>6, RelaysIs
  <2> QED
    BY <1>1, <1>6, <2>1, FailureKeeps DEF ReadReply, ReadFull, Rejected, CheckInv, CheckTyped
<1> QED
  BY <1>5, <1>6

LEMMA ReadLengthKeeps ==
  ASSUME CheckInv, ReadLength PROVE CheckInv'
<1> DEFINE peer == request.peer
           m == Reply5(peer)
<1>1. /\ stage \in Waiting /\ proto = "socks5" /\ peer.open /\ Chosen(peer) /\ Granted(peer)
      /\ m[6] = 3 /\ Heard(inbox, wire, m, 6)
  BY OpenWhileProbed DEF ReadLength, Waiting, CheckInv, Dialogue
<1>2. m \in Seq(Byte) /\ <<>> \in Seq(Byte)
  BY PeerTyped, EmptySeq
<1>3. /\ Len(inbox) >= 1 /\ Step("rest") /\ "rest" \in Waiting /\ inbox' = Take(1)
      /\ wire' = wire \o <<>> /\ need' = inbox[1] + 2
  BY DEF ReadLength, ReadFull, Waiting
<1>4. Len(m) >= 7 /\ inbox[1] = m[7]
  <2>1. /\ Len(inbox) \in Nat /\ Len(m) \in Nat /\ Len(m) >= 6 + Len(inbox)
        /\ \A j \in 1 .. Len(inbox) : inbox[j] = m[6 + j]
    BY <1>1, <1>2, InboxIs
  <2>2. Len(inbox) >= 1
    BY <1>3
  <2>3. 1 \in 1 .. Len(inbox) /\ 6 + 1 = 7 /\ Len(m) >= 7
    BY ONLY <2>1, <2>2
  <2> QED
    BY <2>1, <2>3
<1>5. inbox' \in Seq(Byte) /\ wire' \in Seq(Byte) /\ Heard(inbox', wire', m \o <<>>, 6 + 1)
  BY <1>1, <1>2, <1>3, Reading
<1>6. Heard(inbox', wire', m, 7)
  BY <1>2, <1>5, NothingMore
<1>7. m[7] \in Nat /\ ReplyEnd(m) = m[7] + 9
  BY <1>1, <1>2, <1>4, ReplyEndIs, ByteArith
<1>8. need' \in Nat /\ 7 + need' = ReplyEnd(m) /\ 7 \in Nat
  BY <1>3, <1>4, <1>7
<1>9. Dialogue("rest", proto, peer, inbox', wire', need')
  BY <1>1, <1>4, <1>6, <1>8 DEF Dialogue
<1> QED
  BY <1>1, <1>3, <1>5, <1>8, <1>9, StepKeeps

LEMMA ReadRestKeeps ==
  ASSUME CheckInv, ReadRest PROVE CheckInv'
<1> DEFINE peer == request.peer
           m == Reply5(peer)
           answer == AnswerTo(peer.socks5, 3)
<1>1. /\ stage \in Waiting /\ proto = "socks5" /\ peer.open /\ Chosen(peer) /\ Granted(peer)
      /\ m[6] = 3 => Len(m) >= 7
  BY OpenWhileProbed DEF ReadRest, Waiting, CheckInv, Dialogue
<1>2. PICK k \in Nat : k + need = ReplyEnd(m) /\ Heard(inbox, wire, m, k)
  BY DEF ReadRest, CheckInv, Dialogue
<1>3. m \in Seq(Byte) /\ answer \in Seq(Byte) /\ need \in Nat
  <2>1. need \in Nat
    BY DEF CheckInv, CheckTyped
  <2> QED
    BY <2>1, PeerTyped
<1>4. /\ Len(inbox) >= need /\ Step("answer") /\ "answer" \in Waiting /\ inbox' = Take(need)
      /\ wire' = wire \o answer /\ need' = 0
  BY DEF ReadRest, ReadFull, Waiting, Script
<1>5. need <= Len(inbox)
  <2>1. Len(inbox) \in Nat
    BY LenProperties DEF CheckInv, CheckTyped
  <2> QED
    BY <1>3, <1>4, <2>1
<1>6. inbox' \in Seq(Byte) /\ wire' \in Seq(Byte) /\ Heard(inbox', wire', m \o answer, k + need)
  BY <1>2, <1>3, <1>4, <1>5, Reading
<1>7. Heard(inbox', wire', All5(peer), ReplyEnd(m))
  BY <1>2, <1>6 DEF All5
<1>8. Len(m) >= ReplyEnd(m) /\ Len(m) >= 7
  <2>1. Len(inbox) \in Nat /\ Len(m) \in Nat /\ Len(m) >= k + Len(inbox)
    BY <1>2, <1>3, InboxIs
  <2>2. Len(m) >= ReplyEnd(m)
    BY ONLY <1>2, <1>3, <1>5, <2>1, k \in Nat
  <2>3. m[6] # 3 => ReplyEnd(m) \in {12, 24}
    BY <1>1, <1>3, ReplyEndIs DEF Granted
  <2>4. m[6] # 3 => Len(m) >= 7
    BY ONLY <2>1, <2>2, <2>3
  <2> QED
    BY <1>1, <2>2, <2>4
<1>9. Dialogue("answer", proto, peer, inbox', wire', need')
  BY <1>1, <1>7, <1>8 DEF Dialogue
<1> QED
  BY <1>1, <1>4, <1>6, <1>9, StepKeeps

LEMMA ReadReply4Keeps ==
  ASSUME CheckInv, ReadReply4 PROVE CheckInv'
<1> DEFINE peer == request.peer
           m == Reply4(peer)
           answer == AnswerTo(peer.socks4, 2)
<1>1. stage \in Waiting /\ proto \in SOCKS4 /\ peer.open /\ Heard(inbox, wire, m, 0)
  BY OpenWhileProbed DEF ReadReply4, Waiting, CheckInv, Dialogue
<1>2. m \in Seq(Byte) /\ answer \in Seq(Byte)
  BY PeerTyped
<1>3. Len(inbox) >= 8 /\ need' = 0 /\ Script("socks4", 2) = answer
  BY DEF ReadReply4, ReadFull, Script
<1>4. Len(m) >= 8 /\ inbox[2] = m[2]
  <2>1. /\ Len(inbox) \in Nat /\ Len(m) \in Nat /\ Len(m) >= 0 + Len(inbox)
        /\ \A j \in 1 .. Len(inbox) : inbox[j] = m[0 + j]
    BY <1>1, <1>2, InboxIs
  <2>2. 2 \in 1 .. Len(inbox) /\ 0 + 2 = 2 /\ Len(m) >= 8
    BY ONLY <1>3, <2>1
  <2> QED
    BY <2>1, <2>2
<1>5. CASE inbox[2] = 90
  <2>1. Step("answer") /\ inbox' = Take(8) /\ wire' = wire \o answer /\ "answer" \in Waiting
    BY <1>3, <1>5 DEF ReadReply4, ReadFull, Waiting
  <2>2. /\ inbox' \in Seq(Byte) /\ wire' \in Seq(Byte)
        /\ Heard(inbox', wire', m \o answer, 0 + 8)
    BY <1>1, <1>2, <1>3, <2>1, Reading
  <2>3. Heard(inbox', wire', All4(peer), 8)
    BY <2>2 DEF All4
  <2>4. Dialogue("answer", proto, peer, inbox', wire', need')
    BY <1>1, <1>4, <1>5, <2>3 DEF Dialogue
  <2> QED
    BY <1>1, <1>3, <2>1, <2>2, <2>4, StepKeeps
<1>6. CASE inbox[2] # 90
  <2>1. ~ Relays(peer, proto)
    BY <1>1, <1>4, <1>6, RelaysIs
  <2> QED
    BY <1>1, <1>6, <2>1, FailureKeeps DEF ReadReply4, ReadFull, Rejected, CheckInv, CheckTyped
<1> QED
  BY <1>5, <1>6

(* The answer is judged by the bytes behind the reply; what is cut at four *)
(* bytes disturbs the check.                                               *)
LEMMA ReadAnswerKeeps ==
  ASSUME CheckInv, ReadAnswer PROVE CheckInv'
<1> DEFINE peer == request.peer
<1>1. stage \in Waiting /\ peer.open /\ Len(inbox) >= 4
  BY OpenWhileProbed DEF ReadAnswer, Waiting
<1>2. Dialogue("answer", proto, peer, inbox, wire, need)
  BY DEF ReadAnswer, CheckInv
<1>3. inbox \in Seq(Byte) /\ wire \in Seq(Byte) /\ Len(inbox) \in Nat
  BY LenProperties DEF CheckInv, CheckTyped
<1>4. /\ IsPrefix(HttpPrefix, inbox) => Relays(peer, proto)
      /\ Len(inbox) >= 5 /\ Relays(peer, proto) => IsPrefix(HttpPrefix, inbox)
  <2>1. CASE /\ proto = "socks5" /\ Chosen(peer) /\ Granted(peer)
             /\ Len(Reply5(peer)) >= 7 /\ Len(Reply5(peer)) >= ReplyEnd(Reply5(peer))
             /\ Heard(inbox, wire, All5(peer), ReplyEnd(Reply5(peer)))
    <3>1. Relays(peer, proto) <=> HttpAfter(All5(peer), ReplyEnd(Reply5(peer)))
      BY <1>1, <2>1, RelaysIs DEF Granted
    <3>2. ReplyEnd(Reply5(peer)) \in Nat
      BY <2>1, PeerTyped, ReplyEndIs
    <3> QED
      BY <1>3, <2>1, <3>1, <3>2, HttpHeard
  <2>2. CASE /\ proto \in SOCKS4 /\ Len(Reply4(peer)) >= 8 /\ Reply4(peer)[2] = 90
             /\ Heard(inbox, wire, All4(peer), 8)
    <3>1. Relays(peer, proto) <=> HttpAfter(All4(peer), 8)
      BY <1>1, <2>2, RelaysIs
    <3> QED
      BY <1>3, <2>2, <3>1, HttpHeard
  <2> QED
    BY <1>2, <2>1, <2>2 DEF Dialogue
<1>5. CASE IsPrefix(HttpPrefix, inbox)
  BY <1>1, <1>4, <1>5, SuccessKeeps DEF ReadAnswer
<1>6. CASE ~ IsPrefix(HttpPrefix, inbox)
  <2>1. ProbeFails /\ disturbed' = (disturbed \/ Len(inbox) = 4)
    BY <1>6 DEF ReadAnswer
  <2>2. disturbed \in BOOLEAN
    BY DEF CheckInv, CheckTyped
  <2>3. ASSUME ~ disturbed' PROVE Len(inbox) >= 5
    <3>1. Len(inbox) # 4
      BY <2>1, <2>3
    <3>2. PICK k \in Nat : k = Len(inbox)
      BY <1>3
    <3>3. k >= 4 /\ k # 4
      BY <1>1, <3>1, <3>2
    <3>4. k >= 5
      BY ONLY k \in Nat, <3>3
    <3> QED
      BY <3>2, <3>4
  <2>4. ~ disturbed' => ~ Relays(peer, proto)
    BY <1>4, <1>6, <2>3
  <2>5. disturbed' \in BOOLEAN /\ (disturbed => disturbed')
    BY <2>1, <2>2
  <2> QED
    BY <1>1, <2>1, <2>4, <2>5, FailureKeeps
<1> QED
  BY <1>5, <1>6

LEMMA DeadlineKeeps ==
  ASSUME CheckInv, Deadline PROVE CheckInv'
BY FailureKeeps DEF Deadline

LEMMA CancelKeeps ==
  ASSUME CheckInv, Cancel PROVE CheckInv'
<1>1. UNCHANGED <<request, stage, proto, order, wire, inbox, need, result, disturbed>> /\ ctxDone' = TRUE
  BY DEF Cancel
<1>2. CheckTyped'
  BY <1>1 DEF CheckInv, CheckTyped
<1>3. ~ Calm'
  BY <1>1 DEF Calm
<1>4. Progress(stage, request, proto, order, Calm')
  BY <1>3 DEF CheckInv, Progress
<1>5. Concludes(stage, request, result, Calm')
  BY <1>3 DEF CheckInv, Concludes
<1> QED
  BY <1>1, <1>2, <1>4, <1>5 DEF CheckInv

LEMMA CheckInvStep == CheckInv /\ [Next]_vars => CheckInv'
<1> SUFFICES ASSUME CheckInv, [Next]_vars PROVE CheckInv'
  OBVIOUS
<1>1. CASE UNCHANGED vars
  <2>1. CheckTyped' /\ Calm' = Calm
    BY <1>1 DEF vars, CheckInv, CheckTyped, Calm
  <2> QED
    BY <1>1, <2>1 DEF vars, CheckInv
<1>2. CASE CheckStep
  BY <1>2, PingKeeps, PickProtocolsKeeps, DetectCancelledKeeps, DialKeeps, DialFailsKeeps,
     ReadResponseKeeps, ReadConnectResponseKeeps, HandshakeTLSKeeps, ReadTLSResponseKeeps,
     ReadAuthKeeps, ReadReplyKeeps, ReadLengthKeeps, ReadRestKeeps, ReadReply4Keeps,
     ReadAnswerKeeps, DeadlineKeeps DEF CheckStep
<1>3. CASE Arrive
  BY <1>3, ArriveKeeps
<1>4. CASE Cancel
  BY <1>4, CancelKeeps
<1> QED
  BY <1>1, <1>2, <1>3, <1>4 DEF Next

LEMMA CheckInvAlways == Spec => []CheckInv
BY CheckInvInit, CheckInvStep, PTL DEF Spec

(* The check and its result are well typed, and a probe under way has its  *)
(* predecessors in the probe order behind it and its successors before it, *)
(* for any set of other ends.                                              *)
THEOREM ChecksAreTyped == Spec => []TypeOK
<1>1. CheckInv => TypeOK
  <2> SUFFICES ASSUME CheckInv PROVE TypeOK
    OBVIOUS
  <2>1. ASSUME stage \in Waiting
        PROVE  \E n \in DOMAIN Probed : proto = Probed[n] /\ order = SubSeq(Probed, n + 1, Len(Probed))
    <3>1. PICK ps, od : ps = Probed /\ od = order
      OBVIOUS
    <3>2. PICK n \in Nat : LeftOver(ps, od, n) /\ n > 0 /\ proto = ps[n]
      BY <2>1, <3>1 DEF CheckInv, Progress, ProbedFor, Probed
    <3>3. ps \in Seq(Protocols) /\ Len(ps) \in Nat /\ od \in Seq(Protocols) /\ Len(od) \in Nat
      BY <3>1, OrderTyped, LenProperties DEF CheckInv, CheckTyped, ProbedFor, Probed
    <3>4. n + Len(od) = Len(ps) /\ \A j \in 1 .. Len(od) : od[j] = ps[n + j]
      BY <3>2 DEF LeftOver
    <3>5. n \in 1 .. Len(ps) /\ Len(ps) - (n + 1) + 1 = Len(od)
      BY ONLY <3>2, <3>3, <3>4, n \in Nat
    <3>6. PICK s : s = SubSeq(ps, n + 1, Len(ps))
      OBVIOUS
    <3>7. /\ s \in Seq(Protocols) /\ Len(s) = Len(od)
          /\ \A i \in 1 .. Len(od) : s[i] = ps[n + i]
      <4>1. \A i \in n + 1 .. Len(ps) : ps[i] \in Protocols
        BY <3>3, ElementOfSeq
      <4>2. /\ s \in Seq(Protocols)
            /\ Len(s) = (IF n + 1 <= Len(ps) THEN Len(ps) - (n + 1) + 1 ELSE 0)
            /\ \A i \in 1 .. Len(ps) - (n + 1) + 1 : s[i] = ps[(n + 1) + i - 1]
        BY <3>3, <3>6, <4>1, SubSeqProperties
      <4>3. Len(s) = Len(od)
        <5>1. Len(s) = (IF n + 1 <= Len(ps) THEN Len(od) ELSE 0)
          BY <3>5, <4>2
        <5>2. n + 1 <= Len(ps) \/ Len(od) = 0
          BY ONLY <3>3, <3>5, n \in Nat
        <5> QED
          BY <5>1, <5>2
      <4>4. ASSUME NEW i \in 1 .. Len(od) PROVE s[i] = ps[n + i]
        <5>1. i \in 1 .. Len(ps) - (n + 1) + 1
          BY <3>5
        <5>2. (n + 1) + i - 1 = n + i
          OBVIOUS
        <5> QED
          BY <4>2, <5>1, <5>2
      <4> QED
        BY <4>2, <4>3, <4>4
    <3>8. s = od
      BY <3>3, <3>4, <3>7, SeqEqual
    <3>9. DOMAIN ps = 1 .. Len(ps)
      BY <3>3, LenProperties
    <3> QED
      BY <3>1, <3>2, <3>5, <3>6, <3>8, <3>9
  <2> QED
    BY <2>1 DEF CheckInv, CheckTyped, Result, TypeOK
<1> QED
  BY <1>1, CheckInvAlways, PTL

(* No false positive, for any other ends, whatever bytes they send and     *)
(* however they are cut, whatever times out and whenever the caller        *)
(* cancels.                                                                *)
THEOREM SuccessesAreRelayed == Spec => []SuccessIsRelayed
<1>1. CheckInv => SuccessIsRelayed
  BY DEF CheckInv, Concludes, SuccessIsRelayed
<1> QED
  BY <1>1, CheckInvAlways, PTL

(* No false negative and the right protocol, for any other ends, in a      *)
(* check that nothing disturbs.                                            *)
THEOREM VerdictsAreDetermined == Spec => []VerdictIsDetermined
<1>1. CheckInv => VerdictIsDetermined
  <2> SUFFICES ASSUME CheckInv, stage = "done", ~ disturbed, ~ ctxDone
               PROVE  LET works(n) == Relays(request.peer, Probed[n])
                      IN  IF result.success
                          THEN \E n \in DOMAIN Probed :
                                 result.protocol = Probed[n] /\ works(n) /\ \A k \in 1 .. n - 1 : ~ works(k)
                          ELSE \A n \in DOMAIN Probed : ~ works(n)
    BY DEF VerdictIsDetermined
  <2>1. PICK ps : ps = Probed
    OBVIOUS
  <2>2. DOMAIN ps = 1 .. Len(ps)
    BY <2>1, OrderTyped, LenProperties DEF CheckInv, CheckTyped, ProbedFor, Probed
  <2>3. /\ result.success =>
             \E n \in 1 .. Len(ps) : /\ result.protocol = ps[n] /\ Relays(request.peer, result.protocol)
                                     /\ NoneOf(request.peer, ps, n - 1)
        /\ ~ result.success => NoneOf(request.peer, ps, Len(ps))
    BY <2>1 DEF CheckInv, Concludes, Calm, ProbedFor, Probed
  <2> QED
    BY <2>1, <2>2, <2>3 DEF NoneOf
<1> QED
  BY <1>1, CheckInvAlways, PTL

=============================================================================
