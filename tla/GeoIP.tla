-------------------------------- MODULE GeoIP --------------------------------
(***************************************************************************)
(* The GeoIP resolver (src/pkg/geoip/geoip.go): Lookup goes through a      *)
(* cache by address, an offline database that a download may load later, a *)
(* cache by /24 subnet and a built-in table, and then asks batchWorker,    *)
(* which collects requests and answers them from one call of a web         *)
(* service, or one by one from a second one.                               *)
(*                                                                         *)
(* An answer is named by the address whose record it is.                   *)
(***************************************************************************)
EXTENDS Integers, Sequences, FiniteSets

CONSTANTS
  Askers,      \* goroutines that call Lookup
  IPs,         \* the addresses they ask for
  Kind,        \* special: private and the like; embedded: in the built-in table
  Subnet,      \* the /24 of an address
  NoSubnet,    \* getSubnet24 of an address that is not IPv4
  InDatabase,  \* the addresses that the offline database has
  Unknown,     \* the answer with country code XX
  Nothing,     \* no entry, no reply, no answer yet
  QueueSize,   \* capacity of batchCh, 20000
  MaxBatch,    \* maxBatch, 100
  MaxLookups   \* bound: calls of Lookup

ASSUME GeoLimits == QueueSize \in Nat \ {0} /\ MaxBatch \in Nat \ {0} /\ MaxLookups \in Nat
ASSUME GeoAddresses ==
  /\ Kind \in [IPs -> {"public", "special", "embedded"}]
  /\ InDatabase \subseteq IPs /\ DOMAIN Subnet = IPs
  /\ Unknown \notin IPs /\ Nothing \notin IPs \cup {Unknown}

VARIABLES
  database,  \* mmdbReader is loaded
  cache,     \* answers by address
  subnets,   \* answers by subnet
  look,      \* the callers: [pc, ip, req, answer]
  lookups,   \* how many calls have begun
  queue,     \* batchCh: numbers of requests
  reqs,      \* the requests: [ip, reply, sent]; reply is the channel respCh
  batcher,   \* batchWorker: [pc, batch, next, cached, wanted, results]
  failed,    \* history: addresses for which fallbackProvider has failed
  leftOut    \* history: addresses that a call of fetchBatch asked for in vain

geoVars == <<database, cache, subnets, look, lookups, queue, reqs, batcher, failed, leftOut>>

Subnets == {Subnet[i] : i \in IPs} \ {NoSubnet}
Collecting == [pc |-> "collect", batch |-> <<>>, next |-> 1, cached |-> {},
            wanted |-> {}, results |-> {}]

GeoInit ==
  /\ database = FALSE
  /\ cache = [i \in IPs |-> Nothing]
  /\ subnets = [s \in Subnets |-> Nothing]
  /\ look = [c \in Askers |-> [pc |-> "done", ip |-> Nothing, req |-> 0, answer |-> Nothing]]
  /\ lookups = 0
  /\ queue = <<>> /\ reqs = <<>>
  /\ batcher = Collecting
  /\ failed = {} /\ leftOut = {}

(********************************* Lookup **********************************)

At(c, pc) == look[c].pc = pc
Go(c, pc) == look' = [look EXCEPT ![c].pc = pc]
Return(c, a) == look' = [look EXCEPT ![c].pc = "done", ![c].req = 0, ![c].answer = a]
StoreBoth(i, a) ==
  /\ cache' = [cache EXCEPT ![i] = a]
  /\ subnets' = IF Subnet[i] = NoSubnet THEN subnets ELSE [subnets EXCEPT ![Subnet[i]] = a]

CallLookup(c, i) ==
  /\ At(c, "done") /\ lookups < MaxLookups
  /\ lookups' = lookups + 1
  /\ look' = [look EXCEPT ![c] = [pc |-> "cache", ip |-> i, req |-> 0, answer |-> Nothing]]
  /\ UNCHANGED <<database, cache, subnets, queue, reqs, batcher, failed, leftOut>>

(* A special address is its own answer; else the cache by address.         *)
LookInCache(c) ==
  /\ At(c, "cache")
  /\ LET i == look[c].ip
     IN  IF Kind[i] = "special" THEN Return(c, i)
         ELSE IF cache[i] # Nothing THEN Return(c, cache[i])
         ELSE Go(c, "database")
  /\ UNCHANGED <<database, cache, subnets, lookups, queue, reqs, batcher, failed, leftOut>>

LookInDatabase(c) ==
  /\ At(c, "database")
  /\ Go(c, IF database /\ look[c].ip \in InDatabase THEN "store" ELSE "subnet")
  /\ UNCHANGED <<database, cache, subnets, lookups, queue, reqs, batcher, failed, leftOut>>

LookInSubnets(c) ==
  /\ At(c, "subnet")
  /\ LET i == look[c].ip
         known == Subnet[i] # NoSubnet /\ subnets[Subnet[i]] # Nothing
     IN  IF known
         THEN look' = [look EXCEPT ![c].pc = "copy", ![c].answer = subnets[Subnet[i]]]
         ELSE Go(c, IF Kind[i] = "embedded" THEN "store" ELSE "send")
  /\ UNCHANGED <<database, cache, subnets, lookups, queue, reqs, batcher, failed, leftOut>>

(* What the subnet's entry said becomes the entry of the address.          *)
CopyFromSubnet(c) ==
  /\ At(c, "copy")
  /\ cache' = [cache EXCEPT ![look[c].ip] = look[c].answer]
  /\ Return(c, look[c].answer)
  /\ UNCHANGED <<database, subnets, lookups, queue, reqs, batcher, failed, leftOut>>

StoreOffline(c) ==
  /\ At(c, "store")
  /\ StoreBoth(look[c].ip, look[c].ip)
  /\ Return(c, look[c].ip)
  /\ UNCHANGED <<database, lookups, queue, reqs, batcher, failed, leftOut>>

(* A full channel is not waited for.                                       *)
SendRequest(c) ==
  /\ At(c, "send")
  /\ IF Len(queue) < QueueSize
     THEN /\ reqs' = Append(reqs, [ip |-> look[c].ip, reply |-> Nothing, sent |-> 0])
          /\ queue' = Append(queue, Len(reqs'))
          /\ look' = [look EXCEPT ![c].pc = "wait", ![c].req = Len(reqs')]
     ELSE Go(c, "fallback") /\ UNCHANGED <<queue, reqs>>
  /\ UNCHANGED <<database, cache, subnets, lookups, batcher, failed, leftOut>>

ReceiveReply(c) ==
  /\ At(c, "wait") /\ reqs[look[c].req].reply # Nothing
  /\ Return(c, reqs[look[c].req].reply)
  /\ reqs' = [reqs EXCEPT ![look[c].req].reply = Nothing]
  /\ UNCHANGED <<database, cache, subnets, lookups, queue, batcher, failed, leftOut>>

(* Mutant of GiveUpWaiting: the select has no timer.                       *)
NeverGiveUp(c) == FALSE /\ c \in Askers /\ UNCHANGED geoVars

(* A second has passed; the request stays with the worker.                 *)
GiveUpWaiting(c) ==
  /\ At(c, "wait")
  /\ Go(c, "fallback")
  /\ UNCHANGED <<database, cache, subnets, lookups, queue, reqs, batcher, failed, leftOut>>

FallbackProvider(c) ==
  /\ At(c, "fallback")
  /\ \/ /\ StoreBoth(look[c].ip, look[c].ip)
        /\ Return(c, look[c].ip)
        /\ UNCHANGED failed
     \/ /\ Return(c, Unknown)
        /\ failed' = failed \cup {look[c].ip}
        /\ UNCHANGED <<cache, subnets>>
  /\ UNCHANGED <<database, lookups, queue, reqs, batcher, leftOut>>

LookupStep(c) ==
  \/ LookInCache(c) \/ LookInDatabase(c) \/ LookInSubnets(c) \/ CopyFromSubnet(c)
  \/ StoreOffline(c) \/ SendRequest(c) \/ ReceiveReply(c) \/ GiveUpWaiting(c)
  \/ FallbackProvider(c)

DownloadDatabase ==
  /\ ~ database
  /\ database' = TRUE
  /\ UNCHANGED <<cache, subnets, look, lookups, queue, reqs, batcher, failed, leftOut>>

(******************************* batchWorker *******************************)

Current == batcher.batch[batcher.next]
More == batcher.next <= Len(batcher.batch)

CollectRequest ==
  /\ batcher.pc = "collect" /\ queue # <<>>
  /\ queue' = Tail(queue)
  /\ batcher' = [batcher EXCEPT !.batch = Append(@, Head(queue)),
                                !.pc = IF Len(batcher.batch) + 1 = MaxBatch THEN "scan" ELSE @]
  /\ UNCHANGED <<database, cache, subnets, look, lookups, reqs, failed, leftOut>>

(* The timer of 40 ms ends a batch that is not full.                       *)
WindowEnds ==
  /\ batcher.pc = "collect" /\ batcher.batch # <<>>
  /\ batcher' = [batcher EXCEPT !.pc = "scan"]
  /\ UNCHANGED <<database, cache, subnets, look, lookups, queue, reqs, failed, leftOut>>

(* respCh has room for one answer; a second one would wait for ever if the *)
(* caller has gone.                                                        *)
Reply(r, a) ==
  /\ reqs[r].reply = Nothing
  /\ reqs' = [reqs EXCEPT ![r].reply = a, ![r].sent = @ + 1]

(* Mutant of AnswerFromCache: what was answered is not marked.             *)
AnswerFromCacheUnmarked ==
  /\ batcher.pc = "scan" /\ More /\ cache[reqs[Current].ip] # Nothing
  /\ Reply(Current, cache[reqs[Current].ip])
  /\ batcher' = [batcher EXCEPT !.next = @ + 1]
  /\ UNCHANGED <<database, cache, subnets, look, lookups, queue, failed, leftOut>>

AnswerFromCache ==
  /\ batcher.pc = "scan" /\ More /\ cache[reqs[Current].ip] # Nothing
  /\ Reply(Current, cache[reqs[Current].ip])
  /\ batcher' = [batcher EXCEPT !.next = @ + 1, !.cached = @ \cup {Current}]
  /\ UNCHANGED <<database, cache, subnets, look, lookups, queue, failed, leftOut>>

WantAnswer ==
  /\ batcher.pc = "scan" /\ More /\ cache[reqs[Current].ip] = Nothing
  /\ batcher' = [batcher EXCEPT !.next = @ + 1, !.wanted = @ \cup {reqs[Current].ip}]
  /\ UNCHANGED <<database, cache, subnets, look, lookups, queue, reqs, failed, leftOut>>

(* The service may know some of the addresses, or not answer at all.       *)
FetchBatch ==
  /\ batcher.pc = "scan" /\ ~ More
  /\ \E found \in SUBSET batcher.wanted :
       /\ batcher' = [batcher EXCEPT !.pc = "answer", !.next = 1, !.results = found]
       /\ leftOut' = leftOut \cup (batcher.wanted \ found)
  /\ UNCHANGED <<database, cache, subnets, look, lookups, queue, reqs, failed>>

SkipCached ==
  /\ batcher.pc = "answer" /\ More /\ Current \in batcher.cached
  /\ batcher' = [batcher EXCEPT !.next = @ + 1]
  /\ UNCHANGED <<database, cache, subnets, look, lookups, queue, reqs, failed, leftOut>>

(* Mutant of Found: the results are taken by position, although the        *)
(* service leaves out what it does not know.                               *)
FoundByPosition(i) == batcher.results

Found(i) == batcher.results \cap {i}

(* What the service found, or what fallbackProvider finds (which stores it *)
(* itself), goes to the caller.                                            *)
AnswerFound ==
  /\ batcher.pc = "answer" /\ More /\ Current \notin batcher.cached
  /\ LET i == reqs[Current].ip
     IN  \E a \in Found(i) \cup {i} : StoreBoth(i, a) /\ Reply(Current, a)
  /\ batcher' = [batcher EXCEPT !.next = @ + 1]
  /\ UNCHANGED <<database, look, lookups, queue, failed, leftOut>>

(* A failure, too, is stored for the address, and over a better answer     *)
(* that the caller may have found in the meantime, but not for the subnet. *)
StoreUnknown(i) == cache' = [cache EXCEPT ![i] = Unknown] /\ UNCHANGED subnets

AnswerUnknown ==
  /\ batcher.pc = "answer" /\ More /\ Current \notin batcher.cached
  /\ LET i == reqs[Current].ip
     IN  /\ i \notin batcher.results
         /\ StoreUnknown(i) /\ Reply(Current, Unknown)
         /\ failed' = failed \cup {i}
  /\ batcher' = [batcher EXCEPT !.next = @ + 1]
  /\ UNCHANGED <<database, look, lookups, queue, leftOut>>

BatchDone ==
  /\ batcher.pc = "answer" /\ ~ More
  /\ batcher' = Collecting
  /\ UNCHANGED <<database, cache, subnets, look, lookups, queue, reqs, failed, leftOut>>

BatcherStep ==
  \/ CollectRequest \/ WindowEnds \/ AnswerFromCache \/ WantAnswer \/ FetchBatch
  \/ SkipCached \/ AnswerFound \/ AnswerUnknown \/ BatchDone

-----------------------------------------------------------------------------

GeoNext ==
  \/ \E c \in Askers : LookupStep(c) \/ \E i \in IPs : CallLookup(c, i)
  \/ DownloadDatabase
  \/ BatcherStep

(* Callers are scheduled, their timer fires and their request of the       *)
(* second service has a deadline.  The worker may be busy for minutes: up  *)
(* to a hundred such requests one after the other.                         *)
GeoFairness == \A c \in Askers : WF_geoVars(LookupStep(c))

GeoSpec == GeoInit /\ [][GeoNext]_geoVars /\ GeoFairness

-----------------------------------------------------------------------------

SameNet(i, j) == i = j \/ (Subnet[i] = Subnet[j] /\ Subnet[i] # NoSubnet)

(* What a caller gets, and what is kept for later callers, is the record   *)
(* of the address asked for or of a neighbour in its /24, or Unknown.      *)
(* Unknown is returned only when the second service has failed for this    *)
(* very address, in this call or in an earlier one that was cached; it is  *)
(* kept for later callers of the address only when the first service was   *)
(* asked for it in vain, too: a caller that did not wait keeps its failure *)
(* to itself, and no failure is kept for the neighbours, whatever the      *)
(* service leaves out and however late it comes.                           *)
AnswersFitAddress ==
  LET Fits(i, a) == (a \in IPs => SameNet(i, a)) /\ (a = Unknown => i \in failed)
  IN  /\ \A c \in Askers : Fits(look[c].ip, look[c].answer)
      /\ \A i \in IPs : Fits(i, cache[i]) /\ (cache[i] = Unknown => i \in leftOut)
      /\ \A s \in Subnets : subnets[s] # Nothing =>
           subnets[s] \in IPs /\ Subnet[subnets[s]] = s

(* Every call of Lookup returns, also while the worker is stuck in a call  *)
(* of its own.                                                             *)
LookupsEnd == \A c \in Askers : ~ At(c, "done") ~> At(c, "done")

(* A worker that runs answers every request it was sent, also when callers *)
(* have given up: no answer waits for a caller that has gone.              *)
RequestsAreAnswered ==
  WF_geoVars(BatcherStep) =>
    \A r \in 1 .. MaxLookups : (r \in DOMAIN reqs) ~> (r \in DOMAIN reqs /\ reqs[r].sent > 0)
=============================================================================
