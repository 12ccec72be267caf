------------------------------- MODULE Checker -------------------------------
(***************************************************************************)
(* One check of one address: CheckIPPort (src/pkg/checker/checker.go) over *)
(* DetectProtocol and the four probes of src/pkg/protocol/protocol.go.     *)
(* Each probe opens a connection of its own with one deadline; the answers *)
(* of the SOCKS probes are read as a stream that arrives in pieces.        *)
(*                                                                         *)
(* The other end is a constant: what it sends after each write of a probe. *)
(* Requests are not modelled, answers are bytes where the code reads bytes *)
(* (SOCKS) and parsed responses where it calls a parser (HTTP, TLS).       *)
(***************************************************************************)
EXTENDS Integers, Sequences, SequencesExt

CONSTANTS
  Peers,        \* other ends: [open, http, https, socks5, socks4]
  FastFailTCP,  \* ProtocolConfig.FastFailTCP
  KnowsMyIP     \* GetMyPublicIP found the address of this host

Byte == 0 .. 255
HttpAnswer == [responds : BOOLEAN, ok : BOOLEAN, session : BOOLEAN, html : BOOLEAN,
               form : {"json", "text", "azenv", "none"}, public : BOOLEAN,
               leaks : BOOLEAN, marked : BOOLEAN]
Peer == [open : BOOLEAN, http : HttpAnswer, https : [connect : BOOLEAN, tls : BOOLEAN, ok : BOOLEAN],
         socks5 : Seq(Seq(Byte)), socks4 : Seq(Seq(Byte))]

ASSUME FlagsAssumption == FastFailTCP \in BOOLEAN /\ KnowsMyIP \in BOOLEAN
ASSUME PeersAssumption == Peers \subseteq Peer

VARIABLES
  request,   \* the arguments: the other end, the kind of port, the protocol
  ctxDone,   \* the caller's context is cancelled
  stage,     \* what the check waits for
  proto,     \* the protocol that is probed
  order,     \* the protocols still to probe
  wire,      \* bytes the other end has sent that have not arrived
  inbox,     \* bytes that have arrived and are not read
  need,      \* SOCKS5: how many bytes of the reply are still to read
  result,    \* the CheckResult
  disturbed  \* history: a deadline passed, or an answer was cut at 4 bytes

vars == <<request, ctxDone, stage, proto, order, wire, inbox, need, result, disturbed>>

SOCKS4 == {"socks4", "socks4a"}             \* CheckIPPort does not tell them apart
Supported == {"http", "https", "socks5"} \cup SOCKS4
Protocols == Supported \cup {"other"}        \* other: any name that CheckIPPort does not know
PortKinds == {"socks", "tls", "web"}
Automatic == "auto"
NoResult == [success |-> FALSE, protocol |-> Automatic, anonymity |-> "unknown", ssl |-> FALSE]

Init ==
  /\ request \in [peer : Peers, port : PortKinds, protocol : Protocols \cup {Automatic}]
  /\ ctxDone = FALSE
  /\ stage = IF FastFailTCP THEN "ping" ELSE "pick"
  /\ proto = Automatic
  /\ order = <<>>
  /\ wire = <<>> /\ inbox = <<>> /\ need = 0
  /\ result = [NoResult EXCEPT !.protocol = request.protocol]
  /\ disturbed = FALSE

Finish(res) ==
  /\ stage' = "done"
  /\ result' = res

(* A probe has failed: the next protocol, if any; else the check fails.    *)
ProbeFails ==
  /\ stage' = IF order # <<>> THEN "next" ELSE "done"
  /\ wire' = <<>> /\ inbox' = <<>> /\ need' = 0
  /\ UNCHANGED <<request, ctxDone, proto, order, result>>

(************************ CheckIPPort, DetectProtocol **********************)

(* FastTCPPing; it fails on a closed port, a timeout or a cancelled context*)
Ping ==
  /\ stage = "ping"
  /\ \/ request.peer.open /\ ~ ctxDone /\ stage' = "pick" /\ UNCHANGED <<result, disturbed>>
     \/ ~ request.peer.open /\ Finish(result) /\ UNCHANGED disturbed
     \/ Finish(result) /\ disturbed' = TRUE
  /\ UNCHANGED <<request, ctxDone, proto, order, wire, inbox, need>>

(* thuTuProbeTheoPort: an address on a TLS port is not probed for SOCKS4.  *)
ProbeOrder(port) ==
  CASE port = "socks" -> <<"socks5", "socks4", "http", "https">>
    [] port = "tls"   -> <<"https", "http", "socks5">>
    [] port = "web"   -> <<"http", "https", "socks5", "socks4">>

PickProtocols ==
  /\ stage = "pick"
  /\ order' = IF request.protocol = Automatic THEN ProbeOrder(request.port)
              ELSE <<request.protocol>>
  /\ stage' = "next"
  /\ UNCHANGED <<request, ctxDone, proto, wire, inbox, need, result, disturbed>>

(* DetectProtocol looks at the context before each probe.                  *)
DetectCancelled ==
  /\ stage = "next" /\ ctxDone /\ request.protocol = Automatic
  /\ Finish(result)
  /\ UNCHANGED <<request, ctxDone, proto, order, wire, inbox, need, disturbed>>

AnswerTo(s, n) == IF n <= Len(s) THEN s[n] ELSE <<>>
Script(p, n) == AnswerTo(IF p = "socks5" THEN request.peer.socks5 ELSE request.peer.socks4, n)

(* fastDial and the probe's first write.                                   *)
FirstStage(p) ==
  CASE p = "http" -> "response" [] p = "https" -> "connect"
    [] p = "socks5" -> "auth"   [] p \in SOCKS4 -> "reply4"

Dial ==
  /\ stage = "next" /\ ~ ctxDone
  /\ request.peer.open /\ Head(order) \in Supported
  /\ proto' = Head(order)
  /\ order' = Tail(order)
  /\ stage' = FirstStage(Head(order))
  /\ wire' = IF Head(order) \in {"socks5"} \cup SOCKS4 THEN Script(Head(order), 1) ELSE <<>>
  /\ inbox' = <<>> /\ need' = 0
  /\ UNCHANGED <<request, ctxDone, result, disturbed>>

(* There is no connection, or the protocol is not one that is supported.   *)
DialFails ==
  /\ stage = "next"
  /\ proto' = Head(order)
  /\ order' = Tail(order)
  /\ stage' = IF Tail(order) # <<>> THEN "next" ELSE "done"
  /\ disturbed' = (disturbed \/ (request.peer.open /\ Head(order) \in Supported))
  /\ UNCHANGED <<request, ctxDone, wire, inbox, need, result>>

(******************************** CheckHTTP ********************************)

(* validateJudgeResponse: no session cookie, and a public address in JSON, *)
(* as plain text or as AZENV; an HTML page only with AZENV.                *)
ValidJudgeResponse(h) ==
  ~ h.session /\ h.public /\ h.form # "none" /\ (h.html => h.form = "azenv")

EvaluateAnonymity(h) ==
  IF KnowsMyIP /\ h.leaks THEN "transparent" ELSE IF h.marked THEN "anonymous" ELSE "elite"

(* What CheckIPPort returns for a probe that succeeded: a detected proxy,  *)
(* and one that is not HTTP, is called elite without being evaluated.      *)
Success ==
  [success |-> TRUE, protocol |-> proto, ssl |-> proto = "https",
   anonymity |-> IF proto = "http" /\ request.protocol # Automatic
                 THEN EvaluateAnonymity(request.peer.http) ELSE "elite"]

ProbeSucceeds ==
  /\ Finish(Success)
  /\ UNCHANGED <<request, ctxDone, proto, order, wire, inbox, need, disturbed>>

Step(next) ==
  /\ stage' = next
  /\ UNCHANGED <<request, ctxDone, proto, order, result, disturbed>>

Rejected == ProbeFails /\ UNCHANGED disturbed

ReadResponse ==
  /\ stage = "response" /\ request.peer.http.responds
  /\ IF request.peer.http.ok /\ ValidJudgeResponse(request.peer.http)
     THEN ProbeSucceeds ELSE Rejected

(******************************* CheckHTTPS ********************************)

ReadConnectResponse ==
  /\ stage = "connect"
  /\ IF request.peer.https.connect
     THEN Step("tls") /\ UNCHANGED <<wire, inbox, need>> ELSE Rejected

HandshakeTLS ==
  /\ stage = "tls" /\ ~ ctxDone
  /\ IF request.peer.https.tls
     THEN Step("tlsResponse") /\ UNCHANGED <<wire, inbox, need>> ELSE Rejected

ReadTLSResponse ==
  /\ stage = "tlsResponse"
  /\ IF request.peer.https.ok THEN ProbeSucceeds ELSE Rejected

(************************ CheckSOCKS5, CheckSOCKS4 *************************)

Take(n) == SubSeq(inbox, n + 1, Len(inbox))

(* io.ReadFull of n bytes that pass the test; the next write is answered.  *)
ReadFull(n, passes, next, answer) ==
  /\ Len(inbox) >= n
  /\ IF passes
     THEN Step(next) /\ inbox' = Take(n) /\ wire' = wire \o answer
     ELSE Rejected

(* Any method but 0xFF will do; the code never authenticates.              *)
ReadAuth ==
  /\ stage = "auth"
  /\ ReadFull(2, inbox[1] = 5 /\ inbox[2] # 255, "reply", Script("socks5", 2))
  /\ need' = 0

AddressLength(atyp) == IF atyp = 4 THEN 16 ELSE 4

ReadReply ==
  /\ stage = "reply"
  /\ ReadFull(4, inbox[1] = 5 /\ inbox[2] = 0, IF inbox[4] = 3 THEN "length" ELSE "rest", <<>>)
  /\ need' = IF inbox[1] = 5 /\ inbox[2] = 0 THEN AddressLength(inbox[4]) + 2 ELSE 0

(* Mutant of ReadLength: the two bytes of the port are forgotten.          *)
ReadLengthWithoutPort ==
  /\ stage = "length"
  /\ ReadFull(1, TRUE, "rest", <<>>)
  /\ need' = inbox[1]

ReadLength ==
  /\ stage = "length"
  /\ ReadFull(1, TRUE, "rest", <<>>)
  /\ need' = inbox[1] + 2

ReadRest ==
  /\ stage = "rest"
  /\ ReadFull(need, TRUE, "answer", Script("socks5", 3))
  /\ need' = 0

ReadReply4 ==
  /\ stage = "reply4"
  /\ ReadFull(8, inbox[2] = 90, "answer", Script("socks4", 2))
  /\ need' = 0

HttpPrefix == <<72, 84, 84, 80, 47>>   \* "HTTP/"

(* Mutant of ReadAnswer: any answer will do.                               *)
ReadAnswerUnchecked ==
  /\ stage = "answer" /\ Len(inbox) >= 4
  /\ ProbeSucceeds

(* io.ReadAtLeast(conn, probeResp, 4) into 12 zero bytes: it returns with  *)
(* what has arrived, be it one byte less than the prefix has.              *)
ReadAnswer ==
  /\ stage = "answer" /\ Len(inbox) >= 4
  /\ IF IsPrefix(HttpPrefix, inbox) THEN ProbeSucceeds
     ELSE ProbeFails /\ disturbed' = (disturbed \/ Len(inbox) = 4)

(************************** the network, the caller ************************)

Waiting == {"response", "connect", "tls", "tlsResponse",
            "auth", "reply", "length", "rest", "reply4", "answer"}

Arrive ==
  /\ wire # <<>>
  /\ \E n \in 1 .. Len(wire) :
       /\ inbox' = inbox \o SubSeq(wire, 1, n)
       /\ wire' = SubSeq(wire, n + 1, Len(wire))
  /\ UNCHANGED <<request, ctxDone, stage, proto, order, need, result, disturbed>>

(* Mutant of Deadline: CheckSOCKS4 sets none.                              *)
DeadlineExceptSOCKS4 ==
  /\ stage \in Waiting /\ proto \notin SOCKS4
  /\ ProbeFails
  /\ disturbed' = TRUE

(* The connection's deadline passes, or the other end closes it.           *)
Deadline ==
  /\ stage \in Waiting
  /\ ProbeFails
  /\ disturbed' = TRUE

Cancel ==
  /\ ~ ctxDone
  /\ ctxDone' = TRUE
  /\ UNCHANGED <<request, stage, proto, order, wire, inbox, need, result, disturbed>>

CheckStep ==
  \/ Ping \/ PickProtocols \/ DetectCancelled \/ Dial \/ DialFails
  \/ ReadResponse
  \/ ReadConnectResponse \/ HandshakeTLS \/ ReadTLSResponse
  \/ ReadAuth \/ ReadReply \/ ReadLength \/ ReadRest \/ ReadReply4 \/ ReadAnswer
  \/ Deadline

Next == CheckStep \/ Arrive \/ Cancel

Spec == Init /\ [][Next]_vars

(* The goroutine runs and deadlines pass; nothing is assumed of the peer.  *)
FairSpec == Spec /\ WF_vars(CheckStep)

-----------------------------------------------------------------------------

Probed == IF request.protocol = Automatic THEN ProbeOrder(request.port) ELSE <<request.protocol>>

(* The check, its connection and its result are well typed; while a        *)
(* protocol is probed, those before it in the probe order are dealt with   *)
(* and those after it are not.                                             *)
TypeOK ==
  /\ request \in [peer : Peers, port : PortKinds, protocol : Protocols \cup {Automatic}]
  /\ ctxDone \in BOOLEAN /\ disturbed \in BOOLEAN
  /\ stage \in Waiting \cup {"ping", "pick", "next", "done"}
  /\ proto \in Protocols \cup {Automatic}
  /\ order \in Seq(Protocols)
  /\ wire \in Seq(Byte) /\ inbox \in Seq(Byte)
  /\ need \in Nat
  /\ result \in [success : BOOLEAN, protocol : Protocols \cup {Automatic},
                 anonymity : {"unknown", "elite", "anonymous", "transparent"}, ssl : BOOLEAN]
  /\ stage \in Waiting =>
       \E n \in DOMAIN Probed : proto = Probed[n] /\ order = SubSeq(Probed, n + 1, Len(Probed))

(* Where the reply of a SOCKS5 server ends in what it sent: two bytes of   *)
(* its choice of a method, six of the reply, and the address of the type   *)
(* that the reply names (RFC 1928, section 6).                             *)
ReplyEnd(m) == 8 + (CASE m[6] = 3 -> 1 + m[7] [] m[6] = 4 -> 16 [] OTHER -> 4)

(* The bytes from the n-th on begin an HTTP response.                      *)
HttpAfter(m, n) ==
  Len(m) >= n + Len(HttpPrefix) /\ \A i \in DOMAIN HttpPrefix : m[n + i] = HttpPrefix[i]

(* The other end accepts a method, grants the connection and relays an     *)
(* answer.  It is heard as one stream of bytes: where one answer ends and  *)
(* the next begins is nothing a reader can see.                            *)
RelaysSOCKS5(s) ==
  LET method == AnswerTo(s, 1)
      reply  == method \o AnswerTo(s, 2)
  IN  /\ Len(method) >= 2 /\ method[1] = 5 /\ method[2] # 255
      /\ Len(reply) >= 7 /\ reply[3] = 5 /\ reply[4] = 0
      /\ Len(reply) >= ReplyEnd(reply)
      /\ HttpAfter(reply \o AnswerTo(s, 3), ReplyEnd(reply))

RelaysSOCKS4(s) ==
  LET reply == AnswerTo(s, 1)
  IN  Len(reply) >= 8 /\ reply[2] = 90 /\ HttpAfter(reply \o AnswerTo(s, 2), 8)

(* The other end relays by protocol p: what a check is to find out.        *)
Relays(peer, p) ==
  /\ peer.open
  /\ CASE p = "http" ->
            peer.http.responds /\ peer.http.ok /\ ValidJudgeResponse(peer.http)
       [] p = "https" -> peer.https.connect /\ peer.https.tls /\ peer.https.ok
       [] p = "socks5" -> RelaysSOCKS5(peer.socks5)
       [] p \in SOCKS4 -> RelaysSOCKS4(peer.socks4)
       [] OTHER -> FALSE

(* No false positive: a proxy is reported as working by a protocol only if *)
(* it granted the connection and the answer to the probe came through it,  *)
(* however its bytes are cut into pieces and whatever timed out.           *)
SuccessIsRelayed == result.success => Relays(request.peer, result.protocol)

(* No false negative, and the right protocol: unless a deadline passed,    *)
(* the caller cancelled or an answer was cut at four bytes, the verdict is *)
(* the first protocol of the probe order that the other end relays by.     *)
VerdictIsDetermined ==
  stage = "done" /\ ~ disturbed /\ ~ ctxDone =>
    LET works(n) == Relays(request.peer, Probed[n])
    IN  IF result.success
        THEN \E n \in DOMAIN Probed :
               result.protocol = Probed[n] /\ works(n) /\ \A k \in 1 .. n - 1 : ~ works(k)
        ELSE \A n \in DOMAIN Probed : ~ works(n)

(* A check ends whatever the other end does: the pipeline and the daemon   *)
(* count on it when they wait for their workers.                           *)
CheckEnds == <>(stage = "done")
=============================================================================
