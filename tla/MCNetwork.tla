----------------------------- MODULE MCNetwork -----------------------------
(* Four components that wait for other hosts and share no state: a          *)
(* behaviour is one of the component that its first state chooses, and the  *)
(* others rest in a state in which nothing is to be done.                   *)
(*                                                                          *)
(* check: other ends of the kinds that scans meet: proxies of each protocol,*)
(* with each form of address in a SOCKS5 reply, one that answers before it  *)
(* is asked, servers that refuse, web servers and intercepting firewalls,   *)
(* and hosts that say nothing.                                              *)
(* geoip: two callers; two addresses of one /24, one without a /24, a       *)
(* private one, one of the built-in table.                                  *)
(* stream: two clients with room for one event.                             *)
(* judges: the rounds of the health check of two judges.                    *)
EXTENDS Checker, GeoIP, Broadcast, Judge

CONSTANTS a1, a2, v6, priv, vn, c1, c2

VARIABLE part

checkVars == vars
all == <<part, checkVars, geoVars, broadcastVars, judgeVars>>

Answer == HttpPrefix \o <<49>>
Page == <<72, 84, 84, 80, 47, 49, 46, 49>>   \* a web server says "HTTP/1.1" to a greeting
Junk == <<21, 3, 1, 0, 2>>

NoHttp == [responds |-> FALSE, ok |-> FALSE, session |-> FALSE, html |-> FALSE,
           form |-> "none", public |-> FALSE, leaks |-> FALSE, marked |-> FALSE]
Echo == [NoHttp EXCEPT !.responds = TRUE, !.ok = TRUE, !.form = "json", !.public = TRUE]
NoTls == [connect |-> FALSE, tls |-> FALSE, ok |-> FALSE]
Tunnel == [connect |-> TRUE, tls |-> TRUE, ok |-> TRUE]

Mute == [open |-> TRUE, http |-> NoHttp, https |-> NoTls, socks5 |-> <<>>, socks4 |-> <<>>]
Closed == [Mute EXCEPT !.open = FALSE]

Socks5(method, reply, answer) == [Mute EXCEPT !.socks5 = <<<<5, method>>, reply, answer>>]
ByIPv4 == <<5, 0, 0, 1, 9, 9, 9, 9, 1, 1>>
ByName == <<5, 0, 0, 3, 2, 9, 9, 1, 1>>
ByIPv6 == <<5, 0, 0, 4>> \o [i \in 1 .. 16 |-> 9] \o <<1, 1>>
Refused5 == <<5, 2, 0, 1, 0, 0, 0, 0, 0, 0>>
Socks4(code, answer) == [Mute EXCEPT !.socks4 = <<<<0, code, 0, 0, 0, 0, 0, 0>>, answer>>]

MCPeers ==
  { Mute, Closed,
    Socks5(0, ByIPv4, Answer), Socks5(2, ByName, Answer), Socks5(0, ByIPv6, Answer),
    [Mute EXCEPT !.socks5 = <<<<5, 0>> \o ByIPv4, <<>>, Answer>>],
    Socks5(255, <<>>, <<>>), Socks5(0, Refused5, <<>>), Socks5(0, ByName, Junk),
    Socks4(90, Answer), Socks4(91, <<>>), Socks4(90, Junk),
    [Mute EXCEPT !.http = Echo, !.https = Tunnel],
    [Mute EXCEPT !.http = [Echo EXCEPT !.leaks = TRUE], !.https = [Tunnel EXCEPT !.tls = FALSE]],
    [Mute EXCEPT !.http = [Echo EXCEPT !.marked = TRUE], !.https = [Tunnel EXCEPT !.ok = FALSE]],
    [Mute EXCEPT !.http = [Echo EXCEPT !.html = TRUE, !.form = "none"],
                 !.socks5 = <<Page>>, !.socks4 = <<Page>>],
    [Mute EXCEPT !.http = [Echo EXCEPT !.session = TRUE], !.https = Tunnel],
    [Socks5(0, ByIPv4, Answer) EXCEPT !.http = Echo] }

MCKind == [i \in IPs |-> IF i = priv THEN "special" ELSE IF i = vn THEN "embedded" ELSE "public"]
MCSubnet == [i \in IPs |-> IF i \in {a1, a2} THEN "a" ELSE IF i = v6 THEN NoSubnet ELSE "other"]
MCSample == [j \in Judges |-> 5]

-----------------------------------------------------------------------------

(* A check whose ping timed out.                                           *)
CheckRests ==
  /\ request = [peer |-> Mute, port |-> "web", protocol |-> Automatic]
  /\ ctxDone = FALSE /\ stage = "done" /\ proto = Automatic /\ order = <<>>
  /\ wire = <<>> /\ inbox = <<>> /\ need = 0
  /\ result = NoResult /\ disturbed = TRUE

MCInit ==
  /\ part \in {"check", "geoip", "stream", "judges"}
  /\ IF part = "check" THEN Init ELSE CheckRests
  /\ GeoInit /\ BroadcastInit
  /\ JudgeInit /\ (part # "judges" => \A j \in Judges : up[j])

Others ==
  /\ part = "check" \/ UNCHANGED checkVars
  /\ part = "geoip" \/ UNCHANGED geoVars
  /\ part = "stream" \/ UNCHANGED broadcastVars
  /\ part = "judges" \/ UNCHANGED judgeVars
  /\ UNCHANGED part

MCNext ==
  \/ part = "check" /\ Next /\ Others
  \/ part = "geoip" /\ GeoNext /\ Others
  \/ part = "stream" /\ BroadcastNext /\ Others
  \/ part = "judges" /\ JudgeNext /\ Others

(* Weak fairness of FairStep(1) and of FairStep(2) is, for the component    *)
(* that moves, its own fairness: part does not change, and a judge's probe  *)
(* and the start of a round are never possible together.                    *)
FairStep(n) ==
  /\ \/ part = "check" /\ n = 1 /\ CheckStep
     \/ part = "geoip" /\ LookupStep(IF n = 1 THEN c1 ELSE c2)
     \/ part = "stream" /\ n = 1 /\ LoopStep
     \/ part = "judges" /\ (ProbeStep(n) \/ (n = 1 /\ StartRound))
  /\ Others

MCSpec == MCInit /\ [][MCNext]_all /\ WF_all(FairStep(1)) /\ WF_all(FairStep(2))
=============================================================================
