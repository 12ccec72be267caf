----------------------------- MODULE Broadcast -----------------------------
(***************************************************************************)
(* Server-sent events (src/pkg/server/server.go): BroadcastProxy puts an   *)
(* event on a channel without waiting, broadcastLoop hands it to the       *)
(* channel of each registered client under a read lock without waiting,    *)
(* and handleStream, which registers and unregisters its client under the  *)
(* write lock, writes it to a connection that may be slow.                 *)
(***************************************************************************)
EXTENDS Integers, Sequences

CONSTANTS
  Clients,      \* connections in handleStream
  LoopSize,     \* capacity of sseBroadcast, 256
  ClientSize,   \* capacity of a client's channel, 64
  MaxEvents     \* bound: calls of BroadcastProxy

ASSUME BroadcastAssumption == LoopSize \in Nat \ {0} /\ ClientSize \in Nat \ {0} /\ MaxEvents \in Nat

VARIABLES
  events,      \* how often BroadcastProxy was called
  broadcast,   \* sseBroadcast: numbers of events
  loop,        \* broadcastLoop: [pc, event, left]; it holds the read lock in "send"
  registered,  \* sseClients
  client       \* handleStream: [pc, ch]

broadcastVars == <<events, broadcast, loop, registered, client>>

BroadcastInit ==
  /\ events = 0 /\ broadcast = <<>>
  /\ loop = [pc |-> "wait", event |-> 0, left |-> {}]
  /\ registered = {}
  /\ client = [c \in Clients |-> [pc |-> "away", ch |-> <<>>]]

(* An event for which the channel has no room is dropped.                  *)
BroadcastProxy ==
  /\ events < MaxEvents
  /\ events' = events + 1
  /\ broadcast' = IF Len(broadcast) < LoopSize THEN Append(broadcast, events') ELSE broadcast
  /\ UNCHANGED <<loop, registered, client>>

(****************************** broadcastLoop ******************************)

TakeEvent ==
  /\ loop.pc = "wait" /\ broadcast # <<>>
  /\ loop' = [pc |-> "send", event |-> Head(broadcast), left |-> registered]
  /\ broadcast' = Tail(broadcast)
  /\ UNCHANGED <<events, registered, client>>

SendTo(c) ==
  /\ c \in loop.left
  /\ Len(client[c].ch) < ClientSize
  /\ client' = [client EXCEPT ![c].ch = Append(@, loop.event)]
  /\ loop' = [loop EXCEPT !.left = @ \ {c}]
  /\ UNCHANGED <<events, broadcast, registered>>

(* Mutant of DropFor: the select has no default.                           *)
WaitFor(c) == FALSE /\ c \in Clients /\ UNCHANGED broadcastVars

DropFor(c) ==
  /\ c \in loop.left
  /\ Len(client[c].ch) = ClientSize
  /\ loop' = [loop EXCEPT !.left = @ \ {c}]
  /\ UNCHANGED <<events, broadcast, registered, client>>

EventSent ==
  /\ loop.pc = "send" /\ loop.left = {}
  /\ loop' = [loop EXCEPT !.pc = "wait"]
  /\ UNCHANGED <<events, broadcast, registered, client>>

LoopStep == TakeEvent \/ EventSent \/ \E c \in Clients : SendTo(c) \/ DropFor(c)

(****************************** handleStream *******************************)

(* The write lock waits for the loop to release the read lock.             *)
Register(c) ==
  /\ client[c].pc = "away" /\ loop.pc = "wait"
  /\ registered' = registered \cup {c}
  /\ client' = [client EXCEPT ![c] = [pc |-> "open", ch |-> <<>>]]
  /\ UNCHANGED <<events, broadcast, loop>>

WriteEvent(c) ==
  /\ client[c].pc = "open" /\ client[c].ch # <<>>
  /\ client' = [client EXCEPT ![c].ch = Tail(@)]
  /\ UNCHANGED <<events, broadcast, loop, registered>>

(* The client closes its connection, or a write times out.                 *)
Disconnect(c) ==
  /\ client[c].pc = "open"
  /\ client' = [client EXCEPT ![c].pc = "leaving"]
  /\ UNCHANGED <<events, broadcast, loop, registered>>

Unregister(c) ==
  /\ client[c].pc = "leaving" /\ loop.pc = "wait"
  /\ registered' = registered \ {c}
  /\ client' = [client EXCEPT ![c] = [pc |-> "away", ch |-> <<>>]]
  /\ UNCHANGED <<events, broadcast, loop>>

-----------------------------------------------------------------------------

BroadcastNext ==
  \/ BroadcastProxy \/ LoopStep
  \/ \E c \in Clients : Register(c) \/ WriteEvent(c) \/ Disconnect(c) \/ Unregister(c)

(* Only the loop is scheduled: no client need ever read or leave.          *)
BroadcastFairness == WF_broadcastVars(LoopStep)

BroadcastSpec == BroadcastInit /\ [][BroadcastNext]_broadcastVars /\ BroadcastFairness

-----------------------------------------------------------------------------

Queued(e) == \E n \in DOMAIN broadcast : broadcast[n] = e

(* Every event that was accepted is handed to the clients in the end,      *)
(* although none of them may read: a slow client holds up neither the      *)
(* others nor the callers.                                                 *)
BroadcastGoesOn == \A e \in 1 .. MaxEvents : Queued(e) ~> ~ Queued(e) /\ loop.pc = "wait"
=============================================================================
