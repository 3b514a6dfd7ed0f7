------------------------------- MODULE WsHub -------------------------------
(***************************************************************************)
(* Notifications on their way to the browsers: the consumer of the API     *)
(* process hands every event to the hub through a bounded channel, and the *)
(* hub's goroutine fans it out to one bounded channel per client, whose    *)
(* write pump sends it.  Nobody may block the hub: a client whose channel  *)
(* is full misses the event and is unregistered.                           *)
(***************************************************************************)
EXTENDS Naturals, Sequences, FiniteSets

CONSTANTS
  Events,         \* notifications
  Clients,        \* browser tabs
  Prefetch,       \* RABBITMQ_PREFETCH_COUNT
  BroadcastCap,   \* capacity of Hub.broadcast, 64 in the code
  SendCap,        \* capacity of Client.send, 16 in the code
  MaxLosses,      \* bound: channels of the broker that are lost
  MaxShutdowns    \* bound: SIGTERM, 0 or 1

ASSUME HubAssumption ==
  /\ Prefetch \in Nat \ {0} /\ BroadcastCap \in Nat \ {0} /\ SendCap \in Nat \ {0}
  /\ MaxLosses \in Nat /\ MaxShutdowns \in {0, 1}

VARIABLES
  proc,           \* the API process: "up", "stopping" (ctx cancelled), "stopped"
  queue,          \* events ready in nix.notification.websocket
  consumer,       \* Consumer.Consume: "consuming", "draining", "returned"
  handling,       \* events whose handler is about to call Broadcast
  unacked,        \* events handed to the hub and not yet acknowledged
  losses,         \* channels lost so far
  broadcast,      \* Hub.broadcast
  hub,            \* Hub.Run: "running", "returned"
  clients,        \* Hub.clients
  send, closed,   \* Client.send and whether it is closed
  dropping,       \* goroutines of the hub that unregister a slow client
  pump,           \* where Client.Start, its reader and its writer are
  gone,           \* the peer is unreachable, or the connection is closed
  log,            \* events the hub has fanned out, in order
  joined,         \* how many of them before the client was registered
  got,            \* what the client was sent
  missed,         \* clients that missed an event
  panicked        \* a closed channel was closed again, or sent to

brokerVars == <<queue, consumer, handling, unacked, losses>>
clientVars == <<send, closed, pump, gone, joined, got>>
hubVars == <<broadcast, hub, clients, dropping, log, missed, panicked>>
wsVars == <<proc, brokerVars, hubVars, clientVars>>

Start == {"away", "registering", "running"}
Reader == {"off", "reading", "unregistering", "ended"}
Writer == {"off", "writing", "ended"}

HubInit ==
  /\ proc = "up"
  /\ queue = {} /\ handling = {} /\ unacked = {}
  /\ consumer = "consuming"
  /\ losses = 0
  /\ broadcast = <<>>
  /\ hub = "running"
  /\ clients = {}
  /\ send = [c \in Clients |-> <<>>]
  /\ closed = [c \in Clients |-> FALSE]
  /\ dropping = [c \in Clients |-> 0]
  /\ pump = [c \in Clients |-> [start |-> "away", reader |-> "off", writer |-> "off"]]
  /\ gone = [c \in Clients |-> FALSE]
  /\ log = <<>>
  /\ joined = [c \in Clients |-> 0]
  /\ got = [c \in Clients |-> <<>>]
  /\ missed = {}
  /\ panicked = FALSE

Seen == handling \cup unacked \cup {broadcast[i] : i \in 1 .. Len(broadcast)}
                 \cup {log[i] : i \in 1 .. Len(log)}

(***************************************************************************)
(* The notification consumer                                               *)
(***************************************************************************)
(* A publisher commits an event (external).                                *)
Notify(e) ==
  /\ e \notin queue \cup Seen
  /\ proc = "up"
  /\ queue' = queue \cup {e}
  /\ UNCHANGED <<proc, consumer, handling, unacked, losses, hubVars, clientVars>>

(* ctx.Done and a delivery may both be ready: select picks either.         *)
DeliverEvent(e) ==
  /\ consumer = "consuming"
  /\ e \in queue
  /\ Cardinality(handling \cup unacked) < Prefetch
  /\ queue' = queue \ {e}
  /\ handling' = handling \cup {e}
  /\ UNCHANGED <<proc, consumer, unacked, losses, hubVars, clientVars>>

(* NotificationHandler: the send blocks while the channel is full.         *)
Broadcast(e) ==
  /\ e \in handling
  /\ Len(broadcast) < BroadcastCap
  /\ broadcast' = Append(broadcast, e)
  /\ handling' = handling \ {e}
  /\ unacked' = unacked \cup {e}
  /\ UNCHANGED <<proc, queue, consumer, losses>>
  /\ UNCHANGED <<hub, clients, dropping, log, missed, panicked, clientVars>>

(* Mutant: the delivery is never acknowledged.                             *)
AckForgotten(e) == e \in unacked /\ UNCHANGED wsVars

AckEvent(e) ==
  /\ e \in unacked
  /\ unacked' = unacked \ {e}
  /\ UNCHANGED <<proc, queue, consumer, handling, losses, hubVars, clientVars>>

(* The deliveries channel is closed: the broker takes back what was not    *)
(* acknowledged, the handlers go on.                                       *)
ChannelLost ==
  /\ consumer = "consuming"
  /\ losses < MaxLosses
  /\ losses' = losses + 1
  /\ queue' = queue \cup handling \cup unacked
  /\ consumer' = "draining"
  /\ UNCHANGED <<proc, handling, unacked, hubVars, clientVars>>

StopConsuming ==
  /\ consumer = "consuming"
  /\ proc = "stopping"
  /\ consumer' = "draining"
  /\ UNCHANGED <<proc, queue, handling, unacked, losses, hubVars, clientVars>>

(* wg.Wait is over: Consume returns nil, and nobody calls it again.        *)
ConsumeReturns ==
  /\ consumer = "draining"
  /\ handling = {} /\ unacked = {}
  /\ consumer' = "returned"
  /\ UNCHANGED <<proc, queue, handling, unacked, losses, hubVars, clientVars>>

(***************************************************************************)
(* Hub.Run                                                                 *)
(***************************************************************************)
Close(cs) ==
  /\ closed' = [c \in Clients |-> closed[c] \/ c \in cs]
  /\ panicked' = (panicked \/ \E c \in cs : closed[c])

(* Clients whose channel has no room for an event.                         *)
Slow == {c \in clients : Len(send[c]) = SendCap}

(* Mutant: room is not looked for.                                         *)
EnqueueAnyway(c, e) == IF c \in clients THEN Append(send[c], e) ELSE send[c]

Enqueue(c, e) == IF c \in clients \ Slow THEN Append(send[c], e) ELSE send[c]

(* Mutant: a client that misses an event is kept.                          *)
DropNone(cs) == UNCHANGED dropping

(* Each in a goroutine of its own: the hub itself reads the channel that   *)
(* Unregister writes.                                                      *)
Drop(cs) == dropping' = [c \in Clients |-> dropping[c] + IF c \in cs THEN 1 ELSE 0]

(* One event to every client that has room for it; the others are to go.   *)
FanOut ==
  /\ hub = "running"
  /\ broadcast # <<>>
  /\ broadcast' = Tail(broadcast)
  /\ log' = Append(log, Head(broadcast))
  /\ send' = [c \in Clients |-> Enqueue(c, Head(broadcast))]
  /\ missed' = missed \cup Slow
  /\ Drop(Slow)
  /\ panicked' = (panicked \/ \E c \in clients \ Slow : closed[c])
  /\ UNCHANGED <<proc, brokerVars, hub, clients, closed, pump, gone, joined, got>>

RegisterClient(c) ==
  /\ hub = "running"
  /\ pump[c].start = "registering"
  /\ clients' = clients \cup {c}
  /\ joined' = [joined EXCEPT ![c] = Len(log)]
  /\ pump' = [pump EXCEPT ![c] =
       [start |-> "running", reader |-> "reading", writer |-> "writing"]]
  /\ UNCHANGED <<proc, brokerVars, broadcast, hub, dropping, log, missed, panicked>>
  /\ UNCHANGED <<send, closed, gone, got>>

(* The reader that ended, or a goroutine of the hub, is done unregistering. *)
Unregistered(c) ==
  \/ /\ pump[c].reader = "unregistering"
     /\ pump' = [pump EXCEPT ![c].reader = "ended"]
     /\ UNCHANGED dropping
  \/ /\ dropping[c] > 0
     /\ dropping' = [dropping EXCEPT ![c] = @ - 1]
     /\ UNCHANGED pump

(* Mutant: unregistering twice closes twice.                               *)
UnregisterBlindly(c) ==
  /\ hub = "running"
  /\ Unregistered(c)
  /\ clients' = clients \ {c}
  /\ Close({c})
  /\ UNCHANGED <<proc, brokerVars, broadcast, hub, log, missed>>
  /\ UNCHANGED <<send, gone, joined, got>>

UnregisterClient(c) ==
  /\ hub = "running"
  /\ Unregistered(c)
  /\ clients' = clients \ {c}
  /\ Close({c} \cap clients)
  /\ UNCHANGED <<proc, brokerVars, broadcast, hub, log, missed>>
  /\ UNCHANGED <<send, gone, joined, got>>

(* Mutant: the hub waits until its clients have left.                      *)
HubDrains ==
  /\ hub = "running"
  /\ proc = "stopping"
  /\ clients = {}
  /\ hub' = "returned"
  /\ UNCHANGED <<proc, brokerVars, broadcast, clients, dropping, log, missed, panicked>>
  /\ UNCHANGED clientVars

HubReturns ==
  /\ hub = "running"
  /\ proc = "stopping"
  /\ Close(clients)
  /\ clients' = {}
  /\ hub' = "returned"
  /\ UNCHANGED <<proc, brokerVars, broadcast, dropping, log, missed>>
  /\ UNCHANGED <<send, pump, gone, joined, got>>

(* Hub.done is closed: Register and Unregister do nothing and return.      *)
AfterHubReturned(c) ==
  /\ hub = "returned"
  /\ \/ Unregistered(c)
     \/ /\ pump[c].start = "registering"
        /\ pump' = [pump EXCEPT ![c] =
             [start |-> "running", reader |-> "reading", writer |-> "writing"]]
        /\ UNCHANGED dropping
  /\ UNCHANGED <<proc, brokerVars, broadcast, hub, clients, log, missed, panicked>>
  /\ UNCHANGED <<send, closed, gone, joined, got>>

(***************************************************************************)
(* The pumps of a client                                                   *)
(***************************************************************************)
Connect(c) ==
  /\ proc = "up"
  /\ pump[c].start = "away"
  /\ pump' = [pump EXCEPT ![c].start = "registering"]
  /\ UNCHANGED <<proc, brokerVars, hubVars, send, closed, gone, joined, got>>

(* The peer closes the connection or stops answering pings.                *)
PeerLeaves(c) ==
  /\ pump[c].start # "away"
  /\ ~gone[c]
  /\ gone' = [gone EXCEPT ![c] = TRUE]
  /\ UNCHANGED <<proc, brokerVars, hubVars, send, closed, pump, joined, got>>

(* Mutant: only the latest of the waiting events is sent.                  *)
WriteLatest(c) ==
  /\ pump[c].writer = "writing"
  /\ ~gone[c]
  /\ send[c] # <<>>
  /\ got' = [got EXCEPT ![c] = Append(@, send[c][Len(send[c])])]
  /\ send' = [send EXCEPT ![c] = <<>>]
  /\ UNCHANGED <<proc, brokerVars, hubVars, closed, pump, gone, joined>>

(* A closed channel still yields what it holds.                            *)
WriteEvent(c) ==
  /\ pump[c].writer = "writing"
  /\ ~gone[c]
  /\ send[c] # <<>>
  /\ got' = [got EXCEPT ![c] = Append(@, Head(send[c]))]
  /\ send' = [send EXCEPT ![c] = Tail(@)]
  /\ UNCHANGED <<proc, brokerVars, hubVars, closed, pump, gone, joined>>

(* Hub closed the channel, or a write or ping failed: the writer closes    *)
(* the connection, which ends the reader.                                  *)
WriterEnds(c) ==
  /\ pump[c].writer = "writing"
  /\ \/ closed[c] /\ send[c] = <<>>
     \/ gone[c]
  /\ pump' = [pump EXCEPT ![c].writer = "ended"]
  /\ gone' = [gone EXCEPT ![c] = TRUE]
  /\ UNCHANGED <<proc, brokerVars, hubVars, send, closed, joined, got>>

ReaderEnds(c) ==
  /\ pump[c].reader = "reading"
  /\ gone[c]
  /\ pump' = [pump EXCEPT ![c].reader = "unregistering"]
  /\ UNCHANGED <<proc, brokerVars, hubVars, send, closed, gone, joined, got>>

(***************************************************************************)
(* The process                                                             *)
(***************************************************************************)
Shutdown ==
  /\ proc = "up"
  /\ MaxShutdowns = 1
  /\ proc' = "stopping"
  /\ UNCHANGED <<brokerVars, hubVars, clientVars>>

(* background.Wait: the hub and the consumer have both returned.           *)
Exit ==
  /\ proc = "stopping"
  /\ hub = "returned" /\ consumer = "returned"
  /\ proc' = "stopped"
  /\ UNCHANGED <<brokerVars, hubVars, clientVars>>

Consume ==
  \/ \E e \in Events : DeliverEvent(e) \/ Broadcast(e) \/ AckEvent(e)
  \/ StopConsuming \/ ConsumeReturns

Serve(c) == RegisterClient(c) \/ UnregisterClient(c) \/ AfterHubReturned(c)

HubNext ==
  /\ proc # "stopped"
  /\ \/ \E e \in Events : Notify(e)
     \/ Consume \/ ChannelLost
     \/ FanOut \/ HubReturns
     \/ \E c \in Clients : Serve(c) \/ Connect(c) \/ PeerLeaves(c)
                            \/ WriteEvent(c) \/ WriterEnds(c) \/ ReaderEnds(c)
     \/ Shutdown \/ Exit

HubSpec == HubInit /\ [][HubNext]_wsVars

(* Goroutines run; Go's select serves every ready case in the end; a write *)
(* ends by its deadline, a read by the deadline the pongs extend.          *)
HubFairSpec ==
  /\ HubSpec
  /\ WF_wsVars(Consume) /\ WF_wsVars(FanOut) /\ WF_wsVars(HubReturns) /\ WF_wsVars(Exit)
  /\ \A e \in Events : WF_wsVars(Broadcast(e)) /\ WF_wsVars(AckEvent(e))
  /\ \A c \in Clients : /\ WF_wsVars(Serve(c))
                        /\ WF_wsVars(WriteEvent(c) \/ WriterEnds(c)) /\ WF_wsVars(ReaderEnds(c))
-----------------------------------------------------------------------------
(* Every variable keeps the values its part of the process can have; the   *)
(* channels hold no more than they were made for.                          *)
HubTypeOK ==
  /\ proc \in {"up", "stopping", "stopped"}
  /\ queue \subseteq Events /\ handling \subseteq Events /\ unacked \subseteq Events
  /\ consumer \in {"consuming", "draining", "returned"}
  /\ losses \in 0 .. MaxLosses
  /\ broadcast \in Seq(Events) /\ Len(broadcast) <= BroadcastCap
  /\ hub \in {"running", "returned"}
  /\ clients \subseteq {c \in Clients : pump[c].start = "running"}
  /\ send \in [Clients -> Seq(Events)]
  /\ \A c \in Clients : Len(send[c]) <= SendCap
  /\ closed \in [Clients -> BOOLEAN]
  /\ dropping \in [Clients -> Nat]
  /\ pump \in [Clients -> [start : Start, reader : Reader, writer : Writer]]
  /\ gone \in [Clients -> BOOLEAN]
  /\ log \in Seq(Events)
  /\ joined \in [Clients -> Nat]
  /\ got \in [Clients -> Seq(Events)]
  /\ missed \subseteq Clients
  /\ panicked \in BOOLEAN

(* A client may be unregistered by its reader, by any number of goroutines *)
(* of the hub and by the hub's own end: its channel is closed once, and    *)
(* nothing is sent to it afterwards; either would panic (Hub.Run).         *)
NeverPanics == ~panicked

(* A client that missed nothing was sent, or still has in its channel,     *)
(* every event since it was registered, in the order of the hub (Hub.Run,  *)
(* writePump).                                                             *)
StreamWithoutGap ==
  \A c \in Clients \ missed :
    LET stream == got[c] \o send[c]
        sent == SubSeq(log, joined[c] + 1, Len(log))
    IN  /\ stream = SubSeq(sent, 1, Len(stream))
        /\ c \in clients => stream = sent

(* A client that missed an event, or that is not there any more, does not  *)
(* stay with the hub (Unregister, readPump).                               *)
LaggardsLeave ==
  \A c \in Clients :
    c \in clients /\ (c \in missed \/ gone[c]) ~> c \notin clients

(* While the broker keeps the channel, an event reaches the hub however    *)
(* slow the clients are (handleDelivery, Broadcast).                       *)
EventReachesHub ==
  \A e \in Events :
    e \in queue ~> \/ \E i \in 1 .. Len(log) : log[i] = e
                   \/ losses > 0 \/ proc # "up"

(* A process that was told to stop does stop, unless a handler is left     *)
(* with an event that the full channel of the hub, gone, does not take     *)
(* (background.Wait).                                                      *)
Stuck == hub = "returned" /\ Len(broadcast) = BroadcastCap /\ handling # {}

ShutdownCompletes == proc = "stopping" ~> proc = "stopped" \/ Stuck
=============================================================================
