-------------------------------- MODULE Hub ---------------------------------
(***************************************************************************)
(* The websocket hub (internal/api/hub.go) and its clients                 *)
(* (internal/api/client.go): the hub's select loop, the engine's goroutine *)
(* that hands it alerts, and for every connection the handler that         *)
(* registers it, its read pump, its write pump and its peer.  The channels *)
(* register, unregister and broadcast are unbuffered, so a communication   *)
(* on them is one step of both sides.  An alert is its number.  Hub.mu is  *)
(* left out: only the goroutine of Run takes it.                           *)
(***************************************************************************)
EXTENDS Integers, Sequences

CONSTANTS
  Clients,        \* the connections that can be made
  SendCap,        \* capacity of Client.send, 256 in the code
  MaxBroadcasts   \* bound: alerts broadcast

ASSUME SendCapAssumption == SendCap \in Nat \ {0}
ASSUME MaxBroadcastsAssumption == MaxBroadcasts \in Nat

VARIABLES
  notifier,   \* the goroutine in BroadcastAlert: "idle" or "blocked"
  published,  \* number of alerts the hub received
  hub,        \* Run: "select" or "deliver"
  todo,       \* clients the loop over h.clients has still to visit
  clients,    \* h.clients
  serve,      \* ServeWs: "none", "registering", "registered" or "done"
  send,       \* Client.send
  open,       \* Client.send is not closed
  panicked,   \* a closed channel was sent on or closed: the program dies
  conn,       \* the server's end of the connection is open
  peer,       \* the browser is there
  broken,     \* writes to the connection have started to fail
  rp,         \* readPump: "none", "reading", "leaving", "closing" or "done"
  wp,         \* writePump: "none", "loop", "closing" or "done"
  delivered,  \* ghost: the alerts that reached the browser
  joined      \* ghost: alerts published before the client was registered

notifierVars == <<notifier, published>>
hubVars == <<hub, todo, clients, joined>>
queues == <<send, open, panicked>>
wires == <<conn, peer, broken, delivered>>
pumps == <<serve, rp, wp>>
vars == <<notifierVars, hubVars, queues, wires, pumps>>

Init ==
  /\ notifier = "idle" /\ published = 0
  /\ hub = "select" /\ todo = {} /\ clients = {}
  /\ joined = [c \in Clients |-> 0]
  /\ send = [c \in Clients |-> << >>]
  /\ open = [c \in Clients |-> TRUE]
  /\ panicked = FALSE
  /\ conn = [c \in Clients |-> TRUE]
  /\ peer = [c \in Clients |-> TRUE]
  /\ broken = [c \in Clients |-> FALSE]
  /\ delivered = [c \in Clients |-> << >>]
  /\ serve = [c \in Clients |-> "none"]
  /\ rp = [c \in Clients |-> "none"]
  /\ wp = [c \in Clients |-> "none"]

-----------------------------------------------------------------------------
(* The engine's goroutine in NotifyAlert. *)

BroadcastAlert ==
  /\ notifier = "idle" /\ published < MaxBroadcasts
  /\ notifier' = "blocked"
  /\ UNCHANGED <<published, hubVars, queues, wires, pumps>>

-----------------------------------------------------------------------------
(* The hub's loop. *)

(* close(client.send) and delete(h.clients, client). *)
CutOff(c) ==
  /\ panicked' = (panicked \/ ~open[c])
  /\ open' = [open EXCEPT ![c] = FALSE]
  /\ clients' = clients \ {c}

Register(c) ==
  /\ hub = "select" /\ serve[c] = "registering"
  /\ clients' = clients \cup {c}
  /\ joined' = [joined EXCEPT ![c] = published]
  /\ serve' = [serve EXCEPT ![c] = "registered"]
  /\ UNCHANGED <<notifierVars, hub, todo, queues, wires, rp, wp>>

(* Mutant of Unregister: it does not look whether the hub still has c. *)
UnregisterAnyway(c) ==
  /\ hub = "select" /\ rp[c] = "leaving"
  /\ rp' = [rp EXCEPT ![c] = "closing"]
  /\ CutOff(c)
  /\ UNCHANGED <<notifierVars, hub, todo, joined, send, wires, serve, wp>>

Unregister(c) ==
  /\ hub = "select" /\ rp[c] = "leaving"
  /\ rp' = [rp EXCEPT ![c] = "closing"]
  /\ \/ c \in clients /\ CutOff(c)
     \/ c \notin clients /\ UNCHANGED <<open, panicked, clients>>
  /\ UNCHANGED <<notifierVars, hub, todo, joined, send, wires, serve, wp>>

Broadcast ==
  /\ hub = "select" /\ notifier = "blocked"
  /\ notifier' = "idle" /\ published' = published + 1
  /\ hub' = "deliver" /\ todo' = clients
  /\ UNCHANGED <<clients, joined, queues, wires, pumps>>

(* Mutants of Deliver: without the default case; with one that drops the   *)
(* alert; with one that drops the oldest alert of the queue.               *)
DeliverBlocking(c) ==
  /\ hub = "deliver" /\ c \in todo /\ Len(send[c]) < SendCap
  /\ todo' = todo \ {c}
  /\ send' = [send EXCEPT ![c] = Append(@, published)]
  /\ panicked' = (panicked \/ ~open[c])
  /\ UNCHANGED <<notifierVars, hub, clients, joined, open, wires, pumps>>

DeliverOrElse(c, queue) ==
  /\ hub = "deliver" /\ c \in todo
  /\ todo' = todo \ {c}
  /\ send' = [send EXCEPT ![c] = IF Len(@) < SendCap THEN Append(@, published)
                                                      ELSE queue]
  /\ UNCHANGED <<notifierVars, hub, clients, joined, open, panicked, wires, pumps>>

DeliverOrDrop(c) == DeliverOrElse(c, send[c])
DeliverEvicting(c) == DeliverOrElse(c, Append(Tail(send[c]), published))

(* The send to one client never blocks: a full queue cuts the client off. *)
Deliver(c) ==
  /\ hub = "deliver" /\ c \in todo
  /\ todo' = todo \ {c}
  /\ \/ /\ Len(send[c]) < SendCap
        /\ send' = [send EXCEPT ![c] = Append(@, published)]
        /\ panicked' = (panicked \/ ~open[c])
        /\ UNCHANGED <<open, clients>>
     \/ /\ Len(send[c]) = SendCap
        /\ CutOff(c)
        /\ send' = send
  /\ UNCHANGED <<notifierVars, hub, joined, wires, pumps>>

EndDeliver ==
  /\ hub = "deliver" /\ todo = {}
  /\ hub' = "select"
  /\ UNCHANGED <<notifierVars, todo, clients, joined, queues, wires, pumps>>

-----------------------------------------------------------------------------
(* The peer and the handler of its request. *)

Connect(c) ==
  /\ serve[c] = "none"
  /\ serve' = [serve EXCEPT ![c] = "registering"]
  /\ UNCHANGED <<notifierVars, hubVars, queues, wires, rp, wp>>

(* Mutant of StartPumps: the pumps start before the client is registered. *)
StartPumpsEarly(c) ==
  /\ serve[c] \in {"registering", "registered"} /\ rp[c] = "none"
  /\ rp' = [rp EXCEPT ![c] = "reading"]
  /\ wp' = [wp EXCEPT ![c] = "loop"]
  /\ UNCHANGED <<notifierVars, hubVars, queues, wires, serve>>

StartPumps(c) ==
  /\ serve[c] = "registered"
  /\ serve' = [serve EXCEPT ![c] = "done"]
  /\ rp' = [rp EXCEPT ![c] = "reading"]
  /\ wp' = [wp EXCEPT ![c] = "loop"]
  /\ UNCHANGED <<notifierVars, hubVars, queues, wires>>

(* The browser goes away, or stops answering pings. *)
Vanish(c) ==
  /\ serve[c] # "none" /\ peer[c]
  /\ peer' = [peer EXCEPT ![c] = FALSE]
  /\ UNCHANGED <<notifierVars, hubVars, queues, conn, broken, delivered, pumps>>

-----------------------------------------------------------------------------
(* The read pump.  A read fails when the connection is closed, or when no  *)
(* pong has come for pongWait.                                             *)

(* Mutant of ReadFails: the deferred unregister is missing. *)
ReadFailsQuietly(c) ==
  /\ rp[c] = "reading" /\ (~conn[c] \/ ~peer[c])
  /\ rp' = [rp EXCEPT ![c] = "closing"]
  /\ UNCHANGED <<notifierVars, hubVars, queues, wires, serve, wp>>

ReadFails(c) ==
  /\ rp[c] = "reading" /\ (~conn[c] \/ ~peer[c])
  /\ rp' = [rp EXCEPT ![c] = "leaving"]
  /\ UNCHANGED <<notifierVars, hubVars, queues, wires, serve, wp>>

ReadPumpCloses(c) ==
  /\ rp[c] = "closing"
  /\ rp' = [rp EXCEPT ![c] = "done"]
  /\ conn' = [conn EXCEPT ![c] = FALSE]
  /\ UNCHANGED <<notifierVars, hubVars, queues, peer, broken, delivered, serve, wp>>

-----------------------------------------------------------------------------
(* The write pump.  The error of a text write is ignored; the connection   *)
(* fails every write after the first that failed, until a ping shows it.   *)

Writable(c) == conn[c] /\ peer[c] /\ ~broken[c]

(* The queue is taken from; a slow peer makes the write time out. *)
WriteAlert(c) ==
  /\ wp[c] = "loop" /\ send[c] # << >>
  /\ send' = [send EXCEPT ![c] = Tail(@)]
  /\ \/ /\ Writable(c)
        /\ delivered' = [delivered EXCEPT ![c] = Append(@, Head(send[c]))]
        /\ broken' = broken
     \/ /\ broken' = [broken EXCEPT ![c] = TRUE]
        /\ delivered' = delivered
  /\ UNCHANGED <<notifierVars, hubVars, open, panicked, conn, peer, pumps>>

(* A closed channel is drained before it reports that it is closed. *)
QueueClosed(c) ==
  /\ wp[c] = "loop" /\ send[c] = << >> /\ ~open[c]
  /\ wp' = [wp EXCEPT ![c] = "closing"]
  /\ UNCHANGED <<notifierVars, hubVars, queues, wires, serve, rp>>

PingFails(c) ==
  /\ wp[c] = "loop" /\ ~Writable(c)
  /\ wp' = [wp EXCEPT ![c] = "closing"]
  /\ UNCHANGED <<notifierVars, hubVars, queues, wires, serve, rp>>

WritePumpCloses(c) ==
  /\ wp[c] = "closing"
  /\ wp' = [wp EXCEPT ![c] = "done"]
  /\ conn' = [conn EXCEPT ![c] = FALSE]
  /\ UNCHANGED <<notifierVars, hubVars, queues, peer, broken, delivered, serve, rp>>

-----------------------------------------------------------------------------
HubStep ==
  \/ \E c \in Clients : Register(c) \/ Unregister(c) \/ Deliver(c)
  \/ Broadcast \/ EndDeliver

ReadPump(c) == ReadFails(c) \/ ReadPumpCloses(c)

WritePump(c) ==
  WriteAlert(c) \/ QueueClosed(c) \/ PingFails(c) \/ WritePumpCloses(c)

Next ==
  \/ BroadcastAlert \/ HubStep
  \/ \E c \in Clients :
       Connect(c) \/ Vanish(c) \/ StartPumps(c) \/ ReadPump(c) \/ WritePump(c)

Spec == Init /\ [][Next]_vars

(* The goroutines run, a select that can choose a case again and again     *)
(* chooses it eventually, and deadlines and pings expire.  No browser has  *)
(* to connect or to leave, and no alert has to be raised.                  *)
Fairness ==
  /\ WF_vars(HubStep) /\ SF_vars(Broadcast)
  /\ \A c \in Clients :
       /\ SF_vars(Unregister(c))
       /\ WF_vars(ReadPump(c)) /\ WF_vars(WritePump(c))

FairSpec == Spec /\ Fairness

-----------------------------------------------------------------------------
(* Properties. *)

Registered(c) == serve[c] \in {"registered", "done"}

(* Types, and the agreement of the handler, the pumps and the hub: the     *)
(* pumps run only for a registered client (client.go:38-43), and the loop  *)
(* of a broadcast visits clients of the hub only (hub.go:44).              *)
TypeOK ==
  /\ notifier \in {"idle", "blocked"}
  /\ published \in 0..MaxBroadcasts
  /\ (notifier = "blocked") => published < MaxBroadcasts
  /\ hub \in {"select", "deliver"}
  /\ clients \in SUBSET Clients /\ todo \in SUBSET clients
  /\ (hub = "select") => todo = {}
  /\ (hub = "deliver") => published > 0
  /\ joined \in [Clients -> 0..MaxBroadcasts]
  /\ send \in [Clients -> Seq(1..MaxBroadcasts)]
  /\ open \in [Clients -> BOOLEAN] /\ panicked \in BOOLEAN
  /\ conn \in [Clients -> BOOLEAN] /\ peer \in [Clients -> BOOLEAN]
  /\ broken \in [Clients -> BOOLEAN]
  /\ delivered \in [Clients -> Seq(1..MaxBroadcasts)]
  /\ serve \in [Clients -> {"none", "registering", "registered", "done"}]
  /\ rp \in [Clients -> {"none", "reading", "leaving", "closing", "done"}]
  /\ wp \in [Clients -> {"none", "loop", "closing", "done"}]
  /\ \A c \in Clients :
       /\ Len(send[c]) <= SendCap
       /\ (rp[c] = "none") <=> (serve[c] # "done")
       /\ (wp[c] = "none") <=> (serve[c] # "done")
       /\ (c \in clients) => Registered(c)

(* Two parties close a client's queue, the hub's broadcast when it is full *)
(* and its unregister branch: it is never closed twice, and never sent on  *)
(* after it was closed, which would end the program (hub.go:36-50).        *)
NeverPanics == ~panicked

(* A client the hub still serves, on a connection that works, has had or   *)
(* will find in its queue every alert since it was registered: the hub     *)
(* drops the client, never an alert (hub.go:44-51).                        *)
NothingLost ==
  \A c \in clients :
    ~broken[c] =>
      joined[c] + Len(delivered[c]) + Len(send[c])
        = IF c \in todo THEN published - 1 ELSE published

AlertFeed == INSTANCE Feed WITH
  Subscribers <- Clients,
  first <- [c \in Clients |-> IF Registered(c) THEN joined[c] + 1 ELSE 0],
  got <- delivered

(* A browser gets the alerts published after its registration in order,    *)
(* each once, with no gap, until the feed stops (hub.go:28-55,             *)
(* client.go:62-84).                                                       *)
ImplementsFeed == AlertFeed!Spec

(* The engine's goroutine, which holds the engine's mutex while it waits,  *)
(* is never stopped by a client that does not read: the hub takes its      *)
(* alert, and is back at its select after every broadcast (hub.go:42-52,   *)
(* 63).                                                                    *)
BroadcastReturns ==
  /\ (notifier = "blocked") ~> (notifier = "idle")
  /\ (hub = "deliver") ~> (hub = "select")

Gone(c) == /\ rp[c] = "done" /\ wp[c] = "done"
           /\ c \notin clients /\ ~conn[c]

(* A connection that stopped working is closed, both its pumps end and the *)
(* hub forgets it (client.go:46-84, hub.go:35-40).                         *)
DeadIsForgotten ==
  \A c \in Clients : (serve[c] = "done" /\ ~Writable(c)) ~> Gone(c)
=============================================================================
