----------------------------- MODULE HubProofs ------------------------------
(***************************************************************************)
(* Proofs about the websocket hub, for every set of clients, every queue   *)
(* capacity and every number of alerts.                                    *)
(***************************************************************************)
EXTENDS Hub, SequenceTheorems, TLAPS

LEMMA Bounds == SendCap \in Nat /\ SendCap > 0 /\ MaxBroadcasts \in Nat
BY SendCapAssumption, MaxBroadcastsAssumption

(* What a queue is after a send and after a receive. *)
LEMMA Sent ==
  ASSUME NEW S, NEW q \in Seq(S), NEW x \in S
  PROVE  /\ Append(q, x) \in Seq(S)
         /\ Len(Append(q, x)) = Len(q) + 1
         /\ \A i \in 1..Len(q) : Append(q, x)[i] = q[i]
         /\ Append(q, x)[Len(q) + 1] = x
BY AppendProperties

LEMMA Received ==
  ASSUME NEW S, NEW q \in Seq(S), q # << >>
  PROVE  /\ Head(q) \in S /\ Head(q) = q[1]
         /\ Tail(q) \in Seq(S)
         /\ Len(q) \in Nat \ {0}
         /\ Len(Tail(q)) = Len(q) - 1
         /\ \A i \in 1..Len(Tail(q)) : Tail(q)[i] = q[i + 1]
BY HeadTailProperties, EmptySeq, LenProperties

LEMMA InitType == Init => TypeOK
<1> SUFFICES ASSUME Init PROVE TypeOK
  OBVIOUS
<1>1. << >> \in Seq(1..MaxBroadcasts) /\ Len(<< >>) = 0
  BY EmptySeq
<1>2. /\ send \in [Clients -> Seq(1..MaxBroadcasts)]
      /\ delivered \in [Clients -> Seq(1..MaxBroadcasts)]
      /\ \A c \in Clients : Len(send[c]) <= SendCap
  BY Bounds, <1>1 DEF Init
<1>3. /\ published \in 0..MaxBroadcasts /\ 0 < MaxBroadcasts + 1
      /\ joined \in [Clients -> 0..MaxBroadcasts]
  BY Bounds DEF Init
<1>4. \A c \in Clients : serve[c] = "none" /\ rp[c] = "none" /\ wp[c] = "none"
  BY DEF Init
<1>5. /\ open \in [Clients -> BOOLEAN] /\ panicked \in BOOLEAN
      /\ conn \in [Clients -> BOOLEAN] /\ peer \in [Clients -> BOOLEAN]
      /\ broken \in [Clients -> BOOLEAN]
      /\ serve \in [Clients -> {"none", "registering", "registered", "done"}]
      /\ rp \in [Clients -> {"none", "reading", "leaving", "closing", "done"}]
      /\ wp \in [Clients -> {"none", "loop", "closing", "done"}]
  BY DEF Init
<1>6. /\ notifier = "idle" /\ hub = "select" /\ todo = {} /\ clients = {}
  BY DEF Init
<1> QED BY <1>2, <1>3, <1>4, <1>5, <1>6 DEF TypeOK, Registered

LEMMA HubType ==
  ASSUME TypeOK, HubStep
  PROVE  TypeOK'
<1>1. ASSUME NEW c \in Clients, Register(c)
      PROVE  TypeOK'
  BY <1>1 DEF TypeOK, Register, Registered, notifierVars, queues, wires
<1>2. ASSUME NEW c \in Clients, Unregister(c)
      PROVE  TypeOK'
  BY <1>2 DEF TypeOK, Unregister, CutOff, Registered, notifierVars, wires
<1>3. ASSUME NEW c \in Clients, Deliver(c)
      PROVE  TypeOK'
  <2>1. CASE Len(send[c]) < SendCap
    <3>0. send[c] \in Seq(1..MaxBroadcasts)
      BY DEF TypeOK
    <3>1. published \in 1..MaxBroadcasts
      <4>1. published \in 0..MaxBroadcasts
        BY DEF TypeOK
      <4>2. published > 0
        BY <1>3 DEF TypeOK, Deliver
      <4> QED BY <4>1, <4>2
    <3>2. Append(send[c], published) \in Seq(1..MaxBroadcasts)
          /\ Len(Append(send[c], published)) = Len(send[c]) + 1
      BY <3>0, <3>1, Sent
    <3>3. send' = [send EXCEPT ![c] = Append(send[c], published)]
          /\ UNCHANGED <<open, clients>>
          /\ panicked' \in BOOLEAN
      <4>1. Len(send[c]) # SendCap
        BY <2>1, <3>0, LenProperties
      <4>2. /\ send' = [send EXCEPT ![c] = Append(send[c], published)]
            /\ panicked' = (panicked \/ ~open[c])
            /\ UNCHANGED <<open, clients>>
        BY <1>3, <4>1, Zenon DEF Deliver
      <4>3. panicked' \in BOOLEAN
        BY <4>2, Zenon
      <4> QED BY <4>2, <4>3
    <3>4. /\ todo' = todo \ {c} /\ hub' = hub /\ hub = "deliver"
          /\ UNCHANGED <<joined, notifier, published, conn, peer, broken,
                        delivered, serve, rp, wp>>
      BY <1>3 DEF Deliver, notifierVars, wires, pumps
    <3>5. send' \in [Clients -> Seq(1..MaxBroadcasts)]
      BY <3>2, <3>3 DEF TypeOK
    <3>6. Len(send'[c]) <= SendCap
      <4>1. Len(send[c]) \in Nat
        BY <3>0, LenProperties
      <4>2. send'[c] = Append(send[c], published)
        BY <3>3 DEF TypeOK
      <4> QED BY Bounds, <2>1, <3>2, <4>1, <4>2
    <3>7. \A d \in Clients : Len(send'[d]) <= SendCap
      BY <3>3, <3>6 DEF TypeOK
    <3> QED BY <3>3, <3>4, <3>5, <3>7 DEF TypeOK, Registered
  <2>2. CASE Len(send[c]) = SendCap
    <3>1. panicked' \in BOOLEAN
      BY <1>3, <2>2 DEF Deliver, CutOff, TypeOK
    <3>2. /\ open' = [open EXCEPT ![c] = FALSE]
          /\ clients' = clients \ {c} /\ todo' = todo \ {c} /\ hub' = hub
          /\ UNCHANGED <<send, joined, notifier, published, conn, peer, broken,
                        delivered, serve, rp, wp>>
      BY <1>3, <2>2 DEF Deliver, CutOff, TypeOK, notifierVars, wires, pumps
    <3>3. hub = "deliver"
      BY <1>3 DEF Deliver
    <3> QED BY <3>1, <3>2, <3>3 DEF TypeOK, Registered
  <2> QED BY <1>3, <2>1, <2>2 DEF Deliver
<1>4. CASE Broadcast
  BY Bounds, <1>4 DEF TypeOK, Broadcast, Registered, queues, wires, pumps
<1>5. CASE EndDeliver
  BY <1>5 DEF TypeOK, EndDeliver, Registered, notifierVars, queues, wires, pumps
<1> QED BY <1>1, <1>2, <1>3, <1>4, <1>5 DEF HubStep

LEMMA ClientType ==
  ASSUME TypeOK, NEW c \in Clients,
         Connect(c) \/ Vanish(c) \/ StartPumps(c) \/ ReadPump(c) \/ WritePump(c)
  PROVE  TypeOK'
<1>1. CASE Connect(c)
  BY <1>1 DEF TypeOK, Connect, Registered, notifierVars, hubVars, queues, wires
<1>2. CASE Vanish(c)
  BY <1>2 DEF TypeOK, Vanish, Registered, notifierVars, hubVars, queues, pumps
<1>3. CASE StartPumps(c)
  BY <1>3 DEF TypeOK, StartPumps, Registered, notifierVars, hubVars, queues, wires
<1>4. CASE ReadFails(c)
  BY <1>4 DEF TypeOK, ReadFails, Registered, notifierVars, hubVars, queues, wires
<1>5. CASE ReadPumpCloses(c)
  BY <1>5 DEF TypeOK, ReadPumpCloses, Registered, notifierVars, hubVars, queues
<1>6. CASE WriteAlert(c)
  <2>1. /\ Head(send[c]) \in 1..MaxBroadcasts
        /\ Tail(send[c]) \in Seq(1..MaxBroadcasts)
        /\ Len(Tail(send[c])) <= SendCap
    <3>1. send[c] \in Seq(1..MaxBroadcasts) /\ send[c] # << >> /\ Len(send[c]) <= SendCap
      BY <1>6 DEF TypeOK, WriteAlert
    <3>2. Len(send[c]) \in Nat /\ Len(Tail(send[c])) = Len(send[c]) - 1
      BY <3>1, Received
    <3>3. Head(send[c]) \in 1..MaxBroadcasts /\ Tail(send[c]) \in Seq(1..MaxBroadcasts)
      BY <3>1, Received
    <3> QED BY Bounds, <3>1, <3>2, <3>3
  <2>2. send' = [send EXCEPT ![c] = Tail(send[c])]
    BY <1>6 DEF WriteAlert
  <2>3. Append(delivered[c], Head(send[c])) \in Seq(1..MaxBroadcasts)
    <3>1. delivered[c] \in Seq(1..MaxBroadcasts)
      BY DEF TypeOK
    <3> QED BY <2>1, <3>1, Sent
  <2>4. /\ delivered' \in [Clients -> Seq(1..MaxBroadcasts)]
        /\ broken' \in [Clients -> BOOLEAN]
    BY <1>6, <2>3 DEF TypeOK, WriteAlert
  <2> QED BY <1>6, <2>1, <2>2, <2>4
          DEF TypeOK, WriteAlert, Registered, notifierVars, hubVars, pumps
<1>7. CASE QueueClosed(c)
  BY <1>7 DEF TypeOK, QueueClosed, Registered, notifierVars, hubVars, queues, wires
<1>8. CASE PingFails(c)
  BY <1>8 DEF TypeOK, PingFails, Registered, notifierVars, hubVars, queues, wires
<1>9. CASE WritePumpCloses(c)
  BY <1>9 DEF TypeOK, WritePumpCloses, Registered, notifierVars, hubVars, queues
<1> QED BY <1>1, <1>2, <1>3, <1>4, <1>5, <1>6, <1>7, <1>8, <1>9 DEF ReadPump, WritePump

LEMMA NextType == TypeOK /\ [Next]_vars => TypeOK'
<1> SUFFICES ASSUME TypeOK, [Next]_vars PROVE TypeOK'
  OBVIOUS
<1>1. CASE BroadcastAlert
  BY <1>1 DEF TypeOK, BroadcastAlert, Registered, hubVars, queues, wires, pumps
<1>2. CASE HubStep
  BY <1>2, HubType
<1>3. ASSUME NEW c \in Clients,
             Connect(c) \/ Vanish(c) \/ StartPumps(c) \/ ReadPump(c) \/ WritePump(c)
      PROVE  TypeOK'
  BY <1>3, ClientType
<1>4. CASE UNCHANGED vars
  BY <1>4 DEF TypeOK, Registered, vars, notifierVars, hubVars, queues, wires, pumps
<1> QED BY <1>1, <1>2, <1>3, <1>4 DEF Next

(* The hub, the handlers and the pumps keep their types and agree on who   *)
(* is registered (hub.go:28-55, client.go:32-44).                          *)
THEOREM TypeCorrect == Spec => []TypeOK
BY InitType, NextType, PTL DEF Spec

-----------------------------------------------------------------------------
(* Nothing is sent on, and nothing closes, a closed queue.                 *)

PanicInv ==
  /\ ~panicked
  /\ \A c \in clients : open[c]
  /\ \A c \in Clients : ~Registered(c) => open[c]

LEMMA InitPanic == Init => PanicInv
BY DEF Init, PanicInv

LEMMA NextPanic == TypeOK /\ PanicInv /\ [Next]_vars => PanicInv'
<1> SUFFICES ASSUME TypeOK, PanicInv, [Next]_vars PROVE PanicInv'
  OBVIOUS
<1>0. clients \subseteq Clients /\ todo \subseteq clients
      /\ open \in [Clients -> BOOLEAN]
  BY DEF TypeOK
<1>1. ASSUME NEW c \in Clients, Register(c)
      PROVE  PanicInv'
  BY <1>0, <1>1 DEF TypeOK, PanicInv, Register, Registered, queues
<1>2. ASSUME NEW c \in clients, CutOff(c), UNCHANGED serve
      PROVE  PanicInv'
  <2>1. ~panicked' /\ open' = [open EXCEPT ![c] = FALSE] /\ clients' = clients \ {c}
    BY <1>2 DEF CutOff, PanicInv
  <2>2. Registered(c)
    BY <1>0, <1>2 DEF TypeOK
  <2> QED BY <1>0, <1>2, <2>1, <2>2 DEF PanicInv, Registered
<1>3. ASSUME NEW c \in Clients, Unregister(c)
      PROVE  PanicInv'
  <2>1. CASE c \in clients /\ CutOff(c)
    BY <1>2, <1>3, <2>1 DEF Unregister
  <2>2. CASE UNCHANGED <<open, panicked, clients>>
    BY <1>3, <2>2 DEF Unregister, PanicInv, Registered
  <2> QED BY <1>3, <2>1, <2>2 DEF Unregister
<1>4. ASSUME NEW c \in Clients, Deliver(c)
      PROVE  PanicInv'
  <2>1. c \in clients /\ UNCHANGED serve
    BY <1>0, <1>4 DEF Deliver, pumps
  <2>2. CASE panicked' = (panicked \/ ~open[c]) /\ UNCHANGED <<open, clients>>
    BY <2>1, <2>2 DEF PanicInv, Registered
  <2>3. CASE CutOff(c)
    BY <1>2, <2>1, <2>3
  <2> QED BY <1>4, <2>2, <2>3 DEF Deliver
<1>5. ASSUME UNCHANGED <<panicked, open, clients>>,
             \A c \in Clients : Registered(c) => Registered(c)'
      PROVE  PanicInv'
  BY <1>5 DEF PanicInv
<1>6. CASE BroadcastAlert \/ Broadcast \/ EndDeliver \/ UNCHANGED vars
  BY <1>5, <1>6 DEF BroadcastAlert, Broadcast, EndDeliver, vars, hubVars, queues,
                    pumps, Registered
<1>7. ASSUME NEW c \in Clients,
             Connect(c) \/ Vanish(c) \/ StartPumps(c) \/ ReadPump(c) \/ WritePump(c)
      PROVE  PanicInv'
  <2>1. UNCHANGED <<panicked, open, clients>>
    BY <1>7 DEF Connect, Vanish, StartPumps, ReadPump, ReadFails, ReadPumpCloses,
                WritePump, WriteAlert, QueueClosed, PingFails, WritePumpCloses,
                hubVars, queues
  <2>2. \A d \in Clients : Registered(d) => Registered(d)'
    <3>1. CASE Connect(c)
      BY <3>1 DEF Connect, Registered, TypeOK
    <3>2. CASE StartPumps(c)
      BY <3>2 DEF StartPumps, Registered, TypeOK
    <3>3. CASE Vanish(c) \/ ReadPump(c) \/ WritePump(c)
      BY <3>3 DEF Vanish, ReadPump, ReadFails, ReadPumpCloses, WritePump, WriteAlert,
                  QueueClosed, PingFails, WritePumpCloses, pumps, Registered
    <3> QED BY <1>7, <3>1, <3>2, <3>3
  <2> QED BY <1>5, <2>1, <2>2
<1> QED BY <1>1, <1>3, <1>4, <1>6, <1>7 DEF Next, HubStep

(* A client's queue is never closed twice, by the broadcast that finds it  *)
(* full and by its own unregistration, and never sent on after it was      *)
(* closed (hub.go:36-50): a client leaves the hub's map with its queue.    *)
THEOREM NoPanic == Spec => []NeverPanics
<1>1. PanicInv => NeverPanics
  BY DEF PanicInv, NeverPanics
<1> QED BY <1>1, InitType, NextType, InitPanic, NextPanic, PTL DEF Spec

-----------------------------------------------------------------------------
(* What a client was given, has in its queue and is still to be given add  *)
(* up to what was published; the queue holds the alerts that come next.    *)

Reached(c) == joined[c] + Len(delivered[c]) + Len(send[c])

ClientInv(c) ==
  /\ ~Registered(c) => send[c] = << >> /\ delivered[c] = << >>
  /\ ~broken[c] =>
       /\ \A i \in 1..Len(send[c]) : send[c][i] = joined[c] + Len(delivered[c]) + i
       /\ Reached(c) <= published
       /\ (c \in clients) =>
            Reached(c) = IF c \in todo THEN published - 1 ELSE published

FeedInv == \A c \in Clients : ClientInv(c)

LEMMA InitFeed == Init => FeedInv
<1> SUFFICES ASSUME Init, NEW c \in Clients PROVE ClientInv(c)
  BY DEF FeedInv
<1>1. send[c] = << >> /\ delivered[c] = << >> /\ joined[c] = 0 /\ published = 0
      /\ clients = {}
  BY DEF Init
<1>2. Len(<< >>) = 0
  BY EmptySeq
<1>3. 1..Len(send[c]) = {} /\ Reached(c) = 0
  BY <1>1, <1>2 DEF Reached
<1> QED BY <1>1, <1>3 DEF ClientInv

LEMMA Numbers ==
  ASSUME TypeOK, NEW c \in Clients
  PROVE  /\ published \in Nat /\ joined[c] \in Nat
         /\ send[c] \in Seq(1..MaxBroadcasts) /\ Len(send[c]) \in Nat
         /\ delivered[c] \in Seq(1..MaxBroadcasts) /\ Len(delivered[c]) \in Nat
<1>1. send[c] \in Seq(1..MaxBroadcasts) /\ delivered[c] \in Seq(1..MaxBroadcasts)
  BY DEF TypeOK
<1>2. published \in 0..MaxBroadcasts /\ joined[c] \in 0..MaxBroadcasts
  BY DEF TypeOK
<1> QED BY <1>1, <1>2, LenProperties

(* A step that leaves a client's alerts alone, and adds it neither to the  *)
(* hub's map nor to the loop of a broadcast.                               *)
LEMMA Frame ==
  ASSUME NEW c \in Clients, ClientInv(c), published' = published,
         send'[c] = send[c], delivered'[c] = delivered[c],
         joined'[c] = joined[c], broken'[c] = broken[c],
         Registered(c) => Registered(c)',
         (c \in clients') => (c \in clients),
         (c \in clients') => ((c \in todo') <=> (c \in todo))
  PROVE  ClientInv(c)'
<1>1. Reached(c)' = Reached(c)
  BY DEF Reached
<1> QED BY <1>1 DEF ClientInv

LEMMA RegisterFeed ==
  ASSUME TypeOK, FeedInv, NEW c \in Clients, Register(c)
  PROVE  FeedInv'
<1> SUFFICES ASSUME NEW d \in Clients PROVE ClientInv(d)'
  BY DEF FeedInv
<1>1. ClientInv(d)
  BY DEF FeedInv
<1>2. /\ UNCHANGED <<published, todo, send, delivered, broken>>
      /\ clients' = clients \cup {c} /\ todo = {}
      /\ joined' = [joined EXCEPT ![c] = published]
      /\ serve' = [serve EXCEPT ![c] = "registered"] /\ serve[c] = "registering"
  BY DEF Register, TypeOK, notifierVars, queues, wires
<1>3. Registered(d) => Registered(d)'
  BY <1>2 DEF TypeOK, Registered
<1>4. CASE d # c
  <2>1. joined'[d] = joined[d]
    BY <1>2, <1>4 DEF TypeOK
  <2> QED BY <1>1, <1>2, <1>3, <1>4, <2>1, Frame
<1>5. CASE d = c
  <2>1. send[d] = << >> /\ delivered[d] = << >>
    BY <1>1, <1>2, <1>5 DEF ClientInv, Registered
  <2>2. send'[d] = << >> /\ delivered'[d] = << >> /\ joined'[d] = published
        /\ published' = published
    BY <1>2, <1>5, <2>1 DEF TypeOK
  <2>3. Len(send'[d]) = 0 /\ Len(delivered'[d]) = 0 /\ published \in Nat
    BY <2>2, EmptySeq, Numbers
  <2>4. Reached(d)' = published'
    BY <2>2, <2>3 DEF Reached
  <2>5. 1..Len(send'[d]) = {} /\ d \notin todo'
    BY <1>2, <2>3
  <2> QED BY <2>2, <2>3, <2>4, <2>5 DEF ClientInv
<1> QED BY <1>4, <1>5

LEMMA BroadcastFeed ==
  ASSUME TypeOK, FeedInv, Broadcast
  PROVE  FeedInv'
<1> SUFFICES ASSUME NEW d \in Clients PROVE ClientInv(d)'
  BY DEF FeedInv
<1>1. ClientInv(d)
  BY DEF FeedInv
<1>2. /\ UNCHANGED <<clients, joined, send, delivered, broken, serve>>
      /\ published' = published + 1 /\ todo' = clients /\ todo = {}
  BY DEF Broadcast, TypeOK, queues, wires, pumps
<1>3. published \in Nat /\ Reached(d) \in Nat /\ Reached(d)' = Reached(d)
  BY <1>2, Numbers DEF Reached
<1> QED BY <1>1, <1>2, <1>3 DEF ClientInv, Registered

LEMMA DeliverFeed ==
  ASSUME TypeOK, FeedInv, NEW c \in Clients, Deliver(c)
  PROVE  FeedInv'
<1> SUFFICES ASSUME NEW d \in Clients PROVE ClientInv(d)'
  BY DEF FeedInv
<1>1. ClientInv(d)
  BY DEF FeedInv
<1>2. /\ UNCHANGED <<published, joined, delivered, broken, serve>>
      /\ todo' = todo \ {c} /\ c \in todo /\ c \in clients
  BY DEF Deliver, TypeOK, notifierVars, wires, pumps
<1>3. \/ /\ send' = [send EXCEPT ![c] = Append(send[c], published)]
         /\ clients' = clients
      \/ /\ clients' = clients \ {c}
         /\ send' = send
  BY Zenon DEF Deliver, CutOff
<1>4. CASE d # c
  <2>1. send'[d] = send[d] /\ (d \in clients' => d \in clients)
    BY <1>3, <1>4 DEF TypeOK
  <2> QED BY <1>1, <1>2, <1>4, <2>1, Frame DEF Registered
<1>5. CASE d = c /\ clients' = clients \ {c} /\ send' = send
  BY <1>1, <1>2, <1>5, Frame DEF Registered
<1>6. CASE /\ d = c /\ clients' = clients
           /\ send' = [send EXCEPT ![c] = Append(send[c], published)]
  <2>0. /\ published \in Nat /\ joined[d] \in Nat
        /\ send[d] \in Seq(1..MaxBroadcasts) /\ Len(send[d]) \in Nat
        /\ Len(delivered[d]) \in Nat
    BY Numbers
  <2>1. joined[d] \in Nat /\ Len(send[d]) \in Nat /\ Len(delivered[d]) \in Nat
    BY <2>0
  <2>2. published \in 1..MaxBroadcasts
    BY <2>0 DEF Deliver, TypeOK
  <2>3. send'[d] = Append(send[d], published)
    BY <1>6 DEF TypeOK
  <2>4. /\ Len(send'[d]) = Len(send[d]) + 1
        /\ \A i \in 1..Len(send[d]) : send'[d][i] = send[d][i]
        /\ send'[d][Len(send[d]) + 1] = published
    BY <2>0, <2>2, <2>3, Sent
  <2>5. Registered(d)'
    BY <1>2, <1>6 DEF TypeOK, Registered
  <2>6. ASSUME ~broken[d]
        PROVE  /\ Reached(d) = published - 1
               /\ \A i \in 1..Len(send[d]) :
                    send[d][i] = joined[d] + Len(delivered[d]) + i
    BY <1>1, <1>2, <1>6, <2>6 DEF ClientInv
  <2>7. ASSUME ~broken[d]
        PROVE  Reached(d)' = published
    <3>1. Reached(d)' = joined[d] + Len(delivered[d]) + (Len(send[d]) + 1)
      BY <1>2, <2>4 DEF Reached
    <3>2. Reached(d)' = Reached(d) + 1
      BY <2>1, <3>1 DEF Reached
    <3> QED BY <2>0, <2>6, <2>7, <3>2
  <2>8. ASSUME ~broken[d], NEW i \in 1..Len(send'[d])
        PROVE  send'[d][i] = joined[d] + Len(delivered[d]) + i
    <3>1. CASE i \in 1..Len(send[d])
      BY <2>4, <2>6, <2>8, <3>1
    <3>2. CASE i = Len(send[d]) + 1
      <4>1. Reached(d) = published - 1 /\ send'[d][i] = published
        BY <2>4, <2>6, <2>8, <3>2
      <4>2. joined[d] + Len(delivered[d]) + i = Reached(d) + 1
        BY <2>1, <3>2 DEF Reached
      <4> QED BY <2>0, <4>1, <4>2
    <3> QED BY <2>0, <2>4, <2>8, <3>1, <3>2
  <2> QED BY <1>2, <1>6, <2>0, <2>5, <2>7, <2>8 DEF ClientInv
<1> QED BY <1>3, <1>4, <1>5, <1>6

LEMMA WriteAlertFeed ==
  ASSUME TypeOK, FeedInv, NEW c \in Clients, WriteAlert(c)
  PROVE  FeedInv'
<1> SUFFICES ASSUME NEW d \in Clients PROVE ClientInv(d)'
  BY DEF FeedInv
<1>1. ClientInv(d)
  BY DEF FeedInv
<1>2. /\ UNCHANGED <<published, joined, clients, todo, serve>>
      /\ send' = [send EXCEPT ![c] = Tail(send[c])]
      /\ wp[c] = "loop" /\ send[c] # << >>
  BY DEF WriteAlert, notifierVars, hubVars, pumps
<1>3. \/ /\ delivered' = [delivered EXCEPT ![c] = Append(delivered[c], Head(send[c]))]
         /\ broken' = broken
      \/ /\ broken' = [broken EXCEPT ![c] = TRUE]
         /\ delivered' = delivered
  BY DEF WriteAlert
<1>4. CASE d # c
  <2>1. send'[d] = send[d] /\ delivered'[d] = delivered[d] /\ broken'[d] = broken[d]
    BY <1>2, <1>3, <1>4 DEF TypeOK
  <2> QED BY <1>1, <1>2, <2>1, Frame DEF Registered
<1>5. ASSUME d = c
      PROVE  Registered(d)'
  BY <1>2, <1>5 DEF TypeOK, Registered
<1>6. CASE d = c /\ broken' = [broken EXCEPT ![c] = TRUE]
  <2>1. broken'[d]
    BY <1>6 DEF TypeOK
  <2> QED BY <1>5, <1>6, <2>1 DEF ClientInv
<1>7. CASE /\ d = c /\ broken' = broken
           /\ delivered' = [delivered EXCEPT ![c] = Append(delivered[c], Head(send[c]))]
  <2>0. /\ published \in Nat /\ joined[d] \in Nat
        /\ send[d] \in Seq(1..MaxBroadcasts) /\ Len(send[d]) \in Nat
        /\ delivered[d] \in Seq(1..MaxBroadcasts) /\ Len(delivered[d]) \in Nat
        /\ send[d] # << >>
    BY <1>2, <1>7, Numbers
  <2>1. joined[d] \in Nat /\ Len(send[d]) \in Nat /\ Len(delivered[d]) \in Nat
    BY <2>0
  <2>2. send'[d] = Tail(send[d]) /\ delivered'[d] = Append(delivered[d], Head(send[d]))
    BY <1>2, <1>7 DEF TypeOK
  <2>3. /\ Head(send[d]) \in 1..MaxBroadcasts
        /\ Len(send'[d]) = Len(send[d]) - 1
        /\ \A i \in 1..Len(send'[d]) : send'[d][i] = send[d][i + 1]
    BY <2>0, <2>2, Received
  <2>4. Len(delivered'[d]) = Len(delivered[d]) + 1
    BY <2>0, <2>2, <2>3, Sent
  <2>5. Reached(d)' = Reached(d)
    <3>1. Reached(d)' = joined[d] + (Len(delivered[d]) + 1) + (Len(send[d]) - 1)
      BY <1>2, <2>3, <2>4 DEF Reached
    <3>2. Reached(d) = joined[d] + Len(delivered[d]) + Len(send[d])
      BY DEF Reached
    <3> QED BY <2>1, <3>1, <3>2
  <2>6. \A n \in Nat : joined[d] + Len(delivered[d]) + (n + 1)
                        = joined[d] + (Len(delivered[d]) + 1) + n
    BY <2>1
  <2>7. ASSUME ~broken[d], NEW i \in 1..Len(send'[d])
        PROVE  send'[d][i] = joined[d] + Len(delivered'[d]) + i
    <3>0. i \in Nat
      BY <2>0, <2>3
    <3>1. i + 1 \in 1..Len(send[d])
      BY <2>0, <2>3
    <3>2. send[d][i + 1] = joined[d] + Len(delivered[d]) + (i + 1)
      BY <1>1, <2>7, <3>1 DEF ClientInv
    <3> QED BY <2>3, <2>4, <2>7, <2>6, <3>0, <3>2
  <2> QED BY <1>1, <1>2, <1>5, <1>7, <2>5, <2>7 DEF ClientInv
<1> QED BY <1>3, <1>4, <1>6, <1>7

LEMMA NextFeed == TypeOK /\ FeedInv /\ [Next]_vars => FeedInv'
<1> SUFFICES ASSUME TypeOK, FeedInv, [Next]_vars PROVE FeedInv'
  OBVIOUS
<1>1. ASSUME UNCHANGED <<published, todo, joined, send, delivered, broken>>,
             clients' \subseteq clients,
             \A c \in Clients : Registered(c) => Registered(c)'
      PROVE  FeedInv'
  BY <1>1, Frame DEF FeedInv
<1>2. ASSUME NEW c \in Clients, Unregister(c)
      PROVE  FeedInv'
  BY <1>1, <1>2 DEF Unregister, CutOff, notifierVars, wires, Registered
<1>3. CASE BroadcastAlert \/ EndDeliver \/ UNCHANGED vars
  BY <1>1, <1>3 DEF BroadcastAlert, EndDeliver, vars, notifierVars, hubVars, queues,
                    wires, pumps, Registered
<1>4. ASSUME NEW c \in Clients, Connect(c) \/ StartPumps(c)
      PROVE  FeedInv'
  <2>1. \A d \in Clients : Registered(d) => Registered(d)'
    <3>1. CASE Connect(c)
      BY <3>1 DEF Connect, Registered, TypeOK
    <3>2. CASE StartPumps(c)
      BY <3>2 DEF StartPumps, Registered, TypeOK
    <3> QED BY <1>4, <3>1, <3>2
  <2> QED BY <1>1, <1>4, <2>1
          DEF Connect, StartPumps, notifierVars, hubVars, queues, wires
<1>5. ASSUME NEW c \in Clients,
             Vanish(c) \/ ReadPump(c) \/ QueueClosed(c) \/ PingFails(c)
               \/ WritePumpCloses(c)
      PROVE  FeedInv'
  BY <1>1, <1>5 DEF Vanish, ReadPump, ReadFails, ReadPumpCloses, QueueClosed, PingFails,
                    WritePumpCloses, notifierVars, hubVars, queues, wires, pumps, Registered
<1> QED BY <1>2, <1>3, <1>4, <1>5, RegisterFeed, BroadcastFeed, DeliverFeed,
           WriteAlertFeed DEF Next, HubStep, WritePump

(* A client the hub serves over a working connection has had, or has in    *)
(* its queue, every alert since it was registered (hub.go:44-51): what     *)
(* does not fit in its queue costs it its place in the hub's map.          *)
THEOREM NoAlertLost == Spec => []NothingLost
<1>1. TypeOK /\ FeedInv => NothingLost
  BY DEF TypeOK, FeedInv, ClientInv, NothingLost, Reached
<1> QED BY <1>1, InitType, NextType, InitFeed, NextFeed, PTL DEF Spec

-----------------------------------------------------------------------------
(* The hub implements the feed: registering is subscribing, the receive of *)
(* an alert by the hub is its publication, a write is its reception.       *)

First == [c \in Clients |-> IF Registered(c) THEN joined[c] + 1 ELSE 0]

LEMMA InitRefines == Init => AlertFeed!Init
BY DEF Init, AlertFeed!Init, Registered

LEMMA SameFeed ==
  ASSUME UNCHANGED <<published, joined, delivered>>,
         \A c \in Clients : Registered(c)' <=> Registered(c)
  PROVE  UNCHANGED AlertFeed!vars
<1>1. First' = First
  BY DEF First
<1> QED BY <1>1 DEF First, AlertFeed!vars

LEMMA RegisterRefines ==
  ASSUME TypeOK, NEW c \in Clients, Register(c)
  PROVE  AlertFeed!Subscribe(c)
<1>1. /\ UNCHANGED <<published, delivered>>
      /\ joined' = [joined EXCEPT ![c] = published]
      /\ serve' = [serve EXCEPT ![c] = "registered"] /\ serve[c] = "registering"
  BY DEF Register, notifierVars, wires
<1>2. joined'[c] = published /\ Registered(c)' /\ ~Registered(c)
  BY <1>1 DEF TypeOK, Registered
<1>3. \A d \in Clients \ {c} : joined'[d] = joined[d] /\ (Registered(d)' <=> Registered(d))
  BY <1>1 DEF TypeOK, Registered
<1>4. First[c] = 0
  BY <1>2 DEF First
<1>5. First' = [First EXCEPT ![c] = published + 1]
  BY <1>2, <1>3 DEF First
<1> QED BY <1>1, <1>4, <1>5 DEF First, AlertFeed!Subscribe

LEMMA WriteRefines ==
  ASSUME TypeOK, FeedInv, NEW c \in Clients, WriteAlert(c)
  PROVE  AlertFeed!Receive(c) \/ UNCHANGED AlertFeed!vars
<1>1. /\ UNCHANGED <<published, joined, serve>>
      /\ wp[c] = "loop" /\ send[c] # << >>
  BY DEF WriteAlert, notifierVars, hubVars, pumps
<1>2. First' = First
  BY <1>1 DEF First, Registered
<1>3. CASE delivered' = delivered
  BY <1>1, <1>2, <1>3 DEF First, AlertFeed!vars
<1>4. CASE Writable(c)
           /\ delivered' = [delivered EXCEPT ![c] = Append(@, Head(send[c]))]
  <2>0. joined[c] \in Nat /\ published \in Nat /\ Len(delivered[c]) \in Nat
    BY Numbers
  <2>1. Head(send[c]) = send[c][1] /\ Len(send[c]) \in Nat \ {0}
    BY <1>1, Numbers, Received
  <2>2. Len(send[c]) \in Nat /\ 1 \in 1..Len(send[c])
    BY <2>1
  <2>3. /\ send[c][1] = joined[c] + Len(delivered[c]) + 1
        /\ joined[c] + Len(delivered[c]) + Len(send[c]) <= published
    BY <1>4, <2>2 DEF FeedInv, ClientInv, Writable, Reached
  <2>4. Registered(c)
    BY <1>1 DEF TypeOK, Registered
  <2>5. First[c] = joined[c] + 1
    BY <2>4 DEF First
  <2>6. First[c] # 0 /\ First[c] + Len(delivered[c]) = Head(send[c])
    BY <2>0, <2>1, <2>3, <2>5
  <2>7. Head(send[c]) <= published
    <3>1. Head(send[c]) = joined[c] + Len(delivered[c]) + 1 /\ 1 <= Len(send[c])
      BY <2>1, <2>2, <2>3
    <3> QED BY <2>0, <2>2, <2>3, <3>1
  <2>8. AlertFeed!Receive(c)
    BY <1>1, <1>2, <1>4, <2>6, <2>7 DEF First, AlertFeed!Receive
  <2> QED BY <2>8
<1> QED BY <1>3, <1>4 DEF WriteAlert

LEMMA NextRefines ==
  TypeOK /\ FeedInv /\ [Next]_vars => [AlertFeed!Next]_(AlertFeed!vars)
<1> SUFFICES ASSUME TypeOK, FeedInv, [Next]_vars
             PROVE  AlertFeed!Next \/ UNCHANGED AlertFeed!vars
  OBVIOUS
<1>1. CASE Broadcast
  <2>1. First' = First
    BY <1>1 DEF Broadcast, First, Registered, pumps
  <2> QED BY <1>1, <2>1 DEF Broadcast, First, wires, AlertFeed!Next, AlertFeed!Publish
<1>2. ASSUME NEW c \in Clients, Register(c)
      PROVE  AlertFeed!Next
  BY <1>2, RegisterRefines DEF AlertFeed!Next
<1>3. ASSUME NEW c \in Clients, WriteAlert(c)
      PROVE  AlertFeed!Next \/ UNCHANGED AlertFeed!vars
  BY <1>3, WriteRefines DEF AlertFeed!Next
<1>4. ASSUME NEW c \in Clients, Connect(c) \/ StartPumps(c)
      PROVE  UNCHANGED AlertFeed!vars
  <2>1. \A d \in Clients : Registered(d)' <=> Registered(d)
    <3>1. CASE Connect(c)
      BY <3>1 DEF Connect, Registered, TypeOK
    <3>2. CASE StartPumps(c)
      BY <3>2 DEF StartPumps, Registered, TypeOK
    <3> QED BY <1>4, <3>1, <3>2
  <2> QED BY <1>4, <2>1, SameFeed
          DEF Connect, StartPumps, notifierVars, hubVars, wires
<1>5. CASE BroadcastAlert \/ EndDeliver \/ UNCHANGED vars
  BY <1>5, SameFeed DEF BroadcastAlert, EndDeliver, vars, notifierVars, hubVars, wires,
                        pumps, Registered
<1>6. ASSUME NEW c \in Clients, Unregister(c) \/ Deliver(c)
      PROVE  UNCHANGED AlertFeed!vars
  BY <1>6, SameFeed DEF Unregister, Deliver, notifierVars, wires, pumps, Registered
<1>7. ASSUME NEW c \in Clients,
             Vanish(c) \/ ReadPump(c) \/ QueueClosed(c) \/ PingFails(c)
               \/ WritePumpCloses(c)
      PROVE  UNCHANGED AlertFeed!vars
  BY <1>7, SameFeed DEF Vanish, ReadPump, ReadFails, ReadPumpCloses, QueueClosed,
                    PingFails, WritePumpCloses, notifierVars, hubVars, wires, pumps,
                    Registered
<1> QED BY <1>1, <1>2, <1>3, <1>4, <1>5, <1>6, <1>7 DEF Next, HubStep, WritePump

(* The hub implements the feed (hub.go:28-55, client.go:32-84): a browser  *)
(* gets the alerts published after its registration in order, each once,   *)
(* with no gap, until the hub or its connection gives it up.               *)
THEOREM FeedImplemented == Spec => ImplementsFeed
BY InitType, NextType, InitFeed, NextFeed, InitRefines, NextRefines, PTL
   DEF Spec, ImplementsFeed, AlertFeed!Spec
=============================================================================
