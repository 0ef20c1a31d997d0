-------------------------- MODULE WebSocketsServer --------------------------
(***************************************************************************)
(* The WebSocket server of the simulator (src/WebSocketsServer.cpp): the   *)
(* firmware's thread, which begins, loops, sends and closes; an accepting  *)
(* thread; and one thread per connection, which shakes hands, numbers its  *)
(* client, queues its messages for loop() and closes the socket.           *)
(*                                                                         *)
(* A connection is named by its file descriptor, which the next connection *)
(* may be given again.  A part of a function that runs under one lock is   *)
(* one step.                                                               *)
(***************************************************************************)
EXTENDS Naturals, Sequences, SequencesExt

CONSTANTS
  Fds,         \* file descriptors a connection can have
  NoFd,        \* a number nobody has
  NumberCount, \* client numbers: 256 in the code, a uint8_t
  MaxArrivals, \* bound: connections ever made
  MaxMessages  \* bound: messages of all connections

ASSUME WebSocketsAssumption ==
  /\ NoFd \notin Fds
  /\ NumberCount \in Nat \ {0}
  /\ MaxArrivals \in Nat
  /\ MaxMessages \in Nat

\* No more connections at once than numbers: the code gives one more than 256
\* the number of another client, which the firmware then cannot reach.
ASSUME EnoughNumbers == IsFiniteSet(Fds) /\ Cardinality(Fds) <= NumberCount

Numbers == 0..(NumberCount - 1)
Serials == 1..MaxArrivals

VARIABLES
  active,    \* Impl::active
  listening, \* Impl::fd >= 0
  accepter,  \* acceptThread: where the accepting thread is
  stage,     \* per fd: how far the connection and its thread are
  number,    \* per fd: num, once its thread has added the client
  serial,    \* per fd: which of all connections this is
  arrivals,  \* connections made
  table,     \* Impl::clients: the fd of each number
  nextClient,\* Impl::nextClient
  pending,   \* Impl::pendingEvents
  firmware,  \* where the firmware's thread is
  said,      \* per connection: messages read from its peer
  heard,     \* per connection: messages the callback was given
  met,       \* the connections the callback was told of, or never will be
  caller     \* per number: the connection the callback knows by it (0: none)

connVars == <<stage, number, serial, arrivals, said>>
tableVars == <<table, nextClient>>
toldVars == <<heard, met, caller>>
serverVars == <<active, listening, accepter>>
vars == <<active, listening, accepter, stage, number, serial, arrivals, table,
          nextClient, pending, firmware, said, heard, met, caller>>

\* A connection waits in the backlog, has a thread that reads its request, has
\* a number, is announced and read from, will not be read from again, has had
\* its goodbye queued.
WithThread == {"request", "numbered", "open", "leaving", "goodbye"}
Stages == {"out", "backlog"} \cup WithThread
Closing == {"deaf", "silent", "joining", "draining"}

EventKinds == {"connected", "message", "disconnected"}
Events == [num : Numbers, kind : EventKinds, of : Serials]

Event(kind, c) == [num |-> number[c], kind |-> kind, of |-> serial[c]]

Init ==
  /\ active = FALSE /\ listening = FALSE /\ accepter = "off"
  /\ stage = [c \in Fds |-> "out"]
  /\ number = [c \in Fds |-> 0]
  /\ serial = [c \in Fds |-> 0]
  /\ arrivals = 0
  /\ table = [n \in Numbers |-> NoFd]
  /\ nextClient = 0
  /\ pending = <<>>
  /\ firmware = "idle"
  /\ said = [s \in Serials |-> 0]
  /\ heard = [s \in Serials |-> 0]
  /\ met = {}
  /\ caller = [n \in Numbers |-> 0]

Stage(c, place) == stage' = [stage EXCEPT ![c] = place]

-----------------------------------------------------------------------------
(* Peers and the accepting thread.                                         *)

Arrive(c) ==
  /\ listening
  /\ stage[c] = "out"
  /\ arrivals < MaxArrivals
  /\ arrivals' = arrivals + 1
  /\ serial' = [serial EXCEPT ![c] = arrivals + 1]
  /\ Stage(c, "backlog")
  /\ UNCHANGED <<serverVars, number, said, tableVars, pending, firmware, toldVars>>

\* accept() may have been called before the server was made inactive.  The
\* thread of the connection is started.
Accept(c) ==
  /\ accepter = "accepting"
  /\ listening
  /\ stage[c] = "backlog"
  /\ accepter' = "looking"
  /\ Stage(c, "request")
  /\ UNCHANGED <<active, listening, number, serial, arrivals, said, tableVars,
                 pending, firmware, toldVars>>

\* accept() fails: the listening socket is shut.
AcceptFails ==
  /\ accepter = "accepting"
  /\ ~listening
  /\ accepter' = "looking"
  /\ UNCHANGED <<active, listening, connVars, tableVars, pending, firmware, toldVars>>

LookActiveOnce ==
  /\ accepter = "looking"
  /\ accepter' = "accepting"
  /\ UNCHANGED <<active, listening, connVars, tableVars, pending, firmware, toldVars>>

LookActive ==
  /\ accepter = "looking"
  /\ accepter' = IF active THEN "accepting" ELSE "off"
  /\ UNCHANGED <<active, listening, connVars, tableVars, pending, firmware, toldVars>>

-----------------------------------------------------------------------------
(* The thread of a connection.                                             *)

\* The peer is gone, silent for five seconds, too long-winded or not a
\* WebSocket client.
Refuse(c) ==
  /\ stage[c] = "request"
  /\ Stage(c, "out")
  /\ serial' = [serial EXCEPT ![c] = 0]
  /\ UNCHANGED <<serverVars, number, arrivals, said, tableVars, pending,
                 firmware, toldVars>>

NumberUnlooked(first) == 0

\* The first free number among all but one from nextClient on; with none free
\* the last one is taken over.
NumberFrom(first) ==
  LET tried == {k \in 0..(NumberCount - 2) :
                  table[(first + k) % NumberCount] = NoFd}
  IN IF tried = {} THEN NumberCount - 1
     ELSE CHOOSE k \in tried : \A j \in tried : k <= j

\* The request has a key and was answered.
AddClient(c) ==
  /\ stage[c] = "request"
  /\ LET k == NumberFrom(nextClient)
         num == (nextClient + k) % NumberCount
     IN /\ table' = [table EXCEPT ![num] = c]
        /\ number' = [number EXCEPT ![c] = num]
        /\ nextClient' = (num + 1) % NumberCount
  /\ Stage(c, "numbered")
  /\ UNCHANGED <<serverVars, serial, arrivals, said, pending, firmware,
                 toldVars>>

\* The loop's condition: the next frame is read only while the server is active.
ReadOn(c) == Stage(c, IF active THEN "open" ELSE "leaving")

QueueConnected(c) ==
  /\ stage[c] = "numbered"
  /\ pending' = Append(pending, Event("connected", c))
  /\ ReadOn(c)
  /\ UNCHANGED <<serverVars, number, serial, arrivals, said, tableVars,
                 firmware, toldVars>>

\* A text or binary frame; pings and other opcodes queue nothing.
ReadMessage(c) ==
  /\ stage[c] = "open"
  /\ FoldFunction(+, 0, said) < MaxMessages
  /\ said' = [said EXCEPT ![serial[c]] = @ + 1]
  /\ pending' = Append(pending, Event("message", c))
  /\ ReadOn(c)
  /\ UNCHANGED <<serverVars, number, serial, arrivals, tableVars,
                 firmware, toldVars>>

\* A close frame, an end of file, a frame that is too long, five seconds of
\* silence or an inactive server ends the reading.
QueueDisconnected(c) ==
  /\ stage[c] \in {"open", "leaving"}
  /\ pending' = Append(pending, Event("disconnected", c))
  /\ Stage(c, "goodbye")
  /\ UNCHANGED <<serverVars, number, serial, arrivals, said, tableVars,
                 firmware, toldVars>>

\* The number is given back, then the socket.
RemoveClient(c) ==
  /\ stage[c] = "goodbye"
  /\ table' = [table EXCEPT ![number[c]] = NoFd]
  /\ Stage(c, "out")
  /\ number' = [number EXCEPT ![c] = 0]
  /\ serial' = [serial EXCEPT ![c] = 0]
  /\ UNCHANGED <<serverVars, arrivals, said, nextClient, pending, firmware, toldVars>>

ThreadStep(c) ==
  \/ Refuse(c) \/ AddClient(c) \/ QueueConnected(c) \/ ReadMessage(c)
  \/ QueueDisconnected(c) \/ RemoveClient(c)

-----------------------------------------------------------------------------
(* The firmware's thread.                                                  *)

\* begin() with a port it can bind.  It does nothing on an active server.
Begin ==
  /\ firmware = "idle"
  /\ ~active
  /\ active' = TRUE
  /\ listening' = TRUE
  /\ accepter' = "looking"
  /\ UNCHANGED <<connVars, tableVars, pending, firmware, toldVars>>

\* What the callback learns from an event.
Told(e) ==
  CASE e.kind = "connected" ->
         /\ caller' = [caller EXCEPT ![e.num] = e.of]
         /\ met' = met \cup {e.of}
         /\ UNCHANGED heard
    [] e.kind = "message" ->
         /\ heard' = [heard EXCEPT ![e.of] = @ + 1]
         /\ UNCHANGED <<caller, met>>
    [] e.kind = "disconnected" ->
         /\ caller' = [caller EXCEPT ![e.num] = 0]
         /\ UNCHANGED <<heard, met>>

DeliverLatest ==
  /\ firmware = "idle"
  /\ pending # <<>>
  /\ pending' = Front(pending)
  /\ Told(Last(pending))
  /\ UNCHANGED <<serverVars, connVars, tableVars, firmware>>

\* loop() swaps the queue out under its lock and hands the events on.  Nothing
\* else takes events while it does, so it is as if it took them one by one.
Deliver ==
  /\ firmware = "idle"
  /\ pending # <<>>
  /\ pending' = Tail(pending)
  /\ Told(Head(pending))
  /\ UNCHANGED <<serverVars, connVars, tableVars, firmware>>

\* close(), called from outside of the callback.
CloseBegins ==
  /\ firmware = "idle"
  /\ active
  /\ active' = FALSE
  /\ firmware' = "deaf"
  /\ UNCHANGED <<listening, accepter, connVars, tableVars, pending, toldVars>>

\* The peers in the backlog are reset.
CloseListener ==
  /\ firmware = "deaf"
  /\ listening' = FALSE
  /\ stage' = [c \in Fds |-> IF stage[c] = "backlog" THEN "out" ELSE stage[c]]
  /\ serial' = [c \in Fds |-> IF stage[c] = "backlog" THEN 0 ELSE serial[c]]
  /\ firmware' = "silent"
  /\ UNCHANGED <<active, accepter, number, arrivals, said, tableVars, pending,
                 toldVars>>

\* The sockets in the table are shut down, which makes their reads end as
\* silence does, and the table is cleared.
ClearTable ==
  /\ firmware = "silent"
  /\ table' = [n \in Numbers |-> NoFd]
  /\ firmware' = "joining"
  /\ UNCHANGED <<serverVars, connVars, nextClient, pending, toldVars>>

JoinClientsOnly ==
  /\ firmware = "joining"
  /\ \A c \in Fds : stage[c] \notin WithThread
  /\ firmware' = "draining"
  /\ UNCHANGED <<serverVars, connVars, tableVars, pending, toldVars>>

\* The accepting thread first: it may still start a client's.
JoinThreads ==
  /\ firmware = "joining"
  /\ accepter = "off"
  /\ \A c \in Fds : stage[c] \notin WithThread
  /\ firmware' = "draining"
  /\ UNCHANGED <<serverVars, connVars, tableVars, pending, toldVars>>

DropEvents ==
  /\ firmware = "draining"
  /\ pending' = <<>>
  /\ firmware' = "idle"
  /\ caller' = [n \in Numbers |-> 0]
  /\ met' = 1..arrivals
  /\ UNCHANGED <<serverVars, connVars, tableVars, heard>>

CloseStep ==
  \/ CloseListener \/ ClearTable \/ JoinThreads \/ DropEvents

FirmwareStep ==
  \/ Begin \/ Deliver \/ CloseBegins \/ CloseStep

Next ==
  \/ FirmwareStep \/ AcceptFails \/ LookActive
  \/ \E c \in Fds : Arrive(c) \/ Accept(c) \/ ThreadStep(c)

Spec == Init /\ [][Next]_vars

\* Threads run, a read ends within its five seconds, and the firmware calls
\* loop() and returns from close().  It need not begin, close or be connected to.
Fairness ==
  /\ WF_vars(Deliver)
  /\ WF_vars(CloseStep)
  /\ WF_vars(AcceptFails) /\ WF_vars(LookActive)
  /\ \A c \in Fds : WF_vars(ThreadStep(c))

FairSpec == Spec /\ Fairness

-----------------------------------------------------------------------------
TypeOK ==
  /\ active \in BOOLEAN /\ listening \in BOOLEAN
  /\ accepter \in {"off", "looking", "accepting"}
  /\ stage \in [Fds -> Stages]
  /\ number \in [Fds -> Numbers]
  /\ serial \in [Fds -> 0..MaxArrivals]
  /\ arrivals \in 0..MaxArrivals
  /\ table \in [Numbers -> Fds \cup {NoFd}]
  /\ nextClient \in Numbers
  /\ firmware \in {"idle"} \cup Closing
  /\ said \in [Serials -> Nat]
  /\ heard \in [Serials -> Nat]
  /\ met \subseteq Serials
  /\ caller \in [Numbers -> 0..MaxArrivals]
  /\ pending \in Seq(Events)

\* sendTXT() and broadcastTXT() look the number up in the table: while its
\* thread reads from the client, the number the callback knows it by leads to
\* its socket and to no other, whoever comes and goes meanwhile.
NumberReachesClient ==
  firmware = "idle" =>
    \A n \in Numbers, c \in Fds :
      caller[n] # 0 /\ serial[c] = caller[n] /\ stage[c] = "open" =>
        table[n] = c

\* After close() nothing of the server is left that could still act: no
\* thread, no client in the table, no event for a later loop().
QuietAfterClose ==
  firmware = "idle" /\ ~active =>
    /\ accepter = "off" /\ ~listening
    /\ \A c \in Fds : stage[c] \notin WithThread
    /\ \A n \in Numbers : table[n] = NoFd
    /\ pending = <<>>

\* close() returns, whatever the peers are in the middle of.
CloseEnds == firmware \in Closing ~> firmware = "idle"

\* The callback's view is the one the firmware may expect.
Over(s) ==
  /\ s <= arrivals
  /\ \A c \in Fds : serial[c] = s => stage[c] \in {"out", "goodbye"}

Known(s) == \E n \in Numbers : caller[n] = s

Callback == INSTANCE ClientSessions WITH
  Sessions <- Serials,
  Nobody   <- 0,
  over     <- {s \in Serials : Over(s)}

ImplementsClientSessions == Callback!Spec

=============================================================================
