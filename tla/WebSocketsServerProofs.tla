----------------------- MODULE WebSocketsServerProofs -----------------------
(***************************************************************************)
(* Proofs about WebSocketsServer: a number leads to the client it was told *)
(* for, nothing is left after close(), and the callback is given what      *)
(* ClientSessions promises, for any number of descriptors and connections. *)
(***************************************************************************)
EXTENDS WebSocketsServer, Integers, FiniteSetTheorems, WellFoundedInduction, TLAPS

-----------------------------------------------------------------------------
(* The inductive invariant.                                                *)

Numbered  == {"numbered", "open", "leaving", "goodbye"}
Announced == {"open", "leaving", "goodbye"}
Talking   == {"open", "leaving"}
Waiting   == {"backlog", "request", "numbered"}

\* The table has not been cleared by close().
Tracked == firmware \in {"idle", "deaf", "silent"}

\* Each connection there is has a serial of its own.
SerialsTheirOwn ==
  /\ \A c \in Fds : stage[c] = "out" <=> serial[c] = 0
  /\ \A c \in Fds : serial[c] <= arrivals
  /\ \A c, d \in Fds : serial[c] = serial[d] /\ serial[c] # 0 => c = d

\* The table holds clients under the number they have, and until close() clears
\* it, all of them.
TableTrue ==
  /\ \A n \in Numbers :
       table[n] # NoFd => stage[table[n]] \in Numbered /\ number[table[n]] = n
  /\ Tracked => \A c \in Fds : stage[c] \in Numbered => table[number[c]] = c

\* What close() has undone so far stays undone until begin().
ShutDown ==
  /\ active => firmware = "idle"
  /\ ~listening => \A c \in Fds : stage[c] # "backlog"
  /\ firmware \in {"silent", "joining", "draining"} => ~listening
  /\ firmware = "draining" \/ (firmware = "idle" /\ ~active) =>
       accepter = "off" /\ ~listening /\ \A c \in Fds : stage[c] \notin WithThread
  /\ firmware = "idle" /\ ~active => pending = <<>>

\* n is the number of the connection s if that has not gone, and its client was
\* announced.
Means(n, s) ==
  /\ s <= arrivals
  /\ \A c \in Fds : serial[c] = s => number[c] = n /\ stage[c] \in Announced

\* An event bears the number and the serial of the connection it is about, and
\* a goodbye is the last of them.
EventTrue(e) == Means(e.num, e.of) /\ (e.kind = "disconnected" => Over(e.of))

EventsTrue == \A i \in 1 .. Len(pending) : EventTrue(pending[i])

\* So does what the callback knows.
CallerTrue == \A n \in Numbers : caller[n] # 0 => Means(n, caller[n])

ServerInv ==
  /\ TypeOK
  /\ SerialsTheirOwn /\ TableTrue /\ ShutDown /\ EventsTrue /\ CallerTrue

-----------------------------------------------------------------------------
(* Numbers.                                                                *)

\* Around: counting on from a number goes round all numbers.
LEMMA Around ==
  ASSUME NEW first \in Numbers
  PROVE  /\ \A k \in Numbers : (first + k) % NumberCount \in Numbers
         /\ \A n \in Numbers : \E k \in Numbers : n = (first + k) % NumberCount
         /\ 0 \in Numbers
<1>1. NumberCount \in Nat /\ NumberCount > 0
  BY WebSocketsAssumption
<1>2. \A k \in Numbers : (first + k) % NumberCount \in Numbers
  BY <1>1 DEF Numbers
<1>3. ASSUME NEW n \in Numbers
      PROVE  \E k \in Numbers : n = (first + k) % NumberCount
  <2>1. CASE n >= first
    <3>1. n - first \in Numbers /\ first + (n - first) = n
      BY <1>1, <2>1 DEF Numbers
    <3>2. n % NumberCount = n
      BY <1>1 DEF Numbers
    <3> QED BY <3>1, <3>2
  <2>2. CASE n < first
    <3>1. (n - first) + NumberCount \in Numbers
          /\ first + ((n - first) + NumberCount) = n + NumberCount
      BY <1>1, <2>2 DEF Numbers
    <3>2. (n + NumberCount) % NumberCount = n
      BY <1>1 DEF Numbers
    <3> QED BY <3>1, <3>2
  <2> QED BY <1>1, <2>1, <2>2 DEF Numbers
<1> QED BY <1>1, <1>2, <1>3 DEF Numbers

\* LeastOf: a set of numbers that has one has a least one.
LEMMA LeastOf ==
  ASSUME NEW T \in SUBSET Nat, T # {}
  PROVE  \E n \in T : \A m \in T : n <= m
<1>1. PICK n \in T : \A m \in T : <<m, n>> \notin OpToRel(<, Nat)
  <2> DEFINE R == OpToRel(<, Nat)
  <2>1. IsWellFoundedOn(R, Nat)
    BY NatLessThanWellFounded
  <2> HIDE DEF R
  <2>2. \E x \in T : \A y \in T : ~(<<y, x>> \in R)
    BY <2>1, WFMin
  <2> QED BY <2>2 DEF R
<1>2. \A m \in T : ~(m < n)
  BY <1>1 DEF OpToRel
<1> QED BY <1>2

\* NumberIsFree: the number a client is given is nobody's, since there are no more
\* connections than numbers.
LEMMA NumberIsFree ==
  ASSUME TypeOK, TableTrue, NEW c \in Fds, stage[c] = "request"
  PROVE  LET num == (nextClient + NumberFrom(nextClient)) % NumberCount
         IN  num \in Numbers /\ table[num] = NoFd
<1> DEFINE At(k) == (nextClient + k) % NumberCount
           tried == {k \in 0..(NumberCount - 2) : table[At(k)] = NoFd}
<1>1. nextClient \in Numbers /\ NumberCount \in Nat /\ NumberCount > 0
  BY WebSocketsAssumption DEF TypeOK
<1>2. /\ \A k \in Numbers : At(k) \in Numbers
      /\ \A n \in Numbers : \E k \in Numbers : n = At(k)
  BY <1>1, Around
<1>3. \E n \in Numbers : table[n] = NoFd
  <2> SUFFICES ASSUME \A n \in Numbers : table[n] # NoFd
               PROVE  FALSE
    OBVIOUS
  <2>1. \A n \in Numbers : table[n] \in Fds \ {c} /\ number[table[n]] = n
    <3>1. \A n \in Numbers : table[n] \in Fds
      BY DEF TypeOK
    <3>2. "request" \notin Numbered
      BY DEF Numbered
    <3> QED BY <3>1, <3>2 DEF TableTrue
  <2>2. table \in [Numbers -> Fds \ {c}]
    BY <2>1 DEF TypeOK
  <2>3. IsFiniteSet(Fds \ {c}) /\ Cardinality(Fds \ {c}) = Cardinality(Fds) - 1
        /\ Cardinality(Fds) \in Nat
    BY EnoughNumbers, FS_RemoveElement, FS_CardinalityType
  <2>4. IsFiniteSet(Numbers) /\ Cardinality(Numbers) = NumberCount
    BY <1>1, FS_Interval DEF Numbers
  <2>5. Cardinality(Fds \ {c}) < Cardinality(Numbers)
    BY <1>1, <2>3, <2>4, EnoughNumbers
  <2>6. \E m, n \in Numbers : m # n /\ table[m] = table[n]
    BY <2>2, <2>3, <2>4, <2>5, FS_PigeonHole
  <2> QED BY <2>1, <2>6
<1>4. CASE tried = {}
  <2>1. NumberFrom(nextClient) = NumberCount - 1
    BY <1>4 DEF NumberFrom
  <2>2. PICK k \in Numbers : table[At(k)] = NoFd
    BY <1>2, <1>3
  <2>3. k \notin 0..(NumberCount - 2)
    BY <1>4, <2>2
  <2>4. k = NumberCount - 1
    BY <1>1, <2>3 DEF Numbers
  <2> HIDE DEF At
  <2>5. At(NumberCount - 1) \in Numbers /\ table[At(NumberCount - 1)] = NoFd
    BY <1>2, <2>2, <2>4
  <2> QED BY <2>1, <2>5 DEF At
<1>5. CASE tried # {}
  <2>1. tried \in SUBSET Nat
    BY <1>1
  <2>2. PICK k \in tried : \A j \in tried : k <= j
    BY <1>5, <2>1, LeastOf
  <2>3. NumberFrom(nextClient) \in tried
    BY <1>5, <2>2 DEF NumberFrom
  <2>4. NumberFrom(nextClient) \in Numbers
    BY <1>1, <2>3 DEF Numbers
  <2> QED BY <1>2, <2>3, <2>4
<1> QED BY <1>4, <1>5

-----------------------------------------------------------------------------
(* Every step keeps the invariant.                                         *)

LEMMA ServerInit == Init => ServerInv
<1> SUFFICES ASSUME Init
             PROVE  ServerInv
  OBVIOUS
<1>1. 0 \in Numbers /\ 0 \in 0..MaxArrivals
  BY WebSocketsAssumption DEF Numbers
<1>2. \A c \in Fds : stage[c] = "out" /\ serial[c] = 0
  BY DEF Init
<1>3. pending \in Seq(Events) /\ Len(pending) = 0 /\ DOMAIN pending = {}
  BY DEF Init
<1>4. TypeOK
  BY <1>1, <1>3 DEF Init, TypeOK, Stages
<1>5. SerialsTheirOwn
  BY <1>1, <1>2 DEF Init, SerialsTheirOwn
<1>6. TableTrue /\ ShutDown
  BY <1>2 DEF Init, TableTrue, ShutDown, Numbered, WithThread
<1>7. EventsTrue /\ CallerTrue
  BY <1>3 DEF Init, EventsTrue, CallerTrue
<1> QED BY <1>4, <1>5, <1>6, <1>7 DEF ServerInv

LEMMA TypeStep == ServerInv /\ [Next]_vars => TypeOK'
<1> SUFFICES ASSUME TypeOK, TableTrue, SerialsTheirOwn, [Next]_vars
             PROVE  TypeOK'
  BY DEF ServerInv
<1> USE DEF TypeOK, Stage, serverVars, connVars, tableVars, toldVars, Stages, WithThread, Closing
<1>a. /\ NumberCount \in Nat /\ NumberCount > 0 /\ 0 \in Numbers
      /\ MaxArrivals \in Nat /\ 0 \in 0..MaxArrivals /\ arrivals \in Nat
  BY WebSocketsAssumption DEF Numbers
<1>b. ASSUME NEW c \in Fds, NEW kind \in EventKinds, stage[c] # "out"
      PROVE  Append(pending, Event(kind, c)) \in Seq(Events) /\ serial[c] \in Serials
  <2>1. serial[c] \in Serials /\ number[c] \in Numbers
    BY <1>a, <1>b DEF SerialsTheirOwn, Serials
  <2>2. Event(kind, c) \in Events
    BY <2>1 DEF Event, Events
  <2> QED BY <2>1, <2>2
<1>1. ASSUME NEW c \in Fds, Arrive(c)
      PROVE  TypeOK'
  <2>1. arrivals + 1 \in 0..MaxArrivals
    BY <1>a, <1>1 DEF Arrive
  <2> QED BY <1>1, <2>1 DEF Arrive
<1>2. ASSUME NEW c \in Fds, Accept(c)
      PROVE  TypeOK'
  BY <1>2 DEF Accept
<1>3. CASE AcceptFails \/ LookActive
  BY <1>3 DEF AcceptFails, LookActive
<1>4. ASSUME NEW c \in Fds, Refuse(c)
      PROVE  TypeOK'
  BY <1>a, <1>4 DEF Refuse
<1>5. ASSUME NEW c \in Fds, AddClient(c)
      PROVE  TypeOK'
  <2> DEFINE num == (nextClient + NumberFrom(nextClient)) % NumberCount
  <2>1. num \in Numbers
    BY <1>5, NumberIsFree DEF AddClient
  <2>2. (num + 1) % NumberCount \in Numbers
    <3>1. \A n \in Numbers : (n + 1) % NumberCount \in Numbers
      BY <1>a DEF Numbers
    <3> HIDE DEF num
    <3> QED BY <2>1, <3>1
  <2>3. /\ table' = [table EXCEPT ![num] = c] /\ number' = [number EXCEPT ![c] = num]
        /\ nextClient' = (num + 1) % NumberCount
    BY <1>5 DEF AddClient
  <2> HIDE DEF num
  <2> QED BY <1>5, <2>1, <2>2, <2>3 DEF AddClient
<1>6. ASSUME NEW c \in Fds, QueueConnected(c)
      PROVE  TypeOK'
  <2>1. pending' \in Seq(Events)
    BY <1>6, <1>b DEF QueueConnected, EventKinds
  <2> QED BY <1>6, <2>1 DEF QueueConnected, ReadOn
<1>7. ASSUME NEW c \in Fds, ReadMessage(c)
      PROVE  TypeOK'
  <2>1. pending' \in Seq(Events) /\ serial[c] \in Serials
    BY <1>7, <1>b DEF ReadMessage, EventKinds
  <2>2. said' \in [Serials -> Nat]
    <3>1. said' = [said EXCEPT ![serial[c]] = said[serial[c]] + 1]
      BY <1>7 DEF ReadMessage
    <3>2. said[serial[c]] + 1 \in Nat
      BY <2>1
    <3> QED BY <3>1, <3>2
  <2> QED BY <1>7, <2>1, <2>2 DEF ReadMessage, ReadOn
<1>8. ASSUME NEW c \in Fds, QueueDisconnected(c)
      PROVE  TypeOK'
  <2>1. pending' \in Seq(Events)
    BY <1>8, <1>b DEF QueueDisconnected, EventKinds
  <2> QED BY <1>8, <2>1 DEF QueueDisconnected
<1>9. ASSUME NEW c \in Fds, RemoveClient(c)
      PROVE  TypeOK'
  BY <1>a, <1>9 DEF RemoveClient
<1>10. CASE Begin
  BY <1>10 DEF Begin
<1>11. CASE Deliver
  <2> DEFINE e == Head(pending)
  <2>1. e \in Events /\ pending' \in Seq(Events)
    BY <1>11 DEF Deliver
  <2> HIDE DEF e
  <2>2. e.num \in Numbers /\ e.of \in Serials /\ e.of \in 0..MaxArrivals
    BY <1>a, <2>1 DEF Events, Serials
  <2> USE DEF e
  <2>3. e.kind \in EventKinds /\ Told(e)
    BY <1>11, <2>1 DEF Deliver, Events
  <2> HIDE DEF e
  <2>4. heard' \in [Serials -> Nat] /\ met' \subseteq Serials /\ caller' \in [Numbers -> 0..MaxArrivals]
    <3>1. CASE e.kind = "connected"
      BY <2>2, <2>3, <3>1 DEF Told
    <3>2. CASE e.kind = "message"
      <4>1. heard[e.of] + 1 \in Nat /\ heard' = [heard EXCEPT ![e.of] = heard[e.of] + 1]
        BY <2>2, <2>3, <3>2 DEF Told
      <4> QED BY <2>2, <2>3, <3>2, <4>1 DEF Told
    <3>3. CASE e.kind = "disconnected"
      BY <1>a, <2>2, <2>3, <3>3 DEF Told
    <3> QED BY <2>3, <3>1, <3>2, <3>3 DEF EventKinds
  <2> QED BY <1>11, <2>1, <2>4 DEF Deliver
<1>12. CASE CloseBegins \/ ClearTable \/ JoinThreads
  BY <1>12 DEF CloseBegins, ClearTable, JoinThreads
<1>13. CASE CloseListener
  BY <1>a, <1>13 DEF CloseListener
<1>14. CASE DropEvents
  <2>1. 1..arrivals \subseteq Serials
    BY <1>a DEF Serials
  <2> QED BY <1>a, <1>14, <2>1 DEF DropEvents
<1>15. CASE UNCHANGED vars
  BY <1>15 DEF vars
<1> QED
  BY <1>1, <1>2, <1>3, <1>4, <1>5, <1>6, <1>7, <1>8, <1>9, <1>10, <1>11, <1>12, <1>13, <1>14,
     <1>15 DEF Next, FirmwareStep, CloseStep, ThreadStep

LEMMA SerialsStep == ServerInv /\ [Next]_vars => SerialsTheirOwn'
<1> SUFFICES ASSUME ServerInv, [Next]_vars
             PROVE  SerialsTheirOwn'
  OBVIOUS
<1> USE DEF SerialsTheirOwn, Stage, serverVars, connVars, tableVars, toldVars
<1>a. TypeOK /\ SerialsTheirOwn /\ MaxArrivals \in Nat
  BY WebSocketsAssumption DEF ServerInv
<1>b. /\ stage \in [Fds -> Stages] /\ serial \in [Fds -> 0..MaxArrivals]
      /\ arrivals \in Nat
  BY <1>a DEF TypeOK
<1>1. ASSUME NEW c \in Fds, Arrive(c)
      PROVE  SerialsTheirOwn'
  <2>1. /\ arrivals' = arrivals + 1 /\ serial' = [serial EXCEPT ![c] = arrivals + 1]
        /\ stage' = [stage EXCEPT ![c] = "backlog"]
    BY <1>1 DEF Arrive
  <2>2. /\ \A d \in Fds : serial'[d] = IF d = c THEN arrivals + 1 ELSE serial[d]
        /\ \A d \in Fds : stage'[d] = IF d = c THEN "backlog" ELSE stage[d]
    BY <1>b, <2>1
  <2>3. \A d \in Fds : serial[d] <= arrivals /\ serial[d] \in Nat
    BY <1>a, <1>b
  <2> QED BY <1>a, <1>b, <2>1, <2>2, <2>3
<1>2. ASSUME NEW c \in Fds,
             stage[c] # "out", stage' = [stage EXCEPT ![c] = stage'[c]], stage'[c] # "out",
             UNCHANGED <<serial, arrivals>>
      PROVE  SerialsTheirOwn'
  <2>1. \A d \in Fds : stage'[d] = "out" <=> stage[d] = "out"
    BY <1>b, <1>2
  <2> QED BY <1>a, <1>2, <2>1
<1>3. ASSUME NEW c \in Fds,
             stage' = [stage EXCEPT ![c] = "out"], serial' = [serial EXCEPT ![c] = 0],
             UNCHANGED arrivals
      PROVE  SerialsTheirOwn'
  BY <1>a, <1>b, <1>3
<1>4. CASE CloseListener
  BY <1>a, <1>b, <1>4 DEF CloseListener
<1>5. CASE UNCHANGED <<stage, serial, arrivals>>
  BY <1>a, <1>5
<1>6. ASSUME NEW c \in Fds, Accept(c)
      PROVE  SerialsTheirOwn'
  BY <1>b, <1>2, <1>6 DEF Accept
<1>7. ASSUME NEW c \in Fds, AddClient(c) \/ QueueDisconnected(c)
      PROVE  SerialsTheirOwn'
  BY <1>b, <1>2, <1>7 DEF AddClient, QueueDisconnected
<1>8. ASSUME NEW c \in Fds, QueueConnected(c) \/ ReadMessage(c)
      PROVE  SerialsTheirOwn'
  BY <1>b, <1>2, <1>8 DEF QueueConnected, ReadMessage, ReadOn
<1>9. ASSUME NEW c \in Fds, Refuse(c) \/ RemoveClient(c)
      PROVE  SerialsTheirOwn'
  BY <1>3, <1>9 DEF Refuse, RemoveClient
<1>10. CASE AcceptFails \/ LookActive \/ Begin \/ Deliver \/ CloseBegins \/ ClearTable
            \/ JoinThreads \/ DropEvents \/ UNCHANGED vars
  BY <1>5, <1>10 DEF AcceptFails, LookActive, Begin, Deliver, CloseBegins, ClearTable,
                     JoinThreads, DropEvents, vars
<1> QED
  BY <1>1, <1>4, <1>6, <1>7, <1>8, <1>9, <1>10 DEF Next, FirmwareStep, CloseStep, ThreadStep

LEMMA TableStep == ServerInv /\ [Next]_vars => TableTrue'
<1> SUFFICES ASSUME ServerInv, [Next]_vars
             PROVE  TableTrue'
  OBVIOUS
<1> USE DEF TableTrue, Tracked, Stage, serverVars, connVars, tableVars, toldVars
<1>a. TypeOK /\ TableTrue /\ ShutDown /\ NoFd \notin Fds
  BY WebSocketsAssumption DEF ServerInv
<1>b. /\ stage \in [Fds -> Stages] /\ number \in [Fds -> Numbers]
      /\ table \in [Numbers -> Fds \cup {NoFd}]
  BY <1>a DEF TypeOK
<1>1. ASSUME \A d \in Fds : stage'[d] \in Numbered <=> stage[d] \in Numbered,
             UNCHANGED <<table, number>>, Tracked' => Tracked
      PROVE  TableTrue'
  <2>1. \A n \in Numbers : table[n] # NoFd => table[n] \in Fds
    BY <1>b
  <2> QED BY <1>a, <1>1, <2>1
<1>2. ASSUME NEW c \in Fds, AddClient(c)
      PROVE  TableTrue'
  <2>1. PICK num \in Numbers :
          /\ table[num] = NoFd
          /\ table' = [table EXCEPT ![num] = c] /\ number' = [number EXCEPT ![c] = num]
    BY <1>a, <1>2, NumberIsFree DEF AddClient
  <2>2. /\ stage' = [stage EXCEPT ![c] = "numbered"] /\ stage[c] = "request"
        /\ firmware' = firmware
    BY <1>2 DEF AddClient
  <2>3. stage[c] \notin Numbered /\ stage'[c] \in Numbered
    BY <1>b, <2>2 DEF Numbered
  <2>4. \A d \in Fds \ {c} : stage'[d] = stage[d] /\ number'[d] = number[d]
    BY <1>b, <2>1, <2>2
  <2>5. \A n \in Numbers \ {num} : table'[n] = table[n]
    BY <1>b, <2>1
  <2>6. table'[num] = c /\ number'[c] = num
    BY <1>b, <2>1
  <2>7. ASSUME NEW n \in Numbers, table'[n] # NoFd
        PROVE  stage'[table'[n]] \in Numbered /\ number'[table'[n]] = n
    <3>1. CASE n = num
      BY <2>3, <2>6, <3>1
    <3>2. CASE n # num
      <4>1. table[n] \in Fds /\ stage[table[n]] \in Numbered /\ number[table[n]] = n
        BY <1>a, <1>b, <2>5, <2>7, <3>2
      <4> QED BY <2>3, <2>4, <2>5, <3>2, <4>1
    <3> QED BY <3>1, <3>2
  <2>8. ASSUME Tracked, NEW d \in Fds, stage'[d] \in Numbered
        PROVE  table'[number'[d]] = d
    <3>1. CASE d = c
      BY <2>6, <3>1
    <3>2. CASE d # c
      <4>1. table[number[d]] = d /\ number[d] \in Numbers \ {num}
        BY <1>a, <1>b, <2>1, <2>4, <2>8, <3>2
      <4> QED BY <2>4, <2>5, <3>2, <4>1
    <3> QED BY <3>1, <3>2
  <2> QED BY <2>2, <2>7, <2>8
<1>3. ASSUME NEW c \in Fds, RemoveClient(c)
      PROVE  TableTrue'
  <2>1. /\ table' = [table EXCEPT ![number[c]] = NoFd] /\ number' = [number EXCEPT ![c] = 0]
        /\ stage' = [stage EXCEPT ![c] = "out"] /\ stage[c] \in Numbered
        /\ firmware' = firmware
    BY <1>3 DEF RemoveClient, Numbered
  <2>2. \A d \in Fds \ {c} : stage'[d] = stage[d] /\ number'[d] = number[d]
    BY <1>b, <2>1
  <2>3. stage'[c] \notin Numbered
    BY <1>b, <2>1 DEF Numbered
  <2>4. /\ \A n \in Numbers \ {number[c]} : table'[n] = table[n]
        /\ number[c] \in Numbers /\ table'[number[c]] = NoFd
    BY <1>b, <2>1
  <2>5. ASSUME NEW n \in Numbers, table'[n] # NoFd
        PROVE  stage'[table'[n]] \in Numbered /\ number'[table'[n]] = n
    <3>1. table'[n] = table[n] /\ n # number[c]
      BY <2>4, <2>5
    <3>2. table[n] \in Fds /\ stage[table[n]] \in Numbered /\ number[table[n]] = n
      BY <1>a, <1>b, <2>5, <3>1
    <3> QED BY <2>2, <3>1, <3>2
  <2>6. ASSUME Tracked, NEW d \in Fds, stage'[d] \in Numbered
        PROVE  table'[number'[d]] = d
    <3>1. d # c /\ stage[d] \in Numbered
      BY <2>2, <2>3, <2>6
    <3>2. table[number[d]] = d /\ table[number[c]] = c
      BY <1>a, <2>1, <2>6, <3>1
    <3>3. number[d] \in Numbers \ {number[c]}
      BY <1>b, <3>1, <3>2
    <3> QED BY <2>2, <2>4, <3>1, <3>2, <3>3
  <2> QED BY <2>1, <2>5, <2>6
<1>4. ASSUME NEW c \in Fds, Arrive(c) \/ Accept(c) \/ Refuse(c) \/ QueueConnected(c)
                              \/ ReadMessage(c) \/ QueueDisconnected(c)
      PROVE  TableTrue'
  <2>1. /\ stage' = [stage EXCEPT ![c] = stage'[c]] /\ (stage'[c] \in Numbered <=> stage[c] \in Numbered)
        /\ UNCHANGED <<table, number, firmware>>
    BY <1>b, <1>4 DEF Arrive, Accept, Refuse, QueueConnected, ReadMessage, QueueDisconnected,
                      ReadOn, Numbered
  <2>2. \A d \in Fds : stage'[d] \in Numbered <=> stage[d] \in Numbered
    BY <1>b, <2>1
  <2> QED BY <1>1, <2>1, <2>2
<1>5. CASE CloseListener
  <2>1. \A d \in Fds : stage'[d] \in Numbered <=> stage[d] \in Numbered
    BY <1>b, <1>5 DEF CloseListener, Numbered
  <2> QED BY <1>1, <1>5, <2>1 DEF CloseListener
<1>6. CASE ClearTable
  BY <1>6 DEF ClearTable
<1>7. CASE DropEvents
  <2>1. \A d \in Fds : stage[d] \notin Numbered
    BY <1>a, <1>7 DEF DropEvents, ShutDown, Numbered, WithThread
  <2> QED BY <1>a, <1>7, <2>1 DEF DropEvents
<1>8. CASE AcceptFails \/ LookActive \/ Begin \/ Deliver \/ CloseBegins \/ JoinThreads
           \/ UNCHANGED vars
  BY <1>a, <1>8 DEF AcceptFails, LookActive, Begin, Deliver, CloseBegins, JoinThreads, vars
<1> QED
  BY <1>2, <1>3, <1>4, <1>5, <1>6, <1>7, <1>8 DEF Next, FirmwareStep, CloseStep, ThreadStep

LEMMA ShutDownStep == ServerInv /\ [Next]_vars => ShutDown'
<1> SUFFICES ASSUME ServerInv, [Next]_vars
             PROVE  ShutDown'
  OBVIOUS
<1> USE DEF ShutDown, Stage, serverVars, connVars, tableVars, toldVars
<1>a. TypeOK /\ ShutDown
  BY DEF ServerInv
<1>b. stage \in [Fds -> Stages] /\ active \in BOOLEAN /\ listening \in BOOLEAN
      /\ firmware \in {"idle"} \cup Closing
  BY <1>a DEF TypeOK
<1>1. ASSUME NEW c \in Fds, Arrive(c)
      PROVE  ShutDown'
  BY <1>a, <1>b, <1>1 DEF Arrive, WithThread
<1>2. ASSUME NEW c \in Fds, Accept(c)
      PROVE  ShutDown'
  <2>1. accepter = "accepting" /\ listening
    BY <1>2 DEF Accept
  <2> QED BY <1>a, <1>b, <1>2, <2>1 DEF Accept
<1>3. ASSUME NEW c \in Fds, ThreadStep(c)
      PROVE  ShutDown'
  <2>1. /\ stage[c] \in WithThread /\ stage' = [stage EXCEPT ![c] = stage'[c]]
        /\ stage'[c] # "backlog"
        /\ UNCHANGED <<active, listening, accepter, firmware>>
    BY <1>b, <1>3 DEF ThreadStep, Refuse, AddClient, QueueConnected, ReadMessage,
                      QueueDisconnected, RemoveClient, ReadOn, WithThread
  <2> QED BY <1>a, <1>b, <2>1
<1>4. CASE AcceptFails
  BY <1>a, <1>4 DEF AcceptFails
<1>5. CASE LookActive
  BY <1>a, <1>5 DEF LookActive
<1>6. CASE Begin \/ Deliver \/ CloseBegins
  BY <1>a, <1>6 DEF Begin, Deliver, CloseBegins
<1>7. CASE CloseListener
  <2>1. \A c \in Fds : stage'[c] # "backlog"
    BY <1>7 DEF CloseListener
  <2> QED BY <1>a, <1>7, <2>1 DEF CloseListener
<1>8. CASE ClearTable \/ JoinThreads \/ DropEvents
  BY <1>a, <1>8 DEF ClearTable, JoinThreads, DropEvents
<1>9. CASE UNCHANGED vars
  BY <1>a, <1>9 DEF vars
<1> QED
  BY <1>1, <1>2, <1>3, <1>4, <1>5, <1>6, <1>7, <1>8, <1>9 DEF Next, FirmwareStep, CloseStep

\* MeaningsLast: what a number means and that a connection is over stay true.
LEMMA MeaningsLast ==
  ASSUME ServerInv, [Next]_vars, NEW s \in Serials
  PROVE  /\ \A n \in Numbers : Means(n, s) => Means(n, s)'
         /\ Over(s) => Over(s)'
<1> USE DEF Means, Over, Stage, serverVars, connVars, tableVars, toldVars
<1>a. TypeOK /\ SerialsTheirOwn /\ s # 0 /\ s \in Nat
  BY WebSocketsAssumption DEF ServerInv, Serials
<1>b. /\ stage \in [Fds -> Stages] /\ number \in [Fds -> Numbers]
      /\ serial \in [Fds -> 0..MaxArrivals] /\ arrivals \in Nat
  BY <1>a, WebSocketsAssumption DEF TypeOK
<1>1. ASSUME NEW c \in Fds, Arrive(c)
      PROVE  /\ \A n \in Numbers : Means(n, s) => Means(n, s)'
             /\ Over(s) => Over(s)'
  <2>1. /\ arrivals' = arrivals + 1 /\ serial' = [serial EXCEPT ![c] = arrivals + 1]
        /\ stage' = [stage EXCEPT ![c] = "backlog"] /\ number' = number
    BY <1>1 DEF Arrive
  <2>2. /\ \A d \in Fds \ {c} : serial'[d] = serial[d] /\ stage'[d] = stage[d]
        /\ serial'[c] = arrivals + 1
    BY <1>b, <2>1
  <2>3. s <= arrivals => s # serial'[c] /\ s <= arrivals + 1
    BY <1>a, <1>b, <2>2
  <2> QED BY <2>1, <2>2, <2>3
<1>2. ASSUME NEW c \in Fds, Refuse(c) \/ RemoveClient(c)
      PROVE  /\ \A n \in Numbers : Means(n, s) => Means(n, s)'
             /\ Over(s) => Over(s)'
  <2>1. /\ serial' = [serial EXCEPT ![c] = 0] /\ stage' = [stage EXCEPT ![c] = "out"]
        /\ number' = [number EXCEPT ![c] = number'[c]] /\ arrivals' = arrivals
    BY <1>b, <1>2 DEF Refuse, RemoveClient
  <2>2. /\ \A d \in Fds \ {c} : serial'[d] = serial[d] /\ stage'[d] = stage[d]
                                /\ number'[d] = number[d]
        /\ serial'[c] # s
    BY <1>a, <1>b, <2>1
  <2> QED BY <2>1, <2>2
<1>3. CASE CloseListener
  <2>1. \A c \in Fds : serial'[c] = s => serial[c] = s /\ stage'[c] = stage[c]
    BY <1>a, <1>b, <1>3 DEF CloseListener
  <2> QED BY <1>3, <2>1 DEF CloseListener
<1>4. ASSUME NEW c \in Fds, Accept(c) \/ AddClient(c)
      PROVE  /\ \A n \in Numbers : Means(n, s) => Means(n, s)'
             /\ Over(s) => Over(s)'
  <2>1. /\ stage[c] \in {"backlog", "request"} /\ stage' = [stage EXCEPT ![c] = stage'[c]]
        /\ number' = [number EXCEPT ![c] = number'[c]]
        /\ UNCHANGED <<serial, arrivals>>
    BY <1>b, <1>4 DEF Accept, AddClient
  <2>2. \A d \in Fds \ {c} : stage'[d] = stage[d] /\ number'[d] = number[d]
    BY <1>b, <2>1
  <2>3. stage[c] \notin Announced /\ stage[c] \notin {"out", "goodbye"}
    BY <2>1 DEF Announced
  <2> QED BY <2>1, <2>2, <2>3
<1>5. ASSUME NEW c \in Fds, QueueConnected(c) \/ ReadMessage(c) \/ QueueDisconnected(c)
      PROVE  /\ \A n \in Numbers : Means(n, s) => Means(n, s)'
             /\ Over(s) => Over(s)'
  <2>1. /\ stage[c] \in {"numbered", "open", "leaving"}
        /\ stage' = [stage EXCEPT ![c] = stage'[c]] /\ stage'[c] \in Announced
        /\ UNCHANGED <<number, serial, arrivals>>
    BY <1>b, <1>5 DEF QueueConnected, ReadMessage, QueueDisconnected, ReadOn, Announced
  <2>2. \A d \in Fds \ {c} : stage'[d] = stage[d]
    BY <1>b, <2>1
  <2>3. stage[c] \notin {"out", "goodbye"}
    BY <2>1
  <2> QED BY <2>1, <2>2, <2>3
<1>6. CASE AcceptFails \/ LookActive \/ Begin \/ Deliver \/ CloseBegins \/ ClearTable
           \/ JoinThreads \/ DropEvents \/ UNCHANGED vars
  <2>1. UNCHANGED <<stage, number, serial, arrivals>>
    BY <1>6 DEF AcceptFails, LookActive, Begin, Deliver, CloseBegins, ClearTable,
                JoinThreads, DropEvents, vars
  <2> QED BY <2>1
<1> QED
  BY <1>1, <1>2, <1>3, <1>4, <1>5, <1>6 DEF Next, FirmwareStep, CloseStep, ThreadStep

\* EventIsTrue: what a connection queues is about itself.
LEMMA EventIsTrue ==
  ASSUME ServerInv, [Next]_vars, NEW c \in Fds, NEW kind \in EventKinds,
         NEW e, e = Event(kind, c),
         stage[c] # "out", serial'[c] = serial[c], number'[c] = number[c],
         stage'[c] \in Announced, kind = "disconnected" => stage'[c] = "goodbye"
  PROVE  EventTrue(e)'
<1>1. SerialsTheirOwn /\ SerialsTheirOwn'
  BY SerialsStep DEF ServerInv
<1>2. e.num = number'[c] /\ e.of = serial'[c] /\ e.kind = kind /\ serial'[c] # 0
  BY <1>1 DEF Event, SerialsTheirOwn
<1>3. \A d \in Fds : serial'[d] = e.of => d = c
  BY <1>1, <1>2 DEF SerialsTheirOwn
<1>4. e.of <= arrivals'
  BY <1>1, <1>2 DEF SerialsTheirOwn
<1> QED BY <1>2, <1>3, <1>4 DEF EventTrue, Means, Over

LEMMA EventsStep == ServerInv /\ [Next]_vars => EventsTrue'
<1> SUFFICES ASSUME ServerInv, [Next]_vars
             PROVE  EventsTrue'
  OBVIOUS
<1> USE DEF Stage, serverVars, connVars, tableVars, toldVars
<1>a. pending \in Seq(Events) /\ EventsTrue
  BY DEF ServerInv, TypeOK
<1>b. \A e \in Events : EventTrue(e) => EventTrue(e)'
  <2> SUFFICES ASSUME NEW e \in Events, EventTrue(e)
               PROVE  EventTrue(e)'
    OBVIOUS
  <2>1. e.num \in Numbers /\ e.of \in Serials
    BY DEF Events
  <2> QED BY <2>1, MeaningsLast DEF EventTrue
<1>1. CASE pending' = pending
  <2> SUFFICES ASSUME NEW i \in 1 .. Len(pending')
               PROVE  EventTrue(pending[i])'
    BY DEF EventsTrue
  <2>1. pending'[i] \in Events /\ EventTrue(pending'[i])
    BY <1>a, <1>1 DEF EventsTrue
  <2> QED BY <1>b, <2>1
<1>2. CASE Deliver
  <2> SUFFICES ASSUME NEW i \in 1 .. Len(pending')
               PROVE  EventTrue(pending[i])'
    BY DEF EventsTrue
  <2>1. i + 1 \in 1 .. Len(pending) /\ pending'[i] = pending[i + 1]
    BY <1>a, <1>2 DEF Deliver
  <2>2. pending'[i] \in Events /\ EventTrue(pending'[i])
    BY <1>a, <2>1 DEF EventsTrue
  <2> QED BY <1>b, <2>2
<1>3. ASSUME NEW c \in Fds, NEW kind \in EventKinds, stage[c] # "out",
             serial'[c] = serial[c], number'[c] = number[c], stage'[c] \in Announced,
             kind = "disconnected" => stage'[c] = "goodbye",
             pending' = Append(pending, Event(kind, c))
      PROVE  EventsTrue'
  <2>1. PICK e : e = Event(kind, c)
    OBVIOUS
  <2>2. EventTrue(e)'
    BY <1>3, <2>1, EventIsTrue
  <2> SUFFICES ASSUME NEW i \in 1 .. Len(pending')
               PROVE  EventTrue(pending[i])'
    BY DEF EventsTrue
  <2>3. CASE i = Len(pending')
    <3>1. pending'[i] = e
      BY <1>3, <1>a, <2>1, <2>3
    <3> QED BY <2>2, <3>1
  <2>4. CASE i # Len(pending')
    <3>1. i \in 1 .. Len(pending) /\ pending'[i] = pending[i]
      BY <1>3, <1>a, <2>4
    <3>2. pending'[i] \in Events /\ EventTrue(pending'[i])
      BY <1>a, <3>1 DEF EventsTrue
    <3> QED BY <1>b, <3>2
  <2> QED BY <2>3, <2>4
<1>c. stage \in [Fds -> Stages] /\ number \in [Fds -> Numbers]
  BY DEF ServerInv, TypeOK
<1>4. ASSUME NEW c \in Fds, QueueConnected(c)
      PROVE  EventsTrue'
  <2>1. stage'[c] \in Announced
    BY <1>4, <1>c DEF QueueConnected, ReadOn, Announced
  <2> QED BY <1>3, <1>4, <2>1 DEF QueueConnected, EventKinds
<1>5. ASSUME NEW c \in Fds, ReadMessage(c)
      PROVE  EventsTrue'
  <2>1. stage'[c] \in Announced
    BY <1>5, <1>c DEF ReadMessage, ReadOn, Announced
  <2> QED BY <1>3, <1>5, <2>1 DEF ReadMessage, EventKinds
<1>6. ASSUME NEW c \in Fds, QueueDisconnected(c)
      PROVE  EventsTrue'
  <2>1. stage'[c] = "goodbye" /\ stage[c] # "out"
    BY <1>6, <1>c DEF QueueDisconnected
  <2> QED BY <1>3, <1>6, <2>1 DEF QueueDisconnected, EventKinds, Announced
<1>7. CASE DropEvents
  BY <1>7 DEF DropEvents, EventsTrue
<1>8. CASE pending' # pending
  <2>1. Deliver \/ DropEvents
        \/ \E c \in Fds : QueueConnected(c) \/ ReadMessage(c) \/ QueueDisconnected(c)
    BY <1>8 DEF Next, FirmwareStep, CloseStep, ThreadStep, vars, Begin, CloseBegins,
                CloseListener, ClearTable, JoinThreads, AcceptFails, LookActive, Arrive,
                Accept, Refuse, AddClient, RemoveClient
  <2> QED BY <1>2, <1>4, <1>5, <1>6, <1>7, <2>1
<1> QED BY <1>1, <1>8

LEMMA CallerStep == ServerInv /\ [Next]_vars => CallerTrue'
<1> SUFFICES ASSUME ServerInv, [Next]_vars
             PROVE  CallerTrue'
  OBVIOUS
<1>a. CallerTrue /\ caller \in [Numbers -> 0..MaxArrivals] /\ MaxArrivals \in Nat
  BY WebSocketsAssumption DEF ServerInv, TypeOK
<1>b. \A n \in Numbers, s \in Serials : Means(n, s) => Means(n, s)'
  BY MeaningsLast
<1>1. ASSUME NEW n \in Numbers, caller'[n] = caller[n], caller[n] # 0
      PROVE  Means(n, caller[n])'
  <2>1. caller'[n] \in Serials /\ Means(n, caller'[n])
    BY <1>a, <1>1 DEF CallerTrue, Serials
  <2> QED BY <1>b, <2>1
<1>2. CASE caller' = caller
  BY <1>1, <1>2 DEF CallerTrue
<1>3. CASE Deliver
  <2> DEFINE e == Head(pending)
  <2>1. e \in Events /\ Told(e) /\ Means(e.num, e.of)
    <3>1. pending \in Seq(Events) /\ EventsTrue
      BY DEF ServerInv, TypeOK
    <3>2. 1 \in 1 .. Len(pending) /\ e = pending[1]
      BY <1>3, <3>1 DEF Deliver
    <3> QED BY <1>3, <3>1, <3>2 DEF Deliver, EventsTrue, EventTrue
  <2> HIDE DEF e
  <2>2. e.num \in Numbers /\ e.of \in Serials /\ e.kind \in EventKinds
    BY <2>1 DEF Events
  <2>3. CASE e.kind = "connected"
    <3>1. caller' = [caller EXCEPT ![e.num] = e.of]
      BY <2>1, <2>3 DEF Told
    <3> SUFFICES ASSUME NEW n \in Numbers, caller'[n] # 0
                 PROVE  Means(n, caller[n])'
      BY DEF CallerTrue
    <3>2. CASE n = e.num
      <4>1. caller'[n] = e.of
        BY <1>a, <2>2, <3>1, <3>2
      <4>2. caller'[n] \in Serials /\ Means(n, caller'[n])
        BY <2>1, <2>2, <3>2, <4>1
      <4> QED BY <1>b, <4>2
    <3>3. CASE n # e.num
      BY <1>1, <1>a, <3>1, <3>3
    <3> QED BY <3>2, <3>3
  <2>4. CASE e.kind = "message"
    BY <1>2, <2>1, <2>4 DEF Told
  <2>5. CASE e.kind = "disconnected"
    <3>1. caller' = [caller EXCEPT ![e.num] = 0]
      BY <2>1, <2>5 DEF Told
    <3>2. \A n \in Numbers : caller'[n] # 0 => caller'[n] = caller[n]
      BY <1>a, <2>2, <3>1
    <3> QED BY <1>1, <3>2 DEF CallerTrue
  <2> QED BY <2>2, <2>3, <2>4, <2>5 DEF EventKinds
<1>4. CASE DropEvents
  BY <1>4 DEF DropEvents, CallerTrue
<1>5. CASE caller' # caller
  <2>1. Deliver \/ DropEvents
    BY <1>5 DEF Next, FirmwareStep, CloseStep, ThreadStep, vars, Begin, CloseBegins,
                CloseListener, ClearTable, JoinThreads, AcceptFails, LookActive, Arrive,
                Accept, Refuse, AddClient, RemoveClient, QueueConnected, ReadMessage,
                QueueDisconnected, connVars, tableVars, toldVars, serverVars
  <2> QED BY <1>3, <1>4, <2>1
<1> QED BY <1>2, <1>5

LEMMA ServerAlways == Spec => []ServerInv
<1>1. ServerInv /\ [Next]_vars => ServerInv'
  BY TypeStep, SerialsStep, TableStep, ShutDownStep, EventsStep, CallerStep DEF ServerInv
<1> QED BY ServerInit, <1>1, PTL DEF Spec

\* TypeCorrect: every variable keeps its type, whatever comes and goes.
THEOREM TypeCorrect == Spec => []TypeOK
<1>1. ServerInv => TypeOK
  BY DEF ServerInv
<1> QED BY <1>1, ServerAlways, PTL

\* NumberLeadsToClient: what the callback knows a client by is its number in the
\* table for as long as its thread reads from it.
THEOREM NumberLeadsToClient == Spec => []NumberReachesClient
<1>1. ServerInv => NumberReachesClient
  <2> SUFFICES ASSUME ServerInv, firmware = "idle", NEW n \in Numbers, NEW c \in Fds,
                      caller[n] # 0, serial[c] = caller[n], stage[c] = "open"
               PROVE  table[n] = c
    BY DEF NumberReachesClient
  <2>1. number[c] = n
    BY DEF ServerInv, CallerTrue, Means
  <2>2. Tracked /\ stage[c] \in Numbered
    BY DEF Tracked, Numbered
  <2> QED BY <2>1, <2>2 DEF ServerInv, TableTrue
<1> QED BY <1>1, ServerAlways, PTL

\* NothingLeftBehind: after close() no thread, client or event is left.
THEOREM NothingLeftBehind == Spec => []QuietAfterClose
<1>1. ServerInv => QuietAfterClose
  <2> SUFFICES ASSUME ServerInv, firmware = "idle", ~active
               PROVE  /\ accepter = "off" /\ ~listening
                      /\ \A c \in Fds : stage[c] \notin WithThread
                      /\ \A n \in Numbers : table[n] = NoFd
                      /\ pending = <<>>
    BY DEF QuietAfterClose
  <2>1. /\ accepter = "off" /\ ~listening /\ pending = <<>>
        /\ \A c \in Fds : stage[c] \notin WithThread
    BY DEF ServerInv, ShutDown
  <2>2. \A n \in Numbers : table[n] = NoFd
    BY <2>1 DEF ServerInv, TableTrue, TypeOK, Numbered, WithThread
  <2> QED BY <2>1, <2>2
<1> QED BY <1>1, ServerAlways, PTL

-----------------------------------------------------------------------------
(* What the callback will be told.                                         *)

\* What the callback knows: now, or once some of the events are handed to it.
Views ==
  [caller : [Numbers -> 0..MaxArrivals], heard : [Serials -> Nat], met : SUBSET Serials]

View == [caller |-> caller, heard |-> heard, met |-> met]

\* The event e may be told to a callback that knows v, and makes it know w.
Tells(v, e, w) ==
  \/ /\ e.kind = "connected"
     /\ v.caller[e.num] = 0 /\ e.of \notin v.met
     /\ w.caller = [v.caller EXCEPT ![e.num] = e.of]
     /\ w.met = v.met \cup {e.of} /\ w.heard = v.heard
  \/ /\ e.kind = "message"
     /\ v.caller[e.num] = e.of /\ v.heard[e.of] < said[e.of]
     /\ w.heard = [v.heard EXCEPT ![e.of] = v.heard[e.of] + 1]
     /\ w.caller = v.caller /\ w.met = v.met
  \/ /\ e.kind = "disconnected"
     /\ v.caller[e.num] = e.of /\ v.heard[e.of] = said[e.of]
     /\ w.caller = [v.caller EXCEPT ![e.num] = 0]
     /\ w.met = v.met /\ w.heard = v.heard

\* Once all events are told the callback knows those whose threads read from
\* them, and all that they said.
Settled(z) ==
  /\ \A s \in Serials : ~Over(s) => z.heard[s] = said[s]
  /\ \A s \in z.met : s <= arrivals
  /\ \A c \in Fds : stage[c] \in Waiting => serial[c] \notin z.met
  /\ \A c \in Fds : stage[c] \in Talking => z.caller[number[c]] = serial[c]
  /\ \A n \in Numbers : z.caller[n] # 0 =>
       \E c \in Fds : stage[c] \in Talking /\ number[c] = n /\ serial[c] = z.caller[n]

\* The views the events lead through, the first being what is known now.
Leads(h) ==
  /\ h[1] = View
  /\ \A i \in 1 .. Len(pending) : Tells(h[i], pending[i], h[i + 1])
  /\ Settled(h[Len(pending) + 1])

Promising ==
  /\ \A s \in met : s <= arrivals
  /\ \A s \in Serials : s > arrivals => said[s] = 0 /\ heard[s] = 0
  /\ Tracked => \E h \in [1 .. Len(pending) + 1 -> Views] : Leads(h)

PromiseInv == ServerInv /\ Promising

LEMMA PromiseInit == Init => PromiseInv
<1> SUFFICES ASSUME Init
             PROVE  PromiseInv
  OBVIOUS
<1>1. ServerInv /\ Len(pending) = 0
  BY ServerInit DEF Init
<1>2. View \in Views
  BY <1>1 DEF ServerInv, TypeOK, View, Views
<1>3. Settled(View)
  BY WebSocketsAssumption DEF Init, Settled, View, Talking
<1> DEFINE h == [i \in 1 .. Len(pending) + 1 |-> View]
<1>4. h \in [1 .. Len(pending) + 1 -> Views] /\ h[1] = View
  BY <1>1, <1>2
<1> HIDE DEF h
<1>5. Leads(h)
  BY <1>1, <1>3, <1>4 DEF Leads
<1>6. Promising
  BY <1>4, <1>5 DEF Promising, Init
<1> QED BY <1>1, <1>6 DEF PromiseInv

\* TellsLater: what may be told of a view may be told of it later, since what a
\* connection said only grows, and not at all once it is over.
LEMMA TellsLater ==
  ASSUME NEW v \in Views, NEW e \in Events, NEW w, Tells(v, e, w), EventTrue(e),
         said \in [Serials -> Nat], said' \in [Serials -> Nat],
         \A s \in Serials : said[s] <= said'[s] /\ (Over(s) => said'[s] = said[s])
  PROVE  Tells(v, e, w)'
<1>1. e.of \in Serials /\ v.heard \in [Serials -> Nat]
  BY DEF Events, Views
<1>2. v.heard[e.of] \in Nat /\ said[e.of] \in Nat /\ said'[e.of] \in Nat
  BY <1>1
<1>3. said[e.of] <= said'[e.of] /\ (e.kind = "disconnected" => said'[e.of] = said[e.of])
  BY <1>1 DEF EventTrue
<1>4. v.heard[e.of] < said[e.of] => v.heard[e.of] < said'[e.of]
  BY <1>2, <1>3
<1> QED BY <1>3, <1>4 DEF Tells

\* Grown: what a step makes of what was said.
LEMMA Grown ==
  ASSUME ServerInv, [Next]_vars, NEW s \in Serials
  PROVE  said[s] <= said'[s] /\ (Over(s) => said'[s] = said[s])
<1>a. said \in [Serials -> Nat] /\ said[s] \in Nat
  BY DEF ServerInv, TypeOK
<1>1. CASE said' = said
  BY <1>1, <1>a
<1>2. ASSUME NEW c \in Fds, ReadMessage(c)
      PROVE  said[s] <= said'[s] /\ (Over(s) => said'[s] = said[s])
  <2>1. said' = [said EXCEPT ![serial[c]] = said[serial[c]] + 1] /\ stage[c] = "open"
    BY <1>2 DEF ReadMessage
  <2>2. CASE s = serial[c]
    BY <1>a, <2>1, <2>2 DEF Over
  <2>3. CASE s # serial[c]
    BY <1>a, <2>1, <2>3
  <2> QED BY <2>2, <2>3
<1>3. said' = said \/ \E c \in Fds : ReadMessage(c)
  BY DEF Next, FirmwareStep, CloseStep, ThreadStep, vars, Begin, Deliver, CloseBegins,
         CloseListener, ClearTable, JoinThreads, DropEvents, AcceptFails, LookActive, Arrive,
         Accept, Refuse, AddClient, RemoveClient, QueueConnected, QueueDisconnected, connVars,
         tableVars, toldVars, serverVars
<1> QED BY <1>1, <1>2, <1>3

\* LeadsOn: a step that tells and queues nothing keeps the views, if the last of
\* them stays settled.
LEMMA LeadsOn ==
  ASSUME ServerInv, [Next]_vars, UNCHANGED <<pending, heard, met, caller>>,
         NEW h \in [1 .. Len(pending) + 1 -> Views], Leads(h),
         \A z \in Views : Settled(z) => Settled(z)'
  PROVE  Leads(h)'
<1>a. /\ pending \in Seq(Events) /\ EventsTrue /\ Len(pending) \in Nat
      /\ said \in [Serials -> Nat] /\ said' \in [Serials -> Nat]
  BY TypeStep DEF ServerInv, TypeOK
<1>1. h[1] = View'
  BY DEF Leads, View
<1>2. ASSUME NEW i \in 1 .. Len(pending)
      PROVE  Tells(h[i], pending[i], h[i + 1])'
  <2>1. /\ h[i] \in Views /\ h[i + 1] \in Views
        /\ pending[i] \in Events /\ EventTrue(pending[i])
        /\ Tells(h[i], pending[i], h[i + 1])
    BY <1>a DEF EventsTrue, Leads
  <2>2. PICK v \in Views, e \in Events, w \in Views :
          v = h[i] /\ e = pending[i] /\ w = h[i + 1] /\ EventTrue(e) /\ Tells(v, e, w)
    BY <2>1
  <2>3. Tells(v, e, w)'
    BY <1>a, <2>2, Grown, TellsLater
  <2>4. pending'[i] = e
    BY <2>2
  <2> QED BY <2>2, <2>3, <2>4 DEF Tells
<1>3. PICK z \in Views : z = h[Len(pending) + 1] /\ Settled(z)
  <2>1. Len(pending) + 1 \in 1 .. Len(pending) + 1
    BY <1>a
  <2> QED BY <2>1 DEF Leads
<1>4. Settled(z)'
  BY <1>3
<1>5. Settled(h[Len(pending) + 1])'
  BY <1>3, <1>4 DEF Settled
<1> QED BY <1>1, <1>2, <1>5 DEF Leads

\* LeadsFurther: an event that is queued and may be told last leads one further.
LEMMA LeadsFurther ==
  ASSUME ServerInv, [Next]_vars, UNCHANGED <<heard, met, caller>>,
         NEW h \in [1 .. Len(pending) + 1 -> Views], Leads(h),
         NEW e \in Events, pending' = Append(pending, e),
         NEW w \in Views, \A z \in Views : Settled(z) /\ z = h[Len(pending) + 1] =>
                            Tells(z, e, w)' /\ Settled(w)'
  PROVE  \E g \in [1 .. Len(pending') + 1 -> Views] : Leads(g)'
<1>a. /\ pending \in Seq(Events) /\ EventsTrue
      /\ said \in [Serials -> Nat] /\ said' \in [Serials -> Nat]
  BY TypeStep DEF ServerInv, TypeOK
<1>b. PICK n \in Nat : n = Len(pending)
  BY <1>a
<1>c. /\ Len(pending') = n + 1 /\ pending'[n + 1] = e
      /\ \A i \in 1 .. n : pending'[i] = pending[i]
  BY <1>a, <1>b
<1> DEFINE k == [i \in 1 .. n + 2 |-> IF i = n + 2 THEN w ELSE h[i]]
<1>d. PICK g : g = k
  OBVIOUS
<1>1. /\ g \in [1 .. n + 2 -> Views] /\ g[n + 2] = w
      /\ \A i \in 1 .. n + 1 : g[i] = h[i]
  BY <1>b, <1>d
<1> HIDE DEF k
<1>2. g[1] = View'
  BY <1>1 DEF Leads, View
<1>3. ASSUME NEW i \in 1 .. n
      PROVE  Tells(g[i], pending[i], g[i + 1])'
  <2>1. /\ h[i] \in Views /\ h[i + 1] \in Views
        /\ pending[i] \in Events /\ EventTrue(pending[i])
        /\ Tells(h[i], pending[i], h[i + 1]) /\ i + 1 \in 1 .. n + 1 /\ i \in 1 .. n + 1
    <3>1. i \in 1 .. Len(pending) /\ i \in 1 .. Len(pending) + 1
          /\ i + 1 \in 1 .. n + 1 /\ i \in 1 .. n + 1
      BY <1>b
    <3>2. pending[i] \in Events /\ EventTrue(pending[i])
      BY <1>a, <3>1 DEF EventsTrue
    <3>3. h[i] \in Views /\ h[i + 1] \in Views /\ Tells(h[i], pending[i], h[i + 1])
      BY <1>b, <3>1 DEF Leads
    <3> QED BY <3>1, <3>2, <3>3
  <2>2. PICK v \in Views, f \in Events, u \in Views :
          v = h[i] /\ f = pending[i] /\ u = h[i + 1] /\ EventTrue(f) /\ Tells(v, f, u)
    BY <2>1
  <2>3. Tells(v, f, u)'
    BY <1>a, <2>2, Grown, TellsLater
  <2>4. pending'[i] = f /\ g[i] = v /\ g[i + 1] = u
    BY <1>1, <1>c, <2>1, <2>2
  <2> QED BY <2>3, <2>4 DEF Tells
<1>4. PICK z \in Views : z = h[n + 1] /\ Settled(z)
  <2>1. Len(pending) + 1 \in 1 .. Len(pending) + 1
    BY <1>b
  <2> QED BY <1>b, <2>1 DEF Leads
<1>5. Tells(z, e, w)' /\ Settled(w)'
  BY <1>b, <1>4
<1>6. Tells(g[n + 1], pending[n + 1], g[(n + 1) + 1])'
  <2>1. g[n + 1] = z /\ (n + 1) + 1 = n + 2 /\ g[(n + 1) + 1] = w
    BY <1>1, <1>4
  <2> QED BY <1>5, <1>c, <2>1 DEF Tells
<1>7. \A i \in 1 .. n + 1 : i \in 1 .. n \/ i = n + 1
  OBVIOUS
<1>8. \A i \in 1 .. n + 1 : Tells(g[i], pending[i], g[i + 1])'
  BY <1>3, <1>6, <1>7
<1>9. Settled(g[n + 2])'
  BY <1>1, <1>5 DEF Settled
<1>10. Len(pending') + 1 = n + 2
  BY <1>c
<1>11. Leads(g)'
  BY <1>2, <1>8, <1>9, <1>10, <1>c DEF Leads
<1> QED BY <1>1, <1>10, <1>11

\* LeadsLess: what Deliver tells is what the first event may tell.
LEMMA LeadsLess ==
  ASSUME ServerInv, Deliver, NEW h \in [1 .. Len(pending) + 1 -> Views], Leads(h)
  PROVE  /\ Tells(View, Head(pending), View')
         /\ \E g \in [1 .. Len(pending') + 1 -> Views] : Leads(g)'
<1>a. /\ pending \in Seq(Events) /\ pending # <<>>
  BY DEF Deliver, ServerInv, TypeOK
<1>b. PICK n \in Nat : Len(pending) = n + 1
  <2>1. Len(pending) \in Nat /\ Len(pending) # 0
    BY <1>a
  <2> QED BY <2>1
<1>c. /\ Len(pending') = n /\ Head(pending) = pending[1]
      /\ \A i \in 1 .. n : pending'[i] = pending[i + 1]
  BY <1>a, <1>b DEF Deliver
<1>d. PICK e \in Events : e = pending[1] /\ Told(e)
  BY <1>a, <1>b, <1>c DEF Deliver
<1>1. /\ 1 \in 1 .. n + 1 /\ 1 + 1 = 2 /\ 2 \in 1 .. n + 2 /\ (n + 1) + 1 = n + 2
      /\ \A i \in 1 .. n : i + 1 \in 1 .. n + 1
      /\ \A i \in 1 .. n + 1 : i + 1 \in 1 .. n + 2
  OBVIOUS
<1>2. PICK w \in Views : w = h[2] /\ Tells(View, e, w)
  BY <1>b, <1>d, <1>1 DEF Leads
<1>3. w = View'
  <2>1. e.num \in Numbers /\ e.of \in Serials
    BY DEF Events
  <2>2. w = [caller |-> w.caller, heard |-> w.heard, met |-> w.met]
    BY DEF Views
  <2>3. w.caller = caller' /\ w.heard = heard' /\ w.met = met'
    BY <1>2, <1>d DEF Tells, Told, View
  <2> QED BY <2>2, <2>3 DEF View
<1> DEFINE k == [i \in 1 .. n + 1 |-> h[i + 1]]
<1>e. PICK g : g = k
  OBVIOUS
<1>4. /\ g \in [1 .. n + 1 -> Views]
      /\ \A i \in 1 .. n + 1 : g[i] = h[i + 1]
  BY <1>b, <1>e, <1>1
<1> HIDE DEF k
<1>5. g[1] = View'
  BY <1>1, <1>2, <1>3, <1>4
<1>6. said' = said /\ UNCHANGED <<stage, number, serial, arrivals>>
  BY DEF Deliver, connVars
<1>7. ASSUME NEW i \in 1 .. n
      PROVE  Tells(g[i], pending[i], g[i + 1])'
  <2>1. Tells(h[i + 1], pending[i + 1], h[(i + 1) + 1])
    BY <1>b, <1>1 DEF Leads
  <2>2. g[i] = h[i + 1] /\ g[i + 1] = h[(i + 1) + 1] /\ pending'[i] = pending[i + 1]
    BY <1>1, <1>4, <1>c
  <2> QED BY <1>6, <2>1, <2>2 DEF Tells
<1>8. Settled(g[n + 1])'
  <2>1. Settled(h[n + 2])
    BY <1>b, <1>1 DEF Leads
  <2>2. g[n + 1] = h[n + 2]
    BY <1>1, <1>4
  <2> QED BY <1>6, <2>1, <2>2 DEF Settled, Over
<1>9. Leads(g)'
  BY <1>5, <1>7, <1>8, <1>c DEF Leads
<1> QED BY <1>2, <1>3, <1>4, <1>9, <1>c, <1>d

\* SettledOn: what the last view says of the connections stays true when none of
\* them starts or stops talking.
LEMMA SettledOn ==
  ASSUME ServerInv, [Next]_vars, said' = said, arrivals <= arrivals',
         \A c \in Fds : stage'[c] \in Waiting =>
           (stage[c] \in Waiting /\ serial'[c] = serial[c]) \/ serial'[c] > arrivals,
         \A c \in Fds : stage'[c] \in Talking <=> stage[c] \in Talking,
         \A c \in Fds : stage[c] \in Talking => number'[c] = number[c] /\ serial'[c] = serial[c],
         NEW z \in Views, Settled(z)
  PROVE  Settled(z)'
<1>a. /\ arrivals \in Nat /\ arrivals' \in Nat /\ z.met \subseteq Nat
      /\ serial' \in [Fds -> 0..MaxArrivals] /\ number \in [Fds -> Numbers]
  <2>1. TypeOK /\ TypeOK' /\ MaxArrivals \in Nat
    BY TypeStep, WebSocketsAssumption DEF ServerInv
  <2>2. z.met \subseteq Serials
    BY DEF Views
  <2> QED BY <2>1, <2>2 DEF TypeOK, Serials
<1>1. \A s \in Serials : ~Over(s)' => z.heard[s] = said'[s]
  <2> SUFFICES ASSUME NEW s \in Serials, ~Over(s)'
               PROVE  z.heard[s] = said'[s]
    OBVIOUS
  <2>1. ~Over(s)
    BY MeaningsLast
  <2> QED BY <2>1 DEF Settled
<1>2. \A s \in z.met : s <= arrivals'
  <2>1. \A s \in z.met : s <= arrivals /\ s \in Nat
    BY <1>a DEF Settled
  <2> QED BY <1>a, <2>1
<1>3. \A c \in Fds : stage'[c] \in Waiting => serial'[c] \notin z.met
  <2> SUFFICES ASSUME NEW c \in Fds, stage'[c] \in Waiting, serial'[c] \in z.met
               PROVE  FALSE
    OBVIOUS
  <2>1. serial'[c] <= arrivals /\ serial'[c] \in Nat
    BY <1>a DEF Settled
  <2>2. ~(serial'[c] > arrivals)
    BY <1>a, <2>1
  <2> QED BY <2>2 DEF Settled
<1>4. \A c \in Fds : stage'[c] \in Talking => z.caller[number'[c]] = serial'[c]
  BY DEF Settled
<1>5. \A n \in Numbers : z.caller[n] # 0 =>
        \E c \in Fds : stage'[c] \in Talking /\ number'[c] = n /\ serial'[c] = z.caller[n]
  BY DEF Settled
<1> QED BY <1>1, <1>2, <1>3, <1>4, <1>5 DEF Settled

\* What the three events a thread queues make of the last view.
LEMMA ConnectedTells ==
  ASSUME ServerInv, Tracked, NEW c \in Fds, QueueConnected(c), Next,
         NEW z \in Views, Settled(z), NEW e \in Events, e = Event("connected", c)
  PROVE  \E w \in Views : Tells(z, e, w)' /\ Settled(w)'
<1> DEFINE n == number[c]
           s == serial[c]
<1>a. /\ stage \in [Fds -> Stages] /\ serial \in [Fds -> 0..MaxArrivals] /\ n \in Numbers
      /\ s \in Serials /\ s \in 0..MaxArrivals /\ s <= arrivals
      /\ e.num = n /\ e.of = s /\ e.kind = "connected"
      /\ z.caller \in [Numbers -> 0..MaxArrivals] /\ z.met \subseteq Serials
  BY DEF ServerInv, TypeOK, SerialsTheirOwn, QueueConnected, Serials, Event, Views, Events
<1>b. /\ UNCHANGED <<number, serial, arrivals, said>>
      /\ stage[c] = "numbered" /\ stage'[c] \in Talking
      /\ \A d \in Fds \ {c} : stage'[d] = stage[d]
  BY <1>a DEF QueueConnected, ReadOn, Stage, Talking
<1>c. \A d \in Fds : (serial[d] = s => d = c) /\ (stage[d] \in Numbered /\ number[d] = n => d = c)
  BY <1>a, <1>b DEF ServerInv, SerialsTheirOwn, TableTrue, Numbered, Serials
<1>1. z.caller[n] = 0 /\ s \notin z.met
  <2>1. s \notin z.met
    BY <1>b DEF Settled, Waiting
  <2>2. z.caller[n] = 0
    <3> SUFFICES ASSUME z.caller[n] # 0
                 PROVE  FALSE
      OBVIOUS
    <3>1. PICK d \in Fds : stage[d] \in Talking /\ number[d] = n
      BY <1>a DEF Settled
    <3>2. d = c
      BY <1>c, <3>1 DEF Talking, Numbered
    <3> QED BY <1>b, <3>1, <3>2 DEF Talking
  <2> QED BY <2>1, <2>2
<1> HIDE DEF n, s
<1> DEFINE u == [caller |-> [z.caller EXCEPT ![n] = s], heard |-> z.heard,
                 met |-> z.met \cup {s}]
<1>2. PICK w : w = u
  OBVIOUS
<1>3. w \in Views /\ w.caller = [z.caller EXCEPT ![n] = s] /\ w.heard = z.heard
      /\ w.met = z.met \cup {s}
  BY <1>2, <1>a DEF Views
<1> HIDE DEF u
<1>4. Tells(z, e, w)'
  BY <1>a, <1>1, <1>3 DEF Tells
<1>5. /\ w.caller[n] = s /\ \A m \in Numbers \ {n} : w.caller[m] = z.caller[m]
  BY <1>3, <1>a
<1>6. Settled(w)'
  <2>1. \A t \in Serials : ~Over(t)' => w.heard[t] = said'[t]
    <3> SUFFICES ASSUME NEW t \in Serials, ~Over(t)'
                 PROVE  w.heard[t] = said'[t]
      OBVIOUS
    <3>1. ~Over(t)
      BY MeaningsLast
    <3> QED BY <1>3, <1>b, <3>1 DEF Settled
  <2>2. \A t \in w.met : t <= arrivals'
    BY <1>3, <1>a, <1>b DEF Settled
  <2>3. \A d \in Fds : stage'[d] \in Waiting => serial'[d] \notin w.met
    <3> SUFFICES ASSUME NEW d \in Fds, stage'[d] \in Waiting
                 PROVE  serial[d] \notin w.met
      BY <1>b
    <3>1. d # c /\ stage[d] \in Waiting
      BY <1>b DEF Talking, Waiting
    <3> QED BY <1>3, <1>c, <3>1 DEF Settled, s
  <2>4. \A d \in Fds : stage'[d] \in Talking => w.caller[number'[d]] = serial'[d]
    <3> SUFFICES ASSUME NEW d \in Fds, stage'[d] \in Talking
                 PROVE  w.caller[number[d]] = serial[d]
      BY <1>b
    <3>1. CASE d = c
      BY <1>5, <3>1 DEF n, s
    <3>2. CASE d # c
      <4>1. stage[d] \in Talking /\ number[d] \in Numbers
        BY <1>b, <3>2 DEF ServerInv, TypeOK
      <4>2. number[d] # n
        BY <1>c, <3>2, <4>1 DEF Talking, Numbered
      <4> QED BY <1>5, <4>1, <4>2 DEF Settled
    <3> QED BY <3>1, <3>2
  <2>5. \A m \in Numbers : w.caller[m] # 0 =>
          \E d \in Fds : stage'[d] \in Talking /\ number'[d] = m /\ serial'[d] = w.caller[m]
    <3> SUFFICES ASSUME NEW m \in Numbers, w.caller[m] # 0
                 PROVE  \E d \in Fds : stage'[d] \in Talking /\ number[d] = m /\ serial[d] = w.caller[m]
      BY <1>b
    <3>1. CASE m = n
      BY <1>5, <1>b, <3>1 DEF n, s
    <3>2. CASE m # n
      <4>1. PICK d \in Fds : stage[d] \in Talking /\ number[d] = m /\ serial[d] = z.caller[m]
        BY <1>5, <3>2 DEF Settled
      <4>2. d # c
        BY <1>b, <4>1 DEF Talking
      <4> QED BY <1>5, <1>b, <3>2, <4>1, <4>2
    <3> QED BY <3>1, <3>2
  <2> QED BY <2>1, <2>2, <2>3, <2>4, <2>5 DEF Settled
<1> QED BY <1>3, <1>4, <1>6

LEMMA MessageTells ==
  ASSUME ServerInv, Tracked, NEW c \in Fds, ReadMessage(c), Next,
         NEW z \in Views, Settled(z), NEW e \in Events, e = Event("message", c)
  PROVE  \E w \in Views : Tells(z, e, w)' /\ Settled(w)'
<1> DEFINE n == number[c]
           s == serial[c]
<1>a. /\ stage \in [Fds -> Stages] /\ serial \in [Fds -> 0..MaxArrivals] /\ n \in Numbers
      /\ s \in Serials /\ said \in [Serials -> Nat]
      /\ e.num = n /\ e.of = s /\ e.kind = "message"
      /\ z.heard \in [Serials -> Nat]
  BY DEF ServerInv, TypeOK, SerialsTheirOwn, ReadMessage, Serials, Event, Views, Events
<1>b. /\ UNCHANGED <<number, serial, arrivals>>
      /\ said' = [said EXCEPT ![s] = said[s] + 1]
      /\ stage[c] = "open" /\ stage'[c] \in Talking
      /\ \A d \in Fds \ {c} : stage'[d] = stage[d]
  BY <1>a DEF ReadMessage, ReadOn, Stage, Talking
<1> HIDE DEF n, s
<1>c. /\ said'[s] = said[s] + 1 /\ said[s] \in Nat
      /\ \A t \in Serials \ {s} : said'[t] = said[t]
  BY <1>a, <1>b
<1>1. z.caller[n] = s /\ z.heard[s] = said[s]
  <2>1. ~Over(s) /\ stage[c] \in Talking
    BY <1>b DEF Over, Talking, s
  <2> QED BY <1>a, <2>1 DEF Settled, n, s
<1> DEFINE u == [caller |-> z.caller, heard |-> [z.heard EXCEPT ![s] = z.heard[s] + 1],
                 met |-> z.met]
<1>2. PICK w : w = u
  OBVIOUS
<1>3. w \in Views /\ w.caller = z.caller /\ w.met = z.met
      /\ w.heard = [z.heard EXCEPT ![s] = z.heard[s] + 1]
  <2>1. z.heard[s] + 1 \in Nat
    BY <1>a
  <2> QED BY <1>2, <1>a, <2>1 DEF Views
<1> HIDE DEF u
<1>4. Tells(z, e, w)'
  <2>1. z.heard[s] < said'[s]
    BY <1>1, <1>c
  <2> QED BY <1>a, <1>1, <1>3, <2>1 DEF Tells
<1>5. Settled(w)'
  <2>1. \A t \in Serials : ~Over(t)' => w.heard[t] = said'[t]
    <3> SUFFICES ASSUME NEW t \in Serials, ~Over(t)'
                 PROVE  w.heard[t] = said'[t]
      OBVIOUS
    <3>1. CASE t = s
      BY <1>1, <1>3, <1>a, <1>c, <3>1
    <3>2. CASE t # s
      <4>1. ~Over(t)
        BY MeaningsLast
      <4> QED BY <1>3, <1>a, <1>c, <3>2, <4>1 DEF Settled
    <3> QED BY <3>1, <3>2
  <2>2. \A d \in Fds : (stage'[d] \in Waiting => stage[d] \in Waiting)
                       /\ (stage'[d] \in Talking <=> stage[d] \in Talking)
    BY <1>b DEF Waiting, Talking
  <2> QED BY <1>3, <1>b, <2>1, <2>2 DEF Settled
<1> QED BY <1>3, <1>4, <1>5

LEMMA DisconnectedTells ==
  ASSUME ServerInv, Tracked, NEW c \in Fds, QueueDisconnected(c), Next,
         NEW z \in Views, Settled(z), NEW e \in Events, e = Event("disconnected", c)
  PROVE  \E w \in Views : Tells(z, e, w)' /\ Settled(w)'
<1> DEFINE n == number[c]
           s == serial[c]
<1>a. /\ stage \in [Fds -> Stages] /\ serial \in [Fds -> 0..MaxArrivals] /\ n \in Numbers
      /\ s \in Serials /\ number \in [Fds -> Numbers]
      /\ e.num = n /\ e.of = s /\ e.kind = "disconnected"
      /\ z.caller \in [Numbers -> 0..MaxArrivals] /\ 0 \in 0..MaxArrivals
  <2>1. 0 \in 0..MaxArrivals
    BY WebSocketsAssumption
  <2>2. e.num = n /\ e.of = s /\ e.kind = "disconnected" /\ s \in Serials
    BY DEF Event, Events
  <2> QED BY <2>1, <2>2 DEF ServerInv, TypeOK, Views
<1>b. /\ UNCHANGED <<number, serial, arrivals, said>>
      /\ stage[c] \in Talking /\ stage'[c] = "goodbye"
      /\ \A d \in Fds \ {c} : stage'[d] = stage[d]
  BY <1>a DEF QueueDisconnected, Stage, Talking
<1>c. \A d \in Fds : stage[d] \in Numbered /\ number[d] = n => d = c
  BY <1>b DEF ServerInv, TableTrue, Numbered, Talking
<1> HIDE DEF n, s
<1>1. z.caller[n] = s /\ z.heard[s] = said[s]
  <2>1. ~Over(s) /\ stage[c] \in Talking
    BY <1>b DEF Over, Talking, s
  <2> QED BY <1>a, <2>1 DEF Settled, n, s
<1> DEFINE u == [caller |-> [z.caller EXCEPT ![n] = 0], heard |-> z.heard, met |-> z.met]
<1>2. PICK w : w = u
  OBVIOUS
<1>3. w \in Views /\ w.caller = [z.caller EXCEPT ![n] = 0] /\ w.heard = z.heard
      /\ w.met = z.met
  BY <1>2, <1>a DEF Views
<1> HIDE DEF u
<1>4. Tells(z, e, w)'
  BY <1>a, <1>b, <1>1, <1>3 DEF Tells
<1>5. w.caller[n] = 0 /\ \A m \in Numbers \ {n} : w.caller[m] = z.caller[m]
  BY <1>3, <1>a
<1>6. Settled(w)'
  <2>1. \A t \in Serials : ~Over(t)' => w.heard[t] = said'[t]
    <3> SUFFICES ASSUME NEW t \in Serials, ~Over(t)'
                 PROVE  w.heard[t] = said'[t]
      OBVIOUS
    <3>1. ~Over(t)
      BY MeaningsLast
    <3> QED BY <1>3, <1>b, <3>1 DEF Settled
  <2>2. \A d \in Fds : stage'[d] \in Waiting \/ stage'[d] \in Talking => d # c
    BY <1>b DEF Waiting, Talking
  <2>3. \A d \in Fds : stage'[d] \in Talking => w.caller[number'[d]] = serial'[d]
    <3> SUFFICES ASSUME NEW d \in Fds, stage'[d] \in Talking
                 PROVE  w.caller[number[d]] = serial[d]
      BY <1>b
    <3>1. d # c /\ stage[d] \in Talking /\ number[d] \in Numbers
      BY <1>a, <1>b, <2>2
    <3>2. number[d] # n
      BY <1>c, <3>1 DEF Talking, Numbered
    <3> QED BY <1>5, <3>1, <3>2 DEF Settled
  <2>4. \A m \in Numbers : w.caller[m] # 0 =>
          \E d \in Fds : stage'[d] \in Talking /\ number'[d] = m /\ serial'[d] = w.caller[m]
    <3> SUFFICES ASSUME NEW m \in Numbers, w.caller[m] # 0
                 PROVE  \E d \in Fds : stage'[d] \in Talking /\ number[d] = m /\ serial[d] = w.caller[m]
      BY <1>b
    <3>1. m # n
      BY <1>5
    <3>2. PICK d \in Fds : stage[d] \in Talking /\ number[d] = m /\ serial[d] = z.caller[m]
      BY <1>5, <3>1 DEF Settled
    <3>3. d # c
      BY <3>1, <3>2 DEF n
    <3> QED BY <1>5, <1>b, <3>1, <3>2, <3>3
  <2> QED BY <1>3, <1>b, <2>1, <2>2, <2>3, <2>4 DEF Settled
<1> QED BY <1>3, <1>4, <1>6

LEMMA PromiseStep == PromiseInv /\ [Next]_vars => PromiseInv'
<1> SUFFICES ASSUME ServerInv, Promising, [Next]_vars
             PROVE  Promising'
  <2>1. ServerInv /\ [Next]_vars => ServerInv'
    BY TypeStep, SerialsStep, TableStep, ShutDownStep, EventsStep, CallerStep DEF ServerInv
  <2> QED BY <2>1 DEF PromiseInv
<1> USE DEF Stage, serverVars, connVars, tableVars, toldVars
<1>a. TypeOK /\ TypeOK' /\ MaxArrivals \in Nat
  BY TypeStep, WebSocketsAssumption DEF ServerInv
<1>b. /\ stage \in [Fds -> Stages] /\ serial \in [Fds -> 0..MaxArrivals]
      /\ number \in [Fds -> Numbers] /\ arrivals \in Nat /\ arrivals' \in Nat
      /\ said \in [Serials -> Nat] /\ heard \in [Serials -> Nat] /\ met \subseteq Nat
      /\ pending \in Seq(Events) /\ Len(pending) \in Nat
  <2>1. arrivals \in Nat /\ arrivals' \in Nat
    BY <1>a DEF TypeOK
  <2>2. met \subseteq Nat
    BY <1>a DEF TypeOK, Serials
  <2> QED BY <1>a, <2>1, <2>2 DEF TypeOK
<1>1. CASE DropEvents
  <2>1. /\ pending' = <<>> /\ Len(pending') = 0
        /\ \A n \in Numbers : caller'[n] = 0
        /\ met' = 1..arrivals /\ heard' = heard /\ said' = said /\ arrivals' = arrivals
        /\ stage' = stage /\ serial' = serial /\ firmware = "draining"
    BY <1>1 DEF DropEvents
  <2>2. \A c \in Fds : stage[c] = "out"
    <3>1. \A c \in Fds : stage[c] \notin WithThread /\ stage[c] # "backlog"
      BY <2>1 DEF ServerInv, ShutDown
    <3> QED BY <1>b, <3>1 DEF Stages
  <2>3. PICK z : z = View'
    OBVIOUS
  <2>4. z \in Views /\ z.met = 1..arrivals /\ z.heard = heard /\ \A n \in Numbers : z.caller[n] = 0
    BY <1>a, <2>1, <2>3 DEF View, Views, TypeOK
  <2>5. Settled(z)'
    <3>1. \A s \in Serials : ~Over(s)' => z.heard[s] = said'[s]
      <4> SUFFICES ASSUME NEW s \in Serials, ~Over(s)'
                   PROVE  heard[s] = said[s]
        BY <2>1, <2>4
      <4>1. s > arrivals
        BY <1>b, <2>1, <2>2 DEF Over, Serials
      <4> QED BY <4>1 DEF Promising
    <3>2. \A s \in z.met : s <= arrivals'
      BY <1>b, <2>1, <2>4
    <3>3. \A c \in Fds : stage'[c] \notin Waiting /\ stage'[c] \notin Talking
      BY <2>1, <2>2 DEF Waiting, Talking
    <3> QED BY <2>4, <3>1, <3>2, <3>3 DEF Settled
  <2> DEFINE k == [i \in 1 .. 1 |-> z]
  <2>6. PICK h : h = k
    OBVIOUS
  <2>7. h \in [1 .. Len(pending') + 1 -> Views] /\ h[1] = z
    BY <2>1, <2>4, <2>6
  <2> HIDE DEF k
  <2>8. Leads(h)'
    BY <2>1, <2>3, <2>5, <2>7 DEF Leads, Settled
  <2>9. \A s \in met' : s <= arrivals'
    BY <1>b, <2>1
  <2> QED BY <2>1, <2>7, <2>8, <2>9 DEF Promising
<1>2. CASE Deliver
  <2>1. PICK e \in Events : e = pending[1] /\ Told(e) /\ EventTrue(e)
    <3>1. 1 \in 1 .. Len(pending) /\ Head(pending) = pending[1]
      BY <1>2, <1>b DEF Deliver
    <3> QED BY <1>2, <1>b, <3>1 DEF Deliver, ServerInv, EventsTrue
  <2>2. e.of \in Serials /\ e.of <= arrivals /\ e.kind \in EventKinds
    BY <2>1 DEF Events, EventTrue, Means
  <2>3. said' = said /\ arrivals' = arrivals /\ firmware' = firmware
    BY <1>2 DEF Deliver
  <2>4. /\ \A s \in met' : s \in met \/ s = e.of
        /\ \A s \in Serials : s # e.of => heard'[s] = heard[s]
    BY <1>b, <2>1, <2>2 DEF Told, EventKinds
  <2>5. /\ \A s \in met' : s <= arrivals'
        /\ \A s \in Serials : s > arrivals' => said'[s] = 0 /\ heard'[s] = 0
    <3>1. \A s \in Serials : s > arrivals => s # e.of
      BY <1>b, <2>2 DEF Serials
    <3> QED BY <2>2, <2>3, <2>4, <3>1 DEF Promising
  <2>6. Tracked' => \E h \in [1 .. Len(pending') + 1 -> Views] : Leads(h)'
    BY <1>2, <2>3, LeadsLess DEF Promising, Tracked
  <2> QED BY <2>5, <2>6 DEF Promising
<1>3. ASSUME NEW c \in Fds, NEW kind \in EventKinds, firmware' = firmware,
             UNCHANGED <<heard, met, caller, arrivals>>,
             pending' = Append(pending, Event(kind, c)), Event(kind, c) \in Events,
             \A s \in Serials : s > arrivals => said'[s] = 0,
             \A e \in Events, z \in Views :
               e = Event(kind, c) /\ Settled(z) /\ Tracked =>
                 \E w \in Views : Tells(z, e, w)' /\ Settled(w)'
      PROVE  Promising'
  <2>1. Tracked' => \E h \in [1 .. Len(pending') + 1 -> Views] : Leads(h)'
    <3> SUFFICES ASSUME Tracked
                 PROVE  \E h \in [1 .. Len(pending') + 1 -> Views] : Leads(h)'
      BY <1>3 DEF Tracked
    <3>1. PICK h \in [1 .. Len(pending) + 1 -> Views] : Leads(h)
      BY DEF Promising
    <3>2. PICK e \in Events : e = Event(kind, c)
      BY <1>3
    <3>3. PICK z \in Views : z = h[Len(pending) + 1] /\ Settled(z)
      <4>1. Len(pending) + 1 \in 1 .. Len(pending) + 1
        BY <1>b
      <4> QED BY <3>1, <4>1 DEF Leads
    <3>4. PICK w \in Views : Tells(z, e, w)' /\ Settled(w)'
      BY <1>3, <3>2, <3>3
    <3>5. \A y \in Views : Settled(y) /\ y = h[Len(pending) + 1] => Tells(y, e, w)' /\ Settled(w)'
      BY <3>3, <3>4
    <3> QED BY <1>3, <3>1, <3>2, <3>5, LeadsFurther
  <2> QED BY <1>3, <2>1 DEF Promising
<1>4. ASSUME NEW c \in Fds, QueueConnected(c)
      PROVE  Promising'
  <2>1. Event("connected", c) \in Events
    BY <1>4, <1>b DEF QueueConnected, Event, Events, EventKinds, ServerInv, SerialsTheirOwn, Serials
  <2>2. Next
    BY <1>4 DEF Next, ThreadStep
  <2> QED BY <1>3, <1>4, <2>1, <2>2, ConnectedTells DEF QueueConnected, EventKinds, Promising
<1>5. ASSUME NEW c \in Fds, ReadMessage(c)
      PROVE  Promising'
  <2>1. Event("message", c) \in Events /\ serial[c] <= arrivals /\ serial[c] \in Serials
    <3>1. serial[c] # 0 /\ serial[c] <= arrivals
      BY <1>5 DEF ReadMessage, ServerInv, SerialsTheirOwn
    <3>2. serial[c] \in Serials
      BY <1>a, <1>b, <3>1 DEF Serials
    <3> QED BY <1>b, <3>1, <3>2 DEF Event, Events, EventKinds
  <2>2. Next
    BY <1>5 DEF Next, ThreadStep
  <2>3. \A s \in Serials : s > arrivals => said'[s] = 0
    <3> SUFFICES ASSUME NEW s \in Serials, s > arrivals
                 PROVE  said'[s] = 0
      OBVIOUS
    <3>1. s # serial[c]
      BY <1>b, <2>1 DEF Serials
    <3>2. said'[s] = said[s]
      BY <1>5, <1>b, <3>1 DEF ReadMessage
    <3> QED BY <3>2 DEF Promising
  <2> QED BY <1>3, <1>5, <2>1, <2>2, <2>3, MessageTells DEF ReadMessage, EventKinds
<1>6. ASSUME NEW c \in Fds, QueueDisconnected(c)
      PROVE  Promising'
  <2>1. Event("disconnected", c) \in Events
    BY <1>6, <1>b DEF QueueDisconnected, Event, Events, EventKinds, ServerInv, SerialsTheirOwn, Serials
  <2>2. Next
    BY <1>6 DEF Next, ThreadStep
  <2> QED BY <1>3, <1>6, <2>1, <2>2, DisconnectedTells DEF QueueDisconnected, EventKinds, Promising
<1>7. ASSUME UNCHANGED <<pending, heard, met, caller, said>>, Tracked' => Tracked,
             arrivals <= arrivals',
             \A c \in Fds : stage'[c] \in Waiting =>
               (stage[c] \in Waiting /\ serial'[c] = serial[c]) \/ serial'[c] > arrivals,
             \A c \in Fds : stage'[c] \in Talking <=> stage[c] \in Talking,
             \A c \in Fds : stage[c] \in Talking => number'[c] = number[c] /\ serial'[c] = serial[c]
      PROVE  Promising'
  <2>1. /\ \A s \in met' : s <= arrivals'
        /\ \A s \in Serials : s > arrivals' => said'[s] = 0 /\ heard'[s] = 0
    <3>1. \A s \in Nat : s <= arrivals => s <= arrivals'
      BY <1>7, <1>b
    <3>2. \A s \in Serials : s \in Nat /\ (s > arrivals' => s > arrivals)
      BY <1>7, <1>b DEF Serials
    <3> QED BY <1>7, <1>b, <3>1, <3>2 DEF Promising
  <2>2. Tracked' => \E h \in [1 .. Len(pending') + 1 -> Views] : Leads(h)'
    <3> SUFFICES ASSUME Tracked
                 PROVE  \E h \in [1 .. Len(pending) + 1 -> Views] : Leads(h)'
      BY <1>7
    <3>1. PICK h \in [1 .. Len(pending) + 1 -> Views] : Leads(h)
      BY DEF Promising
    <3>2. \A z \in Views : Settled(z) => Settled(z)'
      BY <1>7, SettledOn
    <3> QED BY <1>7, <3>1, <3>2, LeadsOn
  <2> QED BY <2>1, <2>2 DEF Promising
<1>8. ASSUME NEW c \in Fds, Arrive(c)
      PROVE  Promising'
  <2>1. /\ arrivals' = arrivals + 1 /\ serial' = [serial EXCEPT ![c] = arrivals + 1]
        /\ stage' = [stage EXCEPT ![c] = "backlog"] /\ stage[c] = "out"
        /\ number' = number /\ UNCHANGED <<pending, heard, met, caller, said, firmware>>
    BY <1>8 DEF Arrive
  <2>2. /\ \A d \in Fds \ {c} : serial'[d] = serial[d] /\ stage'[d] = stage[d]
        /\ serial'[c] > arrivals /\ stage[c] \notin Talking /\ stage'[c] \notin Talking
    BY <1>b, <2>1 DEF Talking
  <2>3. arrivals <= arrivals'
    BY <1>b, <2>1
  <2>4. /\ \A d \in Fds : stage'[d] \in Waiting =>
             (stage[d] \in Waiting /\ serial'[d] = serial[d]) \/ serial'[d] > arrivals
        /\ \A d \in Fds : stage'[d] \in Talking <=> stage[d] \in Talking
        /\ \A d \in Fds : stage[d] \in Talking => number'[d] = number[d] /\ serial'[d] = serial[d]
    BY <2>1, <2>2
  <2> QED BY <1>7, <2>1, <2>3, <2>4 DEF Tracked
<1>9. ASSUME NEW c \in Fds, Accept(c) \/ Refuse(c) \/ AddClient(c) \/ RemoveClient(c)
      PROVE  Promising'
  <2>1. /\ stage' = [stage EXCEPT ![c] = stage'[c]] /\ number' = [number EXCEPT ![c] = number'[c]]
        /\ serial' = [serial EXCEPT ![c] = serial'[c]]
        /\ stage[c] \notin Talking /\ stage'[c] \notin Talking
        /\ stage'[c] \in Waiting => stage[c] \in Waiting /\ serial'[c] = serial[c]
        /\ UNCHANGED <<pending, heard, met, caller, said, arrivals, firmware>>
    BY <1>b, <1>9 DEF Accept, Refuse, AddClient, RemoveClient, Talking, Waiting
  <2>2. \A d \in Fds \ {c} : serial'[d] = serial[d] /\ stage'[d] = stage[d] /\ number'[d] = number[d]
    BY <1>b, <2>1
  <2>3. /\ \A d \in Fds : stage'[d] \in Waiting => stage[d] \in Waiting /\ serial'[d] = serial[d]
        /\ \A d \in Fds : stage'[d] \in Talking <=> stage[d] \in Talking
        /\ \A d \in Fds : stage[d] \in Talking => number'[d] = number[d] /\ serial'[d] = serial[d]
    BY <2>1, <2>2
  <2>4. arrivals <= arrivals'
    BY <1>b, <2>1
  <2> QED BY <1>7, <2>1, <2>3, <2>4 DEF Tracked
<1>10. CASE CloseListener
  <2>1. /\ \A c \in Fds : stage'[c] # stage[c] => stage[c] = "backlog" /\ stage'[c] = "out"
        /\ \A c \in Fds : stage[c] # "backlog" => serial'[c] = serial[c]
        /\ UNCHANGED <<pending, heard, met, caller, said, arrivals, number>>
        /\ Tracked' => Tracked
    BY <1>b, <1>10 DEF CloseListener, Tracked
  <2>2. arrivals <= arrivals'
    BY <1>b, <2>1
  <2>3. /\ \A c \in Fds : stage'[c] \in Waiting => stage[c] \in Waiting /\ serial'[c] = serial[c]
        /\ \A c \in Fds : stage'[c] \in Talking <=> stage[c] \in Talking
        /\ \A c \in Fds : stage[c] \in Talking => number'[c] = number[c] /\ serial'[c] = serial[c]
    <3>1. \A c \in Fds : stage'[c] = "backlog" => FALSE
      BY <1>10 DEF CloseListener
    <3> QED BY <2>1, <3>1 DEF Waiting, Talking
  <2> QED BY <1>7, <2>1, <2>2, <2>3
<1>11. CASE AcceptFails \/ LookActive \/ Begin \/ CloseBegins \/ ClearTable \/ JoinThreads
            \/ UNCHANGED vars
  <2>1. /\ UNCHANGED <<stage, number, serial, arrivals, pending, heard, met, caller, said>>
        /\ Tracked' => Tracked
    BY <1>11 DEF AcceptFails, LookActive, Begin, CloseBegins, ClearTable, JoinThreads, vars,
                 Tracked
  <2>2. arrivals <= arrivals'
    BY <1>b, <2>1
  <2> QED BY <1>7, <2>1, <2>2
<1> QED
  BY <1>1, <1>2, <1>4, <1>5, <1>6, <1>8, <1>9, <1>10, <1>11 DEF Next, FirmwareStep, CloseStep,
     ThreadStep

LEMMA PromiseAlways == Spec => []PromiseInv
<1>1. Init => PromiseInv
  BY PromiseInit
<1>2. PromiseInv /\ [Next]_vars => PromiseInv'
  BY PromiseStep
<1> QED BY <1>1, <1>2, PTL DEF Spec

-----------------------------------------------------------------------------
(* The server implements ClientSessions.                                   *)

\* The sessions that are over.
Done == {s \in Serials : Over(s)}

LEMMA MappedInit == Init => Callback!Init
<1> SUFFICES ASSUME Init
             PROVE  Callback!Init
  OBVIOUS
<1>1. \A s \in Serials : ~Over(s)
  BY WebSocketsAssumption DEF Init, Over, Serials
<1> QED BY <1>1 DEF Init, Callback!Init

\* MappedSteps: the steps of ClientSessions, said of the server's state.
LEMMA MappedSteps ==
  /\ UNCHANGED <<said, heard, met, caller>> /\ Done' = Done
       => UNCHANGED Callback!vars
  /\ UNCHANGED <<said, heard, met, caller>> /\ (\E some \in SUBSET Serials : Done' = Done \cup some)
       => Callback!Next
  /\ UNCHANGED <<heard, met, caller>> /\ Done' = Done
     /\ (\E s \in Serials : s \notin Done /\ said' = [said EXCEPT ![s] = said[s] + 1])
       => Callback!Next
  /\ UNCHANGED <<said, heard>> /\ Done' = Done
     /\ (\E n \in Numbers, s \in Serials :
           /\ caller[n] = 0 /\ s \notin met
           /\ met' = met \cup {s} /\ caller' = [caller EXCEPT ![n] = s])
       => Callback!Next
  /\ UNCHANGED <<said, met, caller>> /\ Done' = Done
     /\ (\E n \in Numbers :
           /\ caller[n] # 0 /\ heard[caller[n]] < said[caller[n]]
           /\ heard' = [heard EXCEPT ![caller[n]] = heard[caller[n]] + 1])
       => Callback!Next
  /\ UNCHANGED <<said, heard, met>> /\ Done' = Done
     /\ (\E n \in Numbers :
           /\ caller[n] \in Done /\ heard[caller[n]] = said[caller[n]]
           /\ caller' = [caller EXCEPT ![n] = 0])
       => Callback!Next
  /\ UNCHANGED <<said, heard>> /\ Done' = Done
     /\ (\A n \in Numbers : caller[n] # 0 => caller[n] \in Done)
     /\ caller' = [n \in Numbers |-> 0] /\ met' = met \cup Done
       => Callback!Next
<1>1. UNCHANGED <<said, heard, met, caller>> /\ Done' = Done
        => UNCHANGED Callback!vars
  BY DEF Callback!vars, Done
<1>2. UNCHANGED <<said, heard, met, caller>> /\ (\E some \in SUBSET Serials : Done' = Done \cup some)
        => Callback!Next
  BY DEF Callback!Next, Callback!Finish, Done
<1>3. UNCHANGED <<heard, met, caller>> /\ Done' = Done
      /\ (\E s \in Serials : s \notin Done /\ said' = [said EXCEPT ![s] = said[s] + 1])
        => Callback!Next
  BY DEF Callback!Next, Callback!Say, Done
<1>4. UNCHANGED <<said, heard>> /\ Done' = Done
      /\ (\E n \in Numbers, s \in Serials :
            /\ caller[n] = 0 /\ s \notin met
            /\ met' = met \cup {s} /\ caller' = [caller EXCEPT ![n] = s])
        => Callback!Next
  BY DEF Callback!Next, Callback!TellConnected, Done
<1>5. UNCHANGED <<said, met, caller>> /\ Done' = Done
      /\ (\E n \in Numbers :
            /\ caller[n] # 0 /\ heard[caller[n]] < said[caller[n]]
            /\ heard' = [heard EXCEPT ![caller[n]] = heard[caller[n]] + 1])
        => Callback!Next
  BY DEF Callback!Next, Callback!TellMessage, Done
<1>6. UNCHANGED <<said, heard, met>> /\ Done' = Done
      /\ (\E n \in Numbers :
            /\ caller[n] \in Done /\ heard[caller[n]] = said[caller[n]]
            /\ caller' = [caller EXCEPT ![n] = 0])
        => Callback!Next
  BY DEF Callback!Next, Callback!TellDisconnected, Done
<1>7. UNCHANGED <<said, heard>> /\ Done' = Done
      /\ (\A n \in Numbers : caller[n] # 0 => caller[n] \in Done)
      /\ caller' = [n \in Numbers |-> 0] /\ met' = met \cup Done
        => Callback!Next
  BY DEF Callback!Next, Callback!Stop, Done
<1> QED BY <1>1, <1>2, <1>3, <1>4, <1>5, <1>6, <1>7

LEMMA MappedStep == PromiseInv /\ PromiseInv' /\ [Next]_vars => [Callback!Next]_(Callback!vars)
<1> SUFFICES ASSUME PromiseInv, PromiseInv', [Next]_vars
             PROVE  Callback!Next \/ UNCHANGED Callback!vars
  OBVIOUS
<1> USE DEF Stage, serverVars, connVars, tableVars, toldVars
<1>a. /\ TypeOK /\ TypeOK' /\ MaxArrivals \in Nat
      /\ SerialsTheirOwn /\ SerialsTheirOwn' /\ EventsTrue /\ CallerTrue
      /\ Promising /\ ServerInv
  BY WebSocketsAssumption DEF PromiseInv, ServerInv
<1>b. /\ stage \in [Fds -> Stages] /\ serial \in [Fds -> 0..MaxArrivals]
      /\ number \in [Fds -> Numbers] /\ arrivals \in Nat /\ arrivals' \in Nat
      /\ pending \in Seq(Events) /\ said \in [Serials -> Nat] /\ met \subseteq Serials
      /\ caller \in [Numbers -> 0..MaxArrivals]
  BY <1>a DEF TypeOK
<1>c. \A s \in Serials : s \in Nat /\ s # 0
  BY <1>a DEF Serials
\* A session stays over.
<1>d. Done \subseteq Done'
  BY MeaningsLast, <1>a DEF Done
<1>e. Done \subseteq Serials /\ Done' \subseteq Serials
  BY DEF Done
<1>1. CASE UNCHANGED <<said, heard, met, caller>>
  <2>1. \E some \in SUBSET Serials : Done' = Done \cup some
    <3>1. Done' = Done \cup Done'
      BY <1>d
    <3> QED BY <1>e, <3>1
  <2> QED BY <1>1, <2>1, MappedSteps
<1>2. ASSUME NEW c \in Fds, ReadMessage(c)
      PROVE  Callback!Next
  <2>1. serial[c] \in Serials
    <3>1. serial[c] # 0
      BY <1>a, <1>2 DEF ReadMessage, SerialsTheirOwn
    <3> QED BY <1>a, <1>b, <3>1 DEF Serials
  <2>2. /\ said' = [said EXCEPT ![serial[c]] = said[serial[c]] + 1]
        /\ stage[c] = "open" /\ stage'[c] \in Talking /\ stage' = [stage EXCEPT ![c] = stage'[c]]
        /\ UNCHANGED <<heard, met, caller, serial, arrivals>>
    BY <1>b, <1>2 DEF ReadMessage, ReadOn, Talking
  <2>3. serial[c] \notin Done
    BY <2>1, <2>2 DEF Done, Over
  <2>4. Done' = Done
    <3>1. \A d \in Fds : stage'[d] \in {"out", "goodbye"} <=> stage[d] \in {"out", "goodbye"}
      BY <1>b, <2>2 DEF Talking
    <3>2. \A t \in Serials : Over(t)' <=> Over(t)
      BY <2>2, <3>1 DEF Over
    <3> QED BY <3>2 DEF Done
  <2> QED BY <2>1, <2>2, <2>3, <2>4, MappedSteps
<1>3. CASE Deliver
  <2>1. PICK e \in Events : e = Head(pending) /\ EventTrue(e)
    <3>1. 1 \in 1 .. Len(pending) /\ Head(pending) = pending[1]
      BY <1>3, <1>b DEF Deliver
    <3> QED BY <1>a, <1>b, <3>1 DEF EventsTrue
  <2>2. e.num \in Numbers /\ e.of \in Serials /\ e.kind \in EventKinds /\ e.of # 0
    BY <1>c, <2>1 DEF Events
  <2>3. Done' = Done /\ said' = said
    BY <1>3 DEF Deliver, Done, Over
  <2>4. Tells(View, e, View')
    <3>1. firmware = "idle"
      BY <1>3 DEF Deliver
    <3>2. PICK h \in [1 .. Len(pending) + 1 -> Views] : Leads(h)
      BY <1>a, <3>1 DEF Promising, Tracked
    <3> QED BY <1>a, <1>3, <2>1, <3>2, LeadsLess
  <2>5. CASE e.kind = "connected"
    <3>1. /\ caller[e.num] = 0 /\ e.of \notin met /\ heard' = heard
          /\ met' = met \cup {e.of} /\ caller' = [caller EXCEPT ![e.num] = e.of]
      BY <2>4, <2>5 DEF Tells, View
    <3> QED BY <2>2, <2>3, <3>1, MappedSteps
  <2>6. CASE e.kind = "message"
    <3>1. /\ caller[e.num] = e.of /\ heard[e.of] < said[e.of] /\ met' = met /\ caller' = caller
          /\ heard' = [heard EXCEPT ![e.of] = heard[e.of] + 1]
      BY <2>4, <2>6 DEF Tells, View
    <3>2. \E n \in Numbers : /\ caller[n] # 0 /\ heard[caller[n]] < said[caller[n]]
                             /\ heard' = [heard EXCEPT ![caller[n]] = heard[caller[n]] + 1]
      BY <2>2, <3>1
    <3> QED BY <2>3, <3>1, <3>2, MappedSteps
  <2>7. CASE e.kind = "disconnected"
    <3>1. /\ caller[e.num] = e.of /\ heard[e.of] = said[e.of] /\ met' = met /\ heard' = heard
          /\ caller' = [caller EXCEPT ![e.num] = 0]
      BY <2>4, <2>7 DEF Tells, View
    <3>2. e.of \in Done
      BY <2>1, <2>2, <2>7 DEF EventTrue, Done
    <3>3. \E n \in Numbers : /\ caller[n] \in Done /\ heard[caller[n]] = said[caller[n]]
                             /\ caller' = [caller EXCEPT ![n] = 0]
      BY <2>2, <3>1, <3>2
    <3> QED BY <2>3, <3>1, <3>3, MappedSteps
  <2> QED BY <2>2, <2>5, <2>6, <2>7 DEF EventKinds
<1>4. CASE DropEvents
  <2>1. /\ firmware = "draining" /\ caller' = [n \in Numbers |-> 0] /\ met' = 1..arrivals
        /\ UNCHANGED <<stage, serial, arrivals, said, heard>>
    BY <1>4 DEF DropEvents
  <2>2. \A c \in Fds : stage[c] = "out"
    <3>1. \A c \in Fds : stage[c] \notin WithThread /\ stage[c] # "backlog"
      BY <1>a, <2>1 DEF ServerInv, ShutDown
    <3> QED BY <1>b, <3>1 DEF Stages
  <2>3. Done = 1..arrivals
    <3>1. Done = {s \in Serials : s <= arrivals}
      BY <2>2 DEF Done, Over
    <3>2. arrivals <= MaxArrivals
      BY <1>a DEF TypeOK
    <3> QED BY <1>a, <1>b, <3>1, <3>2 DEF Serials
  <2>4. Done' = Done
    BY <2>1 DEF Done, Over
  <2>5. \A n \in Numbers : caller[n] # 0 => caller[n] \in Done
    BY <1>a, <1>b, <2>3 DEF CallerTrue, Means
  <2>6. met' = met \cup Done
    <3>1. met \subseteq Done
      BY <1>a, <1>b, <1>c, <2>3 DEF Promising
    <3> QED BY <2>1, <2>3, <3>1
  <2> QED BY <2>1, <2>4, <2>5, <2>6, MappedSteps
<1>5. ASSUME NEW c \in Fds, Arrive(c) \/ Accept(c) \/ Refuse(c) \/ AddClient(c)
             \/ QueueConnected(c) \/ QueueDisconnected(c) \/ RemoveClient(c)
      PROVE  UNCHANGED <<said, heard, met, caller>>
  BY <1>5 DEF Arrive, Accept, Refuse, AddClient, QueueConnected, QueueDisconnected, RemoveClient
<1>6. CASE AcceptFails \/ LookActive \/ Begin \/ CloseBegins \/ CloseListener \/ ClearTable
           \/ JoinThreads \/ UNCHANGED vars
  <2>1. UNCHANGED <<said, heard, met, caller>>
    BY <1>6 DEF AcceptFails, LookActive, Begin, CloseBegins, CloseListener, ClearTable,
                JoinThreads, vars
  <2> QED BY <1>1, <2>1
<1> QED
  BY <1>1, <1>2, <1>3, <1>4, <1>5, <1>6 DEF Next, FirmwareStep, CloseStep, ThreadStep

\* What the callback is told of connections, messages and departures is what
\* ClientSessions lets it be told: a client first, then each of its messages
\* once, then that it left, and only then another client by the same number.
THEOREM Implements == Spec => ImplementsClientSessions
<1>1. Spec => []PromiseInv
  BY PromiseAlways
<1>2. Init => Callback!Init
  BY MappedInit
<1>3. PromiseInv /\ PromiseInv' /\ [Next]_vars => [Callback!Next]_(Callback!vars)
  BY MappedStep
<1> QED BY <1>1, <1>2, <1>3, PTL DEF Spec, ImplementsClientSessions, Callback!Spec

=============================================================================
