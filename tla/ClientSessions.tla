--------------------------- MODULE ClientSessions ---------------------------
(***************************************************************************)
(* What the firmware may expect of the WebSocket server's callback.  Each  *)
(* client has a number while the firmware knows it.  The firmware is told  *)
(* of the client, then of every message it sent, in order and once, and    *)
(* at last that it left; only then may the number mean another client.     *)
(* Stopping the server forgets everybody.  WebSocketsServer implements it. *)
(***************************************************************************)
EXTENDS Naturals

CONSTANTS
  Numbers,  \* the numbers clients are known by
  Sessions, \* one name per connection ever made
  Nobody    \* not a session

VARIABLES
  said,   \* per session: how many messages its peer got across
  heard,  \* per session: how many of them the firmware was told of
  over,   \* the sessions that say nothing more
  met,    \* the sessions the firmware was told of, or never will be
  caller  \* per number: the session the firmware knows by it

vars == <<said, heard, over, met, caller>>

Init ==
  /\ said = [s \in Sessions |-> 0]
  /\ heard = [s \in Sessions |-> 0]
  /\ over = {}
  /\ met = {}
  /\ caller = [n \in Numbers |-> Nobody]

Say(s) ==
  /\ s \notin over
  /\ said' = [said EXCEPT ![s] = @ + 1]
  /\ UNCHANGED <<heard, over, met, caller>>

\* One peer leaves, or several are cut off at once.
Finish(some) ==
  /\ over' = over \cup some
  /\ UNCHANGED <<said, heard, met, caller>>

TellConnected(n, s) ==
  /\ caller[n] = Nobody
  /\ s \notin met
  /\ met' = met \cup {s}
  /\ caller' = [caller EXCEPT ![n] = s]
  /\ UNCHANGED <<said, heard, over>>

TellMessage(n) ==
  /\ caller[n] # Nobody
  /\ heard[caller[n]] < said[caller[n]]
  /\ heard' = [heard EXCEPT ![caller[n]] = @ + 1]
  /\ UNCHANGED <<said, over, met, caller>>

\* Nothing the client said is left untold.
TellDisconnected(n) ==
  /\ caller[n] \in over
  /\ heard[caller[n]] = said[caller[n]]
  /\ caller' = [caller EXCEPT ![n] = Nobody]
  /\ UNCHANGED <<said, heard, over, met>>

\* Everybody has left by then, and the firmware hears no more of them.
Stop ==
  /\ \A n \in Numbers : caller[n] # Nobody => caller[n] \in over
  /\ caller' = [n \in Numbers |-> Nobody]
  /\ met' = met \cup over
  /\ UNCHANGED <<said, heard, over>>

Next ==
  \/ \E s \in Sessions : Say(s)
  \/ \E some \in SUBSET Sessions : Finish(some)
  \/ \E n \in Numbers, s \in Sessions : TellConnected(n, s)
  \/ \E n \in Numbers : TellMessage(n) \/ TellDisconnected(n)
  \/ Stop

Spec == Init /\ [][Next]_vars

=============================================================================
