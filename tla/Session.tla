------------------------------ MODULE Session -------------------------------
(***************************************************************************)
(* How players come and go: the client slots of a Server                   *)
(* (src/src/server.c), the connection state of each Client                 *)
(* (src/src/client.c), the remote players it draws, and the datagrams      *)
(* between them.                                                           *)
(*                                                                         *)
(* A client is one process with one socket, hence one address.  A reliable *)
(* message can arrive as long as it is in the ring of its channel, unless  *)
(* the channel has passed it over; that it is handed over at most once,    *)
(* and not in order, is shown in ReliableChannel.  The fragments of        *)
(* columns that share the channel are left out: what they do to these      *)
(* messages is that any of them can be passed over.  A request to connect  *)
(* stays in flight when it is delivered, for the network may deliver it    *)
(* again; a datagram that is lost is one that is never delivered.          *)
(***************************************************************************)
EXTENDS Integers, FiniteSets

CONSTANTS
  Clients,        \* client processes, by address
  NoClient,       \* address of a slot that is not active
  MaxClients,     \* max_clients
  MaxId,          \* greatest player id (255 in the code)
  NoSnapshot,     \* no snapshot is in flight
  MaxLate,        \* bound: snapshots that other packets may overtake
  MaxPassed       \* bound: messages a client's channel passes over

ASSUME SessionAssumption ==
  /\ NoClient \notin Clients
  /\ MaxClients \in Nat \ {0} /\ MaxId \in Nat /\ MaxClients <= MaxId
  /\ MaxLate \in Nat /\ MaxPassed \in Nat

VARIABLES
  slot,       \* Server.clients: address and player id
  ring,       \* per slot: reliable messages sent and not yet acked
  sent,       \* per slot: next_seq of its channel
  cstate,     \* state of each client; "new" before client_connect
  myId,       \* local_player_id, 0 before it is assigned
  heard,      \* the sequence numbers each client's channel has received
  passed,     \* and those that it will never hand over
  shown,      \* ids of the active entries of its RemotePlayerSet
  requests,   \* clients with a PKT_CONNECT_REQUEST in flight
  refusals,   \* clients to whom a PKT_DISCONNECT is in flight
  byes,       \* clients from whom a PKT_DISCONNECT is in flight
  late,       \* per client: a PKT_WORLD_STATE overtaken by other packets
  delays,     \* PKT_WORLD_STATEs overtaken so far
  ghosts      \* history, per client: ids in shown whose player has gone and
              \* whose leave came before a late snapshot or was passed over

serverVars == <<slot, ring, sent>>
clientVars == <<cstate, myId, heard, passed, shown>>
lateVars   == <<late, delays, ghosts>>
vars       == <<serverVars, clientVars, requests, refusals, byes, lateVars>>

Slots   == 1 .. MaxClients
Ids     == 1 .. MaxId
Message == [seq : Nat, kind : {"accept", "initial", "leave"}, id : Ids]
Vacant  == [addr |-> NoClient, id |-> 0]

TypeOK ==
  /\ slot \in [Slots -> [addr : Clients, id : Ids] \cup {Vacant}]
  /\ ring \in [Slots -> SUBSET Message]
  /\ sent \in [Slots -> Nat]
  /\ cstate \in [Clients -> {"new", "connecting", "connected", "done"}]
  /\ myId \in [Clients -> Ids \cup {0}]
  /\ heard \in [Clients -> SUBSET Nat]
  /\ passed \in [Clients -> SUBSET Nat]
  /\ shown \in [Clients -> SUBSET Ids]
  /\ requests \in SUBSET Clients
  /\ refusals \in SUBSET Clients
  /\ byes \in SUBSET Clients
  /\ late \in [Clients -> (SUBSET Ids) \cup {NoSnapshot}]
  /\ delays \in 0 .. MaxLate
  /\ ghosts \in [Clients -> SUBSET Ids]

Init ==
  /\ slot = [i \in Slots |-> Vacant]
  /\ ring = [i \in Slots |-> {}]
  /\ sent = [i \in Slots |-> 0]
  /\ cstate = [c \in Clients |-> "new"]
  /\ myId = [c \in Clients |-> 0]
  /\ heard = [c \in Clients |-> {}]
  /\ passed = [c \in Clients |-> {}]
  /\ shown = [c \in Clients |-> {}]
  /\ requests = {}
  /\ refusals = {}
  /\ byes = {}
  /\ late = [c \in Clients |-> NoSnapshot]
  /\ delays = 0
  /\ ghosts = [c \in Clients |-> {}]

Active     == {i \in Slots : slot[i] # Vacant}
PlayerIds  == {slot[i].id : i \in Active}
SlotsOf(c) == {i \in Active : slot[i].addr = c}
Msg(n, k, p) == [seq |-> n, kind |-> k, id |-> p]
Settled(c) == heard[c] \cup passed[c]

-----------------------------------------------------------------------------
(* The server.                                                             *)

\* find_client_by_addr finds the client: its request is ignored, the accept
\* is sent again by reliable_tick.
Known(c) == SlotsOf(c) # {} /\ UNCHANGED <<serverVars, refusals, ghosts>>

\* alloc_client fails because the server is full: reject_connect.
Refuse(c) ==
  /\ SlotsOf(c) = {}
  /\ Cardinality(Active) >= MaxClients
  /\ refusals' = IF cstate[c] = "done" THEN refusals ELSE refusals \cup {c}
  /\ UNCHANGED <<serverVars, ghosts>>

\* A slot and an id for a new client, the lowest that are free; the client
\* is sent PKT_CONNECT_ACCEPT and its armour and the weather (one message
\* here).  The others are sent PKT_PLAYER_JOIN: it takes a number of their
\* channels, and all they do is log it.  Where a ghost had the id, there is a
\* player again.
Admit(c, i, p) ==
  /\ slot' = [slot EXCEPT ![i] = [addr |-> c, id |-> p]]
  /\ ring' = [ring EXCEPT ![i] = {Msg(0, "accept", p), Msg(1, "initial", p)}]
  /\ sent' = [j \in Slots |-> IF j = i THEN 2
                              ELSE IF j \in Active THEN sent[j] + 1
                                   ELSE sent[j]]
  /\ ghosts' = [d \in Clients |-> ghosts[d] \ {p}]

\* Mutant of Accept: a repeated request is not recognised.
AcceptAgain(c) ==
  /\ Cardinality(Active) < MaxClients
  /\ \E i \in Slots \ Active, p \in Ids \ PlayerIds :
       /\ \A j \in Slots \ Active : i <= j
       /\ \A q \in Ids \ PlayerIds : p <= q
       /\ Admit(c, i, p)
  /\ UNCHANGED refusals

Accept(c) ==
  /\ SlotsOf(c) = {}
  /\ Cardinality(Active) < MaxClients
  /\ \E i \in Slots \ Active, p \in Ids \ PlayerIds :
       /\ \A j \in Slots \ Active : i <= j
       /\ \A q \in Ids \ PlayerIds : p <= q
       /\ Admit(c, i, p)
  /\ UNCHANGED refusals

\* handle_connect_request.
HandleConnect(c) ==
  /\ c \in requests
  /\ Known(c) \/ Refuse(c) \/ Accept(c)
  /\ UNCHANGED <<clientVars, requests, byes, late, delays>>

\* Mutant of Drop: the slot is freed, and nobody is told.
DropSilently(i) ==
  /\ slot' = [slot EXCEPT ![i] = Vacant]
  /\ ring' = [ring EXCEPT ![i] = {}]
  /\ sent' = [sent EXCEPT ![i] = 0]

\* disconnect_client: the others are sent PKT_PLAYER_LEAVE.
Drop(i) ==
  /\ slot' = [slot EXCEPT ![i] = Vacant]
  /\ ring' = [j \in Slots |->
                IF j = i THEN {}
                ELSE IF j \in Active
                     THEN ring[j] \cup {Msg(sent[j], "leave", slot[i].id)}
                     ELSE ring[j]]
  /\ sent' = [j \in Slots |-> IF j = i THEN 0
                              ELSE IF j \in Active THEN sent[j] + 1
                                   ELSE sent[j]]

HandleDisconnect(c) ==
  /\ c \in byes
  /\ byes' = byes \ {c}
  /\ \E i \in SlotsOf(c) : Drop(i)
  /\ UNCHANGED <<clientVars, requests, refusals, lateVars>>

\* Mutant of Timeout: a channel that still waits for an ack is left alone.
TimeoutWhenAcked(i) ==
  /\ i \in Active
  /\ cstate[slot[i].addr] # "connecting"
  /\ ring[i] = {}
  /\ Drop(i)
  /\ requests' = requests \ {slot[i].addr}
  /\ byes' = byes \ {slot[i].addr}
  /\ UNCHANGED <<clientVars, refusals, lateVars>>

\* No packet from the client for SERVER_TIMEOUT_SEC.  A packet lives less long
\* than that, so none is in flight any more, and a client that is waiting for
\* PKT_CONNECT_ACCEPT has got one of a hundred copies.
Timeout(i) ==
  /\ i \in Active
  /\ cstate[slot[i].addr] # "connecting"
  /\ Drop(i)
  /\ requests' = requests \ {slot[i].addr}
  /\ byes' = byes \ {slot[i].addr}
  /\ UNCHANGED <<clientVars, refusals, lateVars>>

\* Mutant of Position: an ack is taken to confirm all that was sent before.
PositionCumulative(c) ==
  /\ cstate[c] = "connected"
  /\ \E i \in SlotsOf(c) :
       ring' = [ring EXCEPT ![i] =
                  {m \in @ : \A n \in heard[c] : m.seq > n}]
  /\ UNCHANGED <<slot, sent, clientVars, requests, refusals, byes, lateVars>>

\* handle_position: the acks in the packet free entries of the ring, of which
\* they reach the last 17 at most, and a gap wider than the word has an entry
\* confirmed that was passed over.
Position(c) ==
  /\ cstate[c] = "connected"
  /\ \E i \in SlotsOf(c) :
       \E acked \in SUBSET {m \in ring[i] : m.seq \in Settled(c)} :
         ring' = [ring EXCEPT ![i] = @ \ acked]
  /\ UNCHANGED <<slot, sent, clientVars, requests, refusals, byes, lateVars>>

-----------------------------------------------------------------------------
(* The client.                                                             *)

\* client_connect, first and repeated.
Connect(c) ==
  /\ cstate[c] \in {"new", "connecting"}
  /\ cstate' = [cstate EXCEPT ![c] = "connecting"]
  /\ requests' = requests \cup {c}
  /\ UNCHANGED <<serverVars, myId, heard, passed, shown, refusals, byes,
                 lateVars>>

\* CLIENT_DISCONNECTED for good.  What the process still knows, and what is on
\* its way to it, is of no use to anyone and is cleared here.
Finish(c) ==
  /\ cstate' = [cstate EXCEPT ![c] = "done"]
  /\ myId' = [myId EXCEPT ![c] = 0]
  /\ heard' = [heard EXCEPT ![c] = {}]
  /\ passed' = [passed EXCEPT ![c] = {}]
  /\ shown' = [shown EXCEPT ![c] = {}]
  /\ late' = [late EXCEPT ![c] = NoSnapshot]
  /\ ghosts' = [ghosts EXCEPT ![c] = {}]
  /\ refusals' = refusals \ {c}
  /\ UNCHANGED delays

\* client_poll gives up: the last attempt to connect got no answer, or nothing
\* has come from the server for CLIENT_SERVER_TIMEOUT_SEC.
GiveUp(c) ==
  /\ cstate[c] \in {"connecting", "connected"}
  /\ Finish(c)
  /\ UNCHANGED <<serverVars, requests, byes>>

\* client_disconnect: one PKT_DISCONNECT, never sent again.
Leave(c) ==
  /\ cstate[c] \in {"connecting", "connected"}
  /\ Finish(c)
  /\ byes' = byes \cup {c}
  /\ UNCHANGED <<serverVars, requests>>

\* PKT_DISCONNECT is obeyed in every state.
RecvRefusal(c) ==
  /\ c \in refusals
  /\ Finish(c)
  /\ UNCHANGED <<serverVars, requests, byes>>

RecvAccept(c, m) ==
  /\ m.kind = "accept" /\ cstate[c] = "connecting"
  /\ cstate' = [cstate EXCEPT ![c] = "connected"]
  /\ myId' = [myId EXCEPT ![c] = m.id]
  /\ UNCHANGED <<shown, ghosts>>

\* Armour and weather: dropped without an ack before the client is connected.
RecvInitial(c, m) ==
  /\ m.kind = "initial" /\ cstate[c] = "connected"
  /\ UNCHANGED <<cstate, myId, shown, ghosts>>

\* PKT_PLAYER_LEAVE counts in every state.
RecvLeave(c, m) ==
  /\ m.kind = "leave" /\ cstate[c] \in {"connecting", "connected"}
  /\ shown' = [shown EXCEPT ![c] = @ \ {m.id}]
  /\ ghosts' = [ghosts EXCEPT ![c] = @ \ {m.id}]
  /\ UNCHANGED <<cstate, myId>>

\* A reliable message arrives at client c for the first time.
Recv(c) ==
  /\ \E i \in SlotsOf(c) : \E m \in ring[i] :
       /\ m.seq \notin Settled(c)
       /\ RecvAccept(c, m) \/ RecvInitial(c, m) \/ RecvLeave(c, m)
       /\ heard' = [heard EXCEPT ![c] = @ \cup {m.seq}]
  /\ UNCHANGED <<serverVars, passed, requests, refusals, byes, late, delays>>

LeaveOnItsWay(i, c, p) ==
  \E m \in ring[i] : m.kind = "leave" /\ m.id = p /\ m.seq \notin Settled(c)

\* The player on the screen of c whom the leave m, the last for that id, was
\* to take off.
Stranded(i, c, m) ==
  {p \in shown[c] \ (PlayerIds \ {slot[i].id}) :
     /\ m.kind = "leave" /\ m.id = p
     /\ \A n \in ring[i] :
          n.kind = "leave" /\ n.id = p => n.seq \in Settled(c) \cup {m.seq}}

\* reliable_on_recv will not hand a message over: 16 newer ones came first, 64
\* newer ones were sent and one took its place in the ring, or a gap wider than
\* the word marked it as received.  A tick of streaming sends 28 fragments.
\* PKT_CONNECT_ACCEPT is obeyed whatever reliable_on_recv says.
PassOver(c) ==
  /\ Cardinality(passed[c]) < MaxPassed
  /\ cstate[c] \in {"connecting", "connected"}
  /\ \E i \in SlotsOf(c) : \E m \in ring[i] :
       /\ m.kind # "accept" /\ m.seq \notin Settled(c)
       /\ passed' = [passed EXCEPT ![c] = @ \cup {m.seq}]
       /\ ghosts' = [ghosts EXCEPT ![c] = @ \cup Stranded(i, c, m)]
  /\ UNCHANGED <<serverVars, cstate, myId, heard, shown, requests, refusals,
                 byes, late, delays>>

\* The entries of a PKT_WORLD_STATE are pushed to the set of remote players;
\* nothing is taken out of it.
ShowPlayers(c, ids) ==
  /\ cstate[c] = "connected"
  /\ shown' = [shown EXCEPT ![c] = @ \cup (ids \ {myId[c]})]

\* The broadcast of server_tick arrives at once.  A snapshot that is still on
\* its way will be dropped for its older sequence number.
Snapshot(c) ==
  /\ SlotsOf(c) # {}
  /\ ShowPlayers(c, PlayerIds)
  /\ late' = [late EXCEPT ![c] = NoSnapshot]
  /\ UNCHANGED <<serverVars, cstate, myId, heard, passed, requests, refusals,
                 byes, delays, ghosts>>

\* The broadcast of server_tick is delayed.
DelaySnapshot(c) ==
  /\ delays < MaxLate
  /\ delays' = delays + 1
  /\ SlotsOf(c) # {} /\ cstate[c] \in {"connecting", "connected"}
  /\ late[c] = NoSnapshot
  /\ late' = [late EXCEPT ![c] = PlayerIds]
  /\ UNCHANGED <<serverVars, clientVars, requests, refusals, byes, ghosts>>

LateSnapshot(c) ==
  /\ late[c] # NoSnapshot
  /\ late' = [late EXCEPT ![c] = NoSnapshot]
  /\ ShowPlayers(c, late[c])
  /\ ghosts' = [ghosts EXCEPT
                  ![c] = @ \cup {p \in late[c] \ (PlayerIds \cup {myId[c]}) :
                                   \A i \in SlotsOf(c) : ~LeaveOnItsWay(i, c, p)}]
  /\ UNCHANGED <<serverVars, cstate, myId, heard, passed, requests, refusals,
                 byes, delays>>

-----------------------------------------------------------------------------
Next ==
  \/ \E c \in Clients :
       \/ HandleConnect(c) \/ HandleDisconnect(c) \/ Position(c)
       \/ Connect(c) \/ GiveUp(c) \/ Leave(c) \/ RecvRefusal(c) \/ Recv(c)
       \/ PassOver(c)
       \/ Snapshot(c) \/ DelaySnapshot(c) \/ LateSnapshot(c)
  \/ \E i \in Slots : Timeout(i)

Spec == Init /\ [][Next]_vars

-----------------------------------------------------------------------------
(* Properties.                                                             *)

\* A client has at most one slot, and no two players have the same id.
SlotsDistinct ==
  \A i, j \in Active :
    i # j => slot[i].addr # slot[j].addr /\ slot[i].id # slot[j].id

\* The id a connected client takes for its own is the one the server knows it
\* by: it is the id whose snapshots the client skips.
OwnIdAgrees ==
  \A c \in Clients :
    cstate[c] = "connected" => \A i \in SlotsOf(c) : slot[i].id = myId[c]

\* Nothing but PKT_PLAYER_LEAVE takes a player off the screen.  So whenever a
\* client with a slot draws a player who is not there, one is still to come: no
\* leave was left out, forgotten unheard, or spent on a former player of that
\* id.  It goes wrong in two ways only, named by ghosts: a snapshot that the
\* leave has overtaken, and a leave that the channel passed over.
DepartedIsAnnounced ==
  \A c \in Clients : cstate[c] = "connected" =>
    \A i \in SlotsOf(c) : \A p \in shown[c] \ ghosts[c] :
      p \in PlayerIds \ {slot[i].id} \/ LeaveOnItsWay(i, c, p)

\* Retransmission and snapshots go on while a connection lasts, so that every
\* message arrives that is not passed over, and both ends notice in the end
\* that the other is gone.  Nothing makes a player come or go.
Fairness ==
  /\ \A c \in Clients :
       /\ WF_vars(Recv(c)) /\ WF_vars(Snapshot(c))
       /\ WF_vars(SlotsOf(c) = {} /\ cstate[c] = "connected" /\ GiveUp(c))
  /\ \A i \in Slots :
       WF_vars(Timeout(i) /\ cstate[slot[i].addr] = "done")

FairSpec == Spec /\ Fairness

Playing(c) == cstate[c] = "connected" /\ SlotsOf(c) # {}

\* A client that goes on playing draws in the end exactly the other players,
\* however joins, leaves and the snapshots between them were reordered, and
\* the ghosts: departed players of whom no leave will tell it any more.
RosterConverges ==
  \A c \in Clients :
    <>[]Playing(c) => <>[](LET others == PlayerIds \ {myId[c]}
                           IN  /\ others \subseteq shown[c]
                               /\ shown[c] \subseteq others \cup ghosts[c])

\* A client that goes on playing gets its armour and the weather, although
\* they are thrown away if they arrive before PKT_CONNECT_ACCEPT, unless what
\* was sent in the meantime had its channel pass them over.
InitialArrives ==
  \A c \in Clients : <>[]Playing(c) => <>(1 \in heard[c] \cup passed[c])

\* The slot of a client that is gone is free in the end and stays so,
\* although its last request may arrive after its farewell.
SlotsAreFreed ==
  \A c \in Clients : [](cstate[c] = "done" => <>[](SlotsOf(c) = {}))

=============================================================================
