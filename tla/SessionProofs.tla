--------------------------- MODULE SessionProofs ----------------------------
(***************************************************************************)
(* Proofs about Session, for every set of clients and number of slots:     *)
(* slots and ids are unique, both ends agree on the id of a player, and no *)
(* departed player is forgotten on a screen.                               *)
(***************************************************************************)
EXTENDS Session, TLAPS

\* What a client has done tells what it knows, and which of its packets can
\* still be on their way.
ClientInv ==
  \A c \in Clients :
    /\ cstate[c] # "connected" => shown[c] = {}
    /\ cstate[c] = "new" => SlotsOf(c) = {} /\ c \notin requests
    /\ cstate[c] \in {"new", "done"} => Settled(c) = {}
    /\ SlotsOf(c) = {} /\ cstate[c] = "connecting" => Settled(c) = {}
    /\ SlotsOf(c) = {} /\ cstate[c] = "connected" => c \notin requests
    /\ c \in byes => cstate[c] = "done"

\* Sequence numbers tell the messages of a channel apart, and those to come are
\* new to the client; an accept carries the id of its slot.
ChannelInv ==
  \A i \in Active :
    /\ \A m \in ring[i] : m.seq < sent[i]
    /\ \A m \in ring[i] : m.kind = "accept" => m.id = slot[i].id
    /\ \A m, n \in ring[i] : m.seq = n.seq => m = n
    /\ \A n \in Settled(slot[i].addr) : n < sent[i]

SessionInv ==
  /\ TypeOK /\ SlotsDistinct /\ ClientInv /\ ChannelInv
  /\ OwnIdAgrees /\ DepartedIsAnnounced

-----------------------------------------------------------------------------
\* An active slot has a client and an id.
LEMMA ActiveTyped ==
  ASSUME TypeOK, NEW i \in Active
  PROVE  /\ i \in Slots
         /\ slot[i] \in [addr : Clients, id : Ids]
         /\ slot[i].addr \in Clients /\ slot[i].id \in Ids
         /\ i \in SlotsOf(slot[i].addr)
  <1>1. i \in Slots /\ slot[i] # Vacant
    BY DEF Active
  <1>2. slot[i] \in [addr : Clients, id : Ids]
    BY <1>1 DEF TypeOK
  <1> QED  BY <1>1, <1>2 DEF SlotsOf

LEMMA MsgTyped ==
  ASSUME NEW n \in Nat, NEW p \in Ids,
         NEW k \in {"accept", "initial", "leave"}
  PROVE  /\ Msg(n, k, p) \in Message
         /\ Msg(n, k, p).seq = n /\ Msg(n, k, p).kind = k
         /\ Msg(n, k, p).id = p
  BY Zenon DEF Message, Msg

\* What the server's tables tell stays as it is when they do.
LEMMA ServerUnchanged ==
  ASSUME UNCHANGED slot
  PROVE  /\ Active' = Active /\ PlayerIds' = PlayerIds
         /\ \A c : SlotsOf(c)' = SlotsOf(c)
  <1>1. slot' = slot
    OBVIOUS
  <1> QED  BY ONLY <1>1, Zenon DEF Active, PlayerIds, SlotsOf

LEMMA InitHolds == Init => SessionInv
  <1> SUFFICES ASSUME Init PROVE SessionInv
    OBVIOUS
  <1>1. TypeOK
    BY SessionAssumption DEF Init, TypeOK, Vacant
  <1>2. Active = {}
    BY DEF Init, Active
  <1>3. SlotsDistinct /\ ChannelInv
    BY <1>2 DEF SlotsDistinct, ChannelInv
  <1>4. \A c \in Clients : SlotsOf(c) = {}
    BY <1>2 DEF SlotsOf
  <1>5. ClientInv
    BY <1>4 DEF Init, ClientInv, Settled
  <1>6. OwnIdAgrees /\ DepartedIsAnnounced
    BY DEF Init, OwnIdAgrees, DepartedIsAnnounced
  <1> QED  BY <1>1, <1>3, <1>5, <1>6 DEF SessionInv

-----------------------------------------------------------------------------
\* Steps that leave the server alone and change at most one client.
LEMMA FinishStep ==
  ASSUME SessionInv, NEW c \in Clients, cstate[c] # "new" \/ c \in refusals,
         Finish(c), UNCHANGED <<serverVars, requests>>,
         byes' \in {byes, byes \cup {c}}
  PROVE  SessionInv'
  <1> USE DEF SessionInv
  <1>1. TypeOK'
    BY DEF TypeOK, Finish, serverVars
  <1>0. slot' = slot /\ ring' = ring /\ sent' = sent
    BY DEF serverVars
  <1>2. /\ Active' = Active /\ PlayerIds' = PlayerIds
        /\ \A d : SlotsOf(d)' = SlotsOf(d)
    BY <1>0, ServerUnchanged
  <1>3. /\ cstate'[c] = "done" /\ shown'[c] = {}
        /\ heard'[c] = {} /\ passed'[c] = {}
        /\ \A d \in Clients \ {c} :
             /\ cstate'[d] = cstate[d] /\ myId'[d] = myId[d]
             /\ heard'[d] = heard[d] /\ passed'[d] = passed[d]
             /\ shown'[d] = shown[d] /\ ghosts'[d] = ghosts[d]
    BY DEF Finish, TypeOK
  <1>4. SlotsDistinct'
    BY <1>2 DEF SlotsDistinct, serverVars
  <1>5. ClientInv'
    BY <1>2, <1>3 DEF ClientInv, Settled
  <1>6. ChannelInv'
    BY <1>2, <1>3, ActiveTyped DEF ChannelInv, Settled, serverVars
  <1>7. OwnIdAgrees'
    BY <1>2, <1>3 DEF OwnIdAgrees, serverVars
  <1>8. DepartedIsAnnounced'
    BY <1>2, <1>3 DEF DepartedIsAnnounced, LeaveOnItsWay, Settled, serverVars
  <1> QED  BY <1>1, <1>4, <1>5, <1>6, <1>7, <1>8

LEMMA ConnectStep ==
  ASSUME SessionInv, NEW c \in Clients, Connect(c)
  PROVE  SessionInv'
  <1> USE DEF SessionInv
  <1>0. slot' = slot /\ ring' = ring /\ sent' = sent
    BY DEF Connect, serverVars
  <1>1. TypeOK'
    BY <1>0 DEF TypeOK, Connect, lateVars
  <1>2. /\ Active' = Active /\ PlayerIds' = PlayerIds
        /\ \A d : SlotsOf(d)' = SlotsOf(d)
    BY <1>0, ServerUnchanged
  <1>3. /\ cstate[c] \in {"new", "connecting"} /\ cstate'[c] = "connecting"
        /\ \A d \in Clients \ {c} : cstate'[d] = cstate[d]
        /\ requests' = requests \cup {c} /\ byes' = byes
        /\ heard' = heard /\ passed' = passed
        /\ shown' = shown /\ myId' = myId /\ ghosts' = ghosts
    BY DEF Connect, TypeOK, lateVars
  <1>4. SlotsDistinct' /\ ChannelInv'
    BY <1>0, <1>2, <1>3 DEF SlotsDistinct, ChannelInv, Settled
  <1>5. ClientInv'
    BY <1>2, <1>3 DEF ClientInv, Settled
  <1>6. OwnIdAgrees'
    BY <1>0, <1>2, <1>3 DEF OwnIdAgrees
  <1>7. DepartedIsAnnounced'
    BY <1>0, <1>2, <1>3 DEF DepartedIsAnnounced, LeaveOnItsWay, Settled
  <1> QED  BY <1>1, <1>4, <1>5, <1>6, <1>7

-----------------------------------------------------------------------------
\* Snapshots change only what is shown and what is remembered of it.
LEMMA ShowStep ==
  ASSUME SessionInv, NEW c \in Clients, NEW ids \in SUBSET Ids,
         ShowPlayers(c, ids),
         ghosts' \in [Clients -> SUBSET Ids],
         \A d \in Clients \ {c} : ghosts'[d] = ghosts[d],
         ghosts[c] \subseteq ghosts'[c],
         late' \in [Clients -> (SUBSET Ids) \cup {NoSnapshot}],
         UNCHANGED <<serverVars, cstate, myId, heard, passed, requests,
                     refusals, byes, delays>>,
         \A i \in SlotsOf(c) : \A p \in ids \ {myId[c]} :
           p \in PlayerIds \/ LeaveOnItsWay(i, c, p) \/ p \in ghosts'[c]
  PROVE  SessionInv'
  <1> USE DEF SessionInv
  <1>0. /\ slot' = slot /\ ring' = ring /\ sent' = sent
        /\ cstate' = cstate /\ myId' = myId
        /\ heard' = heard /\ passed' = passed
        /\ requests' = requests /\ refusals' = refusals /\ byes' = byes
        /\ delays' = delays
    BY DEF serverVars
  <1>1. /\ cstate[c] = "connected"
        /\ shown'[c] = shown[c] \cup (ids \ {myId[c]})
        /\ shown' \in [Clients -> SUBSET Ids]
        /\ \A d \in Clients \ {c} : shown'[d] = shown[d]
    BY DEF ShowPlayers, TypeOK
  <1>2. /\ Active' = Active /\ PlayerIds' = PlayerIds
        /\ \A d : SlotsOf(d)' = SlotsOf(d)
    BY <1>0, ServerUnchanged
  <1>3. TypeOK'
    BY <1>0, <1>1 DEF TypeOK
  <1>4. SlotsDistinct' /\ ChannelInv' /\ OwnIdAgrees'
    BY <1>0, <1>2 DEF SlotsDistinct, ChannelInv, OwnIdAgrees, Settled
  <1>5. ClientInv'
    BY <1>0, <1>1, <1>2 DEF ClientInv, Settled
  <1>6. \A i, d, p : LeaveOnItsWay(i, d, p)' = LeaveOnItsWay(i, d, p)
    BY ONLY <1>0, Zenon DEF LeaveOnItsWay, Settled
  <1>7. ASSUME NEW d \in Clients, cstate[d] = "connected", NEW i \in SlotsOf(d),
               NEW p \in shown'[d] \ ghosts'[d]
        PROVE  p \in PlayerIds \ {slot[i].id} \/ LeaveOnItsWay(i, d, p)
    <2>1. CASE p \in shown[d]
      BY <1>7, <2>1 DEF DepartedIsAnnounced
    <2>2. CASE p \notin shown[d]
      <3>1. d = c /\ p \in ids \ {myId[c]}
        BY <1>1, <2>2
      <3>2. slot[i].id = myId[c]
        BY <1>7, <3>1 DEF OwnIdAgrees
      <3> QED  BY <3>1, <3>2
    <2> QED  BY <2>1, <2>2
  <1>8. DepartedIsAnnounced'
    BY <1>0, <1>2, <1>6, <1>7, Zenon DEF DepartedIsAnnounced
  <1> QED  BY <1>3, <1>4, <1>5, <1>8

LEMMA SnapshotStep ==
  ASSUME SessionInv, NEW c \in Clients, Snapshot(c)
  PROVE  SessionInv'
  <1>1. PlayerIds \in SUBSET Ids
    BY ActiveTyped DEF SessionInv, PlayerIds
  <1>2. ghosts' = ghosts /\ late' = [late EXCEPT ![c] = NoSnapshot]
    BY DEF Snapshot
  <1>3. /\ ghosts' \in [Clients -> SUBSET Ids]
        /\ late' \in [Clients -> (SUBSET Ids) \cup {NoSnapshot}]
    BY <1>2 DEF SessionInv, TypeOK
  <1> QED  BY <1>1, <1>2, <1>3, ShowStep DEF Snapshot

LEMMA LateSnapshotStep ==
  ASSUME SessionInv, NEW c \in Clients, LateSnapshot(c)
  PROVE  SessionInv'
  <1> DEFINE new == {p \in late[c] \ (PlayerIds \cup {myId[c]}) :
                       \A i \in SlotsOf(c) : ~LeaveOnItsWay(i, c, p)}
  <1>1. late[c] \in SUBSET Ids
    BY DEF SessionInv, TypeOK, LateSnapshot
  <1>2. /\ ghosts' = [ghosts EXCEPT ![c] = @ \cup new]
        /\ late' = [late EXCEPT ![c] = NoSnapshot]
    BY DEF LateSnapshot
  <1>3. /\ ghosts' \in [Clients -> SUBSET Ids]
        /\ late' \in [Clients -> (SUBSET Ids) \cup {NoSnapshot}]
        /\ \A d \in Clients \ {c} : ghosts'[d] = ghosts[d]
        /\ ghosts'[c] = ghosts[c] \cup new
    BY <1>1, <1>2 DEF SessionInv, TypeOK
  <1>4. ASSUME NEW i \in SlotsOf(c), NEW p \in late[c] \ {myId[c]}
        PROVE  p \in PlayerIds \/ LeaveOnItsWay(i, c, p) \/ p \in ghosts'[c]
    <2>1. SlotsOf(c) = {i}
      BY DEF SessionInv, SlotsDistinct, SlotsOf
    <2> QED  BY <2>1, <1>3
  <1> QED  BY <1>1, <1>3, <1>4, ShowStep DEF LateSnapshot

LEMMA DelaySnapshotStep ==
  ASSUME SessionInv, NEW c \in Clients, DelaySnapshot(c)
  PROVE  SessionInv'
  <1> USE DEF SessionInv
  <1>0. /\ slot' = slot /\ ring' = ring /\ sent' = sent
        /\ cstate' = cstate /\ myId' = myId /\ shown' = shown
        /\ heard' = heard /\ passed' = passed
        /\ requests' = requests /\ refusals' = refusals /\ byes' = byes
        /\ ghosts' = ghosts
    BY DEF DelaySnapshot, serverVars, clientVars
  <1>1. PlayerIds \in SUBSET Ids
    BY ActiveTyped DEF PlayerIds
  <1>2. late' \in [Clients -> (SUBSET Ids) \cup {NoSnapshot}]
    BY <1>1 DEF DelaySnapshot, TypeOK
  <1>3. delays' \in 0 .. MaxLate
    BY SessionAssumption DEF DelaySnapshot, TypeOK
  <1>4. TypeOK'
    BY <1>0, <1>2, <1>3 DEF TypeOK
  <1>5. /\ Active' = Active /\ PlayerIds' = PlayerIds
        /\ \A d : SlotsOf(d)' = SlotsOf(d)
    BY <1>0, ServerUnchanged
  <1>6. SlotsDistinct' /\ ChannelInv' /\ OwnIdAgrees' /\ ClientInv'
    BY <1>0, <1>5 DEF SlotsDistinct, ChannelInv, OwnIdAgrees, ClientInv, Settled
  <1>7. DepartedIsAnnounced'
    BY <1>0, <1>5 DEF DepartedIsAnnounced, LeaveOnItsWay, Settled
  <1> QED  BY <1>4, <1>6, <1>7

-----------------------------------------------------------------------------
\* An ack takes out of a ring only what its client will not be handed any more.
LEMMA PositionStep ==
  ASSUME SessionInv, NEW c \in Clients, Position(c)
  PROVE  SessionInv'
  <1> USE DEF SessionInv
  <1>0. /\ slot' = slot /\ sent' = sent
        /\ cstate' = cstate /\ myId' = myId /\ shown' = shown
        /\ heard' = heard /\ passed' = passed
        /\ requests' = requests /\ refusals' = refusals /\ byes' = byes
        /\ late' = late /\ delays' = delays /\ ghosts' = ghosts
    BY DEF Position, clientVars, lateVars
  <1>i. PICK i \in SlotsOf(c) :
          \E acked \in SUBSET {m \in ring[i] : m.seq \in Settled(c)} :
            ring' = [ring EXCEPT ![i] = @ \ acked]
    BY DEF Position
  <1>1. PICK acked \in SUBSET {m \in ring[i] : m.seq \in Settled(c)} :
          ring' = [ring EXCEPT ![i] = @ \ acked]
    BY <1>i
  <1>2. i \in Slots /\ slot[i].addr = c
    BY DEF SlotsOf, Active
  <1>3. /\ ring' \in [Slots -> SUBSET Message]
        /\ ring'[i] = ring[i] \ acked
        /\ \A j \in Slots \ {i} : ring'[j] = ring[j]
    BY <1>1, <1>2 DEF TypeOK
  <1>4. TypeOK'
    BY <1>0, <1>3 DEF TypeOK
  <1>5. /\ Active' = Active /\ PlayerIds' = PlayerIds
        /\ \A d : SlotsOf(d)' = SlotsOf(d)
    BY <1>0, ServerUnchanged
  <1>6. SlotsDistinct' /\ OwnIdAgrees' /\ ClientInv'
    BY <1>0, <1>5 DEF SlotsDistinct, OwnIdAgrees, ClientInv, Settled
  <1>7. \A j \in Active : ring'[j] \subseteq ring[j]
    BY <1>3 DEF Active
  <1>8. ChannelInv'
    BY <1>0, <1>5, <1>7 DEF ChannelInv, Settled
  <1>9. ASSUME NEW d \in Clients, NEW j \in SlotsOf(d), NEW p,
               LeaveOnItsWay(j, d, p)
        PROVE  LeaveOnItsWay(j, d, p)'
    <2>1. j \in Slots /\ slot[j].addr = d
      BY DEF SlotsOf, Active
    <2>2. PICK m \in ring[j] :
            m.kind = "leave" /\ m.id = p /\ m.seq \notin Settled(d)
      BY <1>9 DEF LeaveOnItsWay
    <2>3. m \in ring'[j]
      BY <1>2, <1>3, <2>1, <2>2
    <2> QED  BY <1>0, <2>2, <2>3 DEF LeaveOnItsWay, Settled
  <1>10. DepartedIsAnnounced'
    BY <1>0, <1>5, <1>9, Zenon DEF DepartedIsAnnounced
  <1> QED  BY <1>4, <1>6, <1>8, <1>10

\* What a message does at a client: an accept makes it connected under the id
\* of its slot, a leave takes a player off its screen.
LEMMA RecvStep ==
  ASSUME SessionInv, NEW c \in Clients, Recv(c)
  PROVE  SessionInv'
  <1> USE DEF SessionInv
  <1>0. /\ slot' = slot /\ ring' = ring /\ sent' = sent
        /\ requests' = requests /\ refusals' = refusals /\ byes' = byes
        /\ late' = late /\ delays' = delays
    BY DEF Recv, serverVars
  <1>i. PICK i \in SlotsOf(c) : \E m \in ring[i] :
          /\ m.seq \notin Settled(c)
          /\ RecvAccept(c, m) \/ RecvInitial(c, m) \/ RecvLeave(c, m)
          /\ heard' = [heard EXCEPT ![c] = @ \cup {m.seq}]
    BY DEF Recv
  <1>1. PICK m \in ring[i] :
          /\ m.seq \notin Settled(c)
          /\ RecvAccept(c, m) \/ RecvInitial(c, m) \/ RecvLeave(c, m)
          /\ heard' = [heard EXCEPT ![c] = @ \cup {m.seq}]
    BY <1>i
  <1>2. i \in Active /\ i \in Slots /\ slot[i].addr = c
    BY DEF SlotsOf, Active
  <1>3. m \in Message /\ m.seq \in Nat /\ m.id \in Ids
    BY <1>2 DEF TypeOK, Message
  <1>4. SlotsOf(c) = {i}
    BY DEF SlotsDistinct, SlotsOf
  <1>5. /\ Active' = Active /\ PlayerIds' = PlayerIds
        /\ \A d : SlotsOf(d)' = SlotsOf(d)
    BY <1>0, ServerUnchanged
  <1>6. /\ heard' \in [Clients -> SUBSET Nat]
        /\ heard'[c] = heard[c] \cup {m.seq}
        /\ \A d \in Clients \ {c} : heard'[d] = heard[d]
        /\ passed' = passed
    BY <1>1, <1>3 DEF TypeOK, Recv
  <1>s. /\ Settled(c)' = Settled(c) \cup {m.seq}
        /\ \A d \in Clients \ {c} : Settled(d)' = Settled(d)
    BY <1>6 DEF Settled
  <1>7. /\ cstate'[c] \in {"connecting", "connected"}
        /\ \A d \in Clients \ {c} :
             /\ cstate'[d] = cstate[d] /\ myId'[d] = myId[d]
             /\ shown'[d] = shown[d] /\ ghosts'[d] = ghosts[d]
    BY <1>1 DEF RecvAccept, RecvInitial, RecvLeave, TypeOK
  <1>8. cstate[c] \in {"connecting", "connected"}
    BY <1>1 DEF RecvAccept, RecvInitial, RecvLeave
  <1>9. TypeOK'
    <2>1. /\ cstate' \in [Clients -> {"new", "connecting", "connected", "done"}]
          /\ myId' \in [Clients -> Ids \cup {0}]
      BY <1>1, <1>3 DEF RecvAccept, RecvInitial, RecvLeave, TypeOK
    <2>2. /\ shown' \in [Clients -> SUBSET Ids]
          /\ ghosts' \in [Clients -> SUBSET Ids]
      BY <1>1 DEF RecvAccept, RecvInitial, RecvLeave, TypeOK
    <2> QED  BY <1>0, <1>6, <2>1, <2>2 DEF TypeOK
  <1>10. SlotsDistinct'
    BY <1>0, <1>5 DEF SlotsDistinct
  <1>11. ChannelInv'
    <2>1. ASSUME NEW j \in Active, NEW n \in Settled(slot[j].addr)'
          PROVE  n < sent[j]
      <3>0. n \in Settled(slot[j].addr) \/ (slot[j].addr = c /\ n = m.seq)
        BY <1>0, <1>s, <2>1, ActiveTyped
      <3>2. CASE n \in Settled(slot[j].addr)
        BY <3>2 DEF ChannelInv
      <3>3. CASE n \notin Settled(slot[j].addr)
        <4>1. slot[j].addr = c /\ n = m.seq
          BY <3>0, <3>3
        <4>2. j = i
          BY <1>2, <4>1 DEF SlotsDistinct
        <4> QED  BY <4>1, <4>2 DEF ChannelInv
      <3> QED  BY <3>2, <3>3
    <2> QED  BY <1>0, <1>5, <2>1 DEF ChannelInv
  <1>12. cstate'[c] # "connected" => shown'[c] = {}
    BY <1>1 DEF RecvAccept, RecvInitial, RecvLeave, TypeOK, ClientInv
  <1>13. ClientInv'
    BY <1>0, <1>4, <1>5, <1>s, <1>7, <1>8, <1>12 DEF ClientInv
  <1>14. cstate'[c] = "connected" => slot[i].id = myId'[c]
    <2>1. CASE RecvAccept(c, m)
      BY <1>2, <2>1 DEF RecvAccept, TypeOK, ChannelInv
    <2>2. CASE ~RecvAccept(c, m)
      BY <1>1, <2>2 DEF RecvInitial, RecvLeave, OwnIdAgrees
    <2> QED  BY <2>1, <2>2
  <1>15. OwnIdAgrees'
    BY <1>0, <1>4, <1>5, <1>7, <1>14 DEF OwnIdAgrees
  <1>16. ASSUME cstate'[c] = "connected",
                NEW p \in shown'[c] \ ghosts'[c]
         PROVE  p \in PlayerIds \ {slot[i].id} \/ LeaveOnItsWay(i, c, p)'
    <2>1. /\ cstate[c] = "connected" /\ p \in shown[c] \ ghosts[c]
          /\ ~(m.kind = "leave" /\ m.id = p)
      BY <1>1, <1>16 DEF RecvAccept, RecvInitial, RecvLeave, TypeOK, ClientInv
    <2>2. p \in PlayerIds \ {slot[i].id} \/ LeaveOnItsWay(i, c, p)
      BY <2>1 DEF DepartedIsAnnounced
    <2>3. ASSUME NEW n \in ring[i], n.kind = "leave", n.id = p,
                 n.seq \notin Settled(c)
          PROVE  n.seq \notin Settled(c)'
      BY <1>2, <1>s, <2>1, <2>3 DEF ChannelInv
    <2> QED  BY <1>0, <2>2, <2>3 DEF LeaveOnItsWay
  <1>17. ASSUME NEW d \in Clients, cstate'[d] = "connected",
                NEW j \in SlotsOf(d), NEW p \in shown'[d] \ ghosts'[d]
         PROVE  p \in PlayerIds \ {slot[j].id} \/ LeaveOnItsWay(j, d, p)'
    <2>1. CASE d = c
      <3>1. j = i
        BY <1>4, <2>1
      <3> QED  BY <1>16, <1>17, <2>1, <3>1
    <2>2. CASE d # c
      <3>1. p \in PlayerIds \ {slot[j].id} \/ LeaveOnItsWay(j, d, p)
        BY <1>7, <1>17, <2>2 DEF DepartedIsAnnounced
      <3>2. ring'[j] = ring[j] /\ Settled(d)' = Settled(d)
        BY <1>0, <1>s, <2>2
      <3> QED  BY <3>1, <3>2 DEF LeaveOnItsWay
    <2> QED  BY <2>1, <2>2
  <1>18. DepartedIsAnnounced'
    BY <1>0, <1>5, <1>17, Zenon DEF DepartedIsAnnounced
  <1> QED  BY <1>9, <1>10, <1>11, <1>13, <1>15, <1>18

\* A message that will not come keeps on the screen whom it was to take off,
\* unless another leave for that id is to come; such a player is a ghost.
LEMMA PassOverStep ==
  ASSUME SessionInv, NEW c \in Clients, PassOver(c)
  PROVE  SessionInv'
  <1> USE DEF SessionInv
  <1>0. /\ slot' = slot /\ ring' = ring /\ sent' = sent
        /\ cstate' = cstate /\ myId' = myId /\ shown' = shown /\ heard' = heard
        /\ requests' = requests /\ refusals' = refusals /\ byes' = byes
        /\ late' = late /\ delays' = delays
    BY DEF PassOver, serverVars
  <1>i. PICK i \in SlotsOf(c) : \E m \in ring[i] :
          /\ m.kind # "accept" /\ m.seq \notin Settled(c)
          /\ passed' = [passed EXCEPT ![c] = @ \cup {m.seq}]
          /\ ghosts' = [ghosts EXCEPT ![c] = @ \cup Stranded(i, c, m)]
    BY DEF PassOver
  <1>1. PICK m \in ring[i] :
          /\ m.kind # "accept" /\ m.seq \notin Settled(c)
          /\ passed' = [passed EXCEPT ![c] = @ \cup {m.seq}]
          /\ ghosts' = [ghosts EXCEPT ![c] = @ \cup Stranded(i, c, m)]
    BY <1>i
  <1>2. i \in Active /\ i \in Slots /\ slot[i].addr = c
    BY DEF SlotsOf, Active
  <1>3. m \in Message /\ m.seq \in Nat
    BY <1>2 DEF TypeOK, Message
  <1>4. SlotsOf(c) = {i}
    BY DEF SlotsDistinct, SlotsOf
  <1>5. /\ Active' = Active /\ PlayerIds' = PlayerIds
        /\ \A d : SlotsOf(d)' = SlotsOf(d)
    BY <1>0, ServerUnchanged
  <1>6. /\ passed' \in [Clients -> SUBSET Nat]
        /\ passed'[c] = passed[c] \cup {m.seq}
        /\ \A d \in Clients \ {c} : passed'[d] = passed[d]
    BY <1>1, <1>3 DEF TypeOK
  <1>7. /\ Settled(c)' = Settled(c) \cup {m.seq}
        /\ \A d \in Clients \ {c} : Settled(d)' = Settled(d)
    BY <1>0, <1>6 DEF Settled
  <1>8. Stranded(i, c, m) \subseteq Ids
    BY DEF Stranded, TypeOK
  <1>9. /\ ghosts' \in [Clients -> SUBSET Ids]
        /\ ghosts'[c] = ghosts[c] \cup Stranded(i, c, m)
        /\ \A d \in Clients \ {c} : ghosts'[d] = ghosts[d]
    BY <1>1, <1>8 DEF TypeOK
  <1>10. TypeOK'
    BY <1>0, <1>6, <1>9 DEF TypeOK
  <1>11. SlotsDistinct' /\ OwnIdAgrees'
    BY <1>0, <1>5 DEF SlotsDistinct, OwnIdAgrees
  <1>12. cstate[c] \in {"connecting", "connected"}
    BY DEF PassOver
  <1>13. ClientInv'
    BY <1>0, <1>4, <1>5, <1>7, <1>12 DEF ClientInv
  <1>14. ASSUME NEW j \in Active, NEW n \in Settled(slot[j].addr)'
         PROVE  n < sent[j]
    <2>1. n \in Settled(slot[j].addr) \/ (slot[j].addr = c /\ n = m.seq)
      BY <1>0, <1>7, <1>14, ActiveTyped
    <2>2. CASE n \in Settled(slot[j].addr)
      BY <2>2 DEF ChannelInv
    <2>3. CASE slot[j].addr = c /\ n = m.seq
      <3>1. j = i
        BY <1>2, <2>3 DEF SlotsDistinct
      <3> QED  BY <2>3, <3>1 DEF ChannelInv
    <2> QED  BY <2>1, <2>2, <2>3
  <1>15. ChannelInv'
    BY <1>0, <1>5, <1>14 DEF ChannelInv
  <1>16. ASSUME cstate[c] = "connected", NEW p \in shown[c] \ ghosts'[c]
         PROVE  p \in PlayerIds \ {slot[i].id} \/ LeaveOnItsWay(i, c, p)'
    <2>1. SUFFICES ASSUME p \notin PlayerIds \ {slot[i].id}
                   PROVE  LeaveOnItsWay(i, c, p)'
      OBVIOUS
    <2>2. LeaveOnItsWay(i, c, p)
      BY <1>9, <1>16, <2>1 DEF DepartedIsAnnounced
    <2>3. PICK n \in ring[i] :
            n.kind = "leave" /\ n.id = p /\ n.seq \notin Settled(c)
      BY <2>2 DEF LeaveOnItsWay
    <2>4. CASE n = m
      <3>1. PICK k \in ring[i] : /\ k.kind = "leave" /\ k.id = p
                                 /\ k.seq \notin Settled(c) \cup {m.seq}
        BY <1>9, <1>16, <2>1, <2>3, <2>4 DEF Stranded
      <3> QED  BY <1>0, <1>7, <3>1 DEF LeaveOnItsWay
    <2>5. CASE n # m
      <3>1. n.seq # m.seq
        BY <1>2, <2>5 DEF ChannelInv
      <3> QED  BY <1>0, <1>7, <2>3, <3>1 DEF LeaveOnItsWay
    <2> QED  BY <2>4, <2>5
  <1>17. ASSUME NEW d \in Clients, cstate[d] = "connected",
                NEW j \in SlotsOf(d), NEW p \in shown[d] \ ghosts'[d]
         PROVE  p \in PlayerIds \ {slot[j].id} \/ LeaveOnItsWay(j, d, p)'
    <2>1. CASE d = c
      BY <1>4, <1>16, <1>17, <2>1
    <2>2. CASE d # c
      <3>1. p \in PlayerIds \ {slot[j].id} \/ LeaveOnItsWay(j, d, p)
        BY <1>9, <1>17, <2>2 DEF DepartedIsAnnounced
      <3> QED  BY <1>0, <1>7, <2>2, <3>1 DEF LeaveOnItsWay
    <2> QED  BY <2>1, <2>2
  <1>18. DepartedIsAnnounced'
    BY <1>0, <1>5, <1>17, Zenon DEF DepartedIsAnnounced
  <1> QED  BY <1>10, <1>11, <1>13, <1>15, <1>18

-----------------------------------------------------------------------------
\* A client is given a free slot and a free id.
LEMMA AdmitStep ==
  ASSUME SessionInv, NEW c \in requests, SlotsOf(c) = {},
         NEW k \in Slots \ Active, NEW q \in Ids \ PlayerIds, Admit(c, k, q),
         UNCHANGED <<clientVars, requests, refusals, byes, late, delays>>
  PROVE  SessionInv'
  <1> USE DEF SessionInv
  <1>0. /\ cstate' = cstate /\ myId' = myId /\ shown' = shown
        /\ heard' = heard /\ passed' = passed
        /\ requests' = requests /\ refusals' = refusals /\ byes' = byes
        /\ late' = late /\ delays' = delays
    BY DEF clientVars
  <1>g. /\ ghosts' \in [Clients -> SUBSET Ids]
        /\ \A d \in Clients : ghosts'[d] = ghosts[d] \ {q}
    BY DEF Admit, TypeOK
  <1>s. \A d : Settled(d)' = Settled(d)
    BY ONLY <1>0, Zenon DEF Settled
  <1>1. c \in Clients /\ cstate[c] \in {"connecting", "done"} /\ Settled(c) = {}
    BY DEF TypeOK, ClientInv
  <1>2. /\ slot'[k] = [addr |-> c, id |-> q]
        /\ slot'[k].addr = c /\ slot'[k].id = q
        /\ slot' \in [Slots -> [addr : Clients, id : Ids] \cup {Vacant}]
        /\ \A j \in Slots \ {k} : slot'[j] = slot[j]
    BY <1>1 DEF Admit, TypeOK
  <1>3. slot'[k] # Vacant
    BY <1>1, <1>2, SessionAssumption DEF Vacant
  <1>4. Active' = Active \cup {k}
    BY <1>2, <1>3 DEF Active
  <1>5. /\ SlotsOf(c)' = {k}
        /\ \A d \in Clients \ {c} : SlotsOf(d)' = SlotsOf(d)
    BY <1>1, <1>2, <1>4 DEF SlotsOf, Active
  <1>6. PlayerIds' = PlayerIds \cup {q}
    BY <1>2, <1>4 DEF PlayerIds, Active
  <1>7. Msg(0, "accept", q) \in Message /\ Msg(1, "initial", q) \in Message
    BY MsgTyped
  <1>8. /\ ring'[k] = {Msg(0, "accept", q), Msg(1, "initial", q)}
        /\ sent'[k] = 2
        /\ \A j \in Active : ring'[j] = ring[j] /\ sent'[j] = sent[j] + 1
    BY DEF Admit, Active, TypeOK
  <1>9. TypeOK'
    <2>1. ring' \in [Slots -> SUBSET Message]
      BY <1>7 DEF Admit, TypeOK
    <2>2. sent' \in [Slots -> Nat]
      BY DEF Admit, TypeOK
    <2> QED  BY <1>0, <1>g, <1>2, <2>1, <2>2 DEF TypeOK
  <1>10. SlotsDistinct'
    <2>1. \A j \in Active : slot[j].addr # c /\ slot[j].id # q
      BY DEF SlotsOf, PlayerIds
    <2> QED  BY <1>2, <1>4, <2>1 DEF SlotsDistinct, Active
  <1>11. ClientInv'
    BY <1>0, <1>s, <1>1, <1>5 DEF ClientInv
  <1>12. ChannelInv'
    <2>1. ASSUME NEW j \in Active
          PROVE  /\ \A m \in ring'[j] : m.seq < sent'[j]
                 /\ \A m \in ring'[j] : m.kind = "accept" => m.id = slot'[j].id
                 /\ \A m, n \in ring'[j] : m.seq = n.seq => m = n
                 /\ \A n \in Settled(slot'[j].addr) : n < sent'[j]
      <3>1. /\ j \in Slots /\ slot'[j] = slot[j] /\ sent[j] \in Nat
            /\ \A m \in ring[j] : m.seq \in Nat
            /\ \A n \in Settled(slot[j].addr) : n \in Nat
        BY <1>2, ActiveTyped DEF Active, TypeOK, Message, Settled
      <3>2. Settled(slot'[j].addr) = Settled(slot[j].addr)
        BY <3>1 DEF Settled
      <3>3. ring'[j] = ring[j] /\ sent'[j] = sent[j] + 1
        BY <1>8
      <3>4. \A n \in Settled(slot'[j].addr) : n < sent'[j]
        BY <3>1, <3>2, <3>3 DEF ChannelInv
      <3>5. /\ \A m \in ring[j] : m.seq < sent[j] + 1
            /\ \A m \in ring[j] : m.kind = "accept" => m.id = slot[j].id
            /\ \A m, n \in ring[j] : m.seq = n.seq => m = n
        BY <3>1 DEF ChannelInv
      <3> QED  BY <3>1, <3>3, <3>4, <3>5
    <2>2. /\ \A m \in ring'[k] : m.seq < sent'[k]
          /\ \A m \in ring'[k] : m.kind = "accept" => m.id = slot'[k].id
          /\ \A m, n \in ring'[k] : m.seq = n.seq => m = n
      BY <1>2, <1>8, MsgTyped
    <2>3. Settled(slot'[k].addr) = {}
      BY <1>1, <1>2 DEF Settled
    <2> QED  BY <1>s, <1>4, <2>1, <2>2, <2>3 DEF ChannelInv
  <1>13. OwnIdAgrees'
    BY <1>0, <1>1, <1>2, <1>5 DEF OwnIdAgrees, SlotsOf, Active
  <1>14. ASSUME NEW d \in Clients, cstate[d] = "connected",
                NEW j \in SlotsOf(d)', NEW p \in shown[d] \ ghosts'[d]
         PROVE  p \in PlayerIds' \ {slot'[j].id} \/ LeaveOnItsWay(j, d, p)'
    <2>1. d # c /\ j \in SlotsOf(d)
      BY <1>1, <1>5, <1>14
    <2>2. j \in Active /\ slot'[j] = slot[j] /\ slot[j].id \in PlayerIds
      BY <1>2, <2>1 DEF SlotsOf, Active, PlayerIds
    <2>3. CASE p = q
      BY <1>6, <2>2, <2>3
    <2>4. CASE p # q
      <3>1. p \in PlayerIds \ {slot[j].id} \/ LeaveOnItsWay(j, d, p)
        BY <1>g, <1>14, <2>1, <2>4 DEF DepartedIsAnnounced
      <3>2. ring'[j] = ring[j]
        BY <1>8, <2>2
      <3> QED  BY <1>s, <1>6, <2>2, <3>1, <3>2 DEF LeaveOnItsWay
    <2> QED  BY <2>3, <2>4
  <1>15. DepartedIsAnnounced'
    BY <1>0, <1>14, Zenon DEF DepartedIsAnnounced
  <1> QED  BY <1>9, <1>10, <1>11, <1>12, <1>13, <1>15

LEMMA HandleConnectStep ==
  ASSUME SessionInv, NEW c \in Clients, HandleConnect(c)
  PROVE  SessionInv'
  <1>1. CASE Accept(c)
    BY <1>1, AdmitStep DEF Accept, HandleConnect
  <1>2. CASE Known(c) \/ Refuse(c)
    <2>1. /\ slot' = slot /\ ring' = ring /\ sent' = sent
          /\ cstate' = cstate /\ myId' = myId /\ shown' = shown
          /\ heard' = heard /\ passed' = passed
          /\ requests' = requests /\ byes' = byes
          /\ late' = late /\ delays' = delays /\ ghosts' = ghosts
      BY <1>2 DEF Known, Refuse, HandleConnect, serverVars, clientVars
    <2>2. refusals' \in SUBSET Clients
      BY <1>2 DEF Known, Refuse, SessionInv, TypeOK
    <2>3. TypeOK'
      BY <2>1, <2>2 DEF SessionInv, TypeOK
    <2>4. /\ Active' = Active /\ PlayerIds' = PlayerIds
          /\ \A d : SlotsOf(d)' = SlotsOf(d)
      BY <2>1, ServerUnchanged
    <2>5. SlotsDistinct' /\ ChannelInv' /\ OwnIdAgrees' /\ ClientInv'
      BY <2>1, <2>4
      DEF SessionInv, SlotsDistinct, ChannelInv, OwnIdAgrees, ClientInv, Settled
    <2>6. DepartedIsAnnounced'
      BY <2>1, <2>4
      DEF SessionInv, DepartedIsAnnounced, LeaveOnItsWay, Settled
    <2> QED  BY <2>3, <2>5, <2>6 DEF SessionInv
  <1> QED  BY <1>1, <1>2 DEF HandleConnect

-----------------------------------------------------------------------------
\* A client loses its slot: the others are owed a leave.
LEMMA DropStep ==
  ASSUME SessionInv, NEW k \in Active, Drop(k),
         cstate[slot[k].addr] # "connecting",
         cstate[slot[k].addr] = "connected" => slot[k].addr \notin requests',
         requests' \subseteq requests, byes' \subseteq byes,
         UNCHANGED <<clientVars, refusals, lateVars>>
  PROVE  SessionInv'
  <1> USE DEF SessionInv
  <1>c. PICK c \in Clients : c = slot[k].addr
    BY ActiveTyped
  <1>q. PICK q \in Ids : q = slot[k].id
    BY ActiveTyped
  <1>0. /\ cstate' = cstate /\ myId' = myId /\ shown' = shown
        /\ heard' = heard /\ passed' = passed
        /\ refusals' = refusals /\ late' = late /\ delays' = delays
        /\ ghosts' = ghosts
    BY DEF clientVars, lateVars
  <1>s. \A d : Settled(d)' = Settled(d)
    BY ONLY <1>0, Zenon DEF Settled
  <1>1. k \in Slots /\ k \in SlotsOf(c)
    BY <1>c, ActiveTyped
  <1>2. /\ slot'[k] = Vacant
        /\ slot' \in [Slots -> [addr : Clients, id : Ids] \cup {Vacant}]
        /\ \A j \in Slots \ {k} : slot'[j] = slot[j]
    BY <1>1 DEF Drop, TypeOK
  <1>3. Active' = Active \ {k}
    BY <1>2 DEF Active
  <1>4. SlotsOf(c) = {k}
    BY <1>c DEF SlotsDistinct, SlotsOf
  <1>5. /\ SlotsOf(c)' = {}
        /\ \A d \in Clients \ {c} : SlotsOf(d)' = SlotsOf(d)
    BY <1>c, <1>2, <1>3, <1>4 DEF SlotsOf, Active
  <1>6. PlayerIds = PlayerIds' \cup {q}
    BY <1>q, <1>2, <1>3 DEF PlayerIds, Active
  <1>7. \A j \in Slots : Msg(sent[j], "leave", q) \in Message
    BY <1>1, MsgTyped DEF TypeOK
  <1>8. \A j \in Active \ {k} :
          /\ ring'[j] = ring[j] \cup {Msg(sent[j], "leave", q)}
          /\ sent'[j] = sent[j] + 1
    BY <1>q DEF Drop, Active
  <1>9. TypeOK'
    <2>1. ring' \in [Slots -> SUBSET Message]
      BY <1>q, <1>7 DEF Drop, TypeOK
    <2>2. sent' \in [Slots -> Nat]
      BY DEF Drop, TypeOK
    <2>3. requests' \in SUBSET Clients /\ byes' \in SUBSET Clients
      BY DEF TypeOK
    <2> QED  BY <1>0, <1>2, <2>1, <2>2, <2>3 DEF TypeOK
  <1>10. SlotsDistinct'
    BY <1>2, <1>3 DEF SlotsDistinct, Active
  <1>11. ClientInv'
    <2>1. cstate[c] # "new"
      BY <1>1 DEF ClientInv
    <2> QED  BY <1>c, <1>0, <1>s, <1>1, <1>5, <2>1 DEF ClientInv
  <1>12. ASSUME NEW j \in Active \ {k}
         PROVE  /\ j \in Slots /\ slot'[j] = slot[j] /\ sent[j] \in Nat
                /\ \A m \in ring[j] : m.seq \in Nat
                /\ \A n \in Settled(slot[j].addr) : n \in Nat
                /\ Msg(sent[j], "leave", q).seq = sent[j]
                /\ Msg(sent[j], "leave", q).kind = "leave"
                /\ Msg(sent[j], "leave", q).id = q
    BY <1>1, <1>2, ActiveTyped, MsgTyped DEF Active, TypeOK, Message, Settled
  <1>13. ChannelInv'
    <2>1. ASSUME NEW j \in Active \ {k}
          PROVE  /\ \A m \in ring'[j] : m.seq < sent'[j]
                 /\ \A m \in ring'[j] : m.kind = "accept" => m.id = slot'[j].id
                 /\ \A m, n \in ring'[j] : m.seq = n.seq => m = n
                 /\ \A n \in Settled(slot'[j].addr) : n < sent'[j]
      BY <1>8, <1>12 DEF ChannelInv
    <2> QED  BY <1>s, <1>3, <2>1 DEF ChannelInv
  <1>14. OwnIdAgrees'
    BY <1>0, <1>2, <1>5 DEF OwnIdAgrees, SlotsOf, Active
  <1>15. ASSUME NEW d \in Clients, cstate[d] = "connected",
                NEW j \in SlotsOf(d)', NEW p \in shown[d] \ ghosts[d]
         PROVE  p \in PlayerIds' \ {slot'[j].id} \/ LeaveOnItsWay(j, d, p)'
    <2>1. d # c /\ j \in SlotsOf(d)
      BY <1>5, <1>15
    <2>2. j \in Active \ {k} /\ slot[j].addr = d /\ slot'[j] = slot[j]
      BY <1>2, <2>1 DEF SlotsOf, Active
    <2>3. p \in PlayerIds \ {slot[j].id} \/ LeaveOnItsWay(j, d, p)
      BY <1>15, <2>1 DEF DepartedIsAnnounced
    <2>4. CASE LeaveOnItsWay(j, d, p)
      BY <1>s, <1>8, <2>2, <2>4 DEF LeaveOnItsWay
    <2>5. CASE p \in PlayerIds' /\ p # slot[j].id
      BY <2>2, <2>5
    <2>6. CASE p = q
      <3>1. Msg(sent[j], "leave", q) \in ring'[j]
        BY <1>8, <2>2
      <3>2. sent[j] \notin Settled(d)
        BY <1>12, <2>2 DEF ChannelInv
      <3> QED  BY <1>s, <1>12, <2>2, <2>6, <3>1, <3>2 DEF LeaveOnItsWay
    <2> QED  BY <1>6, <2>3, <2>4, <2>5, <2>6
  <1>16. DepartedIsAnnounced'
    BY <1>0, <1>15, Zenon DEF DepartedIsAnnounced
  <1> QED  BY <1>9, <1>10, <1>11, <1>13, <1>14, <1>16

LEMMA HandleDisconnectStep ==
  ASSUME SessionInv, NEW c \in Clients, HandleDisconnect(c)
  PROVE  SessionInv'
  <1>1. PICK i \in SlotsOf(c) : Drop(i)
    BY DEF HandleDisconnect
  <1>2. i \in Active /\ slot[i].addr = c
    BY DEF SlotsOf
  <1>3. cstate[c] = "done"
    BY DEF SessionInv, ClientInv, HandleDisconnect
  <1> QED  BY <1>1, <1>2, <1>3, DropStep DEF HandleDisconnect

LEMMA TimeoutStep ==
  ASSUME SessionInv, NEW i \in Slots, Timeout(i)
  PROVE  SessionInv'
  BY DropStep DEF Timeout

-----------------------------------------------------------------------------
LEMMA StutterStep ==
  ASSUME SessionInv, UNCHANGED vars
  PROVE  SessionInv'
  <1>1. /\ slot' = slot /\ ring' = ring /\ sent' = sent
        /\ cstate' = cstate /\ myId' = myId /\ shown' = shown
        /\ heard' = heard /\ passed' = passed
        /\ requests' = requests /\ refusals' = refusals /\ byes' = byes
        /\ late' = late /\ delays' = delays /\ ghosts' = ghosts
    BY DEF vars, serverVars, clientVars, lateVars
  <1>2. /\ Active' = Active /\ PlayerIds' = PlayerIds
        /\ \A d : SlotsOf(d)' = SlotsOf(d)
    BY <1>1, ServerUnchanged
  <1>3. TypeOK' /\ SlotsDistinct' /\ ClientInv' /\ ChannelInv' /\ OwnIdAgrees'
    BY <1>1, <1>2
    DEF SessionInv, TypeOK, SlotsDistinct, ClientInv, ChannelInv, OwnIdAgrees,
        Settled
  <1>4. DepartedIsAnnounced'
    BY <1>1, <1>2 DEF SessionInv, DepartedIsAnnounced, LeaveOnItsWay, Settled
  <1> QED  BY <1>3, <1>4 DEF SessionInv

\* Every step preserves the invariant.
LEMMA NextHolds ==
  ASSUME SessionInv, [Next]_vars
  PROVE  SessionInv'
  <1>1. ASSUME NEW c \in Clients, HandleConnect(c)  PROVE SessionInv'
    BY <1>1, HandleConnectStep
  <1>2. ASSUME NEW c \in Clients, HandleDisconnect(c)  PROVE SessionInv'
    BY <1>2, HandleDisconnectStep
  <1>3. ASSUME NEW c \in Clients, Position(c)  PROVE SessionInv'
    BY <1>3, PositionStep
  <1>4. ASSUME NEW c \in Clients, Connect(c)  PROVE SessionInv'
    BY <1>4, ConnectStep
  <1>5. ASSUME NEW c \in Clients, GiveUp(c)  PROVE SessionInv'
    BY <1>5, FinishStep DEF GiveUp
  <1>6. ASSUME NEW c \in Clients, Leave(c)  PROVE SessionInv'
    BY <1>6, FinishStep DEF Leave
  <1>7. ASSUME NEW c \in Clients, RecvRefusal(c)  PROVE SessionInv'
    BY <1>7, FinishStep DEF RecvRefusal
  <1>8. ASSUME NEW c \in Clients, Recv(c)  PROVE SessionInv'
    BY <1>8, RecvStep
  <1>9. ASSUME NEW c \in Clients, Snapshot(c)  PROVE SessionInv'
    BY <1>9, SnapshotStep
  <1>10. ASSUME NEW c \in Clients, DelaySnapshot(c)  PROVE SessionInv'
    BY <1>10, DelaySnapshotStep
  <1>11. ASSUME NEW c \in Clients, LateSnapshot(c)  PROVE SessionInv'
    BY <1>11, LateSnapshotStep
  <1>12. ASSUME NEW c \in Clients, PassOver(c)  PROVE SessionInv'
    BY <1>12, PassOverStep
  <1>13. ASSUME NEW i \in Slots, Timeout(i)  PROVE SessionInv'
    BY <1>13, TimeoutStep
  <1> QED  BY <1>1, <1>2, <1>3, <1>4, <1>5, <1>6, <1>7, <1>8, <1>9, <1>10, <1>11,
              <1>12, <1>13, StutterStep DEF Next

LEMMA Invariance == Spec => []SessionInv
  BY InitHolds, NextHolds, PTL DEF Spec

\* Slots, channels, clients and what is in flight keep their types.
THEOREM SessionTypeCorrect == Spec => []TypeOK
  <1>1. SessionInv => TypeOK
    BY DEF SessionInv
  <1> QED  BY <1>1, Invariance, PTL

\* alloc_client never gives two players one id, nor a client a second slot,
\* however often its request is delivered and whoever leaves in between.
THEOREM SlotsStayDistinct == Spec => []SlotsDistinct
  <1>1. SessionInv => SlotsDistinct
    BY DEF SessionInv
  <1> QED  BY <1>1, Invariance, PTL

\* The id a client took from PKT_CONNECT_ACCEPT is that of the slot the server
\* has for its address, as long as both think it connected.
THEOREM OwnIdsAgree == Spec => []OwnIdAgrees
  <1>1. SessionInv => OwnIdAgrees
    BY DEF SessionInv
  <1> QED  BY <1>1, Invariance, PTL

\* The server owes a client a PKT_PLAYER_LEAVE for every departed player it
\* still draws, those apart that a snapshot brought back after their leave or
\* whose leave its channel passed over, as it does with a message that 16 newer
\* ones overtake.
THEOREM DeparturesAreAnnounced == Spec => []DepartedIsAnnounced
  <1>1. SessionInv => DepartedIsAnnounced
    BY DEF SessionInv
  <1> QED  BY <1>1, Invariance, PTL

=============================================================================
