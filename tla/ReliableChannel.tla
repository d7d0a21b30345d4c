-------------------------- MODULE ReliableChannel --------------------------
(***************************************************************************)
(* One direction of the reliable UDP channel (src/src/reliable.c) between  *)
(* the server and one client: the direction from the server, which is the  *)
(* only one whose send buffer is ever ticked (server.c calls reliable_tick *)
(* and client.c does not).                                                 *)
(*                                                                         *)
(* Messages are identified by their number: 0, 1, 2, ... in the order they *)
(* are sent.  The code sees only the 16-bit seq of a message, SeqNo(n);    *)
(* the state keeps the number so that properties can tell messages apart,  *)
(* and every guard is written on SeqNo, as in the code.                    *)
(***************************************************************************)
EXTENDS Integers, FiniteSets

CONSTANTS
  Half,         \* half of the sequence space: 2^15 in the code
  Window,       \* RELIABLE_WINDOW, the slots of the send buffer: 64
  AckWidth,     \* bits of recv_bits and ack_bits: 16
  ShiftWidth,   \* bits of the unsigned int that is shifted: 32
  MaxLag,       \* network assumption: how far behind the sender a packet,
                \* an ack or the receiver may be while the session lives
  MaxSends,     \* bound: messages of one connection
  MaxAcks       \* bound: ack-carrying packets in flight at once

ASSUME SizesAssumption ==
  /\ Half \in Nat \ {0}
  /\ Window \in Nat \ {0}
  /\ AckWidth \in Nat \ {0}
  /\ ShiftWidth \in Nat \ {0}
  /\ MaxLag \in Nat
  /\ MaxSends \in Nat
  /\ MaxAcks \in Nat

\* The slots of the ring divide the sequence space, a ring never spans half
\* of it, and the shifted word is wider than recv_bits.
ASSUME RatioAssumption ==
  /\ (2 * Half) % Window = 0
  /\ Window <= MaxLag
  /\ MaxLag <= Half
  /\ AckWidth <= ShiftWidth

VARIABLES
  sent,         \* messages sent so far; next_seq is SeqNo(sent)
  sendBuf,      \* send_buf: the message of each slot that is in_use, or Free
  last,         \* the message last_recv_seq stands for; NoMessage: ~recv_any
  recvBits,     \* recv_bits: the k with bit k-1 set ("last - k was received")
  packets,      \* data packets in flight, by message number
  acks,         \* ack fields in flight on packets of the other direction
  handed,       \* history: times each message was handed to the game code
  phantoms      \* history: messages that an undefined shift marked as received

vars == <<sent, sendBuf, last, recvBits, packets, acks, handed, phantoms>>

Messages  == 0 .. MaxSends - 1
Slots     == 0 .. Window - 1
Offsets   == 1 .. AckWidth
Free      == -1
NoMessage == -1
AckPacket == [last : Messages, bits : SUBSET Offsets]

TypeOK ==
  /\ sent \in 0 .. MaxSends
  /\ sendBuf \in [Slots -> Messages \cup {Free}]
  /\ last \in Messages \cup {NoMessage}
  /\ recvBits \in SUBSET Offsets
  /\ packets \in SUBSET Messages
  /\ acks \in SUBSET AckPacket
  /\ handed \in [Messages -> Nat]
  /\ phantoms \in SUBSET Int

-----------------------------------------------------------------------------
(* Sequence arithmetic.                                                    *)

SeqSpace == 2 * Half

\* The uint16_t a message travels under.
SeqNo(n) == n % SeqSpace

\* (int16_t)(a - b)
Diff(a, b) ==
  LET d == (a - b) % SeqSpace
  IN  IF d < Half THEN d ELSE d - SeqSpace

Slot(n) == SeqNo(n) % Window

InUse == {sendBuf[i] : i \in {j \in Slots : sendBuf[j] # Free}}

-----------------------------------------------------------------------------
(* The sender: server.c.                                                   *)

Init ==
  /\ sent = 0
  /\ sendBuf = [i \in Slots |-> Free]
  /\ last = NoMessage
  /\ recvBits = {}
  /\ packets = {}
  /\ acks = {}
  /\ handed = [n \in Messages |-> 0]
  /\ phantoms = {}

\* The session ends by the 10 s timeouts of client.c and server.c before the
\* sender is half the sequence space ahead of what the client received.
SessionAlive == last # NoMessage => sent - last < MaxLag

\* No datagram outlives MaxLag later sends.
Alive(n) == sent - n < MaxLag

\* reliable_send: the entry of the slot is overwritten, acked or not.
Send ==
  /\ sent < MaxSends
  /\ SessionAlive
  /\ sent' = sent + 1
  /\ sendBuf' = [sendBuf EXCEPT ![Slot(sent)] = sent]
  /\ packets' = {n \in packets : Alive(n)} \cup {sent}
  /\ acks' = {a \in acks : Alive(a.last)}
  /\ UNCHANGED <<last, recvBits, handed, phantoms>>

\* reliable_tick: the entries whose timer ran out are sent again.
Tick(due) ==
  /\ due # {}
  /\ due \subseteq InUse
  /\ packets' = packets \cup due
  /\ UNCHANGED <<sent, sendBuf, last, recvBits, acks, handed, phantoms>>

\* Mutants of Confirms: the ack field read as cumulative; bit d read for
\* offset d where bit d - 1 is meant; the bits not read at all.
ConfirmsCumulative(a, n) == Diff(SeqNo(a.last), SeqNo(n)) >= 0

ConfirmsBitOffByOne(a, n) ==
  LET d == Diff(SeqNo(a.last), SeqNo(n))
  IN  d = 0 \/ (d > 0 /\ d + 1 \in a.bits)

ConfirmsLastOnly(a, n) == Diff(SeqNo(a.last), SeqNo(n)) = 0

\* Does an ack field free the entry of message n?
Confirms(a, n) ==
  LET d == Diff(SeqNo(a.last), SeqNo(n))
  IN  d = 0 \/ d \in a.bits

\* reliable_on_recv at the server, the half that processes an ack.
RecvAck(a) ==
  LET freed == {n \in InUse : Confirms(a, n)}
  IN  /\ a \in acks
      /\ sendBuf' = [i \in Slots |->
                       IF sendBuf[i] \in freed THEN Free ELSE sendBuf[i]]
      /\ UNCHANGED <<sent, last, recvBits, packets, acks, handed, phantoms>>

-----------------------------------------------------------------------------
(* The receiver: client.c.                                                 *)

\* Mutant of MarkPrevious: the line that marks the previous message is gone.
MarkPreviousMissing(d) == {{}}

\* What `recv_bits |= 1u << (diff - 1)` can set: the bit of the previous last
\* message; no bit of the 16 for a larger shift; and, when the shift count
\* reaches the width of the word (undefined in C), nothing or the bit at the
\* count modulo the width, which is what the x86 and ARM shifts do.
MarkPrevious(d) ==
  IF d <= ShiftWidth
    THEN {{d} \cap Offsets}
    ELSE {{}, {((d - 1) % ShiftWidth) + 1} \cap Offsets}

\* Mutant of Shifted: the old bits are lost.
ShiftedAway(d) == {}

\* The bits after last_recv_seq moves forward by d.
Shifted(d) == {k + d : k \in recvBits} \cap Offsets

Hand(n) == handed' = [handed EXCEPT ![n] = @ + 1]

\* The first packet of the connection.
RecvFirst(n) ==
  /\ last = NoMessage
  /\ last' = n
  /\ recvBits' = {}
  /\ Hand(n)
  /\ UNCHANGED phantoms

\* Mutant of RecvNewer: a retransmission of the last message counts as new.
RecvNotOlder(n) ==
  /\ last # NoMessage
  /\ LET d == Diff(SeqNo(n), SeqNo(last))
     IN  /\ d >= 0
         /\ \E previous \in MarkPrevious(d) :
              /\ recvBits' = (IF d >= AckWidth THEN {} ELSE Shifted(d))
                               \cup previous
              /\ phantoms' = phantoms \cup {n - k : k \in previous \ {d}}
  /\ last' = n
  /\ Hand(n)

RecvNewer(n) ==
  /\ last # NoMessage
  /\ LET d == Diff(SeqNo(n), SeqNo(last))
     IN  /\ d > 0
         /\ \E previous \in MarkPrevious(d) :
              /\ recvBits' = (IF d >= AckWidth THEN {} ELSE Shifted(d))
                               \cup previous
              /\ phantoms' = phantoms \cup {n - k : k \in previous \ {d}}
  /\ last' = n
  /\ Hand(n)

\* Out of order, but its bit says it was not received before.
RecvMissing(n) ==
  /\ last # NoMessage
  /\ LET d == Diff(SeqNo(n), SeqNo(last))
     IN  /\ d < 0
         /\ d > -AckWidth
         /\ -d \notin recvBits
         /\ recvBits' = recvBits \cup {-d}
  /\ Hand(n)
  /\ UNCHANGED <<last, phantoms>>

\* A duplicate, or too old for the bits to tell: is_new stays false.
RecvIgnored(n) ==
  /\ last # NoMessage
  /\ LET d == Diff(SeqNo(n), SeqNo(last))
     IN  d = 0 \/ d <= -AckWidth \/ (d < 0 /\ -d \in recvBits)
  /\ UNCHANGED <<last, recvBits, handed, phantoms>>

\* reliable_on_recv at the client.  The packet stays in flight: the network
\* may deliver it again until it drops the last copy.
Recv(n) ==
  /\ n \in packets
  /\ RecvFirst(n) \/ RecvNewer(n) \/ RecvMissing(n) \/ RecvIgnored(n)
  /\ UNCHANGED <<sent, sendBuf, packets, acks>>

\* reliable_fill_ack on a packet the client sends.  A client sends nothing
\* that the server reads an ack from before it was accepted, so last is set.
\* At the bound MaxAcks the network has dropped acks sent before this one.
SendAck ==
  /\ last # NoMessage
  /\ \E kept \in SUBSET acks :
       /\ Cardinality(kept) < MaxAcks
       /\ acks' = kept \cup {[last |-> last, bits |-> recvBits]}
  /\ UNCHANGED <<sent, sendBuf, last, recvBits, packets, handed, phantoms>>

\* The receiver's next ack would confirm message n.
Confirmed(n) == last # NoMessage /\ (n = last \/ last - n \in recvBits)

-----------------------------------------------------------------------------
(* The network: UDP.                                                       *)

LosePacket(n) ==
  /\ n \in packets
  /\ packets' = packets \ {n}
  /\ UNCHANGED <<sent, sendBuf, last, recvBits, acks, handed, phantoms>>

LoseAck(a) ==
  /\ a \in acks
  /\ acks' = acks \ {a}
  /\ UNCHANGED <<sent, sendBuf, last, recvBits, packets, handed, phantoms>>

Next ==
  \/ Send
  \/ \E due \in SUBSET InUse : Tick(due)
  \/ \E n \in Messages : Recv(n) \/ LosePacket(n)
  \/ SendAck
  \/ \E a \in acks : RecvAck(a) \/ LoseAck(a)

Spec == Init /\ [][Next]_vars

-----------------------------------------------------------------------------
(* Safety.                                                                 *)

\* A message reaches the game code at most once, whatever the network
\* duplicates or reorders and however often the entry is sent again: the
\* handlers of client.c act on a packet only when reliable_on_recv says
\* is_new, and applying a BLOCK_CHANGE or an INVENTORY twice is not harmless.
AtMostOnce == \A n \in Messages : handed[n] <= 1

\* An ack never frees an entry whose message the game code did not get, however
\* late it comes and whatever its slot holds by then.  The exception is a message
\* that the undefined shift of reliable_on_recv marked as received.
NoFalseAck ==
  [][ \A i \in Slots :
        sendBuf[i] # Free /\ sendBuf'[i] = Free
          => handed[sendBuf[i]] = 1 \/ sendBuf[i] \in phantoms ]_vars

\* A message the client has not got is still in the buffer that is retransmitted,
\* until Window later messages have been sent; but for the messages that the
\* undefined shift marked, which an ack can free.
UndeliveredIsHeld ==
  \A n \in Messages :
    n < sent /\ sent - n <= Window /\ handed[n] = 0 => n \in InUse \cup phantoms

\* What a bit says of the message k before the last one: it was handed over, or
\* a gap of more than ShiftWidth messages left the bit of another one, that the
\* gap had passed over.
Believed(n) == n \in Messages /\ (handed[n] = 1 \/ n \in phantoms)

\* The receive window tells the truth both ways: a message at most AckWidth
\* behind the last one has its bit set exactly if it was handed over.  The one
\* exception is a message marked by the undefined shift, and it is for good:
\* such a message is never handed over.
BitsExact ==
  /\ last # NoMessage =>
       /\ handed[last] = 1
       /\ \A k \in Offsets : k \in recvBits <=> Believed(last - k)
  /\ \A n \in phantoms : handed[n] = 0

\* The last message and the bits only move forward: what an ack has
\* confirmed, no later state of the receiver denies while the message is
\* within the window.
ConfirmationStands ==
  [][ \A n \in Messages :
        Confirmed(n) /\ last' - n <= AckWidth => Confirmed(n)' ]_vars

-----------------------------------------------------------------------------
(* The inductive invariant behind AtMostOnce: what is in flight or may be  *)
(* sent again is not too old for the seq arithmetic, and no bit is missing *)
(* from the window.                                                        *)

InFlightIsRecent ==
  /\ \A n \in packets : n < sent /\ sent - n <= MaxLag
  /\ last # NoMessage => last < sent /\ sent - last <= MaxLag

BufferIsRing ==
  \A i \in Slots :
    sendBuf[i] # Free =>
      sendBuf[i] < sent /\ sent - sendBuf[i] <= Window /\ Slot(sendBuf[i]) = i

HandedUpToLast ==
  /\ AtMostOnce
  /\ last # NoMessage => handed[last] = 1
  /\ \A n \in Messages : handed[n] # 0 => last # NoMessage /\ n <= last

BitsComplete ==
  \A n \in Messages :
    handed[n] # 0 /\ n < last /\ last - n <= AckWidth => last - n \in recvBits

DeliveryInv ==
  TypeOK /\ InFlightIsRecent /\ BufferIsRing /\ HandedUpToLast /\ BitsComplete

(* What NoFalseAck, UndeliveredIsHeld and BitsExact need besides: bits and *)
(* acks are truthful but for phantoms, what is undelivered still has its   *)
(* slot, and a phantom is past being handed over.                          *)

BitsSound ==
  \A k \in recvBits : Believed(last - k)

AcksSound ==
  \A a \in acks :
    /\ a.last < sent /\ sent - a.last <= MaxLag
    /\ handed[a.last] = 1
    /\ \A k \in a.bits : Believed(a.last - k)

HeldInItsSlot ==
  \A n \in Messages \ phantoms :
    n < sent /\ sent - n <= Window /\ handed[n] = 0 => sendBuf[Slot(n)] = n

\* A gap passed over a phantom, whose bit keeps it from being handed over for as
\* long as it is in the window.
PhantomsPassed ==
  \A n \in phantoms :
    /\ n \in Messages /\ last # NoMessage /\ n < last /\ handed[n] = 0
    /\ last - n <= AckWidth => last - n \in recvBits

AckInv ==
  DeliveryInv /\ BitsSound /\ AcksSound /\ HeldInItsSlot /\ PhantomsPassed

-----------------------------------------------------------------------------
\* The abstract channel: at most once, any order.  Sequence numbers, windows,
\* timers and acks are what the mapping hides.
Abstract == INSTANCE AtMostOnceDelivery
              WITH MaxSends <- MaxSends, sent <- sent, handed <- handed
ImplementsDelivery == Abstract!Spec

-----------------------------------------------------------------------------
(* Progress.                                                               *)

\* The client has received a message too far ahead of n to accept n.
Outrun(n) == last >= n + AckWidth

\* The slot of n was taken by a later message.
Evicted(n) == sent > n + Window

\* The server ticks at 20 Hz and every timer runs out after 100 ms; the
\* client sends positions every frame; a packet that keeps being sent gets
\* through some time, and so does an ack that would free an entry.
Fairness ==
  /\ WF_vars(SendAck)
  /\ \A n \in Messages :
       /\ WF_vars(\E due \in SUBSET InUse : n \in due /\ Tick(due))
       /\ SF_vars(Recv(n))
       /\ SF_vars(\E a \in acks : RecvAck(a) /\ Confirms(a, n) /\ n \in InUse)

FairSpec == Spec /\ Fairness

\* What retransmission is good for: a message is handed over at last, unless
\* AckWidth or Window later messages overtook it, or the undefined shift marked
\* it, so that it is taken for a duplicate and its entry freed.
EventuallyHanded ==
  \A n \in Messages :
    (n < sent) ~> (handed[n] = 1 \/ Outrun(n) \/ Evicted(n) \/ n \in phantoms)

\* Retransmission of a message that arrived ends, unless the acks the client
\* can express have moved past it.
RetransmissionEnds ==
  \A n \in Messages :
    (handed[n] = 1) ~> (n \notin InUse \/ last > n + AckWidth)

=============================================================================
