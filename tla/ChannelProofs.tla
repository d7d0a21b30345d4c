---------------------------- MODULE ChannelProofs ----------------------------
(***************************************************************************)
(* Proofs about ReliableChannel, for every size of the sequence space, the *)
(* window, the bit field and the connection, and about ChunkTransfer:      *)
(* columns are put together from their own fragments, and every column     *)
(* whose fragments all arrived, for every number of slots, message         *)
(* numbers, fragments and columns.                                         *)
(***************************************************************************)
EXTENDS ReliableChannel, ChunkTransfer, FiniteSetTheorems, TLAPS

-----------------------------------------------------------------------------
(* Arithmetic modulo the sequence space.                                   *)

\* Every integer is a multiple of m plus its residue.
LEMMA Division ==
  ASSUME NEW m \in Nat \ {0}, NEW a \in Int
  PROVE  /\ a % m \in 0 .. m - 1
         /\ a \div m \in Int
         /\ a = m * (a \div m) + (a % m)
OBVIOUS

\* A residue is the only number of 0 .. m - 1 that differs from the dividend
\* by a multiple of m.
LEMMA ResidueUnique ==
  ASSUME NEW m \in Nat \ {0}, NEW a \in Int, NEW q \in Int,
         NEW r \in 0 .. m - 1, a = m * q + r
  PROVE  a % m = r
<1> DEFINE p == a \div m
           s == a % m
<1>1. p \in Int /\ s \in 0 .. m - 1 /\ a = m * p + s
  BY Division
<1>2. m * (p - q) = r - s
  BY <1>1
<1>3. p = q
  <2>1. CASE p - q >= 1
    <3>1. m * (p - q) >= m
      BY <1>1, <2>1
    <3> QED BY <1>1, <1>2, <3>1
  <2>2. CASE p - q <= -1
    <3>1. m * (p - q) <= -m
      BY <1>1, <2>2
    <3> QED BY <1>1, <1>2, <3>1
  <2> QED BY <1>1, <2>1, <2>2
<1> QED BY <1>1, <1>3

LEMMA SizesType ==
  /\ SeqSpace \in Nat \ {0}
  /\ Half \in Nat \ {0} /\ SeqSpace = 2 * Half
  /\ Window \in Nat \ {0} /\ Window <= MaxLag
  /\ MaxLag \in Nat /\ MaxLag <= Half
  /\ AckWidth \in Nat \ {0} /\ ShiftWidth \in Nat \ {0}
  /\ AckWidth <= ShiftWidth
  /\ MaxSends \in Nat
BY SizesAssumption, RatioAssumption DEF SeqSpace

LEMMA SeqModType == SeqSpace \in Nat \ {0}
BY SizesType

LEMMA WindowType == Window \in Nat \ {0}
BY SizesType

LEMMA SeqType == \A n \in Nat : SeqNo(n) \in 0 .. SeqSpace - 1
BY SeqModType, Division DEF SeqNo

\* A message number is a number of wraps and a seq.
LEMMA SeqSplit ==
  ASSUME NEW n \in Nat
  PROVE  \E p \in Int : n = SeqSpace * p + SeqNo(n)
<1>1. /\ n \div SeqSpace \in Int
      /\ n = SeqSpace * (n \div SeqSpace) + (n % SeqSpace)
  BY SeqModType, Division
<1> QED BY <1>1 DEF SeqNo

\* Within half the sequence space the int16_t difference of two seqs is the
\* difference of the message numbers: wrapping is invisible.
LEMMA DiffExact ==
  ASSUME NEW n \in Nat, NEW m \in Nat, n - m < Half, m - n < Half
  PROVE  Diff(SeqNo(n), SeqNo(m)) = n - m
<1>1. PICK p \in Int : n = SeqSpace * p + SeqNo(n)
  BY SeqSplit
<1>2. PICK q \in Int : m = SeqSpace * q + SeqNo(m)
  BY SeqSplit
<1>3. SeqNo(n) \in Int /\ SeqNo(m) \in Int
  BY SeqType
<1>4. SeqNo(n) - SeqNo(m) = SeqSpace * (q - p) + (n - m)
  <2>1. SeqSpace * (q - p) = SeqSpace * q - SeqSpace * p
    BY SeqModType
  <2>2. SeqSpace * q \in Int /\ SeqSpace * p \in Int
    BY SeqModType
  <2> QED BY <1>1, <1>2, <1>3, <2>1, <2>2
<1>5. CASE n - m >= 0
  <2>1. n - m \in 0 .. SeqSpace - 1
    BY <1>5, SizesType
  <2>2. (SeqNo(n) - SeqNo(m)) % SeqSpace = n - m
    <3>1. q - p \in Int /\ SeqNo(n) - SeqNo(m) \in Int
      BY <1>3
    <3> QED BY <1>4, <2>1, <3>1, SizesType, ResidueUnique
  <2> QED BY <2>2, <1>5 DEF Diff
<1>6. CASE n - m < 0
  <2>1. (n - m) + SeqSpace \in 0 .. SeqSpace - 1 /\ (n - m) + SeqSpace > Half
    BY <1>6, SizesType
  <2>2. SeqNo(n) - SeqNo(m) = SeqSpace * (q - p - 1) + ((n - m) + SeqSpace)
    BY <1>3, <1>4, SizesType
  <2>3. (SeqNo(n) - SeqNo(m)) % SeqSpace = (n - m) + SeqSpace
    <3>1. q - p - 1 \in Int /\ SeqNo(n) - SeqNo(m) \in Int
      BY <1>3
    <3> QED BY <2>1, <2>2, <3>1, SizesType, ResidueUnique
  <2> QED BY <2>1, <2>3, SizesType DEF Diff
<1> QED BY <1>5, <1>6

\* The window divides the sequence space, so the slot of a message is its
\* number modulo the window.
LEMMA SlotIsResidue ==
  ASSUME NEW n \in Nat
  PROVE  Slot(n) = n % Window /\ Slot(n) \in Slots
<1>1. PICK p \in Int : n = SeqSpace * p + SeqNo(n)
  BY SeqSplit
<1>2. SeqNo(n) \in Int
  BY SeqType
<1>3. PICK a \in Int : SeqNo(n) = Window * a + (SeqNo(n) % Window)
  BY <1>2, SizesType, Division
<1>4. PICK k \in Int : SeqSpace = Window * k
  <2>1. SeqSpace % Window = 0
    BY RatioAssumption DEF SeqSpace
  <2>2. /\ SeqSpace \div Window \in Int
        /\ SeqSpace = Window * (SeqSpace \div Window) + (SeqSpace % Window)
    BY SizesType, Division
  <2> QED BY <2>1, <2>2, SizesType
<1>5. SeqNo(n) % Window \in 0 .. Window - 1
  BY <1>2, SizesType, Division
<1>6. n = Window * (k * p + a) + (SeqNo(n) % Window)
  <2>1. SeqSpace * p = Window * (k * p)
    BY <1>4, WindowType
  <2>2. Window * (k * p + a) = Window * (k * p) + Window * a
    BY WindowType
  <2>3. k * p \in Int /\ Window * a \in Int /\ Window * (k * p) \in Int
    BY WindowType
  <2> QED BY <1>1, <1>2, <1>3, <1>5, <2>1, <2>2, <2>3
<1>7. n % Window = SeqNo(n) % Window
  <2>1. PICK c \in Int : c = k * p + a
    OBVIOUS
  <2>2. n = Window * c + (SeqNo(n) % Window) /\ n \in Int
    BY <1>6, <2>1
  <2> QED BY <1>5, <2>2, WindowType, ResidueUnique
<1> QED BY <1>5, <1>7 DEF Slot, Slots

\* A slot comes round again after Window messages ...
LEMMA SlotPeriod ==
  ASSUME NEW n \in Nat
  PROVE  Slot(n + Window) = Slot(n)
<1>1. PICK p \in Int : n = Window * p + (n % Window)
  <2>1. /\ n \div Window \in Int
        /\ n = Window * (n \div Window) + (n % Window)
    BY WindowType, Division
  <2> QED BY <2>1
<1>2. n % Window \in 0 .. Window - 1
  BY SizesType, Division
<1>3. n + Window = Window * (p + 1) + (n % Window)
  BY <1>1, <1>2, SizesType
<1>4. (n + Window) % Window = n % Window
  <2>1. p + 1 \in Int /\ n + Window \in Int
    BY SizesType
  <2> QED BY <1>2, <1>3, <2>1, SizesType, ResidueUnique
<1> QED BY <1>4, SlotIsResidue, SizesType

\* ... and no sooner.
LEMMA SlotDistinct ==
  ASSUME NEW n \in Nat, NEW m \in Nat, n < m, m - n < Window
  PROVE  Slot(n) # Slot(m)
<1> SUFFICES ASSUME n % Window = m % Window
             PROVE  FALSE
  BY SlotIsResidue
<1> DEFINE p == n \div Window
           q == m \div Window
           r == n % Window
<1>1. n = Window * p + r /\ p \in Int /\ r \in 0 .. Window - 1
  BY SizesType, Division
<1>2. m = Window * q + r /\ q \in Int
  BY SizesType, Division
<1>3. m - n = Window * (q - p)
  BY <1>1, <1>2, SizesType
<1>4. CASE q - p <= 0
  <2>1. Window * (q - p) <= 0
    BY <1>1, <1>2, <1>4, SizesType
  <2> QED BY <1>3, <2>1
<1>5. CASE q - p >= 1
  <2>1. Window * (q - p) >= Window
    BY <1>1, <1>2, <1>5, SizesType
  <2>2. Window * (q - p) \in Int
    BY <1>1, <1>2, WindowType
  <2> QED BY <1>3, <2>1, <2>2, WindowType
<1> QED BY <1>1, <1>2, <1>4, <1>5

-----------------------------------------------------------------------------
(* Type correctness.                                                       *)

LEMMA ConstantSets ==
  /\ Messages \subseteq Nat
  /\ Offsets \subseteq Nat \ {0}
  /\ Free \notin Messages /\ NoMessage \notin Messages
  /\ \A n \in Nat : n < MaxSends => n \in Messages
BY SizesType DEF Messages, Offsets, Free, NoMessage

\* Everything in the send buffer is a message.
LEMMA InUseType == TypeOK => InUse \subseteq Messages
BY DEF TypeOK, InUse

LEMMA MarkPreviousType ==
  ASSUME NEW d \in Int, NEW b \in MarkPrevious(d)
  PROVE  b \subseteq Offsets
BY DEF MarkPrevious

\* A bit that an undefined shift sets is that of a message the gap passed over.
LEMMA WideMarks ==
  ASSUME NEW d \in Nat, NEW b \in MarkPrevious(d), NEW k \in b, k # d
  PROVE  k \in Offsets /\ k < d
<1>1. d > ShiftWidth /\ k = ((d - 1) % ShiftWidth) + 1 /\ k \in Offsets
  BY SizesType DEF MarkPrevious
<1>2. (d - 1) % ShiftWidth \in 0 .. ShiftWidth - 1
  BY <1>1, SizesType
<1> QED BY <1>1, <1>2, SizesType

LEMMA TypeInit == Init => TypeOK
BY SizesType, ConstantSets DEF Init, TypeOK, Slots

LEMMA TypeNext == TypeOK /\ [Next]_vars => TypeOK'
<1> SUFFICES ASSUME TypeOK, [Next]_vars
             PROVE  TypeOK'
  OBVIOUS
<1> USE ConstantSets
<1>1. CASE Send
  <2>1. sent \in Messages /\ sent + 1 \in 0 .. MaxSends
    BY <1>1, SizesType DEF Send, TypeOK, Messages
  <2> QED BY <1>1, <2>1 DEF Send, TypeOK
<1>2. ASSUME NEW due \in SUBSET InUse, Tick(due)
      PROVE  TypeOK'
  BY <1>2, InUseType DEF Tick, TypeOK
<1>3. ASSUME NEW n \in Messages, Recv(n)
      PROVE  TypeOK'
  <2>1. last' \in Messages \cup {NoMessage}
    BY <1>3 DEF Recv, RecvFirst, RecvNewer, RecvMissing, RecvIgnored, TypeOK
  <2>2. handed' \in [Messages -> Nat]
    BY <1>3 DEF Recv, RecvFirst, RecvNewer, RecvMissing, RecvIgnored, TypeOK,
                Hand
  <2>3. recvBits' \subseteq Offsets
    <3>1. CASE RecvFirst(n)
      BY <3>1 DEF RecvFirst
    <3>2. CASE RecvNewer(n)
      BY <3>2 DEF RecvNewer, MarkPrevious, Shifted
    <3>3. CASE RecvMissing(n)
      <4>1. Diff(SeqNo(n), SeqNo(last)) \in Int
        <5>1. last \in Nat /\ n \in Nat
          BY <3>3 DEF TypeOK, RecvMissing
        <5> QED BY <5>1, SeqType, SizesType DEF Diff
      <4>2. -Diff(SeqNo(n), SeqNo(last)) \in Offsets
        BY <3>3, <4>1, SizesType DEF RecvMissing, Offsets
      <4> QED BY <3>3, <4>2 DEF RecvMissing, TypeOK
    <3>4. CASE RecvIgnored(n)
      BY <3>4 DEF RecvIgnored, TypeOK
    <3> QED BY <1>3, <3>1, <3>2, <3>3, <3>4 DEF Recv
  <2>4. phantoms' \subseteq Int
    <3>1. CASE RecvNewer(n)
      <4>1. n \in Int /\ phantoms \subseteq Int /\ Offsets \subseteq Int
        BY SizesType DEF TypeOK, Offsets
      <4>2. PICK previous \in MarkPrevious(Diff(SeqNo(n), SeqNo(last))) :
              phantoms' = phantoms
                \cup {n - k : k \in previous \ {Diff(SeqNo(n), SeqNo(last))}}
        BY <3>1 DEF RecvNewer
      <4>3. previous \subseteq Offsets
        BY <4>2 DEF MarkPrevious
      <4>4. \A k \in previous : n - k \in Int
        BY <4>1, <4>3
      <4> QED BY <4>1, <4>2, <4>4
    <3>2. CASE ~RecvNewer(n)
      BY <1>3, <3>2 DEF Recv, RecvFirst, RecvMissing, RecvIgnored, TypeOK
    <3> QED BY <3>1, <3>2
  <2> QED BY <1>3, <2>1, <2>2, <2>3, <2>4 DEF Recv, TypeOK
<1>4. CASE SendAck
  <2>1. [last |-> last, bits |-> recvBits] \in AckPacket
    BY <1>4 DEF SendAck, TypeOK, AckPacket
  <2>2. acks' \subseteq acks \cup {[last |-> last, bits |-> recvBits]}
    BY <1>4 DEF SendAck
  <2>3. acks' \in SUBSET AckPacket
    BY <2>1, <2>2 DEF TypeOK
  <2> QED BY <1>4, <2>3 DEF SendAck, TypeOK
<1>5. ASSUME NEW n \in Messages, LosePacket(n)
      PROVE  TypeOK'
  BY <1>5 DEF LosePacket, TypeOK
<1>6. ASSUME NEW a \in acks, RecvAck(a)
      PROVE  TypeOK'
  BY <1>6 DEF RecvAck, TypeOK
<1>7. ASSUME NEW a \in acks, LoseAck(a)
      PROVE  TypeOK'
  BY <1>7 DEF LoseAck, TypeOK
<1>8. CASE UNCHANGED vars
  BY <1>8 DEF vars, TypeOK
<1> QED BY <1>1, <1>2, <1>3, <1>4, <1>5, <1>6, <1>7, <1>8 DEF Next

\* The channel's state stays within its types for every size of the ring, of
\* the sequence space and of the bit field (reliable.h's ReliableChannel).
THEOREM TypeCorrect == Spec => []TypeOK
BY TypeInit, TypeNext, PTL DEF Spec

-----------------------------------------------------------------------------
(* At most once.                                                           *)

\* What reliable_on_recv computes is the distance between message numbers.
LEMMA RecvDiff ==
  ASSUME TypeOK, InFlightIsRecent, NEW n \in packets, last # NoMessage
  PROVE  Diff(SeqNo(n), SeqNo(last)) = n - last /\ n \in Nat /\ last \in Nat
<1>1. n \in Nat /\ last \in Nat /\ sent \in Nat
  BY ConstantSets DEF TypeOK
<1>2. n - last < Half /\ last - n < Half
  BY <1>1, SizesType DEF InFlightIsRecent
<1> QED BY <1>1, <1>2, DiffExact

\* The ring as long as no entry is added: a freed slot is no counterexample.
LEMMA RingShrinks ==
  ASSUME BufferIsRing, UNCHANGED sent,
         \A i \in Slots : sendBuf'[i] \in {sendBuf[i], Free}
  PROVE  BufferIsRing'
BY DEF BufferIsRing

\* What may be sent again is among the newest Window messages.
LEMMA InUseRecent ==
  ASSUME TypeOK, BufferIsRing, NEW n \in InUse
  PROVE  n \in Messages /\ n < sent /\ sent - n <= Window
BY ConstantSets DEF InUse, BufferIsRing, TypeOK

LEMMA RingSend ==
  ASSUME TypeOK, BufferIsRing, Send
  PROVE  BufferIsRing'
<1>1. /\ sent \in Nat /\ sent' = sent + 1
      /\ sendBuf' = [sendBuf EXCEPT ![Slot(sent)] = sent]
  BY DEF Send, TypeOK
<1> SUFFICES ASSUME NEW i \in Slots, sendBuf'[i] # Free
             PROVE  /\ sendBuf'[i] < sent' /\ sent' - sendBuf'[i] <= Window
                    /\ Slot(sendBuf'[i]) = i
  BY DEF BufferIsRing
<1>2. CASE i = Slot(sent)
  BY <1>1, <1>2, SizesType DEF TypeOK
<1>3. CASE i # Slot(sent)
  <2>1. sendBuf'[i] = sendBuf[i] /\ sendBuf[i] \in Nat
    BY <1>1, <1>3, ConstantSets DEF TypeOK
  <2>2. sendBuf[i] < sent /\ sent - sendBuf[i] <= Window /\ Slot(sendBuf[i]) = i
    BY <2>1 DEF BufferIsRing
  <2>3. sendBuf[i] + Window # sent
    BY <1>3, <2>1, <2>2, SlotPeriod
  <2> QED BY <1>1, <2>1, <2>2, <2>3, SizesType
<1> QED BY <1>2, <1>3

LEMMA DeliveryInit == Init => DeliveryInv
<1> SUFFICES ASSUME Init PROVE DeliveryInv
  OBVIOUS
<1>1. TypeOK
  BY TypeInit
<1>2. InFlightIsRecent /\ BufferIsRing /\ HandedUpToLast /\ BitsComplete
  BY DEF Init, InFlightIsRecent, BufferIsRing, HandedUpToLast, BitsComplete,
         AtMostOnce
<1> QED BY <1>1, <1>2 DEF DeliveryInv

\* Receiving keeps what was handed over at one and marked in the window.
LEMMA DeliveryRecv ==
  ASSUME DeliveryInv, TypeOK', NEW n \in Messages, Recv(n)
  PROVE  DeliveryInv'
<1> USE DEF DeliveryInv
<1> USE ConstantSets
<1>1. /\ n \in packets /\ n < sent /\ sent - n <= MaxLag /\ n \in Nat
      /\ sent \in Nat /\ UNCHANGED <<sent, packets, sendBuf>>
  BY DEF Recv, InFlightIsRecent, TypeOK
<1> BufferIsRing'
  BY <1>1, RingShrinks
<1>2. CASE RecvFirst(n)
  <2>1. \A m \in Messages : handed[m] = 0
    BY <1>2 DEF RecvFirst, HandedUpToLast
  <2>2. \A m \in Messages : handed'[m] = IF m = n THEN 1 ELSE 0
    BY <1>2, <2>1 DEF RecvFirst, Hand, TypeOK
  <2>3. InFlightIsRecent'
    BY <1>1, <1>2 DEF RecvFirst, InFlightIsRecent
  <2>4. HandedUpToLast'
    BY <1>2, <2>2 DEF RecvFirst, HandedUpToLast, AtMostOnce
  <2>5. BitsComplete'
    BY <1>2, <2>2 DEF RecvFirst, BitsComplete
  <2> QED BY <2>3, <2>4, <2>5
<1>3. ASSUME last # NoMessage
      PROVE  Diff(SeqNo(n), SeqNo(last)) = n - last /\ last \in Messages
  BY <1>1, <1>3, RecvDiff DEF TypeOK
<1>4. CASE RecvNewer(n)
  <2>1. n > last /\ last \in Messages /\ last' = n
    <3>1. last # NoMessage /\ Diff(SeqNo(n), SeqNo(last)) > 0 /\ last' = n
      BY <1>4 DEF RecvNewer
    <3>2. Diff(SeqNo(n), SeqNo(last)) = n - last /\ last \in Messages
      BY <1>3, <3>1
    <3> QED BY <1>1, <3>1, <3>2
  <2>2. handed[n] = 0
    BY <2>1, <1>1 DEF HandedUpToLast, TypeOK
  <2>3. /\ handed'[n] = 1
        /\ \A m \in Messages : m # n => handed'[m] = handed[m]
    BY <1>4, <2>2 DEF RecvNewer, Hand, TypeOK
  <2>4. InFlightIsRecent'
    BY <1>1, <2>1 DEF InFlightIsRecent
  <2>5. HandedUpToLast'
    BY <2>1, <2>3 DEF HandedUpToLast, AtMostOnce
  <2>6. BitsComplete'
    <3> SUFFICES ASSUME NEW m \in Messages, handed'[m] # 0, m < n,
                        n - m <= AckWidth
                 PROVE  n - m \in recvBits'
      BY <2>1 DEF BitsComplete
    <3>1. PICK previous \in MarkPrevious(n - last) :
            recvBits' = (IF n - last >= AckWidth THEN {} ELSE Shifted(n - last))
                          \cup previous
      <4>1. Diff(SeqNo(n), SeqNo(last)) = n - last
        BY <1>3, <2>1, ConstantSets
      <4>2. \E previous \in MarkPrevious(Diff(SeqNo(n), SeqNo(last))) :
              recvBits' = (IF Diff(SeqNo(n), SeqNo(last)) >= AckWidth
                             THEN {}
                             ELSE Shifted(Diff(SeqNo(n), SeqNo(last))))
                            \cup previous
        BY <1>4 DEF RecvNewer
      <4> QED BY ONLY <4>1, <4>2
    <3>2. handed[m] # 0 /\ m <= last
      BY <2>3 DEF HandedUpToLast
    <3>3. CASE m = last
      <4>1. n - last \in Offsets /\ n - last <= ShiftWidth
        BY <2>1, <3>3, SizesType DEF Offsets
      <4> QED BY <3>1, <3>3, <4>1 DEF MarkPrevious
    <3>4. CASE m < last
      <4>1. last - m \in recvBits
        BY <2>1, <3>2, <3>4, SizesType DEF BitsComplete
      <4>2. (last - m) + (n - last) = n - m /\ n - last < AckWidth
        BY <2>1, <3>4, SizesType
      <4>3. n - m \in Shifted(n - last)
        BY <2>1, <4>1, <4>2, SizesType DEF Shifted, Offsets
      <4> QED BY <2>1, <3>1, <4>2, <4>3, SizesType
    <3> QED BY <2>1, <3>2, <3>3, <3>4
  <2> QED BY <2>4, <2>5, <2>6
<1>5. CASE RecvMissing(n)
  <2>1. /\ n < last /\ last \in Messages /\ last' = last
        /\ last - n < AckWidth
        /\ last - n \notin recvBits
        /\ recvBits' = recvBits \cup {last - n}
    <3>1. last \in Messages /\ Diff(SeqNo(n), SeqNo(last)) = n - last
      BY <1>3, <1>5 DEF RecvMissing
    <3>2. -(n - last) = last - n
      BY <1>1, <3>1
    <3> QED BY <1>1, <1>5, <3>1, <3>2, SizesType DEF RecvMissing
  <2>2. handed[n] = 0
    BY <1>1, <2>1, SizesType DEF BitsComplete, TypeOK
  <2>3. /\ handed'[n] = 1
        /\ \A m \in Messages : m # n => handed'[m] = handed[m]
    BY <1>5, <2>2 DEF RecvMissing, Hand, TypeOK
  <2>4. InFlightIsRecent'
    BY <1>1, <2>1 DEF InFlightIsRecent
  <2>5. HandedUpToLast'
    BY <1>1, <2>1, <2>3 DEF HandedUpToLast, AtMostOnce
  <2>6. BitsComplete'
    BY <2>1, <2>3 DEF BitsComplete
  <2> QED BY <2>4, <2>5, <2>6
<1>6. CASE RecvIgnored(n)
  BY <1>1, <1>6 DEF RecvIgnored, InFlightIsRecent, HandedUpToLast, AtMostOnce, BitsComplete
<1> QED BY <1>2, <1>4, <1>5, <1>6 DEF Recv

LEMMA DeliveryNext == DeliveryInv /\ [Next]_vars => DeliveryInv'
<1> SUFFICES ASSUME DeliveryInv, [Next]_vars
             PROVE  DeliveryInv'
  OBVIOUS
<1> USE DEF DeliveryInv
<1>1. TypeOK'
  BY TypeNext
<1>2. CASE Send
  <2>1. /\ UNCHANGED <<last, recvBits, handed>>
        /\ sent' = sent + 1 /\ sent \in Nat /\ sent \in Messages
        /\ packets' = {n \in packets : Alive(n)} \cup {sent}
        /\ last # NoMessage => sent - last < MaxLag
    BY <1>2, SizesType DEF Send, SessionAlive, TypeOK, Messages
  <2>2. InFlightIsRecent'
    BY <2>1, ConstantSets, SizesType DEF InFlightIsRecent, Alive, TypeOK
  <2>3. HandedUpToLast' /\ BitsComplete'
    BY <2>1 DEF HandedUpToLast, AtMostOnce, BitsComplete
  <2>4. BufferIsRing'
    BY <1>2, RingSend
  <2> QED BY <1>1, <2>2, <2>3, <2>4
<1>3. ASSUME NEW due \in SUBSET InUse, Tick(due)
      PROVE  DeliveryInv'
  <2>1. \A n \in due : n \in Messages /\ n < sent /\ sent - n <= MaxLag
    <3> SUFFICES ASSUME NEW n \in InUse
                 PROVE  n \in Messages /\ n < sent /\ sent - n <= MaxLag
      OBVIOUS
    <3>1. n \in Messages /\ n < sent /\ sent - n <= Window
      BY InUseRecent
    <3> QED BY <3>1, SizesType, ConstantSets DEF TypeOK
  <2>2. InFlightIsRecent'
    BY <1>3, <2>1 DEF Tick, InFlightIsRecent
  <2>3. BufferIsRing'
    BY <1>3, RingShrinks DEF Tick
  <2> QED BY <1>1, <1>3, <2>2, <2>3
          DEF Tick, HandedUpToLast, AtMostOnce, BitsComplete
<1>4. ASSUME NEW n \in Messages, Recv(n)
      PROVE  DeliveryInv'
  BY <1>1, <1>4, DeliveryRecv
<1>5. CASE SendAck
  BY <1>1, <1>5, RingShrinks
     DEF SendAck, InFlightIsRecent, HandedUpToLast, AtMostOnce, BitsComplete
<1>6. ASSUME NEW n \in Messages, LosePacket(n)
      PROVE  DeliveryInv'
  BY <1>1, <1>6, RingShrinks
     DEF LosePacket, InFlightIsRecent, HandedUpToLast, AtMostOnce, BitsComplete
<1>7. ASSUME NEW a \in acks, RecvAck(a)
      PROVE  DeliveryInv'
  <2>1. BufferIsRing'
    BY <1>7, RingShrinks DEF RecvAck, TypeOK
  <2> QED BY <1>1, <1>7, <2>1
          DEF RecvAck, InFlightIsRecent, HandedUpToLast, AtMostOnce, BitsComplete
<1>8. ASSUME NEW a \in acks, LoseAck(a)
      PROVE  DeliveryInv'
  BY <1>1, <1>8, RingShrinks
     DEF LoseAck, InFlightIsRecent, HandedUpToLast, AtMostOnce, BitsComplete
<1>9. CASE UNCHANGED vars
  BY <1>1, <1>9, RingShrinks
     DEF vars, InFlightIsRecent, HandedUpToLast, AtMostOnce, BitsComplete
<1> QED BY <1>2, <1>3, <1>4, <1>5, <1>6, <1>7, <1>8, <1>9 DEF Next

LEMMA DeliveryInvariant == Spec => []DeliveryInv
BY DeliveryInit, DeliveryNext, PTL DEF Spec

\* Whatever the network duplicates, delays or reorders, and even when a gap
\* reaches the width of the shifted word, reliable_on_recv says is_new at most
\* once for a message.
THEOREM HandedAtMostOnce == Spec => []AtMostOnce
<1>1. DeliveryInv => AtMostOnce
  BY DEF DeliveryInv, HandedUpToLast
<1> QED BY <1>1, DeliveryInvariant, PTL

LEMMA RecvHands ==
  ASSUME DeliveryInv, DeliveryInv', NEW n \in Messages, Recv(n)
  PROVE  \/ UNCHANGED handed
         \/ n < sent /\ handed[n] = 0 /\ handed' = [handed EXCEPT ![n] = 1]
<1>1. n < sent
  BY DEF DeliveryInv, InFlightIsRecent, Recv
<1>2. CASE Hand(n)
  <2>1. handed'[n] = handed[n] + 1 /\ handed'[n] <= 1 /\ handed[n] \in Nat
    BY <1>2 DEF Hand, DeliveryInv, TypeOK, HandedUpToLast, AtMostOnce
  <2>2. handed[n] = 0
    BY <2>1
  <2> QED BY <1>1, <1>2, <2>2 DEF Hand
<1> QED BY <1>2 DEF Recv, RecvFirst, RecvNewer, RecvMissing, RecvIgnored

LEMMA AbstractStep ==
  DeliveryInv /\ DeliveryInv' /\ [Next]_vars => [Abstract!Next]_(Abstract!vars)
<1> SUFFICES ASSUME DeliveryInv, DeliveryInv', [Next]_vars
             PROVE  Abstract!Next \/ UNCHANGED <<sent, handed>>
  BY DEF Abstract!vars
<1>1. CASE Send
  BY <1>1 DEF Send, Abstract!Next, Abstract!Send
<1>2. ASSUME NEW n \in Messages, Recv(n)
      PROVE  Abstract!Next \/ UNCHANGED <<sent, handed>>
  <2>1. UNCHANGED sent
    BY <1>2 DEF Recv
  <2>2. CASE n < sent /\ handed[n] = 0 /\ handed' = [handed EXCEPT ![n] = 1]
    <3>1. n \in Abstract!Messages
      BY DEF Abstract!Messages, Messages
    <3>2. Abstract!Hand(n)
      BY <2>1, <2>2 DEF Abstract!Hand
    <3> QED BY <3>1, <3>2 DEF Abstract!Next
  <2> QED BY <1>2, <2>1, <2>2, RecvHands
<1>3. CASE \/ \E due \in SUBSET InUse : Tick(due)
           \/ \E n \in Messages : LosePacket(n)
           \/ SendAck
           \/ \E a \in acks : RecvAck(a) \/ LoseAck(a)
           \/ UNCHANGED vars
  BY <1>3 DEF Tick, LosePacket, SendAck, RecvAck, LoseAck, vars
<1> QED BY <1>1, <1>2, <1>3 DEF Next

\* The channel of reliable.c implements at-most-once, unordered delivery: each
\* step of the code is a send, a first hand-over, or invisible.
THEOREM ImplementsAtMostOnce == Spec => ImplementsDelivery
<1>1. Init => Abstract!Init
  BY DEF Init, Abstract!Init, Messages, Abstract!Messages
<1> QED BY <1>1, AbstractStep, DeliveryInvariant, PTL
        DEF Spec, ImplementsDelivery, Abstract!Spec

-----------------------------------------------------------------------------
(* Acks are truthful and the sender keeps what is not confirmed.           *)

\* An ack confirms only what was handed over, and phantoms.
LEMMA ConfirmsHanded ==
  ASSUME AckInv, NEW a \in acks, NEW n \in InUse, Confirms(a, n)
  PROVE  Believed(n)
<1> USE DEF AckInv, DeliveryInv
<1>1. /\ n \in Messages /\ n \in Nat /\ n < sent /\ sent - n <= Window /\ sent \in Nat
  <2>1. n \in Messages /\ n < sent /\ sent - n <= Window
    BY InUseRecent
  <2> QED BY <2>1, ConstantSets DEF TypeOK
<1>2. /\ a.last \in Nat /\ a.last < sent /\ sent - a.last <= MaxLag
      /\ handed[a.last] = 1
      /\ \A k \in a.bits : k \in Nat /\ Believed(a.last - k)
  BY ConstantSets DEF TypeOK, AckPacket, AcksSound
<1>3. Diff(SeqNo(a.last), SeqNo(n)) = a.last - n
  <2>1. a.last - n < Half /\ n - a.last < Half
    BY <1>1, <1>2, SizesType
  <2> QED BY <1>1, <1>2, <2>1, DiffExact
<1>4. a.last - n = 0 \/ a.last - n \in a.bits
  BY <1>3 DEF Confirms
<1>5. CASE a.last - n = 0
  <2>1. a.last = n
    BY <1>1, <1>2, <1>5
  <2> QED BY <1>1, <1>2, <2>1 DEF Believed
<1>6. CASE a.last - n \in a.bits
  <2>1. Believed(a.last - (a.last - n))
    BY <1>2, <1>6
  <2>2. a.last - (a.last - n) = n
    BY <1>1, <1>2
  <2> QED BY <2>1, <2>2
<1> QED BY <1>4, <1>5, <1>6

LEMMA HeldSend ==
  ASSUME DeliveryInv, HeldInItsSlot, Send
  PROVE  HeldInItsSlot'
<1> USE DEF DeliveryInv
<1>1. /\ sent \in Nat /\ sent' = sent + 1 /\ UNCHANGED <<handed, phantoms>>
      /\ sendBuf' = [sendBuf EXCEPT ![Slot(sent)] = sent]
  BY DEF Send, TypeOK
<1>2. Slot(sent) \in Slots
  BY <1>1, SlotIsResidue
<1> SUFFICES ASSUME NEW n \in Messages \ phantoms', n < sent',
                    sent' - n <= Window, handed'[n] = 0
             PROVE  sendBuf'[Slot(n)] = n
  BY DEF HeldInItsSlot, Slot, SeqNo
<1>3. n \in Nat /\ Slot(n) \in Slots
  BY ConstantSets, SlotIsResidue
<1>4. CASE n = sent
  BY <1>1, <1>2, <1>4 DEF TypeOK
<1>5. CASE n < sent
  <2>1. Slot(n) # Slot(sent)
    BY <1>1, <1>3, <1>5, SizesType, SlotDistinct
  <2>2. sendBuf[Slot(n)] = n
    BY <1>1, <1>3, <1>5, SizesType DEF HeldInItsSlot
  <2> QED BY <1>1, <1>2, <1>3, <2>1, <2>2 DEF TypeOK
<1> QED BY <1>1, <1>3, <1>4, <1>5

\* What a reception adds to the phantoms: messages between the last one and n.
LEMMA NewPhantoms ==
  ASSUME DeliveryInv, NEW n \in Messages, Recv(n), NEW m \in phantoms', m \notin phantoms
  PROVE  /\ RecvNewer(n) /\ m \in Messages /\ last < m /\ m < n /\ handed[m] = 0
         /\ last' = n /\ n - m \in recvBits'
<1> USE ConstantSets DEF DeliveryInv
<1>1. RecvNewer(n)
  BY DEF Recv, RecvFirst, RecvMissing, RecvIgnored
<1>2. /\ n \in packets /\ n \in Nat /\ last # NoMessage /\ last \in Nat /\ last' = n
      /\ Diff(SeqNo(n), SeqNo(last)) = n - last /\ n - last > 0
  BY <1>1, RecvDiff DEF Recv, RecvNewer
<1>3. PICK previous \in MarkPrevious(n - last) :
        /\ previous \subseteq recvBits'
        /\ phantoms' = phantoms \cup {n - k : k \in previous \ {n - last}}
  BY <1>1, <1>2 DEF RecvNewer
<1>4. PICK k \in previous : k # n - last /\ m = n - k
  BY <1>3
<1>5. k \in Offsets /\ k < n - last
  BY <1>2, <1>3, <1>4, WideMarks
<1>6. k \in Nat /\ k > 0
  BY <1>5, SizesType DEF Offsets
<1>7. last < m /\ m < n /\ m \in Nat /\ n - m = k
  BY <1>2, <1>4, <1>5, <1>6
<1>8. m \in Messages
  BY <1>7, SizesType DEF Messages
<1>9. handed[m] = 0
  BY <1>2, <1>7, <1>8 DEF HandedUpToLast
<1> QED BY <1>1, <1>2, <1>3, <1>4, <1>7, <1>8, <1>9

\* Receiving keeps the bits true but for phantoms.
LEMMA BitsRecv ==
  ASSUME DeliveryInv, DeliveryInv', BitsSound,
         NEW n \in Messages, Recv(n)
  PROVE  BitsSound'
<1> USE ConstantSets DEF DeliveryInv
<1>1. /\ n \in packets /\ n < sent /\ n \in Nat /\ sent \in Nat
      /\ \A m \in Messages : handed[m] = 1 => handed'[m] = 1
  <2>1. \A m \in Messages : handed[m] = 1 => handed'[m] = 1
    BY RecvHands DEF TypeOK
  <2> QED BY <2>1 DEF Recv, InFlightIsRecent, TypeOK
<1>2. ASSUME last # NoMessage
      PROVE  Diff(SeqNo(n), SeqNo(last)) = n - last /\ last \in Messages
  BY <1>1, <1>2, RecvDiff DEF TypeOK
<1>0. phantoms \subseteq phantoms'
  BY DEF Recv, RecvFirst, RecvNewer, RecvMissing, RecvIgnored
<1>10. ASSUME NEW m, Believed(m) PROVE Believed(m)'
  BY <1>0, <1>1, <1>10 DEF Believed, Messages
<1>3. CASE RecvFirst(n)
  BY <1>3 DEF RecvFirst, BitsSound
<1>4. CASE RecvNewer(n)
  <2>1. /\ last # NoMessage /\ last \in Messages /\ last' = n
        /\ Diff(SeqNo(n), SeqNo(last)) = n - last /\ n > last
    <3>1. last # NoMessage /\ Diff(SeqNo(n), SeqNo(last)) > 0 /\ last' = n
      BY <1>4 DEF RecvNewer
    <3>2. Diff(SeqNo(n), SeqNo(last)) = n - last /\ last \in Messages
      BY <1>2, <3>1
    <3> QED BY <1>1, <3>1, <3>2
  <2>2. PICK previous \in MarkPrevious(n - last) :
          /\ recvBits' \subseteq Shifted(n - last) \cup previous
          /\ phantoms' = phantoms \cup {n - k : k \in previous \ {n - last}}
    BY <1>4, <2>1 DEF RecvNewer
  <2> SUFFICES ASSUME NEW k \in recvBits'
               PROVE  Believed(n - k)'
    BY <2>1 DEF BitsSound
  <2>4. CASE k = n - last
    <3>1. n - k = last /\ handed[last] = 1
      BY <1>1, <2>1, <2>4 DEF HandedUpToLast
    <3>2. Believed(n - k)
      BY <2>1, <3>1 DEF Believed
    <3> QED BY <1>10, <3>2
  <2>5. CASE k \in Shifted(n - last)
    <3>1. PICK j \in recvBits : k = j + (n - last)
      BY <2>5 DEF Shifted
    <3>2. j \in Nat
      BY DEF TypeOK
    <3>3. n - k = last - j
      BY <1>1, <2>1, <3>1, <3>2
    <3>4. Believed(last - j)
      BY DEF BitsSound
    <3>5. Believed(n - k)
      BY <3>3, <3>4
    <3> QED BY <1>10, <3>5
  <2>6. CASE k \in previous /\ k # n - last
    <3>1. k \in Offsets /\ k < n - last
      BY <1>1, <2>1, <2>2, <2>6, WideMarks
    <3>2. n - k \in Messages
      BY <1>1, <2>1, <3>1, SizesType DEF Messages, Offsets
    <3>3. n - k \in phantoms'
      BY <2>2, <2>6
    <3> QED BY <3>2, <3>3 DEF Believed, Messages
  <2> QED BY <2>2, <2>4, <2>5, <2>6
<1>5. CASE RecvMissing(n)
  <2>1. last \in Messages /\ Diff(SeqNo(n), SeqNo(last)) = n - last
    BY <1>2, <1>5 DEF RecvMissing
  <2>2. /\ last' = last
        /\ recvBits' = recvBits \cup {-(n - last)}
        /\ Hand(n)
    BY <1>5, <2>1 DEF RecvMissing
  <2>3. handed'[n] = 1
    <3>1. handed'[n] = handed[n] + 1 /\ handed'[n] <= 1 /\ handed[n] \in Nat
      BY <2>2 DEF Hand, TypeOK, HandedUpToLast, AtMostOnce
    <3> QED BY <3>1
  <2>4. last - (-(n - last)) = n
    BY <1>1, <2>1
  <2>5. ASSUME NEW k \in recvBits' PROVE Believed(last - k)'
    <3>1. CASE k \in recvBits
      BY <1>0, <1>1, <2>2, <3>1 DEF BitsSound, Believed, Messages
    <3>2. CASE k = -(n - last)
      <4>1. last - k = n
        BY <2>4, <3>2
      <4> QED BY <2>2, <2>3, <4>1 DEF Believed, Messages
    <3> QED BY <2>2, <3>1, <3>2
  <2> QED BY <2>2, <2>5 DEF BitsSound
<1>6. CASE RecvIgnored(n)
  BY <1>6 DEF RecvIgnored, BitsSound, Believed, Messages
<1> QED BY <1>3, <1>4, <1>5, <1>6 DEF Recv

\* A phantom in the window has its bit, so that it is never handed over.
LEMMA PhantomsRecv ==
  ASSUME DeliveryInv, DeliveryInv', PhantomsPassed,
         NEW n \in Messages, Recv(n)
  PROVE  PhantomsPassed'
<1> USE ConstantSets DEF DeliveryInv
<1>1. n \in packets /\ n \in Nat
  BY DEF Recv
<1> SUFFICES ASSUME NEW m \in phantoms'
             PROVE  /\ m \in Messages /\ last' # NoMessage /\ m < last' /\ handed'[m] = 0
                    /\ last' - m <= AckWidth => last' - m \in recvBits'
  BY DEF PhantomsPassed, Messages
<1>2. CASE m \notin phantoms
  <2>1. /\ RecvNewer(n) /\ m \in Messages /\ last < m /\ m < n /\ handed[m] = 0
        /\ last' = n /\ n - m \in recvBits'
    BY <1>2, NewPhantoms
  <2>2. handed' = [handed EXCEPT ![n] = @ + 1]
    BY <2>1 DEF RecvNewer, Hand
  <2> QED BY <1>1, <2>1, <2>2 DEF TypeOK
<1>3. CASE m \in phantoms
  <2>1. /\ m \in Messages /\ m \in Nat /\ last # NoMessage /\ last \in Nat /\ m < last
        /\ handed[m] = 0
        /\ last - m <= AckWidth => last - m \in recvBits
    BY <1>3 DEF PhantomsPassed, TypeOK
  <2>2. Diff(SeqNo(n), SeqNo(last)) = n - last
    BY <1>1, <2>1, RecvDiff
  <2>3. CASE RecvNewer(n)
    <3>1. /\ n > last /\ last' = n /\ handed' = [handed EXCEPT ![n] = @ + 1]
      BY <1>1, <2>1, <2>2, <2>3 DEF RecvNewer, Hand
    <3>2. ASSUME n - m <= AckWidth PROVE n - m \in recvBits'
      <4>1. last - m \in recvBits /\ n - last < AckWidth
        BY <1>1, <2>1, <3>1, <3>2, SizesType
      <4>2. (last - m) + (n - last) = n - m /\ n - m \in Offsets
        BY <1>1, <2>1, <3>1, <3>2, SizesType DEF Offsets
      <4>3. n - m \in Shifted(n - last)
        BY <4>1, <4>2 DEF Shifted
      <4>4. Shifted(n - last) \subseteq recvBits'
        <5>1. ~(n - last >= AckWidth)
          BY <1>1, <2>1, <4>1, SizesType
        <5> QED BY <2>2, <2>3, <5>1 DEF RecvNewer
      <4> QED BY <4>3, <4>4
    <3> QED BY <1>1, <2>1, <3>1, <3>2 DEF TypeOK
  <2>4. CASE RecvMissing(n)
    <3>1. /\ n - last < 0 /\ n - last > -AckWidth /\ -(n - last) \notin recvBits
          /\ recvBits \subseteq recvBits' /\ last' = last
          /\ handed' = [handed EXCEPT ![n] = @ + 1]
      BY <2>2, <2>4 DEF RecvMissing, Hand
    <3>2. n # m
      <4>1. SUFFICES ASSUME n = m PROVE FALSE
        OBVIOUS
      <4>2. last - n <= AckWidth /\ last - n = -(n - last)
        BY <1>1, <2>1, <3>1, SizesType
      <4> QED BY <2>1, <3>1, <4>1, <4>2
    <3> QED BY <2>1, <3>1, <3>2 DEF TypeOK
  <2>5. CASE RecvIgnored(n)
    BY <2>1, <2>5 DEF RecvIgnored
  <2> QED BY <2>1, <2>3, <2>4, <2>5 DEF Recv, RecvFirst
<1> QED BY <1>2, <1>3

LEMMA AckInit == Init => AckInv
<1> SUFFICES ASSUME Init PROVE AckInv
  OBVIOUS
<1>1. DeliveryInv
  BY DeliveryInit
<1>2. BitsSound /\ AcksSound /\ HeldInItsSlot /\ PhantomsPassed
  BY DEF Init, BitsSound, AcksSound, HeldInItsSlot, Messages, PhantomsPassed
<1> QED BY <1>1, <1>2 DEF AckInv

LEMMA AckRecv ==
  ASSUME AckInv, DeliveryInv', NEW n \in Messages, Recv(n)
  PROVE  AckInv'
<1> USE DEF AckInv
<1>1. BitsSound'
  BY BitsRecv
<1>2. /\ \A m \in Messages : handed[m] = 1 => handed'[m] = 1
      /\ \A m \in Messages : handed'[m] = 0 => handed[m] = 0
  BY RecvHands DEF DeliveryInv, TypeOK
<1>3. UNCHANGED <<sent, sendBuf, acks>> /\ phantoms \subseteq phantoms'
  BY DEF Recv, RecvFirst, RecvNewer, RecvMissing, RecvIgnored
<1>4. AcksSound'
  <2>1. \A m : Believed(m) => Believed(m)'
    BY <1>2, <1>3 DEF Believed, Messages
  <2> QED BY <1>2, <1>3, <2>1 DEF AcksSound, DeliveryInv, TypeOK, AckPacket
<1>5. HeldInItsSlot'
  BY <1>2, <1>3 DEF HeldInItsSlot, Slot, SeqNo
<1>6. PhantomsPassed'
  BY PhantomsRecv
<1> QED BY <1>1, <1>4, <1>5, <1>6

LEMMA AckNext == AckInv /\ [Next]_vars => AckInv'
<1> SUFFICES ASSUME AckInv, [Next]_vars
             PROVE  AckInv'
  OBVIOUS
<1> USE DEF AckInv
<1>1. DeliveryInv'
  BY DeliveryNext
<1>2. CASE Send
  <2>1. BitsSound' /\ PhantomsPassed'
    BY <1>2 DEF Send, BitsSound, Believed, Messages, PhantomsPassed
  <2>2. AcksSound'
    <3>1. /\ sent \in Nat /\ sent' = sent + 1 /\ UNCHANGED <<handed, phantoms>>
          /\ acks' = {a \in acks : sent - a.last < MaxLag}
      BY <1>2 DEF Send, Alive, DeliveryInv, TypeOK
    <3>2. \A a \in acks : a.last \in Nat
      BY ConstantSets DEF DeliveryInv, TypeOK, AckPacket
    <3> QED BY <3>1, <3>2, SizesType DEF AcksSound, Believed, Messages
  <2>3. HeldInItsSlot'
    BY <1>2, HeldSend
  <2> QED BY <1>1, <2>1, <2>2, <2>3
<1>3. ASSUME NEW due \in SUBSET InUse, Tick(due)
      PROVE  AckInv'
  BY <1>1, <1>3 DEF Tick, BitsSound, AcksSound, HeldInItsSlot, Slot, SeqNo,
       PhantomsPassed, Believed, Messages
<1>4. ASSUME NEW n \in Messages, Recv(n)
      PROVE  AckInv'
  BY <1>1, <1>4, AckRecv
<1>5. CASE SendAck
  <2>1. UNCHANGED <<sent, sendBuf, last, recvBits, handed, phantoms>>
    BY <1>5 DEF SendAck
  <2>2. acks' \subseteq acks \cup {[last |-> last, bits |-> recvBits]}
    BY <1>5 DEF SendAck
  <2>3. /\ last < sent /\ sent - last <= MaxLag /\ handed[last] = 1
        /\ \A k \in recvBits : Believed(last - k)
    BY <1>5 DEF SendAck, DeliveryInv, InFlightIsRecent, HandedUpToLast, BitsSound
  <2>4. AcksSound'
    <3> SUFFICES ASSUME NEW a \in acks'
                 PROVE  /\ a.last < sent /\ sent - a.last <= MaxLag
                        /\ handed[a.last] = 1
                        /\ \A k \in a.bits : Believed(a.last - k)
      BY <2>1 DEF AcksSound, Believed, Messages
    <3>1. CASE a \in acks
      BY <3>1 DEF AcksSound
    <3>2. CASE a = [last |-> last, bits |-> recvBits]
      BY <2>3, <3>2
    <3> QED BY <2>2, <3>1, <3>2
  <2>5. BitsSound' /\ HeldInItsSlot' /\ PhantomsPassed'
    BY <2>1 DEF BitsSound, HeldInItsSlot, Slot, SeqNo, PhantomsPassed, Believed, Messages
  <2> QED BY <1>1, <2>4, <2>5
<1>6. ASSUME NEW n \in Messages, LosePacket(n)
      PROVE  AckInv'
  BY <1>1, <1>6 DEF LosePacket, BitsSound, AcksSound, HeldInItsSlot, Slot, SeqNo,
       PhantomsPassed, Believed, Messages
<1>7. ASSUME NEW a \in acks, RecvAck(a)
      PROVE  AckInv'
  <2>1. UNCHANGED <<sent, last, recvBits, acks, handed, phantoms>>
    BY <1>7 DEF RecvAck
  <2>2. HeldInItsSlot'
    <3> SUFFICES ASSUME NEW n \in Messages \ phantoms, n < sent,
                        sent - n <= Window, handed[n] = 0
                 PROVE  sendBuf'[Slot(n)] = n
      BY <2>1 DEF HeldInItsSlot, Slot, SeqNo
    <3>1. sendBuf[Slot(n)] = n /\ Slot(n) \in Slots
      BY ConstantSets, SlotIsResidue DEF HeldInItsSlot
    <3>2. n \in InUse
      BY <3>1, ConstantSets DEF InUse
    <3>3. ~Confirms(a, n)
      BY <3>2, ConfirmsHanded DEF Believed
    <3> QED BY <1>7, <3>1, <3>3 DEF RecvAck
  <2>3. BitsSound' /\ AcksSound' /\ PhantomsPassed'
    BY <2>1 DEF BitsSound, AcksSound, PhantomsPassed, Believed, Messages
  <2> QED BY <1>1, <2>2, <2>3
<1>8. ASSUME NEW a \in acks, LoseAck(a)
      PROVE  AckInv'
  BY <1>1, <1>8 DEF LoseAck, BitsSound, AcksSound, HeldInItsSlot, Slot, SeqNo,
       PhantomsPassed, Believed, Messages
<1>9. CASE UNCHANGED vars
  BY <1>1, <1>9 DEF vars, BitsSound, AcksSound, HeldInItsSlot, Slot, SeqNo,
       PhantomsPassed, Believed, Messages
<1> QED BY <1>2, <1>3, <1>4, <1>5, <1>6, <1>7, <1>8, <1>9 DEF Next

LEMMA AckInvariant == Spec => []AckInv
BY AckInit, AckNext, PTL DEF Spec

\* Whatever the client has not got of the last Window messages is in send_buf,
\* where reliable_tick finds it, unless a gap wider than the word had
\* reliable_on_recv mark it as received.
THEOREM NothingForgotten == Spec => []UndeliveredIsHeld
<1>1. AckInv => UndeliveredIsHeld
  <2> SUFFICES ASSUME AckInv, NEW n \in Messages, n \notin phantoms,
                      n < sent, sent - n <= Window, handed[n] = 0
               PROVE  n \in InUse
    BY DEF UndeliveredIsHeld
  <2>1. Slot(n) \in Slots /\ sendBuf[Slot(n)] = n
    BY ConstantSets, SlotIsResidue DEF AckInv, HeldInItsSlot
  <2> QED BY <2>1, ConstantSets DEF InUse
<1> QED BY <1>1, AckInvariant, PTL

\* recv_bits says exactly which of the AckWidth messages before the last one were
\* handed over or marked by an undefined shift, and what was marked never is.
THEOREM WindowIsExact == Spec => []BitsExact
<1>1. AckInv => BitsExact
  <2> SUFFICES ASSUME AckInv, last # NoMessage
               PROVE  /\ handed[last] = 1
                      /\ \A k \in Offsets : k \in recvBits <=> Believed(last - k)
    BY DEF BitsExact, AckInv, PhantomsPassed
  <2> USE DEF AckInv, DeliveryInv
  <2>1. handed[last] = 1 /\ last \in Nat
    BY ConstantSets DEF HandedUpToLast, TypeOK
  <2>2. ASSUME NEW k \in Offsets, Believed(last - k)
        PROVE  k \in recvBits
    <3>1. k \in Nat /\ k > 0 /\ k <= AckWidth
      BY SizesType DEF Offsets
    <3>2. last - k < last /\ last - (last - k) = k
      BY <2>1, <3>1
    <3>3. last - (last - k) \in recvBits
      BY <2>2, <3>1, <3>2 DEF BitsComplete, PhantomsPassed, Believed
    <3> QED BY <3>2, <3>3
  <2> QED BY <2>1, <2>2 DEF BitsSound
<1> QED BY <1>1, AckInvariant, PTL

\* reliable_on_recv frees an entry only for a message the game code of the other
\* side has got, or that an undefined shift marked there.
THEOREM AcksAreTruthful == Spec => NoFalseAck
<1>1. ASSUME AckInv, [Next]_vars, NEW i \in Slots,
             sendBuf[i] # Free, sendBuf'[i] = Free
      PROVE  handed[sendBuf[i]] = 1 \/ sendBuf[i] \in phantoms
  <2>1. CASE Send
    <3>1. sent \in Messages /\ sendBuf' = [sendBuf EXCEPT ![Slot(sent)] = sent]
      <4>1. sent \in Nat /\ sent < MaxSends
        BY <1>1, <2>1 DEF Send, AckInv, DeliveryInv, TypeOK
      <4> QED BY <2>1, <4>1, ConstantSets DEF Send
    <3> QED BY <1>1, <3>1, ConstantSets DEF AckInv, DeliveryInv, TypeOK
  <2>2. ASSUME NEW a \in acks, RecvAck(a)
        PROVE  Believed(sendBuf[i])
    <3>1. sendBuf[i] \in InUse /\ Confirms(a, sendBuf[i])
      BY <1>1, <2>2 DEF RecvAck, InUse
    <3> QED BY <1>1, <3>1, ConfirmsHanded
  <2>3. CASE UNCHANGED sendBuf
    BY <1>1, <2>3
  <2> QED
    BY <1>1, <2>1, <2>2, <2>3
    DEF Next, Tick, Recv, SendAck, LosePacket, LoseAck, vars, Believed
<1>2. AckInv /\ [Next]_vars =>
        [\A i \in Slots :
           sendBuf[i] # Free /\ sendBuf'[i] = Free
             => handed[sendBuf[i]] = 1 \/ sendBuf[i] \in phantoms]_vars
  BY <1>1
<1> QED BY <1>2, AckInvariant, PTL DEF Spec, NoFalseAck

\* A confirmation is never withdrawn while the acks can still express it.
THEOREM ConfirmationsStand == Spec => ConfirmationStands
<1>1. ASSUME DeliveryInv, [Next]_vars, NEW m \in Messages,
             Confirmed(m), last' - m <= AckWidth
      PROVE  Confirmed(m)'
  <2> USE DEF DeliveryInv
  <2>0. last # NoMessage /\ last \in Nat /\ m \in Nat
    BY <1>1, ConstantSets DEF Confirmed, TypeOK
  <2>1. ASSUME NEW n \in Messages, Recv(n)
        PROVE  Confirmed(m)'
    <3>1. n \in Nat /\ Diff(SeqNo(n), SeqNo(last)) = n - last
      BY <1>1, <2>0, <2>1, RecvDiff DEF Recv
    <3>2. CASE RecvNewer(n)
      <4>1. last' = n /\ n - last > 0 /\ n # NoMessage
        BY <3>1, <3>2, ConstantSets DEF RecvNewer
      <4>2. PICK previous \in MarkPrevious(n - last) :
              recvBits' = (IF n - last >= AckWidth
                             THEN {} ELSE Shifted(n - last)) \cup previous
        BY <3>1, <3>2 DEF RecvNewer
      <4>3. CASE m = last
        <5>1. n - last \in Offsets /\ n - last <= ShiftWidth
          BY <1>1, <2>0, <3>1, <4>1, <4>3, SizesType DEF Offsets
        <5>2. n - last \in recvBits'
          BY <4>2, <5>1 DEF MarkPrevious
        <5> QED BY <4>1, <4>3, <5>2 DEF Confirmed
      <4>4. CASE last - m \in recvBits
        <5>1. last - m \in Nat /\ last - m > 0
          <6>1. last - m \in Offsets
            BY <1>1, <4>4 DEF TypeOK
          <6> QED BY <6>1, <2>0, SizesType DEF Offsets
        <5>2. /\ (last - m) + (n - last) = n - m
              /\ n - last < AckWidth
              /\ n - m \in Offsets
          BY <1>1, <2>0, <3>1, <4>1, <5>1, SizesType DEF Offsets
        <5>3. n - m \in Shifted(n - last)
          BY <4>4, <5>2 DEF Shifted
        <5>4. n - m \in recvBits'
          BY <2>0, <3>1, <4>2, <5>2, <5>3, SizesType
        <5> QED BY <4>1, <5>4 DEF Confirmed
      <4> QED BY <1>1, <4>3, <4>4 DEF Confirmed
    <3>3. CASE RecvMissing(n) \/ RecvIgnored(n)
      BY <1>1, <3>3 DEF RecvMissing, RecvIgnored, Confirmed
    <3> QED BY <2>0, <2>1, <3>2, <3>3 DEF Recv, RecvFirst
  <2>2. CASE UNCHANGED <<last, recvBits>>
    BY <1>1, <2>2 DEF Confirmed
  <2> QED
    BY <1>1, <2>1, <2>2
    DEF Next, Send, Tick, SendAck, RecvAck, LosePacket, LoseAck, vars
<1>2. DeliveryInv /\ [Next]_vars =>
        [\A n \in Messages :
           Confirmed(n) /\ last' - n <= AckWidth => Confirmed(n)']_vars
  BY <1>1
<1> QED BY <1>2, DeliveryInvariant, PTL DEF Spec, ConfirmationStands

-----------------------------------------------------------------------------
(***************************************************************************)
(* What comes out of the ring of chunk_reasm.c.                            *)
(***************************************************************************)

-----------------------------------------------------------------------------
(* The invariants.                                                         *)

Piece(n, i) == [col |-> n, index |-> i]

\* What a slot can hold: the columns its fragments were cut from, by index.
Contents == UNION {[D -> 1 .. MaxColumns] : D \in SUBSET (0 .. FragMax - 1)}

RingSlot == [id : Nat, total : 1 .. FragMax, got : Contents]

TransferTypeOK ==
  /\ totals \in Seq(1 .. FragMax) /\ Len(totals) <= MaxColumns
  /\ \A f \in wire \cup lost : f.col \in Columns /\ f \in Fragments(f.col)
  /\ wire \cap lost = {}
  /\ ring \in Seq(RingSlot) /\ Len(ring) <= ReasmSlots
  /\ completed \subseteq Contents
  /\ crowded \in BOOLEAN

\* The fragments in g were handed over, and their columns have one number.
Arrived(g) ==
  /\ \A i \in DOMAIN g :
       /\ g[i] \in Columns /\ i \in 0 .. totals[g[i]] - 1
       /\ Piece(g[i], i) \notin wire \cup lost
  /\ \A i, j \in DOMAIN g : MsgId(g[i]) = MsgId(g[j])

\* g and h have no fragment in common.
Apart(g, h) == \A i \in DOMAIN g \cap DOMAIN h : g[i] # h[i]

\* A slot holds some, not all, fragments of columns with its number.
SlotOK(s) ==
  /\ Arrived(s.got) /\ DOMAIN s.got # {} /\ DOMAIN s.got # 0 .. s.total - 1
  /\ \A i \in DOMAIN s.got :
       MsgId(s.got[i]) = s.id /\ totals[s.got[i]] = s.total

\* Every fragment goes into one place.
OnceInv ==
  /\ TransferTypeOK
  /\ \A k \in DOMAIN ring : SlotOK(ring[k])
  /\ \A k, l \in DOMAIN ring : ring[k].id = ring[l].id => k = l
  /\ \A g \in completed : Arrived(g)
  /\ \A g, h \in completed : g = h \/ Apart(g, h)
  /\ \A g \in completed, k \in DOMAIN ring : Apart(g, ring[k].got)

\* The fragments of a column that were handed over, by index.
Handed(n) == {i \in 0 .. totals[n] - 1 : Piece(n, i) \notin wire \cup lost}

\* A column with the number of an older one that stays incomplete.
Ghost(n) == \E m \in Incomplete : m < n /\ MsgId(m) = MsgId(n)

\* What was handed over of a column was put together or is in its slot, and in
\* the slot is nothing else; unless a newer column took the slot over.
Kept(n) ==
  Handed(n) # {} =>
    \/ Ghost(n)
    \/ Whole(n) \in completed
    \/ \E k \in DOMAIN ring : /\ ring[k].id = MsgId(n)
                              /\ ring[k].total = totals[n]
                              /\ ring[k].got = [i \in Handed(n) |-> n]
    \/ n \in Incomplete /\ \E m \in Columns : n < m /\ MsgId(m) = MsgId(n)

\* Only the newest column of a number has fragments on their way.
NewestOnWire ==
  \A f \in wire : \A m \in Columns : MsgId(m) = MsgId(f.col) => m <= f.col

KeptInv ==
  OnceInv /\ NewestOnWire /\ (~crowded => \A n \in Columns : Kept(n))

-----------------------------------------------------------------------------
(* Fragments, slots and rings.                                             *)

LEMMA FragmentsAre ==
  ASSUME TransferTypeOK, NEW f \in wire \cup lost
  PROVE  /\ f.col \in Columns /\ f.index \in 0 .. totals[f.col] - 1
         /\ f = Piece(f.col, f.index) /\ f.col \in 1 .. MaxColumns
         /\ totals[f.col] \in 1 .. FragMax
<1>1. f.col \in Columns /\ f \in Fragments(f.col)
  BY DEF TransferTypeOK
<1>2. PICK i \in 0 .. totals[f.col] - 1 : f = Piece(f.col, i)
  BY <1>1 DEF Fragments, Piece
<1>3. f.index = i
  BY <1>2 DEF Piece
<1>4. totals[f.col] \in 1 .. FragMax /\ f.col \in 1 .. MaxColumns
  BY <1>1, TransferAssumption DEF TransferTypeOK, Columns
<1> QED  BY <1>1, <1>2, <1>3, <1>4

LEMMA TotalsAre ==
  ASSUME TransferTypeOK, NEW n \in Columns
  PROVE  totals[n] \in 1 .. FragMax
BY TransferAssumption DEF TransferTypeOK, Columns

LEMMA MsgIdIs == \A n \in Nat : MsgId(n) \in Nat
BY TransferAssumption DEF MsgId

LEMMA InContents ==
  ASSUME NEW D \in SUBSET (0 .. FragMax - 1), NEW g \in [D -> 1 .. MaxColumns]
  PROVE  g \in Contents
BY DEF Contents

LEMMA ContentsAre ==
  ASSUME NEW g \in Contents
  PROVE  /\ DOMAIN g \subseteq 0 .. FragMax - 1
         /\ \A i \in DOMAIN g : g[i] \in 1 .. MaxColumns
         /\ g = [i \in DOMAIN g |-> g[i]]
BY DEF Contents

LEMMA SameContents ==
  ASSUME NEW g \in Contents, NEW h \in Contents, DOMAIN g = DOMAIN h,
         \A i \in DOMAIN g : g[i] = h[i]
  PROVE  g = h
BY ContentsAre

\* r holds the slots of the ring but for those at the places of out.
Leaves(r, out) ==
  /\ r \in Seq(RingSlot)
  /\ \A k \in DOMAIN r : \E l \in DOMAIN ring \ out : r[k] = ring[l]
  /\ \A l \in DOMAIN ring \ out : \E k \in DOMAIN r : r[k] = ring[l]
  /\ \A k, l \in DOMAIN r : r[k].id = r[l].id => k = l

LEMMA WithoutOne ==
  ASSUME NEW S, NEW s \in Seq(S), NEW i \in 1 .. Len(s)
  PROVE  LET r == RemoveAt(s, i)
             before(k) == IF k < i THEN k ELSE k + 1
         IN  /\ r \in Seq(S) /\ Len(r) = Len(s) - 1
             /\ \A k \in 1 .. Len(s) - 1 : r[k] = s[before(k)]
<1> DEFINE a == SubSeq(s, 1, i - 1)
           b == SubSeq(s, i + 1, Len(s))
<1>1. /\ a \in Seq(S) /\ Len(a) = i - 1
      /\ \A k \in 1 .. i - 1 : a[k] = s[k]
  OBVIOUS
<1>2. /\ b \in Seq(S) /\ Len(b) = Len(s) - i
      /\ \A k \in 1 .. Len(s) - i : b[k] = s[k + i]
  OBVIOUS
<1>3. RemoveAt(s, i) = a \o b
  BY DEF RemoveAt
<1> HIDE DEF a, b
<1>4. a \o b \in Seq(S) /\ Len(a \o b) = Len(s) - 1
  <2>0. a \in Seq(S) /\ b \in Seq(S)
    BY <1>1, <1>2
  <2>1. a \o b \in Seq(S) /\ Len(a \o b) = Len(a) + Len(b)
    BY <2>0
  <2>2. Len(s) \in Nat /\ i \in Nat
    OBVIOUS
  <2>3. Len(a \o b) = Len(s) - 1
    BY <1>1, <1>2, <2>1, <2>2
  <2> QED  BY <2>1, <2>3
<1>5. ASSUME NEW k \in 1 .. Len(s) - 1
      PROVE  (a \o b)[k] = s[IF k < i THEN k ELSE k + 1]
  <2>1. CASE k < i
    BY <1>1, <1>2, <2>1
  <2>2. CASE ~(k < i)
    <3>1. k - (i - 1) \in 1 .. Len(s) - i /\ (k - (i - 1)) + i = k + 1
      BY <2>2
    <3>2. (a \o b)[k] = b[k - (i - 1)]
      BY <1>1, <1>2, <2>2
    <3> QED  BY <1>2, <2>2, <3>1, <3>2
  <2> QED  BY <2>1, <2>2
<1> QED  BY <1>3, <1>4, <1>5

LEMMA Removed ==
  ASSUME OnceInv, NEW i \in DOMAIN ring
  PROVE  Leaves(RemoveAt(ring, i), {i}) /\ Len(RemoveAt(ring, i)) = Len(ring) - 1
<1>1. ring \in Seq(RingSlot) /\ i \in 1 .. Len(ring) /\ Len(ring) \in Nat
      /\ DOMAIN ring = 1 .. Len(ring)
  BY DEF OnceInv, TransferTypeOK
<1> PICK r : r = RemoveAt(ring, i)
  OBVIOUS
<1>2. /\ r \in Seq(RingSlot) /\ Len(r) = Len(ring) - 1
      /\ \A k \in 1 .. Len(ring) - 1 : r[k] = ring[IF k < i THEN k ELSE k + 1]
  BY <1>1, WithoutOne
<1>3. DOMAIN r = 1 .. Len(ring) - 1
  BY <1>2
<1>4. \A k \in DOMAIN r : \E l \in DOMAIN ring \ {i} : r[k] = ring[l]
  <2> TAKE k \in DOMAIN r
  <2>1. (IF k < i THEN k ELSE k + 1) \in DOMAIN ring \ {i}
    BY <1>1, <1>3
  <2> QED  BY <1>2, <1>3, <2>1
<1>5. \A l \in DOMAIN ring \ {i} : \E k \in DOMAIN r : r[k] = ring[l]
  <2> TAKE l \in DOMAIN ring \ {i}
  <2>1. CASE l < i
    BY <1>1, <1>2, <1>3, <2>1
  <2>2. CASE l > i
    <3>1. l - 1 \in DOMAIN r /\ ~(l - 1 < i) /\ (l - 1) + 1 = l
      BY <1>1, <1>3, <2>2
    <3> QED  BY <1>2, <1>3, <3>1
  <2> QED  BY <1>1, <2>1, <2>2
<1>6. \A k, l \in DOMAIN r : r[k].id = r[l].id => k = l
  <2> TAKE k, l \in DOMAIN r
  <2> HAVE r[k].id = r[l].id
  <2>1. /\ (IF k < i THEN k ELSE k + 1) \in DOMAIN ring
        /\ (IF l < i THEN l ELSE l + 1) \in DOMAIN ring
    BY <1>1, <1>3
  <2>2. (IF k < i THEN k ELSE k + 1) = (IF l < i THEN l ELSE l + 1)
    BY <1>2, <1>3, <2>1 DEF OnceInv
  <2>3. k \in Int /\ l \in Int /\ i \in Int
    BY <1>1, <1>3
  <2> QED  BY <2>2, <2>3
<1> QED  BY <1>2, <1>4, <1>5, <1>6 DEF Leaves

LEMMA OldestOut ==
  ASSUME OnceInv, ring # <<>>
  PROVE  Leaves(Tail(ring), {1}) /\ Len(Tail(ring)) = Len(ring) - 1
<1>1. /\ ring \in Seq(RingSlot) /\ Len(ring) \in Nat /\ 1 \in 1 .. Len(ring)
      /\ DOMAIN ring = 1 .. Len(ring)
  BY DEF OnceInv, TransferTypeOK
<1> PICK r : r = Tail(ring)
  OBVIOUS
<1>2. /\ r \in Seq(RingSlot) /\ Len(r) = Len(ring) - 1
      /\ \A k \in 1 .. Len(ring) - 1 : r[k] = ring[k + 1]
  BY <1>1
<1>3. DOMAIN r = 1 .. Len(ring) - 1
  BY <1>2
<1>4. \A k \in DOMAIN r : k + 1 \in DOMAIN ring \ {1} /\ r[k] = ring[k + 1]
  BY <1>1, <1>2, <1>3
<1>5. \A l \in DOMAIN ring \ {1} : l - 1 \in DOMAIN r /\ r[l - 1] = ring[l]
  BY <1>1, <1>2, <1>3
<1>6. \A k, l \in DOMAIN r : r[k].id = r[l].id => k = l
  <2> TAKE k, l \in DOMAIN r
  <2> HAVE r[k].id = r[l].id
  <2>1. k + 1 = l + 1
    BY <1>4 DEF OnceInv
  <2>2. k \in Int /\ l \in Int
    BY <1>3
  <2> QED  BY <2>1, <2>2
<1> QED  BY <1>2, <1>4, <1>5, <1>6 DEF Leaves

-----------------------------------------------------------------------------
(* What chunk_reasm_feed does to the ring.                                 *)

\* The slots that stay beside the one that f is put into.  Another message
\* loses its slot only when the ring is full of others.
Stays(f, r, out) ==
  /\ Leaves(r, out) /\ Len(r) < ReasmSlots
  /\ Mine(f) \subseteq out /\ out \subseteq DOMAIN ring
  /\ out \subseteq Mine(f) \/ (Mine(f) = {} /\ Len(ring) = ReasmSlots)

\* got is what the slot of f held, if it had as many fragments, and f.
Joined(f, got) ==
  /\ got \in Contents /\ f.index \in DOMAIN got /\ got[f.index] = f.col
  /\ \A i \in DOMAIN got \ {f.index} :
       \E k \in Mine(f) : /\ ring[k].total = totals[f.col]
                          /\ i \in DOMAIN ring[k].got /\ got[i] = ring[k].got[i]
  /\ \A k \in Mine(f) :
       ring[k].total = totals[f.col] => DOMAIN ring[k].got \subseteq DOMAIN got

Placed(f, r, got) ==
  \/ /\ DOMAIN got = 0 .. totals[f.col] - 1
     /\ ring' = r /\ completed' = completed \cup {got}
  \/ /\ DOMAIN got # 0 .. totals[f.col] - 1 /\ UNCHANGED completed
     /\ ring' = Append(r, [id |-> MsgId(f.col), total |-> totals[f.col],
                           got |-> got])

LEMMA SlotIs ==
  ASSUME OnceInv, NEW k \in DOMAIN ring
  PROVE  /\ ring[k] \in RingSlot /\ ring[k].id \in Nat /\ ring[k].got \in Contents
         /\ ring[k].total \in 1 .. FragMax
         /\ \A i \in DOMAIN ring[k].got :
              /\ i \in 0 .. ring[k].total - 1 /\ ring[k].got[i] \in Columns
              /\ MsgId(ring[k].got[i]) = ring[k].id
              /\ totals[ring[k].got[i]] = ring[k].total
              /\ Piece(ring[k].got[i], i) \notin wire \cup lost
<1>1. ring[k] \in RingSlot
  BY DEF OnceInv, TransferTypeOK
<1>2. SlotOK(ring[k])
  BY DEF OnceInv
<1> QED  BY <1>1, <1>2 DEF RingSlot, SlotOK, Arrived

LEMMA PutPlaces ==
  ASSUME OnceInv, NEW f \in wire, NEW r, NEW begun, Put(f, r, begun),
         \/ begun = <<>> /\ \A k \in Mine(f) : ring[k].total # totals[f.col]
         \/ \E k \in Mine(f) : /\ ring[k].total = totals[f.col]
                               /\ begun = ring[k].got
  PROVE  \E got : Joined(f, got) /\ Placed(f, r, got)
<1>1. /\ f.col \in 1 .. MaxColumns /\ f.index \in 0 .. totals[f.col] - 1
      /\ totals[f.col] \in 1 .. FragMax
  BY FragmentsAre DEF OnceInv
<1>2. \A k, l \in Mine(f) : k = l
  BY DEF Mine, OnceInv
<1>3. \A k \in Mine(f) : k \in DOMAIN ring
  BY DEF Mine
<1>4. /\ DOMAIN begun \subseteq 0 .. totals[f.col] - 1
      /\ \A i \in DOMAIN begun :
           /\ begun[i] \in 1 .. MaxColumns
           /\ \E k \in Mine(f) : /\ ring[k].total = totals[f.col]
                                 /\ i \in DOMAIN ring[k].got
                                 /\ begun[i] = ring[k].got[i]
      /\ \A k \in Mine(f) :
           ring[k].total = totals[f.col] => DOMAIN ring[k].got \subseteq DOMAIN begun
  <2>1. CASE begun = <<>> /\ \A k \in Mine(f) : ring[k].total # totals[f.col]
    <3>1. DOMAIN begun = {}
      BY <2>1
    <3> QED  BY <2>1, <3>1
  <2>2. CASE \E k \in Mine(f) : ring[k].total = totals[f.col] /\ begun = ring[k].got
    <3>1. PICK k \in Mine(f) : ring[k].total = totals[f.col] /\ begun = ring[k].got
      BY <2>2
    <3>2. /\ ring[k].got \in Contents
          /\ \A i \in DOMAIN ring[k].got : i \in 0 .. ring[k].total - 1
      BY <1>3, SlotIs
    <3>3. \A i \in DOMAIN ring[k].got : ring[k].got[i] \in 1 .. MaxColumns
      BY <3>2, ContentsAre
    <3> QED  BY <1>2, <3>1, <3>2, <3>3
  <2> QED  BY <2>1, <2>2
<1> DEFINE D == DOMAIN begun \cup {f.index}
           put == [i \in D |-> IF i = f.index THEN f.col ELSE begun[i]]
<1>5. /\ Cardinality(DOMAIN put) = totals[f.col] =>
           ring' = r /\ completed' = completed \cup {put}
      /\ Cardinality(DOMAIN put) # totals[f.col] =>
           /\ ring' = Append(r, [id |-> MsgId(f.col), total |-> totals[f.col],
                                 got |-> put])
           /\ completed' = completed
  BY DEF Put
<1>6. D \subseteq 0 .. totals[f.col] - 1 /\ f.index \in D /\ DOMAIN begun \subseteq D
  BY <1>1, <1>4
<1>7. put \in [D -> 1 .. MaxColumns]
  BY <1>1, <1>4
<1>8. /\ DOMAIN put = D /\ put[f.index] = f.col
      /\ \A i \in D \ {f.index} : i \in DOMAIN begun /\ put[i] = begun[i]
  OBVIOUS
<1> PICK got : got = put
  OBVIOUS
<1> HIDE DEF D, put
<1>9. got \in Contents
  <2>1. 0 .. totals[f.col] - 1 \subseteq 0 .. FragMax - 1
    BY <1>1, TransferAssumption
  <2>2. D \in SUBSET (0 .. FragMax - 1)
    BY <1>6, <2>1
  <2> QED  BY <1>7, <2>2, InContents
<1>10. Joined(f, got)
  BY <1>4, <1>6, <1>8, <1>9 DEF Joined
<1>11. Cardinality(DOMAIN got) = totals[f.col] <=> DOMAIN got = 0 .. totals[f.col] - 1
  <2>1. /\ IsFiniteSet(0 .. totals[f.col] - 1)
        /\ Cardinality(0 .. totals[f.col] - 1) = totals[f.col]
    BY <1>1, FS_Interval
  <2>2. Cardinality(0 .. totals[f.col] - 1) = Cardinality(D) => 0 .. totals[f.col] - 1 = D
    BY <1>6, <2>1, FS_Subset
  <2> QED  BY <1>8, <2>1, <2>2
<1>12. Placed(f, r, got)
  BY <1>5, <1>11 DEF Placed
<1> QED  BY <1>10, <1>12

LEMMA FeedDoes ==
  ASSUME OnceInv, NEW f \in wire, Feed(f)
  PROVE  /\ wire' = wire \ {f} /\ UNCHANGED <<totals, lost>>
         /\ crowded' = (crowded \/ Cardinality(Incomplete \cup {f.col}) > ReasmSlots)
         /\ \E r, out, got : Stays(f, r, out) /\ Joined(f, got) /\ Placed(f, r, got)
<1>1. /\ wire' = wire \ {f} /\ UNCHANGED <<totals, lost>>
      /\ crowded' = (crowded \/ Cardinality(Incomplete \cup {f.col}) > ReasmSlots)
  BY DEF Feed
<1>2. /\ ring \in Seq(RingSlot) /\ Len(ring) \in Nat /\ Len(ring) <= ReasmSlots
      /\ ReasmSlots \in Nat \ {0} /\ DOMAIN ring = 1 .. Len(ring)
  BY TransferAssumption DEF OnceInv, TransferTypeOK
<1>0. Len(ring) \in Int /\ Len(ring) <= ReasmSlots /\ ReasmSlots \in Int
  BY <1>2
<1>3. CASE Mine(f) = {} /\ Put(f, Room(ring), <<>>)
  <2>1. \E out : Stays(f, Room(ring), out)
    <3>1. CASE Len(ring) = ReasmSlots
      <4>1. ring # <<>> /\ 1 \in DOMAIN ring
        BY <1>2, <3>1
      <4>2. Leaves(Tail(ring), {1}) /\ Len(Tail(ring)) = Len(ring) - 1
        BY <4>1, OldestOut
      <4>3. Stays(f, Tail(ring), {1})
        BY <1>2, <1>3, <3>1, <4>1, <4>2 DEF Stays
      <4> QED  BY <3>1, <4>3 DEF Room
    <3>2. CASE Len(ring) # ReasmSlots
      <4>1. Leaves(ring, {})
        BY <1>2 DEF Leaves, OnceInv
      <4>2. Len(ring) < ReasmSlots
        BY <1>0, <3>2
      <4>3. Stays(f, ring, {})
        BY <1>3, <4>1, <4>2 DEF Stays
      <4> QED  BY <3>2, <4>3 DEF Room
    <3> QED  BY <3>1, <3>2
  <2>2. \E got : Joined(f, got) /\ Placed(f, Room(ring), got)
    BY <1>3, PutPlaces
  <2> QED  BY <1>1, <2>1, <2>2
<1>4. ASSUME NEW k \in Mine(f),
             IF ring[k].total = totals[f.col]
               THEN Put(f, RemoveAt(ring, k), ring[k].got)
               ELSE Put(f, Room(RemoveAt(ring, k)), <<>>)
      PROVE  \E r, out, got : Stays(f, r, out) /\ Joined(f, got) /\ Placed(f, r, got)
  <2> PICK r : r = RemoveAt(ring, k)
    OBVIOUS
  <2>1. k \in DOMAIN ring /\ Mine(f) = {k}
    BY DEF Mine, OnceInv
  <2>2. Leaves(r, {k}) /\ Len(r) = Len(ring) - 1
    BY <2>1, Removed
  <2>3. Stays(f, r, {k})
    BY <1>2, <2>1, <2>2 DEF Stays
  <2>4. Room(r) = r
    <3>1. Len(r) # ReasmSlots
      BY <1>0, <2>2
    <3> QED  BY <3>1 DEF Room
  <2>5. \E got : Joined(f, got) /\ Placed(f, r, got)
    <3>1. CASE ring[k].total = totals[f.col]
      BY <1>4, <3>1, PutPlaces
    <3>2. CASE ring[k].total # totals[f.col]
      BY <1>4, <2>1, <2>4, <3>2, PutPlaces
    <3> QED  BY <3>1, <3>2
  <2> QED  BY <2>3, <2>5
<1> QED  BY <1>1, <1>3, <1>4 DEF Feed

-----------------------------------------------------------------------------
(* Every fragment goes into one place.                                     *)

LEMMA OnceInit == TransferInit => OnceInv
<1> SUFFICES ASSUME TransferInit PROVE OnceInv
  OBVIOUS
<1>1. /\ totals = <<>> /\ ring = <<>> /\ wire = {} /\ lost = {}
      /\ completed = {} /\ crowded = FALSE
  BY DEF TransferInit
<1>2. <<>> \in Seq(1 .. FragMax) /\ <<>> \in Seq(RingSlot) /\ Len(<<>>) = 0
  OBVIOUS
<1>3. DOMAIN ring = {}
  BY <1>1
<1>4. TransferTypeOK
  <2>1. 0 <= MaxColumns /\ 0 <= ReasmSlots
    BY TransferAssumption
  <2> QED  BY <1>1, <1>2, <2>1 DEF TransferTypeOK
<1> QED  BY <1>1, <1>3, <1>4 DEF OnceInv

\* Columns stay as they were sent, and fragments are not sent twice.
Onward ==
  /\ \A n \in Columns : n \in Columns' /\ totals'[n] = totals[n]
  /\ \A f \in wire' \cup lost' : f \in wire \cup lost \/ f.col \notin Columns

LEMMA ArrivedStands ==
  ASSUME Onward, NEW g, Arrived(g)
  PROVE  Arrived(g)'
<1>1. ASSUME NEW i \in DOMAIN g
      PROVE  /\ g[i] \in Columns' /\ i \in 0 .. totals'[g[i]] - 1
             /\ Piece(g[i], i) \notin wire' \cup lost'
  <2>1. /\ g[i] \in Columns /\ i \in 0 .. totals[g[i]] - 1
        /\ Piece(g[i], i) \notin wire \cup lost
    BY DEF Arrived
  <2>2. Piece(g[i], i).col = g[i]
    BY DEF Piece
  <2> QED  BY <2>1, <2>2 DEF Onward
<1> QED  BY <1>1 DEF Arrived, MsgId, Piece

LEMMA SlotStands ==
  ASSUME Onward, NEW s, SlotOK(s)
  PROVE  SlotOK(s)'
<1>1. Arrived(s.got)'
  BY ArrivedStands DEF SlotOK
<1>2. \A i \in DOMAIN s.got :
        MsgId(s.got[i]) = s.id /\ totals'[s.got[i]] = s.total
  BY DEF SlotOK, Arrived, Onward
<1> QED  BY <1>1, <1>2 DEF SlotOK, MsgId

\* A step that leaves the ring and what came out of it alone.
LEMMA OnceStands ==
  ASSUME OnceInv, TransferTypeOK', Onward, UNCHANGED <<ring, completed>>
  PROVE  OnceInv'
<1>1. \A k \in DOMAIN ring' : SlotOK(ring[k])'
  <2> TAKE k \in DOMAIN ring'
  <2> PICK s : s = ring[k]
    OBVIOUS
  <2>1. SlotOK(s)'
    BY SlotStands DEF OnceInv
  <2> QED  BY <2>1 DEF SlotOK, Arrived, Columns, MsgId, Piece
<1>2. \A g \in completed' : Arrived(g)'
  BY ArrivedStands DEF OnceInv
<1> QED  BY <1>1, <1>2 DEF OnceInv, Apart

LEMMA SendOnward ==
  ASSUME TransferTypeOK, NEW t \in 1 .. FragMax, SendColumn(t)
  PROVE  /\ Onward /\ TransferTypeOK'
         /\ Columns' = Columns \cup {Len(totals) + 1}
         /\ Len(totals) + 1 \notin Columns /\ totals'[Len(totals) + 1] = t
         /\ \A i \in 0 .. t - 1 : Piece(Len(totals) + 1, i) \in wire'
         /\ wire \subseteq wire' /\ lost' = lost
         /\ \A f \in wire' : f \in wire \/ f.col = Len(totals) + 1
<1> PICK n : n = Len(totals) + 1
  OBVIOUS
<1>1. /\ totals \in Seq(1 .. FragMax) /\ Len(totals) \in Nat
      /\ totals' = Append(totals, t) /\ Len(totals) < MaxColumns
      /\ UNCHANGED <<lost, ring, completed, crowded>>
  BY DEF TransferTypeOK, SendColumn
<1>2. /\ totals' \in Seq(1 .. FragMax) /\ Len(totals') = n /\ totals'[n] = t
      /\ \A m \in 1 .. Len(totals) : totals'[m] = totals[m]
  BY <1>1
<1>3. Len(totals') <= MaxColumns /\ n \in Nat
  BY <1>1, TransferAssumption
<1>4. Columns' = Columns \cup {n} /\ n \notin Columns
  BY <1>1, <1>2, <1>3 DEF Columns
<1>5. \A m \in Columns : totals'[m] = totals[m]
  BY <1>2 DEF Columns
<1> DEFINE cut == {[col |-> n, index |-> i] : i \in 0 .. t - 1}
<1>6. wire' = wire \cup cut
  BY <1>1, <1>2 DEF SendColumn
<1>7. \A f \in cut : f.col = n /\ f \in {[col |-> n, index |-> i] : i \in 0 .. t - 1}
  OBVIOUS
<1>8. \A i \in 0 .. t - 1 : Piece(n, i) \in cut
  BY DEF Piece
<1>9. Fragments(n)' = cut
  BY <1>2 DEF Fragments
<1>10. \A m \in Columns : Fragments(m)' = Fragments(m)
  BY <1>5 DEF Fragments
<1> HIDE DEF cut
<1>11. ASSUME NEW f \in wire' \cup lost'
       PROVE  f.col \in Columns' /\ f \in Fragments(f.col)'
  <2>1. CASE f \in cut
    <3>1. f.col = n /\ f \in Fragments(n)'
      BY <1>7, <1>9, <2>1
    <3>2. Fragments(f.col)' = Fragments(n)'
      BY <3>1 DEF Fragments
    <3> QED  BY <1>4, <3>1, <3>2
  <2>2. CASE f \in wire \cup lost
    <3>1. f.col \in Columns /\ f \in Fragments(f.col)
      BY <2>2 DEF TransferTypeOK
    <3> QED  BY <1>4, <1>10, <3>1
  <2> QED  BY <1>1, <1>6, <2>1, <2>2
<1>12. wire' \cap lost' = {}
  <2>1. \A f \in lost : f.col \in Columns
    BY DEF TransferTypeOK
  <2> QED  BY <1>1, <1>4, <1>6, <1>7, <2>1 DEF TransferTypeOK
<1>13. TransferTypeOK'
  BY <1>1, <1>2, <1>3, <1>11, <1>12 DEF TransferTypeOK
<1>14. Onward
  BY <1>1, <1>4, <1>5, <1>6, <1>7 DEF Onward
<1> QED  BY <1>1, <1>2, <1>4, <1>6, <1>7, <1>8, <1>13, <1>14

LEMMA LoseOnward ==
  ASSUME TransferTypeOK, NEW f \in wire, LoseFragment(f)
  PROVE  /\ Onward /\ TransferTypeOK' /\ wire' \cup lost' = wire \cup lost
         /\ UNCHANGED <<totals, ring, completed, crowded>> /\ wire' \subseteq wire
<1>1. /\ wire' = wire \ {f} /\ lost' = lost \cup {f}
      /\ UNCHANGED <<totals, ring, completed, crowded>>
  BY DEF LoseFragment
<1>2. Columns' = Columns /\ \A g : Fragments(g)' = Fragments(g)
  BY <1>1 DEF Columns, Fragments
<1> QED  BY <1>1, <1>2 DEF TransferTypeOK, Onward

\* What is together in a slot after f was put there.
LEMMA JoinedIs ==
  ASSUME OnceInv, NEW f \in wire, NEW got, Joined(f, got)
  PROVE  /\ got \in Contents /\ DOMAIN got \subseteq 0 .. totals[f.col] - 1
         /\ \A i \in DOMAIN got :
              /\ got[i] \in Columns /\ totals[got[i]] = totals[f.col]
              /\ MsgId(got[i]) = MsgId(f.col)
              /\ Piece(got[i], i) \notin (wire \ {f}) \cup lost
              /\ \/ i = f.index /\ got[i] = f.col
                 \/ \E k \in Mine(f) :
                      i \in DOMAIN ring[k].got /\ got[i] = ring[k].got[i]
<1>1. /\ f.col \in Columns /\ f.index \in 0 .. totals[f.col] - 1
      /\ f = Piece(f.col, f.index) /\ f \notin lost
  BY FragmentsAre DEF OnceInv, TransferTypeOK
<1>2. ASSUME NEW i \in DOMAIN got \ {f.index}
      PROVE  /\ got[i] \in Columns /\ totals[got[i]] = totals[f.col]
             /\ MsgId(got[i]) = MsgId(f.col) /\ i \in 0 .. totals[f.col] - 1
             /\ Piece(got[i], i) \notin wire \cup lost
             /\ \E k \in Mine(f) :
                  i \in DOMAIN ring[k].got /\ got[i] = ring[k].got[i]
  <2>1. PICK k \in Mine(f) : /\ ring[k].total = totals[f.col]
                             /\ i \in DOMAIN ring[k].got
                             /\ got[i] = ring[k].got[i]
    BY DEF Joined
  <2>2. k \in DOMAIN ring /\ ring[k].id = MsgId(f.col)
    BY DEF Mine
  <2> QED  BY <2>1, <2>2, SlotIs
<1>3. got \in Contents /\ f.index \in DOMAIN got /\ got[f.index] = f.col
  BY DEF Joined
<1> QED  BY <1>1, <1>2, <1>3

LEMMA FeedOnward ==
  ASSUME OnceInv, NEW f \in wire, Feed(f)
  PROVE  Onward /\ Columns' = Columns /\ UNCHANGED <<totals, lost>>
         /\ wire' = wire \ {f}
<1>1. wire' = wire \ {f} /\ UNCHANGED <<totals, lost>>
  BY FeedDoes
<1> QED  BY <1>1 DEF Onward, Columns

LEMMA FeedOnce ==
  ASSUME OnceInv, NEW f \in wire, Feed(f)
  PROVE  OnceInv'
<1>1. /\ wire' = wire \ {f} /\ UNCHANGED <<totals, lost>> /\ crowded' \in BOOLEAN
      /\ Onward /\ Columns' = Columns
  BY FeedDoes, FeedOnward DEF OnceInv, TransferTypeOK
<1>2. PICK r, out, got : Stays(f, r, out) /\ Joined(f, got) /\ Placed(f, r, got)
  BY FeedDoes
<1>3. /\ f.col \in Columns /\ f.col \in 1 .. MaxColumns /\ f.col \in Nat
      /\ f = Piece(f.col, f.index) /\ totals[f.col] \in 1 .. FragMax
  BY FragmentsAre DEF OnceInv
<1>4. /\ got \in Contents /\ DOMAIN got \subseteq 0 .. totals[f.col] - 1
      /\ \A i \in DOMAIN got :
           /\ got[i] \in Columns /\ totals[got[i]] = totals[f.col]
           /\ MsgId(got[i]) = MsgId(f.col)
           /\ Piece(got[i], i) \notin wire' \cup lost'
           /\ \/ i = f.index /\ got[i] = f.col
              \/ \E k \in Mine(f) :
                   i \in DOMAIN ring[k].got /\ got[i] = ring[k].got[i]
  BY <1>1, <1>2, JoinedIs
<1>5. Arrived(got)'
  BY <1>1, <1>4 DEF Arrived, MsgId, Piece
<1>6. ASSUME NEW h \in completed PROVE Apart(got, h) /\ Apart(h, got)
  <2>1. \A k \in Mine(f) : Apart(h, ring[k].got)
    BY DEF OnceInv, Mine
  <2>2. \A i \in DOMAIN h : Piece(h[i], i) \notin wire
    BY DEF OnceInv, Arrived
  <2>3. \A i \in DOMAIN h \cap DOMAIN got : got[i] # h[i]
    BY <1>3, <1>4, <2>1, <2>2 DEF Apart
  <2> QED  BY <2>3 DEF Apart
<1>7. ASSUME NEW k \in DOMAIN r
      PROVE  /\ r[k].id # MsgId(f.col) /\ SlotOK(r[k])'
             /\ \A g \in completed : Apart(g, r[k].got)
             /\ Apart(got, r[k].got)
  <2>1. PICK l \in DOMAIN ring \ out : r[k] = ring[l]
    BY <1>2 DEF Stays, Leaves
  <2>2. l \notin Mine(f)
    BY <1>2, <2>1 DEF Stays
  <2>3. r[k].id # MsgId(f.col)
    BY <2>1, <2>2 DEF Mine
  <2> PICK s : s = ring[l]
    OBVIOUS
  <2>4. SlotOK(s)'
    BY <1>1, SlotStands DEF OnceInv
  <2>5. \A i \in DOMAIN s.got : MsgId(s.got[i]) = s.id
    BY <2>1, SlotIs
  <2>6. Apart(got, s.got)
    BY <1>4, <2>1, <2>3, <2>5 DEF Apart
  <2> QED  BY <2>1, <2>3, <2>4, <2>6 DEF OnceInv
<1>8. /\ r \in Seq(RingSlot) /\ Len(r) < ReasmSlots /\ Len(r) \in Nat
      /\ \A k, l \in DOMAIN r : r[k].id = r[l].id => k = l
  BY <1>2 DEF Stays, Leaves
<1>9. /\ totals' \in Seq(1 .. FragMax) /\ Len(totals') <= MaxColumns
      /\ \A e \in wire' \cup lost' : e.col \in Columns' /\ e \in Fragments(e.col)'
      /\ wire' \cap lost' = {}
  BY <1>1 DEF OnceInv, TransferTypeOK, Fragments
<1>10. CASE /\ DOMAIN got = 0 .. totals[f.col] - 1
            /\ ring' = r /\ completed' = completed \cup {got}
  <2>1. TransferTypeOK'
    <3>1. Len(r) <= ReasmSlots /\ completed' \subseteq Contents
      BY <1>4, <1>8, <1>10, TransferAssumption DEF OnceInv, TransferTypeOK
    <3> QED  BY <1>1, <1>8, <1>9, <1>10, <3>1 DEF TransferTypeOK
  <2>2. \A k \in DOMAIN ring' : SlotOK(ring[k])'
    BY <1>7, <1>10 DEF SlotOK, Arrived, Columns, MsgId, Piece
  <2>3. \A g \in completed' : Arrived(g)'
    BY <1>1, <1>5, <1>10, ArrivedStands DEF OnceInv
  <2>4. \A g, h \in completed' : g = h \/ Apart(g, h)
    BY <1>6, <1>10 DEF OnceInv
  <2>5. \A g \in completed', k \in DOMAIN ring' : Apart(g, ring'[k].got)
    BY <1>7, <1>10
  <2> QED  BY <1>8, <1>10, <2>1, <2>2, <2>3, <2>4, <2>5 DEF OnceInv, Apart
<1>11. CASE /\ DOMAIN got # 0 .. totals[f.col] - 1 /\ UNCHANGED completed
            /\ ring' = Append(r, [id |-> MsgId(f.col), total |-> totals[f.col],
                                  got |-> got])
  <2> PICK s : s = [id |-> MsgId(f.col), total |-> totals[f.col], got |-> got]
    OBVIOUS
  <2>1. s.id = MsgId(f.col) /\ s.total = totals[f.col] /\ s.got = got
    OBVIOUS
  <2>2. s \in RingSlot
    BY <1>3, <1>4, MsgIdIs DEF RingSlot
  <2>3. /\ ring' \in Seq(RingSlot) /\ Len(ring') = Len(r) + 1
        /\ ring'[Len(r) + 1] = s /\ \A k \in DOMAIN r : ring'[k] = r[k]
        /\ DOMAIN ring' = DOMAIN r \cup {Len(r) + 1}
    BY <1>8, <1>11, <2>2
  <2>4. TransferTypeOK'
    <3>1. Len(ring') <= ReasmSlots
      BY <1>8, <2>3, TransferAssumption
    <3>2. completed' \subseteq Contents
      BY <1>11 DEF OnceInv, TransferTypeOK
    <3> QED  BY <1>1, <1>9, <2>3, <3>1, <3>2 DEF TransferTypeOK
  <2>5. SlotOK(s)'
    <3>1. DOMAIN s.got # {} /\ DOMAIN s.got # 0 .. s.total - 1
      BY <1>2, <1>11, <2>1 DEF Joined
    <3>2. \A i \in DOMAIN s.got :
            MsgId(s.got[i]) = s.id /\ totals'[s.got[i]] = s.total
      BY <1>1, <1>4, <2>1
    <3>3. Arrived(s.got)'
      BY <1>5, <2>1 DEF Arrived, MsgId, Piece
    <3> QED  BY <3>1, <3>2, <3>3 DEF SlotOK, MsgId
  <2>6. \A k \in DOMAIN ring' : SlotOK(ring[k])'
    BY <1>7, <2>3, <2>5 DEF SlotOK, Arrived, Columns, MsgId, Piece
  <2>7. \A g \in completed' : Arrived(g)'
    BY <1>1, <1>11, ArrivedStands DEF OnceInv
  <2>8. \A g, h \in completed' : g = h \/ Apart(g, h)
    BY <1>11 DEF OnceInv
  <2>9. \A g \in completed', k \in DOMAIN ring' : Apart(g, ring'[k].got)
    BY <1>6, <1>7, <1>11, <2>1, <2>3
  <2>10. \A k, l \in DOMAIN ring' : ring'[k].id = ring'[l].id => k = l
    BY <1>7, <1>8, <2>1, <2>3
  <2> QED  BY <2>4, <2>6, <2>7, <2>8, <2>9, <2>10 DEF OnceInv, Apart
<1> QED  BY <1>2, <1>10, <1>11 DEF Placed

LEMMA OnceStep == ASSUME OnceInv, [TransferNext]_transferVars PROVE OnceInv'
<1>1. TransferTypeOK
  BY DEF OnceInv
<1>2. ASSUME NEW t \in 1 .. FragMax, SendColumn(t) PROVE OnceInv'
  <2>1. UNCHANGED <<ring, completed>>
    BY <1>2 DEF SendColumn
  <2> QED  BY <1>1, <1>2, <2>1, SendOnward, OnceStands
<1>3. ASSUME NEW f \in wire, LoseFragment(f) PROVE OnceInv'
  BY <1>1, <1>3, LoseOnward, OnceStands
<1>4. ASSUME NEW f \in wire, Feed(f) PROVE OnceInv'
  BY <1>4, FeedOnce
<1>5. CASE UNCHANGED transferVars
  <2>1. Onward /\ TransferTypeOK' /\ UNCHANGED <<ring, completed>>
    BY <1>1, <1>5 DEF Onward, TransferTypeOK, transferVars, Columns, Fragments
  <2> QED  BY <2>1, OnceStands
<1> QED  BY <1>2, <1>3, <1>4, <1>5 DEF TransferNext

LEMMA OnceInvariant == TransferSpec => []OnceInv
BY OnceInit, OnceStep, PTL DEF TransferSpec

\* chunk_reasm_feed puts a column together from its own fragments, however
\* those of others come between and whatever is lost, for every number of
\* slots and of message numbers; blocks of two columns come together only if
\* one was sent under the number of an older one that was not completed.
THEOREM ColumnsComeWhole == TransferSpec => []ColumnsAreWhole
<1>1. ASSUME OnceInv, NEW g \in completed, NEW i \in DOMAIN g, NEW j \in DOMAIN g,
             g[i] < g[j]
      PROVE  Haunted(g[j])
  <2>1. /\ g[i] \in Columns /\ g[j] \in Columns /\ MsgId(g[i]) = MsgId(g[j])
        /\ i \in 0 .. totals[g[i]] - 1
    BY <1>1 DEF OnceInv, Arrived
  <2>2. Whole(g[i]) \notin completed
    <3>1. /\ i \in DOMAIN Whole(g[i]) /\ Whole(g[i])[i] = g[i]
          /\ \A k \in DOMAIN Whole(g[i]) : Whole(g[i])[k] = g[i]
      BY <2>1 DEF Whole
    <3>2. ~Apart(g, Whole(g[i]))
      BY <3>1 DEF Apart
    <3>3. g # Whole(g[i])
      <4>1. g[i] # g[j]
        BY <1>1, <2>1 DEF Columns
      <4> QED  BY <3>1, <4>1
    <3> QED  BY <1>1, <3>2, <3>3 DEF OnceInv
  <2>3. g[i] \in 1 .. g[j] - 1
    BY <1>1, <2>1 DEF Columns
  <2> QED  BY <2>1, <2>2, <2>3 DEF Haunted
<1>2. OnceInv => ColumnsAreWhole
  <2> SUFFICES ASSUME OnceInv, NEW g \in completed,
                      NEW i \in DOMAIN g, NEW j \in DOMAIN g, g[i] # g[j]
               PROVE  Haunted(g[i]) \/ Haunted(g[j])
    BY DEF ColumnsAreWhole
  <2>1. g[i] \in Columns /\ g[j] \in Columns
    BY DEF OnceInv, Arrived
  <2>2. g[i] < g[j] \/ g[j] < g[i]
    BY <2>1 DEF Columns
  <2> QED  BY <1>1, <2>2
<1> QED  BY <1>2, OnceInvariant, PTL

-----------------------------------------------------------------------------
(* A column whose fragments all arrived is put together.                   *)

SomeHanded ==
  \A n : n \in Incomplete <=> /\ n \in Columns /\ Handed(n) # {}
                              /\ Handed(n) # 0 .. totals[n] - 1

LEMMA IncompleteIs == SomeHanded
<1> SUFFICES ASSUME NEW n
             PROVE  n \in Incomplete <=> /\ n \in Columns /\ Handed(n) # {}
                                         /\ Handed(n) # 0 .. totals[n] - 1
  BY DEF SomeHanded
<1> DEFINE arrived == Fragments(n) \ (wire \cup lost)
<1>1. \A i, j : Piece(n, i) = Piece(n, j) => i = j
  BY DEF Piece
<1>2. Fragments(n) = {Piece(n, i) : i \in 0 .. totals[n] - 1}
  BY DEF Fragments, Piece
<1>3. arrived = {} <=> Handed(n) = {}
  BY <1>2 DEF Handed
<1>4. arrived = Fragments(n) <=> Handed(n) = 0 .. totals[n] - 1
  BY <1>2 DEF Handed
<1>5. n \in Incomplete <=> n \in Columns /\ arrived # {} /\ arrived # Fragments(n)
  BY DEF Incomplete
<1> QED  BY <1>3, <1>4, <1>5

LEMMA IncompleteThen == SomeHanded'
BY IncompleteIs, PTL

\* What came out has no fragment on its way, and shares none with a slot.
LEMMA WholeIs ==
  ASSUME OnceInv, NEW n \in Columns, Whole(n) \in completed, NEW i \in 0 .. totals[n] - 1
  PROVE  /\ Piece(n, i) \notin wire \cup lost
         /\ \A k \in DOMAIN ring : i \in DOMAIN ring[k].got => ring[k].got[i] # n
<1>1. i \in DOMAIN Whole(n) /\ Whole(n)[i] = n
  BY DEF Whole
<1>2. Arrived(Whole(n)) /\ \A k \in DOMAIN ring : Apart(Whole(n), ring[k].got)
  BY DEF OnceInv
<1> QED  BY <1>1, <1>2 DEF Arrived, Apart

LEMMA SlotsWait ==
  ASSUME KeptInv, ~crowded, NEW k \in DOMAIN ring
  PROVE  \E n \in Incomplete : MsgId(n) = ring[k].id
<1>1. OnceInv
  BY DEF KeptInv
<1>2. DOMAIN ring[k].got # {} /\ DOMAIN ring[k].got # 0 .. ring[k].total - 1
  BY <1>1 DEF OnceInv, SlotOK
<1>3. PICK i \in DOMAIN ring[k].got : TRUE
  BY <1>2
<1> PICK n : n = ring[k].got[i]
  OBVIOUS
<1>4. /\ n \in Columns /\ MsgId(n) = ring[k].id /\ i \in 0 .. totals[n] - 1
      /\ Piece(n, i) \notin wire \cup lost /\ totals[n] = ring[k].total
  BY <1>1, <1>3, SlotIs
<1>5. i \in Handed(n)
  BY <1>4 DEF Handed
<1>6. Kept(n)
  BY <1>4 DEF KeptInv
<1>7. CASE Ghost(n)
  BY <1>4, <1>7 DEF Ghost
<1>8. CASE Whole(n) \in completed
  BY <1>1, <1>3, <1>4, <1>8, WholeIs
<1>9. CASE \E l \in DOMAIN ring : /\ ring[l].id = MsgId(n)
                                  /\ ring[l].got = [j \in Handed(n) |-> n]
  <2>1. ring[k].got = [j \in Handed(n) |-> n]
    BY <1>1, <1>4, <1>9 DEF OnceInv
  <2>2. Handed(n) # 0 .. totals[n] - 1
    BY <1>2, <1>4, <2>1
  <2> QED  BY <1>4, <1>5, <2>2, IncompleteIs DEF SomeHanded
<1>10. CASE n \in Incomplete
  BY <1>4, <1>10
<1> QED  BY <1>5, <1>6, <1>7, <1>8, <1>9, <1>10 DEF Kept

\* Unless a fragment comes while all slots hold other columns, there is room.
LEMMA NotCrowded ==
  ASSUME KeptInv, NEW f \in wire, Feed(f), ~crowded'
  PROVE  ~(Mine(f) = {} /\ Len(ring) = ReasmSlots)
<1> SUFFICES ASSUME Mine(f) = {}, Len(ring) = ReasmSlots PROVE FALSE
  OBVIOUS
<1>1. OnceInv
  BY DEF KeptInv
<1>2. ~crowded /\ ~(Cardinality(Incomplete \cup {f.col}) > ReasmSlots)
  BY <1>1, FeedDoes DEF OnceInv, TransferTypeOK
<1>3. ReasmSlots \in Nat /\ DOMAIN ring = 1 .. ReasmSlots
  BY <1>1, TransferAssumption DEF OnceInv, TransferTypeOK
<1>4. \A k \in 1 .. ReasmSlots : \E n \in Incomplete : MsgId(n) = ring[k].id
  BY <1>2, <1>3, SlotsWait
<1> DEFINE others == Incomplete \ {f.col}
           waiting == [k \in 1 .. ReasmSlots |->
                         CHOOSE n \in Incomplete : MsgId(n) = ring[k].id]
<1>5. \A k \in 1 .. ReasmSlots :
        waiting[k] \in Incomplete /\ MsgId(waiting[k]) = ring[k].id
  BY <1>4
<1>6. \A k \in 1 .. ReasmSlots : ring[k].id # MsgId(f.col)
  BY <1>3 DEF Mine
<1>7. waiting \in Injection(1 .. ReasmSlots, others)
  <2>1. waiting \in [1 .. ReasmSlots -> others]
    BY <1>5, <1>6
  <2>2. \A k, l \in 1 .. ReasmSlots : waiting[k] = waiting[l] => k = l
    BY <1>1, <1>3, <1>5 DEF OnceInv
  <2> HIDE DEF waiting
  <2> QED  BY <2>1, <2>2 DEF Injection, IsInjective
<1> HIDE DEF waiting
<1>8. IsFiniteSet(Incomplete) /\ IsFiniteSet(others)
  <2>1. IsFiniteSet(Columns)
    BY <1>1, FS_Interval DEF Columns, OnceInv, TransferTypeOK
  <2>2. Incomplete \in SUBSET Columns /\ others \in SUBSET Columns
    BY DEF Incomplete
  <2> QED  BY <2>1, <2>2, FS_Subset
<1>9. Cardinality(1 .. ReasmSlots) <= Cardinality(others)
  BY <1>7, <1>8, FS_Injection
<1>10. Cardinality(1 .. ReasmSlots) = ReasmSlots
  BY <1>3, FS_Interval
<1>11. Cardinality(others \cup {f.col}) = Cardinality(others) + 1
  BY <1>8, FS_AddElement
<1>12. Incomplete \cup {f.col} = others \cup {f.col}
  OBVIOUS
<1>13. Cardinality(others) \in Nat
  BY <1>8, FS_CardinalityType
<1>14. Cardinality(others) + 1 > ReasmSlots
  BY <1>3, <1>9, <1>10, <1>13
<1> QED  BY <1>2, <1>11, <1>12, <1>14

\* A step after which nothing more of an older column was handed over.
LEMMA KeptStands ==
  ASSUME Onward, NEW n \in Columns, Kept(n), Handed(n)' = Handed(n),
         \A m \in Incomplete :
           (\E l \in Columns : m < l /\ MsgId(l) = MsgId(m)) => m \in Incomplete',
         completed \subseteq completed',
         \A k \in DOMAIN ring :
           ring[k].id = MsgId(n) => \E l \in DOMAIN ring' : ring'[l] = ring[k]
  PROVE  Kept(n)'
<1>1. totals'[n] = totals[n] /\ \A l \in Columns : l \in Columns'
  BY DEF Onward
<1>2. Whole(n)' = Whole(n)
  BY <1>1 DEF Whole
<1>3. Ghost(n) => Ghost(n)'
  BY DEF Ghost, MsgId
<1>4. (n \in Incomplete /\ \E l \in Columns : n < l /\ MsgId(l) = MsgId(n))
        => (n \in Incomplete' /\ \E l \in Columns' : n < l /\ MsgId(l) = MsgId(n))
  BY <1>1
<1>5. ASSUME NEW k \in DOMAIN ring, ring[k].id = MsgId(n),
             ring[k].total = totals[n], ring[k].got = [i \in Handed(n) |-> n]
      PROVE  \E l \in DOMAIN ring' : /\ ring'[l].id = MsgId(n)
                                     /\ ring'[l].total = totals'[n]
                                     /\ ring'[l].got = [i \in Handed(n)' |-> n]
  BY <1>1, <1>5
<1> QED  BY <1>2, <1>3, <1>4, <1>5 DEF Kept, MsgId

\* What is handed over of one column is not of another.
LEMMA HandedStands ==
  ASSUME NEW n, totals'[n] = totals[n],
         \A i : Piece(n, i) \in wire \cup lost <=> Piece(n, i) \in wire' \cup lost'
  PROVE  Handed(n)' = Handed(n)
BY DEF Handed, Piece

LEMMA SendKept ==
  ASSUME KeptInv, NEW t \in 1 .. FragMax, SendColumn(t)
  PROVE  KeptInv'
<1> PICK n : n = Len(totals) + 1
  OBVIOUS
<1>1. /\ UNCHANGED <<ring, completed, crowded, lost>>
      /\ \A f \in wire : MsgId(f.col) # MsgId(n)
  BY DEF SendColumn
<1>2. OnceInv /\ TransferTypeOK
  BY DEF KeptInv, OnceInv
<1>3. OnceInv'
  BY <1>2, OnceStep DEF TransferNext
<1>4. /\ Onward /\ Columns' = Columns \cup {n} /\ n \notin Columns
      /\ totals'[n] = t /\ \A i \in 0 .. t - 1 : Piece(n, i) \in wire'
      /\ wire \subseteq wire' /\ \A f \in wire' : f \in wire \/ f.col = n
  BY <1>2, SendOnward
<1>5. \A m \in Columns : m \in Nat /\ m < n
  BY <1>2 DEF Columns, TransferTypeOK
<1>6. n \in Nat
  BY <1>2 DEF TransferTypeOK
<1>7. NewestOnWire'
  <2>1. ASSUME NEW f \in wire', NEW m \in Columns', MsgId(m) = MsgId(f.col)
        PROVE  m <= f.col
    <3>1. CASE f.col = n
      BY <1>4, <1>5, <1>6, <3>1
    <3>2. CASE f \in wire
      <4>1. m # n
        BY <1>1, <2>1, <3>2
      <4> QED  BY <1>4, <2>1, <3>2, <4>1 DEF KeptInv, NewestOnWire
    <3> QED  BY <1>4, <3>1, <3>2
  <2> QED  BY <2>1 DEF NewestOnWire, MsgId
<1>8. Handed(n)' = {}
  BY <1>4 DEF Handed, Piece
<1>9. \A m \in Columns : Handed(m)' = Handed(m) /\ totals'[m] = totals[m]
  <2> TAKE m \in Columns
  <2>1. totals'[m] = totals[m]
    BY <1>4 DEF Onward
  <2>2. \A i : Piece(m, i).col # n
    BY <1>4 DEF Piece
  <2>3. \A i : Piece(m, i) \in wire \cup lost <=> Piece(m, i) \in wire' \cup lost'
    BY <1>1, <1>4, <2>2
  <2> QED  BY <2>1, <2>3, HandedStands
<1>10. \A m \in Incomplete : m \in Incomplete'
  <2> TAKE m \in Incomplete
  <2>1. m \in Columns /\ Handed(m) # {} /\ Handed(m) # 0 .. totals[m] - 1
    BY IncompleteIs DEF SomeHanded
  <2>2. m \in Columns' /\ Handed(m)' # {} /\ Handed(m)' # 0 .. totals'[m] - 1
    BY <1>4, <1>9, <2>1
  <2> QED  BY <2>2, IncompleteThen DEF SomeHanded, Handed, Piece
<1>11. ASSUME ~crowded', NEW m \in Columns' PROVE Kept(m)'
  <2>1. CASE m = n
    BY <1>8, <2>1 DEF Kept, Handed, Piece
  <2>2. CASE m \in Columns
    <3>1. Kept(m)
      BY <1>1, <1>11, <2>2 DEF KeptInv
    <3> QED  BY <1>1, <1>4, <1>9, <1>10, <2>2, <3>1, KeptStands
  <2> QED  BY <1>4, <2>1, <2>2
<1> QED  BY <1>3, <1>7, <1>11 DEF KeptInv

LEMMA LoseKept ==
  ASSUME KeptInv, NEW f \in wire, LoseFragment(f)
  PROVE  KeptInv'
<1>1. OnceInv /\ TransferTypeOK
  BY DEF KeptInv, OnceInv
<1>2. OnceInv'
  BY <1>1, OnceStep DEF TransferNext
<1>3. /\ Onward /\ wire' \cup lost' = wire \cup lost /\ wire' \subseteq wire
      /\ UNCHANGED <<totals, ring, completed, crowded>>
  BY <1>1, LoseOnward
<1>4. Columns' = Columns
  BY <1>3 DEF Columns
<1>5. NewestOnWire'
  BY <1>3, <1>4 DEF KeptInv, NewestOnWire, MsgId
<1>6. \A n : Handed(n)' = Handed(n)
  BY <1>3 DEF Handed, Piece
<1>7. Incomplete' = Incomplete
  BY <1>3, <1>4 DEF Incomplete, Fragments
<1>8. ASSUME ~crowded', NEW n \in Columns' PROVE Kept(n)'
  <2>1. n \in Columns /\ Kept(n)
    BY <1>3, <1>4, <1>8 DEF KeptInv
  <2> QED  BY <1>3, <1>6, <1>7, <2>1, KeptStands
<1> QED  BY <1>2, <1>5, <1>8 DEF KeptInv

\* The newest column of a number is alone in its slot, if all older ones were
\* completed or never came.
LEMMA AloneInSlot ==
  ASSUME KeptInv, ~crowded, NEW f \in wire, ~Ghost(f.col)
  PROVE  /\ \A k \in Mine(f) :
              /\ ring[k].total = totals[f.col]
              /\ ring[k].got = [i \in Handed(f.col) |-> f.col]
         /\ Handed(f.col) # {} => Mine(f) # {}
<1> PICK n : n = f.col
  OBVIOUS
<1>1. OnceInv
  BY DEF KeptInv
<1>2. /\ n \in Columns /\ f.index \in 0 .. totals[n] - 1
      /\ f = Piece(n, f.index)
  BY <1>1, FragmentsAre DEF OnceInv
<1>3. \A m \in Columns : m \in Nat /\ (MsgId(m) = MsgId(n) => m <= n)
  BY DEF KeptInv, NewestOnWire, Columns
<1>4. Whole(n) \notin completed
  BY <1>1, <1>2, WholeIs
<1>5. Handed(n) # {} =>
        \E k \in DOMAIN ring : /\ ring[k].id = MsgId(n)
                               /\ ring[k].total = totals[n]
                               /\ ring[k].got = [i \in Handed(n) |-> n]
  <2>1. ~\E m \in Columns : n < m /\ MsgId(m) = MsgId(n)
    BY <1>2, <1>3
  <2> QED  BY <1>2, <1>4, <2>1 DEF KeptInv, Kept
<1>6. ASSUME NEW k \in Mine(f)
      PROVE  /\ ring[k].total = totals[n]
             /\ ring[k].got = [i \in Handed(n) |-> n]
  <2>1. k \in DOMAIN ring /\ ring[k].id = MsgId(n)
    BY DEF Mine
  <2>2. DOMAIN ring[k].got # {} /\ DOMAIN ring[k].got # 0 .. ring[k].total - 1
    BY <1>1, <2>1 DEF OnceInv, SlotOK
  <2>3. PICK i \in DOMAIN ring[k].got : TRUE
    BY <2>2
  <2> PICK m : m = ring[k].got[i]
    OBVIOUS
  <2>4. /\ m \in Columns /\ MsgId(m) = MsgId(n) /\ i \in 0 .. totals[m] - 1
        /\ Piece(m, i) \notin wire \cup lost /\ totals[m] = ring[k].total
    BY <1>1, <2>1, <2>3, SlotIs
  <2>5. i \in Handed(m) /\ Kept(m)
    BY <2>4 DEF Handed, KeptInv
  <2>6. CASE m = n
    BY <1>1, <1>5, <2>1, <2>5, <2>6 DEF OnceInv
  <2>7. CASE m # n
    <3>1. m < n /\ m \notin Incomplete
      BY <1>2, <1>3, <2>4, <2>7 DEF Ghost
    <3>2. ~Ghost(m)
      <4>0. \A l \in Incomplete : l \in Nat
        BY <1>3, IncompleteIs DEF SomeHanded
      <4>1. \A l \in Incomplete : l < m => l < n
        BY <1>2, <1>3, <2>4, <3>1, <4>0
      <4> QED  BY <2>4, <4>1 DEF Ghost
    <3>3. Whole(m) \notin completed
      BY <1>1, <2>1, <2>3, <2>4, WholeIs
    <3>4. PICK l \in DOMAIN ring : /\ ring[l].id = MsgId(m)
                                   /\ ring[l].got = [j \in Handed(m) |-> m]
      BY <2>5, <3>1, <3>2, <3>3 DEF Kept
    <3>5. l = k
      BY <1>1, <2>1, <2>4, <3>4 DEF OnceInv
    <3>6. Handed(m) # 0 .. totals[m] - 1
      BY <2>2, <2>4, <3>4, <3>5
    <3> QED  BY <2>4, <2>5, <3>1, <3>6, IncompleteIs DEF SomeHanded
  <2> QED  BY <2>6, <2>7
<1> QED  BY <1>5, <1>6 DEF Mine

LEMMA FeedKept ==
  ASSUME KeptInv, NEW f \in wire, Feed(f)
  PROVE  KeptInv'
<1> PICK n : n = f.col
  OBVIOUS
<1>1. OnceInv
  BY DEF KeptInv
<1>2. OnceInv'
  BY <1>1, FeedOnce
<1>3. Onward /\ Columns' = Columns /\ UNCHANGED <<totals, lost>> /\ wire' = wire \ {f}
  BY <1>1, FeedOnward
<1>4. PICK r, out, got : Stays(f, r, out) /\ Joined(f, got) /\ Placed(f, r, got)
  BY <1>1, FeedDoes
<1>5. /\ n \in Columns /\ f.index \in 0 .. totals[n] - 1
      /\ f = Piece(n, f.index) /\ f \notin lost
  BY <1>1, FragmentsAre DEF OnceInv, TransferTypeOK
<1>6. \A m \in Columns : m \in Nat /\ (MsgId(m) = MsgId(n) => m <= n)
  BY DEF KeptInv, NewestOnWire, Columns
<1>7. NewestOnWire'
  BY <1>3 DEF KeptInv, NewestOnWire, MsgId
<1>8. /\ Handed(n)' = Handed(n) \cup {f.index}
      /\ \A m \in Columns : m # n => Handed(m)' = Handed(m)
  <2>1. \A m, i : Piece(m, i) = f <=> m = n /\ i = f.index
    BY <1>5 DEF Piece
  <2>2. \A m \in Columns : m # n => Handed(m)' = Handed(m)
    BY <1>3, <2>1, HandedStands
  <2>3. \A i : Piece(n, i) \notin wire' \cup lost'
               <=> (Piece(n, i) \notin wire \cup lost \/ i = f.index)
    BY <1>3, <1>5, <2>1
  <2>4. Handed(n)' = Handed(n) \cup {f.index}
    BY <1>3, <1>5, <2>3 DEF Handed, Piece
  <2> QED  BY <2>2, <2>4
<1>9. \A m \in Incomplete : m # n => m \in Incomplete'
  <2> TAKE m \in Incomplete
  <2> HAVE m # n
  <2>1. m \in Columns /\ Handed(m) # {} /\ Handed(m) # 0 .. totals[m] - 1
    BY IncompleteIs DEF SomeHanded
  <2>2. m \in Columns' /\ Handed(m)' # {} /\ Handed(m)' # 0 .. totals'[m] - 1
    BY <1>3, <1>8, <2>1
  <2> QED  BY <2>2, IncompleteThen DEF SomeHanded, Handed, Piece
<1>10. \A m \in Incomplete :
         (\E l \in Columns : m < l /\ MsgId(l) = MsgId(m)) => m \in Incomplete'
  <2> TAKE m \in Incomplete
  <2> HAVE \E l \in Columns : m < l /\ MsgId(l) = MsgId(m)
  <2>1. PICK l \in Columns : m < l /\ MsgId(l) = MsgId(m)
    OBVIOUS
  <2>2. m # n
    BY <1>5, <1>6, <2>1
  <2> QED  BY <1>9, <2>2
<1>11. completed \subseteq completed' /\ \A k \in DOMAIN r : \E l \in DOMAIN ring' :
         ring'[l] = r[k]
  <2>1. r \in Seq(RingSlot) /\ DOMAIN r = 1 .. Len(r) /\ Len(r) \in Nat
    BY <1>4 DEF Stays, Leaves
  <2>2. \A x : \A k \in DOMAIN r : k \in DOMAIN Append(r, x) /\ Append(r, x)[k] = r[k]
    BY <2>1
  <2> QED  BY <1>4, <2>2 DEF Placed
<1>12. ASSUME ~crowded', NEW k \in DOMAIN ring, ring[k].id # MsgId(n)
       PROVE  \E l \in DOMAIN ring' : ring'[l] = ring[k]
  <2>1. k \notin out
    BY <1>4, <1>12, NotCrowded DEF Stays, Mine
  <2>2. PICK l \in DOMAIN r : r[l] = ring[k]
    BY <1>4, <2>1 DEF Stays, Leaves
  <2> QED  BY <1>11, <2>2
<1>13. ~crowded' => ~crowded
  BY <1>1, FeedDoes
<1>14. ASSUME ~crowded', NEW m \in Columns, m # n PROVE Kept(m)'
  <2>1. Kept(m) /\ Handed(m)' = Handed(m)
    BY <1>8, <1>13, <1>14 DEF KeptInv
  <2>2. CASE MsgId(m) # MsgId(n)
    BY <1>3, <1>10, <1>11, <1>12, <1>14, <2>1, <2>2, KeptStands
  <2>3. CASE MsgId(m) = MsgId(n) /\ \E k \in DOMAIN ring :
               /\ ring[k].id = MsgId(m) /\ ring[k].total = totals[m]
               /\ ring[k].got = [i \in Handed(m) |-> m]
    <3>1. PICK k \in DOMAIN ring : /\ ring[k].total = totals[m]
                                   /\ ring[k].got = [i \in Handed(m) |-> m]
      BY <2>3
    <3>2. /\ DOMAIN ring[k].got # {}
          /\ DOMAIN ring[k].got # 0 .. ring[k].total - 1
      BY <1>1 DEF OnceInv, SlotOK
    <3>3. Handed(m) # {} /\ Handed(m) # 0 .. totals[m] - 1
      BY <3>1, <3>2
    <3>4. m \in Incomplete' /\ m < n
      BY <1>5, <1>6, <1>9, <1>14, <2>3, <3>3, IncompleteIs DEF SomeHanded
    <3> QED  BY <1>3, <1>5, <2>3, <3>4 DEF Kept, MsgId
  <2>4. CASE Ghost(m)
    BY <1>3, <1>10, <1>14, <2>4 DEF Ghost, Kept, MsgId
  <2>5. CASE Whole(m) \in completed
    BY <1>3, <1>11, <2>5 DEF Whole, Kept
  <2>6. CASE m \in Incomplete /\ \E l \in Columns : m < l /\ MsgId(l) = MsgId(m)
    BY <1>3, <1>10, <2>6 DEF Kept, MsgId
  <2>7. CASE Handed(m) = {}
    BY <2>1, <2>7 DEF Kept, Handed, Piece
  <2> QED  BY <2>1, <2>2, <2>3, <2>4, <2>5, <2>6, <2>7 DEF Kept
<1>15. ASSUME ~crowded' PROVE Kept(n)'
  <2>1. CASE Ghost(n)
    BY <1>3, <1>5, <1>10, <2>1 DEF Ghost, Kept, MsgId
  <2>2. CASE ~Ghost(n)
    <3>1. /\ \A k \in Mine(f) : /\ ring[k].total = totals[n]
                                /\ ring[k].got = [i \in Handed(n) |-> n]
          /\ Handed(n) # {} => Mine(f) # {}
      BY <1>13, <1>15, <2>2, AloneInSlot
    <3>2. /\ got \in Contents /\ DOMAIN got = Handed(n) \cup {f.index}
          /\ \A i \in DOMAIN got : got[i] = n
      <4>1. \A k \in Mine(f) : /\ DOMAIN ring[k].got = Handed(n)
                                /\ \A i \in Handed(n) : ring[k].got[i] = n
        BY <3>1
      <4>2. got \in Contents /\ f.index \in DOMAIN got /\ got[f.index] = n
        BY <1>4 DEF Joined
      <4>3. \A i \in DOMAIN got \ {f.index} : i \in Handed(n) /\ got[i] = n
        BY <1>4, <4>1 DEF Joined
      <4>4. Handed(n) \subseteq DOMAIN got
        BY <1>4, <3>1, <4>1 DEF Joined
      <4> QED  BY <4>2, <4>3, <4>4
    <3>3. got = [i \in Handed(n)' |-> n]
      BY <1>8, <3>2, ContentsAre
    <3>4. CASE DOMAIN got = 0 .. totals[n] - 1 /\ completed' = completed \cup {got}
      <4>1. got = Whole(n)'
        BY <1>3, <3>2, <3>4, ContentsAre DEF Whole
      <4> QED  BY <3>4, <4>1 DEF Kept
    <3>5. CASE ring' = Append(r, [id |-> MsgId(n), total |-> totals[n], got |-> got])
      <4>1. Len(r) + 1 \in DOMAIN ring' /\
            ring'[Len(r) + 1] = [id |-> MsgId(n), total |-> totals[n], got |-> got]
        BY <1>4, <3>5 DEF Stays, Leaves
      <4> QED  BY <1>3, <3>3, <4>1 DEF Kept, MsgId
    <3> QED  BY <1>4, <3>4, <3>5 DEF Placed
  <2> QED  BY <2>1, <2>2
<1> QED  BY <1>2, <1>3, <1>7, <1>14, <1>15 DEF KeptInv

LEMMA KeptInit == TransferInit => KeptInv
<1> SUFFICES ASSUME TransferInit PROVE KeptInv
  OBVIOUS
<1>1. Columns = {}
  BY DEF TransferInit, Columns
<1> QED  BY <1>1, OnceInit DEF TransferInit, KeptInv, NewestOnWire

LEMMA KeptStep == ASSUME KeptInv, [TransferNext]_transferVars PROVE KeptInv'
<1>1. CASE UNCHANGED transferVars
  <2>1. OnceInv'
    BY <1>1, OnceStep DEF KeptInv
  <2>2. Columns' = Columns /\ Incomplete' = Incomplete
    BY <1>1 DEF transferVars, Columns, Incomplete, Fragments
  <2>3. \A n \in Columns : Handed(n)' = Handed(n)
    BY <1>1, HandedStands DEF transferVars
  <2>4. Onward
    BY <1>1, <2>2 DEF Onward, transferVars
  <2>5. ASSUME ~crowded', NEW n \in Columns' PROVE Kept(n)'
    <3>1. n \in Columns /\ Kept(n)
      BY <1>1, <2>2, <2>5 DEF KeptInv, transferVars
    <3> QED  BY <1>1, <2>2, <2>3, <2>4, <3>1, KeptStands DEF transferVars
  <2>6. NewestOnWire'
    BY <1>1, <2>2 DEF KeptInv, NewestOnWire, transferVars, MsgId
  <2> QED  BY <2>1, <2>5, <2>6 DEF KeptInv
<1> QED  BY <1>1, SendKept, LoseKept, FeedKept DEF TransferNext

LEMMA KeptInvariant == TransferSpec => []KeptInv
BY KeptInit, KeptStep, PTL DEF TransferSpec

\* A column whose fragments all arrived comes out of chunk_reasm_feed, in
\* whatever order they came and whatever came between, for every number of
\* slots and of message numbers, unless a fragment came when all slots held
\* other columns or an older column of the number was not completed.
THEOREM ArrivedColumnsComplete == TransferSpec => []ArrivedIsComplete
<1>1. KeptInv => ArrivedIsComplete
  <2> SUFFICES ASSUME KeptInv, ~crowded, NEW n \in Columns,
                      Fragments(n) \cap (wire \cup lost) = {}
               PROVE  Whole(n) \in completed \/ Haunted(n)
    BY DEF ArrivedIsComplete
  <2>1. OnceInv /\ Kept(n)
    BY DEF KeptInv
  <2>2. totals[n] \in 1 .. FragMax
    BY <2>1, TotalsAre DEF OnceInv
  <2>3. Handed(n) = 0 .. totals[n] - 1
    BY DEF Handed, Fragments, Piece
  <2>4. Handed(n) # {} /\ n \notin Incomplete
    BY <2>2, <2>3, IncompleteIs DEF SomeHanded
  <2>5. CASE Ghost(n)
    <3>1. PICK m \in Incomplete : m < n /\ MsgId(m) = MsgId(n)
      BY <2>5 DEF Ghost
    <3>2. m \in Columns /\ Handed(m) # 0 .. totals[m] - 1
      BY IncompleteIs DEF SomeHanded
    <3>3. Whole(m) \notin completed
      BY <2>1, <3>2, WholeIs DEF Handed
    <3>4. m \in 1 .. n - 1
      BY <3>1, <3>2 DEF Columns
    <3> QED  BY <3>1, <3>3, <3>4 DEF Haunted
  <2>6. ~\E k \in DOMAIN ring : /\ ring[k].total = totals[n]
                                /\ ring[k].got = [i \in Handed(n) |-> n]
    BY <2>1, <2>3 DEF OnceInv, SlotOK
  <2> QED  BY <2>1, <2>4, <2>5, <2>6 DEF Kept
<1> QED  BY <1>1, KeptInvariant, PTL

=============================================================================
