--------------------------- MODULE ChunkTransfer ---------------------------
(***************************************************************************)
(* How a column of blocks crosses the channel: server_send_chunk cuts it   *)
(* into fragments, each a reliable message of its own, and the client puts *)
(* columns together in a ring of CHUNK_REASM_SLOTS slots (chunk_reasm.c).  *)
(*                                                                         *)
(* The channel hands a fragment over at most once, in any order, and loses *)
(* those that it gives up or takes for duplicates (ReliableChannel).       *)
(* A fragment is the column it was cut from and its index.                 *)
(***************************************************************************)
EXTENDS Integers, FiniteSets, SequencesExt

CONSTANTS
  ReasmSlots,   \* CHUNK_REASM_SLOTS
  MsgIds,       \* values of the 16-bit msg_id
  FragMax,      \* CHUNK_DATA_FRAG_MAX
  MaxColumns, MaxLost   \* bounds

ASSUME TransferAssumption ==
  /\ ReasmSlots \in Nat \ {0} /\ MsgIds \in Nat \ {0}
  /\ FragMax \in Nat /\ MaxColumns \in Nat /\ MaxLost \in Nat

VARIABLES
  totals,     \* per column sent, its number of fragments
  wire,       \* fragments on their way
  lost,       \* fragments that never arrive
  ring,       \* the slots in use, the least recently touched first
  completed,  \* what was put together, for the decoder
  crowded     \* history: a fragment came while all slots held other columns

transferVars == <<totals, wire, lost, ring, completed, crowded>>

Columns == 1 .. Len(totals)
MsgId(n) == n % MsgIds
Fragments(n) == {[col |-> n, index |-> i] : i \in 0 .. totals[n] - 1}

\* Columns of which the client has some fragments and misses others.
Incomplete ==
  {n \in Columns :
     LET handed == Fragments(n) \ (wire \cup lost)
     IN  handed # {} /\ handed # Fragments(n)}

TransferInit ==
  /\ totals = <<>> /\ wire = {} /\ lost = {}
  /\ ring = <<>> /\ completed = {} /\ crowded = FALSE

\* server_send_chunk: chunk_msg_id counts the columns sent.  By the time that a
\* number comes again, all fragments with it were handed over or are lost: the
\* channel gives up what 16 newer messages overtook.
SendColumn(total) ==
  /\ Len(totals) < MaxColumns
  /\ \A f \in wire : MsgId(f.col) # MsgId(Len(totals) + 1)
  /\ totals' = Append(totals, total)
  /\ wire' = wire \cup {[col |-> Len(totals'), index |-> i] : i \in 0 .. total - 1}
  /\ UNCHANGED <<lost, ring, completed, crowded>>

LoseFragment(f) ==
  /\ Cardinality(lost) < MaxLost
  /\ wire' = wire \ {f} /\ lost' = lost \cup {f}
  /\ UNCHANGED <<totals, ring, completed, crowded>>

\* Mutant: a message continues whatever column is in a slot, as with the one
\* slot that the ring replaced.
MineOrAny(f) == DOMAIN ring

\* The slot of the message of f, if it has one: find_slot.
Mine(f) == {k \in DOMAIN ring : ring[k].id = MsgId(f.col)}

\* Mutant: the last slot is never used.
RoomEarly(others) ==
  IF Len(others) >= ReasmSlots - 1 THEN Tail(others) ELSE others

\* What the ring looks like when a new message asks for a slot: acquire_slot.
Room(others) == IF Len(others) = ReasmSlots THEN Tail(others) ELSE others

\* f is put into a slot that holds begun, beside the slots of others; a column
\* that it completes is handed out.
Put(f, others, begun) ==
  LET total == totals[f.col]
      got == [i \in DOMAIN begun \cup {f.index} |->
                IF i = f.index THEN f.col ELSE begun[i]]
  IN  IF Cardinality(DOMAIN got) = total
        THEN ring' = others /\ completed' = completed \cup {got}
        ELSE /\ ring' = Append(others, [id |-> MsgId(f.col), total |-> total,
                                        got |-> got])
             /\ UNCHANGED completed

\* chunk_reasm_feed.  The slot of the message is used if it has as many
\* fragments, and given up if not; a new message takes a free slot, or that of
\* the least recently touched.
Feed(f) ==
  /\ \/ Mine(f) = {} /\ Put(f, Room(ring), <<>>)
     \/ \E k \in Mine(f) :
          IF ring[k].total = totals[f.col]
            THEN Put(f, RemoveAt(ring, k), ring[k].got)
            ELSE Put(f, Room(RemoveAt(ring, k)), <<>>)
  /\ wire' = wire \ {f}
  /\ crowded' = (crowded \/ Cardinality(Incomplete \cup {f.col}) > ReasmSlots)
  /\ UNCHANGED <<totals, lost>>

TransferNext ==
  \/ \E t \in 1 .. FragMax : SendColumn(t)
  \/ \E f \in wire : LoseFragment(f) \/ Feed(f)

TransferSpec == TransferInit /\ [][TransferNext]_transferVars

-----------------------------------------------------------------------------
Whole(n) == [i \in 0 .. totals[n] - 1 |-> n]

\* What a column that was given up left in the ring is still there when its
\* number comes again, MsgIds columns later.
Haunted(n) ==
  \E m \in 1 .. n - 1 :
    MsgId(m) = MsgId(n) /\ Whole(m) \notin completed

\* A column is put together from its own fragments, however those of others
\* come between, unless it was haunted: then it can hold blocks of two columns.
ColumnsAreWhole ==
  \A g \in completed : \A i, j \in DOMAIN g :
    g[i] = g[j] \/ Haunted(g[i]) \/ Haunted(g[j])

\* A column whose fragments all arrived is handed to the world, unless a
\* fragment came when all slots held other columns: the one given up for it is
\* acked and not sent again.
ArrivedIsComplete ==
  \A n \in Columns :
    Fragments(n) \cap (wire \cup lost) = {} =>
      \/ Whole(n) \in completed
      \/ crowded \/ Haunted(n)
=============================================================================
