------------------------------ MODULE Terrain ------------------------------
(***************************************************************************)
(* The terrain of a dedicated server and the copy that one remote client   *)
(* keeps of it: edits, streamed columns, and the packets that carry them.  *)
(*                                                                         *)
(* Columns lie in a row and each is reduced to one block, whose content is *)
(* the number of the edit that set it last.  The pipeline that lights and  *)
(* meshes columns is ChunkPipeline's subject; of it there remains that the *)
(* client's columns are busy or not, as the workers please.  Fragments of  *)
(* a column and their reassembly are the subject of ChunkTransfer.         *)
(*                                                                         *)
(* The reliable channel hands over a message at most once, out of order    *)
(* when datagrams are lost, and not at all when too many newer ones have   *)
(* outrun it (ReliableChannel).                                            *)
(***************************************************************************)
EXTENDS Integers, Sequences, FiniteSets, SequencesExt

CONSTANTS
  Columns,        \* integers: columns in a row
  Places,         \* columns the player can be in
  Radius,         \* stream_rd: the columns the client is sent
  ServerRadius,   \* render distance of the server's own world
  Margin,         \* how much wider the unload radius is than the load radius
  Budget,         \* SERVER_STREAM_BUDGET
  PendingLimit,   \* size of pending_block_changes (256)
  Oversized,      \* columns that encode to too many fragments
  EditedColumns,  \* where players break and place blocks
  MaxEdits, MaxMoves, MaxFaults  \* bounds

ASSUME TerrainAssumption ==
  /\ Columns \subseteq Int /\ Places \subseteq Columns
  /\ Oversized \subseteq Columns /\ EditedColumns \subseteq Columns
  /\ Radius \in Nat /\ ServerRadius \in Nat /\ Margin \in Nat \ {0}
  /\ Budget \in Nat \ {0} /\ PendingLimit \in Nat
  /\ MaxEdits \in Nat /\ MaxMoves \in Nat /\ MaxFaults \in Nat

VARIABLES
  made,      \* server, per column: absent, being generated, or generated
  live,      \* server, per column: the block in the world
  overlay,   \* server, per column: the block in the overlay
  center,    \* server: the client's last known column
  trail,     \* positions of the client that the server has still to take in
  streamed,  \* server: columns recorded as streamed to the client
  net,       \* reliable messages on their way, in the order of sending
  have,      \* client, per column: absent, idle, or busy with a job
  copy,      \* client, per column: the block in its world
  changes,   \* client: pending_block_changes
  here,      \* client: the column the player is in
  skipped,   \* history: columns recorded as streamed while being generated
  missed,    \* history: columns an update of which was refused, overtaken, lost
  strayed,   \* history: columns the client freed while they were recorded
  edits, moves, faults

serverVars == <<made, live, overlay, center, streamed>>
clientVars == <<have, copy, changes, here>>
historyVars == <<skipped, missed, strayed>>
vars == <<serverVars, trail, net, clientVars, historyVars, edits, moves, faults>>

Blocks == 0 .. MaxEdits
Message == [kind : {"data", "change", "unload"}, col : Columns, block : Blocks]
Change == [col : Columns, block : Blocks]

TypeOK ==
  /\ made \in [Columns -> {"absent", "generating", "made"}]
  /\ live \in [Columns -> Blocks] /\ overlay \in [Columns -> Blocks]
  /\ center \in Places /\ here \in Places /\ trail \in Seq(Places)
  /\ streamed \in SUBSET Columns
  /\ net \in Seq(Message)
  /\ have \in [Columns -> {"absent", "idle", "busy"}]
  /\ copy \in [Columns -> Blocks]
  /\ changes \in Seq(Change) /\ Len(changes) <= PendingLimit
  /\ skipped \in SUBSET Columns /\ missed \in SUBSET Columns
  /\ strayed \in SUBSET Columns
  /\ edits \in 0 .. MaxEdits /\ moves \in 0 .. MaxMoves
  /\ faults \in 0 .. MaxFaults

Init ==
  /\ made = [c \in Columns |-> "absent"]
  /\ live = [c \in Columns |-> 0] /\ overlay = [c \in Columns |-> 0]
  /\ center \in Places /\ here = center /\ trail = <<>>
  /\ streamed = {} /\ net = <<>>
  /\ have = [c \in Columns |-> "absent"]
  /\ copy = [c \in Columns |-> 0]
  /\ changes = <<>>
  /\ skipped = {} /\ missed = {} /\ strayed = {}
  /\ edits = 0 /\ moves = 0 /\ faults = 0

Distance(c, d) == IF c < d THEN d - c ELSE c - d
Within(p, r) == {c \in Columns : Distance(p, c) <= r}
Present(c) == have[c] # "absent"

Msg(kind, c, b) == [kind |-> kind, col |-> c, block |-> b]

\* Where the pending changes of a column are.
News(c) == {i \in DOMAIN changes : changes[i].col = c}

-----------------------------------------------------------------------------
(* The server.                                                             *)

\* Mutant of Edit: only a client that was sent the column is told.
EditTellsStreamed(c) ==
  /\ edits < MaxEdits
  /\ edits' = edits + 1
  /\ overlay' = [overlay EXCEPT ![c] = edits']
  /\ net' = IF c \in streamed THEN Append(net, Msg("change", c, edits')) ELSE net
  /\ \/ /\ made' = [made EXCEPT ![c] = IF @ = "absent" THEN "made" ELSE @]
        /\ live' = [live EXCEPT ![c] = edits']
        /\ UNCHANGED missed
     \/ /\ made[c] = "made"
        /\ missed' = missed \cup {c}
        /\ UNCHANGED <<made, live>>
  /\ UNCHANGED <<center, trail, streamed, clientVars, skipped, strayed, moves,
                 faults>>

\* A player breaks or places a block: world_ensure_chunk, server_persist_edit,
\* server_broadcast_block_change.  A column that is still being generated gets
\* the block from the overlay.
Edit(c) ==
  /\ edits < MaxEdits
  /\ edits' = edits + 1
  /\ overlay' = [overlay EXCEPT ![c] = edits']
  /\ net' = Append(net, Msg("change", c, edits'))
  /\ \/ /\ made' = [made EXCEPT ![c] = IF @ = "absent" THEN "made" ELSE @]
        /\ live' = [live EXCEPT ![c] = edits']
        /\ UNCHANGED missed
     \/ \* world_set_block refuses: the column is being lit or meshed
        /\ made[c] = "made"
        /\ missed' = missed \cup {c}
        /\ UNCHANGED <<made, live>>
  /\ UNCHANGED <<center, trail, streamed, clientVars, skipped, strayed, moves,
                 faults>>

\* A worker has finished the column and replayed the overlay on it.
Generated(c) ==
  /\ made[c] = "generating"
  /\ made' = [made EXCEPT ![c] = "made"]
  /\ live' = [live EXCEPT ![c] = overlay[c]]
  /\ UNCHANGED <<overlay, center, trail, streamed, net, clientVars, historyVars,
                 edits, moves, faults>>

\* world_update of the server's world around p, as far as generation goes:
\* columns near p are begun, columns beyond the margin are given up.
Updated(p) ==
  [c \in Columns |->
    IF c \in Within(p, ServerRadius) /\ made[c] = "absent" THEN "generating"
    ELSE IF c \notin Within(p, ServerRadius + Margin) /\ made[c] = "made"
      THEN "absent" ELSE made[c]]

\* chunk_stream_diff around p: the columns to send are those nearest to p; of
\* two at one distance the western one comes first.
Nearer(p, c, d) ==
  \/ Distance(p, c) < Distance(p, d)
  \/ Distance(p, c) = Distance(p, d) /\ c < d

ToUnload(p) == streamed \ Within(p, Radius)

\* Mutant of ToSend: columns that have been sent still use up the budget.
ToSendOfAll(p) ==
  LET near == Within(p, Radius)
  IN  {c \in near \ streamed :
         Cardinality({d \in near : Nearer(p, d, c)}) < Budget}

ToSend(p) ==
  LET unsent == Within(p, Radius) \ streamed
  IN  {c \in unsent : Cardinality({d \in unsent : Nearer(p, d, c)}) < Budget}

\* server_tick, for a client whose last position is p: world_update, then
\* server_stream_chunks.  A column that is absent is made at once
\* (world_copy_chunk_blocks); one that a worker is at, or that is too large, is
\* not sent and recorded all the same.
ServerTick(p) ==
  LET now == Updated(p)
      chosen == ToSend(p)
      gone == ToUnload(p)
      busy == {c \in chosen : now[c] = "generating"}
      fresh == {c \in chosen : now[c] = "absent"}
  IN  /\ center' = p
      /\ UNCHANGED <<overlay, clientVars, missed, edits, moves, faults>>
      /\ made' = [c \in Columns |-> IF c \in fresh THEN "made" ELSE now[c]]
      /\ live' = [c \in Columns |-> IF c \in fresh THEN overlay[c] ELSE live[c]]
      /\ \E unloads \in SetToSeqs(gone),
            sends \in SetToSeqs(chosen \ (busy \cup Oversized)) :
           /\ \A i, j \in DOMAIN sends : i < j => Nearer(p, sends[i], sends[j])
           /\ net' = net \o [i \in DOMAIN unloads |-> Msg("unload", unloads[i], 0)]
                         \o [i \in DOMAIN sends |->
                               Msg("data", sends[i], live'[sends[i]])]
      /\ streamed' = (streamed \ gone) \cup chosen
      /\ skipped' = (skipped \ gone) \cup busy
      /\ strayed' = strayed \ gone

\* handle_position and server_tick: the positions that have come since the last
\* tick are processed first.  Those older than the newest are dropped, so that
\* the k-th makes the ones before it void.
Tick(k) ==
  /\ ServerTick(IF k = 0 THEN center ELSE trail[k])
  /\ trail' = SubSeq(trail, k + 1, Len(trail))

-----------------------------------------------------------------------------
(* The client: client_poll hands over messages, world_update and the loop   *)
(* over the pending changes come after it in every frame.                   *)

\* The player walks, or is put at the spawn, and sends where it is.
Move(p) ==
  /\ moves < MaxMoves
  /\ p # here
  /\ here' = p
  /\ trail' = Append(trail, p)
  /\ moves' = moves + 1
  /\ UNCHANGED <<serverVars, net, have, copy, changes, historyVars, edits, faults>>

\* world_insert_network_chunk, which drops the blocks for a busy column.
InsertChunk(m) ==
  /\ m.kind = "data"
  /\ IF have[m.col] = "busy"
       THEN UNCHANGED <<have, copy>>
       ELSE /\ have' = [have EXCEPT ![m.col] = "idle"]
            /\ copy' = [copy EXCEPT ![m.col] = m.block]
  /\ UNCHANGED changes

\* world_evict_chunk, which leaves a busy column alone.
EvictChunk(m) ==
  /\ m.kind = "unload"
  /\ have' = [have EXCEPT ![m.col] = IF @ = "busy" THEN @ ELSE "absent"]
  /\ UNCHANGED <<copy, changes>>

\* PKT_BLOCK_CHANGE is kept for the end of the frame if there is room.
KeepChange(m) ==
  /\ m.kind = "change"
  /\ changes' = IF Len(changes) < PendingLimit
                  THEN Append(changes, [col |-> m.col, block |-> m.block])
                  ELSE changes
  /\ UNCHANGED <<have, copy>>

\* The i-th message on its way is the next to arrive.
Deliver(i) ==
  LET m == net[i]
      overtaking == \E j \in 1 .. i - 1 : net[j].col = m.col
      dropped == \/ m.kind = "data" /\ have[m.col] = "busy"
                 \/ m.kind = "change" /\ Len(changes) = PendingLimit
  IN  /\ i > 1 => faults < MaxFaults
      /\ faults' = IF i > 1 THEN faults + 1 ELSE faults
      /\ InsertChunk(m) \/ EvictChunk(m) \/ KeepChange(m)
      /\ net' = RemoveAt(net, i)
      /\ missed' = IF overtaking \/ dropped THEN missed \cup {m.col} ELSE missed
      /\ UNCHANGED <<serverVars, trail, here, skipped, strayed, edits, moves>>

\* The i-th message on its way is never handed over, or is of no use.  Sixteen
\* newer messages have come before it, and reliable_on_recv passes over it; or
\* 64 newer ones were sent, and its place in the ring was taken before it was
\* sent again; or it is a column, and one fragment had that fate, or the slot
\* in which its fragments were put together went to another column.
Lose(i) ==
  /\ faults < MaxFaults
  /\ faults' = faults + 1
  /\ net' = RemoveAt(net, i)
  /\ missed' = IF net[i].kind = "unload" THEN missed ELSE missed \cup {net[i].col}
  /\ UNCHANGED <<serverVars, trail, clientVars, skipped, strayed, edits, moves>>

\* Mutant of Frame: no margin between loading and unloading.
FrameNoMargin ==
  /\ changes' = <<>>
  /\ UNCHANGED <<serverVars, trail, net, here, skipped, edits, moves, faults>>
  /\ \E ended \in SUBSET {c \in Columns : have[c] = "busy"} :
       LET idle == {c \in Columns : have[c] = "idle"} \cup ended
           kept == {c \in Columns : Present(c)} \ (idle \ Within(here, Radius))
       IN  \E begun \in SUBSET (idle \cap kept) :
             LET busy == (kept \ idle) \cup begun
             IN  /\ have' = [c \in Columns |-> IF c \in busy THEN "busy"
                                               ELSE IF c \in kept THEN "idle"
                                               ELSE "absent"]
                 /\ copy' = [c \in Columns |->
                               IF c \in kept \ busy /\ News(c) # {}
                                 THEN changes[Max(News(c))].block ELSE copy[c]]
                 /\ missed' = missed \cup {c \in busy : News(c) # {}}
                 /\ strayed' = strayed \cup
                      ((streamed \cap idle) \ Within(here, Radius + Margin))

\* The rest of a frame.  In world_update some jobs end, idle columns beyond the
\* margin are freed, and jobs for some columns begin.  Then the pending changes
\* are applied one after the other, except to columns that are away or busy.
Frame ==
  /\ changes' = <<>>
  /\ UNCHANGED <<serverVars, trail, net, here, skipped, edits, moves, faults>>
  /\ \E ended \in SUBSET {c \in Columns : have[c] = "busy"} :
       LET idle == {c \in Columns : have[c] = "idle"} \cup ended
           kept == {c \in Columns : Present(c)} \ (idle \ Within(here, Radius + Margin))
       IN  \E begun \in SUBSET (idle \cap kept) :
             LET busy == (kept \ idle) \cup begun
             IN  /\ have' = [c \in Columns |-> IF c \in busy THEN "busy"
                                               ELSE IF c \in kept THEN "idle"
                                               ELSE "absent"]
                 /\ copy' = [c \in Columns |->
                               IF c \in kept \ busy /\ News(c) # {}
                                 THEN changes[Max(News(c))].block ELSE copy[c]]
                 /\ missed' = missed \cup {c \in busy : News(c) # {}}
                 /\ strayed' = strayed \cup
                      ((streamed \cap idle) \ Within(here, Radius + Margin))

-----------------------------------------------------------------------------
Next ==
  \/ \E c \in EditedColumns : Edit(c)
  \/ \E c \in Columns : Generated(c)
  \/ \E k \in 0 .. Len(trail) : Tick(k)
  \/ \E p \in Places : Move(p)
  \/ \E i \in DOMAIN net : Deliver(i) \/ Lose(i)
  \/ Frame

Spec == Init /\ [][Next]_vars

\* The server ticks, workers work, frames and positions go on, and what has
\* been sent arrives unless it is lost.  Nobody has to move or edit.
Fairness ==
  /\ WF_vars(\E c \in Columns : Generated(c))
  /\ WF_vars(Tick(Len(trail)))
  /\ WF_vars(net # <<>> /\ Deliver(1)) /\ WF_vars(Frame)

FairSpec == Spec /\ Fairness

-----------------------------------------------------------------------------
(* Properties.                                                             *)

\* Where the blocks of a column are that are on their way to the client.
Sent(c) == {i \in DOMAIN net : net[i].col = c /\ net[i].kind # "unload"}

\* What the client's block will be when everything on its way has arrived.
Expected(c) ==
  IF Sent(c) # {} THEN net[Max(Sent(c))].block
  ELSE IF News(c) # {} THEN changes[Max(News(c))].block
  ELSE copy[c]

\* A column that the client has, or is about to have, shows the server's block
\* or is going to, whatever the order of streaming, edits, eviction and return.
\* It goes wrong in five ways only: an update is never handed over, is overtaken
\* by a later one of the column, arrives while the column is busy, finds no room
\* among the pending changes, or was refused by the server's own world.
CopyFollows ==
  \A c \in Columns \ missed :
    Present(c) \/ (\E i \in DOMAIN net : net[i].kind = "data" /\ net[i].col = c)
      => Expected(c) = overlay[c]

\* What the server has recorded as streamed is at the client or on its way, and
\* no eviction is still to come: not from the server's unloads, and not from
\* the client's own.  The exceptions are columns that were not sent, columns an
\* update of which was missed as in CopyFollows, and columns that the client
\* freed since the player was beyond the margin and the server did not know.
StreamedIsThere ==
  \A c \in streamed \ (Oversized \cup skipped \cup missed \cup strayed) :
    LET stream == {i \in DOMAIN net : net[i].col = c /\ net[i].kind # "change"}
    IN  IF stream = {} THEN Present(c) ELSE net[Max(stream)].kind = "data"

\* A column that stays in range is drawn in the end, as the server has it.
TerrainArrives ==
  \A c \in Columns :
    <>[](c \in Within(here, Radius)) =>
      <>[](\/ c \in Oversized \cup skipped \cup missed \cup strayed
           \/ Present(c) /\ copy[c] = overlay[c])
=============================================================================
