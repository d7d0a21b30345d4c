--------------------------- MODULE GravityBlocks ---------------------------
(***************************************************************************)
(* Falling blocks in the world that a host shares with its server: the     *)
(* gravity_tick of block_physics.c on the main thread, and the edits that  *)
(* the server thread makes in the same cells meanwhile.                    *)
(*                                                                         *)
(* Whether a block falls depends on the cell under it alone: the model is  *)
(* one vertical line of cells.  A block that ought to fall falls only when *)
(* its cell is in the active set, and there are many ways to leave that    *)
(* set: the subject of the module is that there are as many ways into it.  *)
(***************************************************************************)
EXTENDS Naturals, FiniteSets

CONSTANTS
  Height,         \* the topmost cell
  PendingLimit,   \* size of pending_block_changes (256)
  MaxEdits        \* bound: edits by the server

\* What the constants are, for those who instantiate them.
GravityAssumption == Height \in Nat /\ MaxEdits \in Nat

VARIABLES
  cells,     \* the world: the block in each cell
  active,    \* gravity_active
  scan,      \* "idle" between ticks, else where the loop of gravity_tick is
  todo,      \* cells of gravity_active that the loop has not visited
  cur,       \* the cell it visits
  next,      \* the active set of the next tick
  moved,     \* cells that received a block in this tick
  told,      \* PKT_BLOCK_CHANGEs that the client has not read
  pending,   \* pending_block_changes
  lapsed,    \* history: cells whose wake-up was dropped
  edits      \* number of edits so far

tickVars == <<scan, todo, cur, next, moved>>
vars == <<cells, active, tickVars, told, pending, lapsed, edits>>

Cells == 0 .. Height
Blocks == {"air", "stone", "sand"}
Edits == [number : 1 .. MaxEdits, at : Cells]

\* What block_physics_notify wakes, of the cells on this line.
Near(y) == {z \in Cells : z \in {y - 1, y, y + 1}}

TypeOK ==
  /\ cells \in [Cells -> Blocks]
  /\ active \subseteq Cells /\ todo \subseteq Cells /\ next \subseteq Cells
  /\ moved \subseteq Cells /\ lapsed \subseteq Cells
  /\ scan \in {"idle", "visit", "below", "fill", "clear"}
  /\ cur \in Cells
  /\ told \subseteq Edits /\ pending \subseteq Edits
  /\ edits \in 0 .. MaxEdits

\* A column that a worker generated has every one of its gravity blocks
\* notified by world_update.  One that the server generated itself, in
\* world_ensure_chunk, has none.
Init ==
  /\ cells \in [Cells -> Blocks]
  /\ \/ /\ active = UNION {Near(y) : y \in {z \in Cells : cells[z] = "sand"}}
        /\ lapsed = {}
     \/ active = {} /\ lapsed = Cells
  /\ scan = "idle" /\ todo = {} /\ cur = 0 /\ next = {} /\ moved = {}
  /\ told = {} /\ pending = {} /\ edits = 0

-----------------------------------------------------------------------------
(* The server thread.                                                      *)

\* Break or place: world_set_block, then server_broadcast_block_change, which
\* also follows when the write was refused because the column is busy.
Edit(y, block) ==
  /\ edits < MaxEdits
  /\ edits' = edits + 1
  /\ cells' \in {cells, [cells EXCEPT ![y] = block]}
  /\ told' = told \cup {[number |-> edits', at |-> y]}
  /\ UNCHANGED <<active, tickVars, pending, lapsed>>

-----------------------------------------------------------------------------
(* The main thread, between two ticks.                                     *)

\* client_poll: a change beyond the limit is dropped.
Receive(e) ==
  /\ scan = "idle" /\ e \in told
  /\ told' = told \ {e}
  /\ IF Cardinality(pending) < PendingLimit
       THEN pending' = pending \cup {e} /\ UNCHANGED lapsed
       ELSE lapsed' = lapsed \cup Near(e.at) /\ UNCHANGED pending
  /\ UNCHANGED <<cells, active, tickVars, edits>>

\* The main loop: block_physics_notify around every pending change.
Woken == UNION {Near(e.at) : e \in pending}

Wake ==
  /\ scan = "idle" /\ pending # {}
  /\ active' = active \cup Woken
  /\ lapsed' = lapsed \ Woken
  /\ pending' = {}
  /\ UNCHANGED <<cells, tickVars, told, edits>>

-----------------------------------------------------------------------------
(* gravity_tick.                                                           *)

BeginTick ==
  /\ scan = "idle" /\ pending = {} /\ active # {}
  /\ scan' = "visit" /\ todo' = active /\ next' = {} /\ moved' = {}
  /\ UNCHANGED <<cells, active, cur, told, pending, lapsed, edits>>

\* The player is more than PHYSICS_RADIUS away: every cell is dropped.
TickFarAway ==
  /\ scan = "idle" /\ pending = {} /\ active # {}
  /\ active' = {}
  /\ lapsed' = lapsed \cup active
  /\ UNCHANGED <<cells, tickVars, told, pending, edits>>

\* The table yields the cells in no particular order.  One that received a
\* block in this tick is passed over, one without a gravity block, or on the
\* floor, is dropped.
Visit(y) ==
  /\ scan = "visit" /\ y \in todo
  /\ IF y \notin moved /\ cells[y] = "sand" /\ y > 0
       THEN cur' = y /\ scan' = "below" /\ UNCHANGED todo
       ELSE todo' = todo \ {y} /\ UNCHANGED <<cur, scan>>
  /\ UNCHANGED <<cells, active, next, moved, told, pending, lapsed, edits>>

\* Go on with the other cells.
Leave ==
  /\ scan' = "visit"
  /\ todo' = todo \ {cur}

LookBelow ==
  /\ scan = "below"
  /\ IF cells[cur - 1] = "air" THEN scan' = "fill" /\ UNCHANGED todo ELSE Leave
  /\ UNCHANGED <<cells, active, cur, next, moved, told, pending, lapsed, edits>>

\* The first of the two writes.
Fill ==
  /\ scan = "fill"
  /\ cells' = [cells EXCEPT ![cur - 1] = "sand"]
  /\ scan' = "clear"
  /\ UNCHANGED <<active, todo, cur, next, moved, told, pending, lapsed, edits>>

\* The column is being lit or meshed and the write is refused.
Retry ==
  /\ scan = "fill"
  /\ next' = next \cup {cur}
  /\ lapsed' = lapsed \ {cur}
  /\ Leave
  /\ UNCHANGED <<cells, active, cur, moved, told, pending, edits>>

\* Mutant of Disturbed: the block on top of the one that fell is forgotten.
DisturbedBelow == {cur - 1}

\* The cells that may have a block to fall now.
Disturbed == {cur - 1, cur + 1} \cap Cells

\* The second write, which finds the column as the first one did: busy columns
\* are the work of this thread.
Clear ==
  /\ scan = "clear"
  /\ cells' = [cells EXCEPT ![cur] = "air"]
  /\ moved' = moved \cup {cur - 1}
  /\ next' = next \cup Disturbed
  /\ lapsed' = lapsed \ Disturbed
  /\ Leave
  /\ UNCHANGED <<active, cur, told, pending, edits>>

EndTick ==
  /\ scan = "visit" /\ todo = {}
  /\ scan' = "idle" /\ active' = next /\ next' = {} /\ moved' = {}
  /\ UNCHANGED <<cells, todo, cur, told, pending, lapsed, edits>>

Tick ==
  \/ BeginTick \/ TickFarAway \/ LookBelow \/ Fill \/ Retry \/ Clear \/ EndTick
  \/ \E y \in Cells : Visit(y)

Next ==
  \/ \E y \in Cells, block \in Blocks : Edit(y, block)
  \/ \E e \in told : Receive(e)
  \/ Wake
  \/ Tick

Spec == Init /\ [][Next]_vars

-----------------------------------------------------------------------------
(* Properties.                                                             *)

\* The cells that will be looked at, in this tick or in the next: those in a
\* set of the physics (in a tick, gravity_active is the set to be replaced),
\* those around an edit on its way, and the one that is receiving a block.
Watched ==
  (IF scan = "idle" THEN active ELSE todo \cup next)
    \cup (IF scan = "clear" THEN {cur - 1} ELSE {})
    \cup UNION {Near(e.at) : e \in told \cup pending}

\* No gravity block hangs in the air unseen (gravity_tick, block_physics.c):
\* through all the ways in which the loop drops a cell, with the server editing
\* between any two of its reads and writes, a block over air will be looked at,
\* unless its wake-up was dropped: for distance, for a full array, or at birth.
NothingHangs ==
  \A y \in Cells \ {0} :
    cells[y] = "sand" /\ cells[y - 1] = "air" => y \in Watched \cup lapsed
=============================================================================
