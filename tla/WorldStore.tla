----------------------------- MODULE WorldStore -----------------------------
(***************************************************************************)
(* What src/src/world_persist.h promises to players: their edits are kept  *)
(* as one whole.  A save stores the world as it is, nothing else changes   *)
(* the store, and a program that starts again has the world of the store.  *)
(* The promise ends with damage that the program does not guard against.   *)
(***************************************************************************)
EXTENDS Naturals

CONSTANTS Cells, MaxEdits   \* positions of blocks; bound on the edits

VARIABLES
  world,     \* per cell: the number of the edit that set it, 0 if none
  store,     \* the world that a new start finds
  damaged    \* the promise has ended

vars == <<world, store, damaged>>

Worlds == [Cells -> 0 .. MaxEdits]

Init ==
  /\ world = [c \in Cells |-> 0]
  /\ store = [c \in Cells |-> 0]
  /\ damaged = FALSE

\* An edit is newer than what the cell holds.
Record ==
  /\ \E c \in Cells, n \in 1 .. MaxEdits :
       world[c] < n /\ world' = [world EXCEPT ![c] = n]
  /\ UNCHANGED store

Save == store' = world /\ UNCHANGED world
Restart == world' = store /\ UNCHANGED store

Next ==
  \/ UNCHANGED damaged /\ (Record \/ Save \/ Restart)
  \/ damaged' = TRUE

Spec == Init /\ [][Next]_vars
=============================================================================
