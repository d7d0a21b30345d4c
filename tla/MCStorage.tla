----------------------------- MODULE MCStorage ------------------------------
(***************************************************************************)
(* What is on the disk, for TLC: the file of one world, and the menu of    *)
(* worlds.  The two share nothing but directories; a behaviour is about    *)
(* the one or the other.                                                   *)
(***************************************************************************)
EXTENDS Persistence, WorldSaves

VARIABLE about

StorageInit == Init /\ MenuInit /\ about \in {"file", "menu"}

StorageNext ==
  \/ about = "file" /\ Next /\ UNCHANGED <<about, menuVars>>
  \/ about = "menu" /\ MenuNext /\ UNCHANGED <<about, vars>>

StorageSpec == StorageInit /\ [][StorageNext]_<<about, vars, menuVars>>
=============================================================================
