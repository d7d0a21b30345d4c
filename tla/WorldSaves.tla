----------------------------- MODULE WorldSaves -----------------------------
(***************************************************************************)
(* The list of worlds (worldsave.c) and the menu that makes and opens them *)
(* (main.c).  One world is chosen in a run of the program, the server then *)
(* saves into its directory, and the next run scans the directories again. *)
(*                                                                         *)
(* World k is the directory "World_k"; a meta file is its seed and its     *)
(* last_played.  A seed is the counter it is derived from.  The worlds of  *)
(* the menu are all survival worlds.                                       *)
(***************************************************************************)
EXTENDS Naturals, FiniteSets, SequencesExt

CONSTANTS
  ListMax,    \* WORLDSAVE_LIST_MAX
  MaxPlayed,  \* bound on last_played
  MaxLosses   \* bound on meta files and worlds lost to crashes and by hand

ASSUME MenuAssumption ==
  ListMax \in Nat /\ MaxPlayed \in Nat \ {0} /\ MaxLosses \in Nat

VARIABLES
  at,       \* what the program does: "off", "menu", "writing" or "playing"
  counter,  \* new_counter: the worlds found when the menu opened
  session,  \* the world chosen, and whether it was to be new
  fresh,    \* history: whether nothing was there when a new one was chosen
  meta,     \* per world, the meta file
  dat,      \* per world, the seed of the terrain its saved edits belong to
  losses

menuVars == <<at, counter, session, fresh, meta, dat, losses>>

Names == 1 .. ListMax + 1
Meta == [name : Names, seed : 0 .. ListMax, played : 1 .. MaxPlayed]
Missing == [name |-> 0]
Unreadable == [name |-> 0, seed |-> 0]
NoEdits == ListMax + 1

MenuTypeOK ==
  /\ at \in {"off", "menu", "writing", "playing"}
  /\ counter \in 0 .. ListMax
  /\ session \in [world : Meta, new : BOOLEAN] /\ fresh \in BOOLEAN
  /\ meta \in [Names -> Meta \cup {Missing, Unreadable}]
  /\ dat \in [Names -> 0 .. NoEdits]
  /\ losses \in 0 .. MaxLosses

MenuInit ==
  /\ at = "off" /\ counter = 0 /\ fresh = TRUE
  /\ session = [world |-> [name |-> 1, seed |-> 0, played |-> 1], new |-> FALSE]
  /\ meta = [k \in Names |-> Missing]
  /\ dat = [k \in Names |-> NoEdits]
  /\ losses = 0

-----------------------------------------------------------------------------
(* The list.                                                               *)

\* worldsave_list_sort_recent: an insertion sort, the latest played first.
Recent(l) == \A i, j \in DOMAIN l : i < j => l[i].played >= l[j].played

\* worldsave_scan: readdir gives the directories in any order, the list takes
\* the first ListMax that can be read, and is sorted.
Lists ==
  LET readable == {meta[k] : k \in Names} \cap Meta
      shown == IF Cardinality(readable) <= ListMax THEN {readable}
               ELSE kSubset(ListMax, readable)
  IN  {l \in (UNION {SetToSeqs(r) : r \in shown}) : Recent(l)}

-----------------------------------------------------------------------------
(* The menu.                                                               *)

OpenMenu ==
  /\ at = "off"
  /\ at' = "menu"
  /\ \E l \in Lists : counter' = Len(l)
  /\ UNCHANGED <<session, fresh, meta, dat, losses>>

\* worldsave_write_meta opens the meta file of the chosen world in place, which
\* empties it, or fails before that, which nothing looks at.
Choose(world, new) ==
  /\ session' = [world |-> world, new |-> new]
  /\ \/ /\ at' = "writing"
        /\ meta' = [meta EXCEPT ![world.name] = Unreadable]
        /\ UNCHANGED losses
     \/ /\ losses < MaxLosses
        /\ losses' = losses + 1
        /\ at' = "playing"
        /\ UNCHANGED meta
  /\ UNCHANGED <<counter, dat>>

\* Mutant of NewWorld: the name is the number of worlds found.
NewWorldNamedLast ==
  LET k == IF counter = 0 THEN 1 ELSE counter
  IN  /\ at = "menu"
      /\ Choose([name |-> k, seed |-> k - 1, played |-> k], TRUE)
      /\ fresh' = (meta[k] = Missing /\ dat[k] = NoEdits)

\* Mutant of NewWorld: the seed is not the counter's but one of a clock.
NewWorldSeedOfClock ==
  LET k == counter + 1
  IN  /\ at = "menu"
      /\ k <= MaxPlayed
      /\ \E sd \in 0 .. ListMax :
           Choose([name |-> k, seed |-> sd, played |-> counter + 1], TRUE)
      /\ fresh' = (meta[k] = Missing /\ dat[k] = NoEdits)

\* New World: name, seed and recency are the counter's.
NewWorld ==
  LET k == counter + 1
  IN  /\ at = "menu"
      /\ k <= MaxPlayed
      /\ Choose([name |-> k, seed |-> counter, played |-> counter + 1], TRUE)
      /\ fresh' = (meta[k] = Missing /\ dat[k] = NoEdits)

\* A click on a row of the list.
LoadWorld ==
  /\ at = "menu"
  /\ \E l \in Lists : \E i \in DOMAIN l :
       /\ l[i].played < MaxPlayed
       /\ Choose([l[i] EXCEPT !.played = @ + 1], FALSE)
  /\ UNCHANGED fresh

WriteMeta ==
  /\ at = "writing"
  /\ at' = "playing"
  /\ meta' = [meta EXCEPT ![session.world.name] = session.world]
  /\ UNCHANGED <<counter, session, fresh, dat, losses>>

\* The server saves: edits that were loaded keep the seed they came with.
SaveWorld ==
  LET k == session.world.name
  IN  /\ at = "playing"
      /\ dat' = [dat EXCEPT ![k] = IF @ = NoEdits THEN session.world.seed ELSE @]
      /\ UNCHANGED <<at, counter, session, fresh, meta, losses>>

LeaveWorld ==
  /\ at \in {"menu", "playing"}
  /\ at' = "off"
  /\ UNCHANGED <<counter, session, fresh, meta, dat, losses>>

-----------------------------------------------------------------------------
(* Outside the program.                                                    *)

\* The program ends before the meta file is written.
CrashUnwritten ==
  /\ at = "writing"
  /\ losses < MaxLosses
  /\ losses' = losses + 1
  /\ at' = "off"
  /\ UNCHANGED <<counter, session, fresh, meta, dat>>

\* A directory is deleted by hand; the menu cannot do it.
Delete(k) ==
  /\ at = "off"
  /\ losses < MaxLosses
  /\ losses' = losses + 1
  /\ meta' = [meta EXCEPT ![k] = Missing]
  /\ dat' = [dat EXCEPT ![k] = NoEdits]
  /\ UNCHANGED <<at, counter, session, fresh>>

MenuNext ==
  \/ OpenMenu \/ NewWorld \/ LoadWorld \/ WriteMeta \/ SaveWorld \/ LeaveWorld
  \/ CrashUnwritten \/ \E k \in Names : Delete(k)

MenuSpec == MenuInit /\ [][MenuNext]_menuVars

-----------------------------------------------------------------------------
(* What the player's worlds rely on.                                       *)

\* A new world is one that was not there: its directory holds no meta file and
\* no edits.  The name comes from the number of worlds found, so this ends with
\* the first world that is lost, or when the list is full.
NewWorldIsNew ==
  session.new /\ at \in {"writing", "playing"}
    => fresh \/ losses > 0 \/ counter = ListMax

\* Whatever is lost, reused or taken for new, edits are never replayed on the
\* terrain of another seed.
EditsKeepTheirTerrain ==
  /\ at = "playing" =>
       dat[session.world.name] \in {session.world.seed, NoEdits}
  /\ \A k \in Names, j \in Names :
       dat[k] = dat[j] /\ dat[k] # NoEdits => k = j
=============================================================================
