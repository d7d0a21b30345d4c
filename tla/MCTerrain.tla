----------------------------- MODULE MCTerrain -----------------------------
(***************************************************************************)
(* Blocks that change, for TLC: the terrain of a server with its copy at a *)
(* client, three columns of a row, and the falling blocks of one column    *)
(* that a host shares with its server.  A behaviour is about the one or    *)
(* about the other.                                                        *)
(***************************************************************************)
EXTENDS Terrain

CONSTANT Height
VARIABLES about, cells, active, scan, todo, cur, next, moved, told, pending,
          lapsed, written

MCColumns == {1, 2, 4}
MCPlaces == {2, 4}

Gravity == INSTANCE GravityBlocks WITH edits <- written

ASSUME MCTerrainAssumption == Gravity!GravityAssumption

gravityVars == <<cells, active, scan, todo, cur, next, moved, told, pending,
                 lapsed, written>>

\* One state of the falling blocks stands beside the terrain.
BlocksInit ==
  /\ Init /\ Gravity!Init
  /\ \/ about = "terrain" /\ lapsed = {} /\ \A y \in DOMAIN cells : cells[y] = "air"
     \/ about = "gravity"

BlocksNext ==
  \/ about = "terrain" /\ Next /\ UNCHANGED <<about, gravityVars>>
  \/ about = "gravity" /\ Gravity!Next /\ UNCHANGED <<about, vars>>

\* The fairness of Terrain.
BlocksFairness ==
  /\ WF_vars(about = "terrain" /\ \E c \in Columns : Generated(c))
  /\ WF_vars(about = "terrain" /\ Tick(Len(trail)))
  /\ WF_vars(about = "terrain" /\ net # <<>> /\ Deliver(1))
  /\ WF_vars(about = "terrain" /\ Frame)

BlocksSpec ==
  BlocksInit /\ [][BlocksNext]_<<about, vars, gravityVars>> /\ BlocksFairness

\* TerrainArrives of Terrain: every column within the radius gets to the client
\* of server_stream_tick.
ColumnsArrive == about = "terrain" => TerrainArrives
\* gravity_tick (block_physics.c) leaves no block hanging in the air that it
\* will not come back to.
NothingHangs == Gravity!NothingHangs
=============================================================================
