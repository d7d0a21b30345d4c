--------------------------- MODULE ChunkPipeline ---------------------------
(***************************************************************************)
(* The chunk pipeline of src/src/world.c: chunks go from generating to     *)
(* ready through jobs that world_update submits and worker threads carry   *)
(* out, while the server thread (host mode) or the packet handlers (a      *)
(* remote client) change the same chunks.                                  *)
(*                                                                         *)
(* world_update holds map_mutex from end to end, and so does every other   *)
(* operation on the map; the workers never take it.  So an update is a     *)
(* sequence of phases between which only workers run.  What a block holds  *)
(* is abstracted to edits: blocks[c] is the set of edits present in c.     *)
(***************************************************************************)
EXTENDS Integers, Sequences, FiniteSets, SequencesExt

CONSTANTS
  Chunks, Neighbors,  \* columns; Neighbors[c]: the up to four around c
  Workers,
  Edits, Home, Borders, \* an edit, its column, the columns it borders on
  SubmitLimit,        \* jobs per step of an update (16 or 32 in the code)
  UploadLimit,        \* meshes uploaded per update (64)
  MaxSpills,          \* bound on how often light is left at neighbours
  Freed, NoChunk,
  Settings            \* the programs and players looked at, see Setting

\* One program and one player:
\*   networkFed  a remote client: columns come from the server
\*   sent        the columns its server sends it
\*   near, kept  per place of the player: the columns world_update loads, and
\*               those within the unload radius, which is four chunks wider;
\*               the player is in the first place at the start
\*   reads       the columns the server thread ensures and copies
\*   edits       the edits players make
\*   moves       bound on the moves of the player
Setting ==
  [networkFed : BOOLEAN, sent : SUBSET Chunks, near : Seq(SUBSET Chunks),
   kept : Seq(SUBSET Chunks), reads : SUBSET Chunks, edits : SUBSET Edits,
   moves : Nat]

ASSUME PipelineAssumption ==
  /\ IsFiniteSet(Chunks)
  /\ Neighbors \in [Chunks -> SUBSET Chunks]
  /\ \A c, d \in Chunks : d \in Neighbors[c] <=> c \in Neighbors[d]
  /\ Home \in [Edits -> Chunks]
  /\ Borders \in [Edits -> SUBSET Chunks]
  /\ \A e \in Edits : Borders[e] \subseteq Neighbors[Home[e]]
  /\ SubmitLimit \in Nat \ {0} /\ UploadLimit \in Nat \ {0}
  /\ MaxSpills \in Nat
  /\ Freed \notin Chunks /\ NoChunk \notin Chunks \cup {Freed}
  /\ \A s \in Settings :
       /\ s \in Setting
       /\ DOMAIN s.near = DOMAIN s.kept /\ s.near # <<>>
       /\ \A p \in DOMAIN s.near : s.near[p] \subseteq s.kept[p]

VARIABLES
  state,      \* per column: absent from the map, or its ChunkState
  dirty,      \* needs_remesh
  relight,    \* needs_relight, set while pending_deltas is not empty
  blocks,     \* per column: the edits its block array holds
  shown,      \* per column: the edits its uploaded mesh was built from
  queue,      \* work_q
  running,    \* per worker: the job it took
  stage,      \* per worker: how far it is with that job
  results,    \* the result list, newest first
  phase,      \* where world_update is; "idle" when map_mutex is free
  batch,      \* the results taken over by this update
  uploads,    \* meshes uploaded in this update
  place,      \* where the player is
  recorded,   \* edits the server has accepted (host mode: the overlay)
  pending,    \* accepted edits not yet tried on this world
  held,       \* the column world_copy_chunk_blocks has a pointer to
  edited,     \* history: the edits by which world_set_block changed a column
              \* since it was last loaded
  outrun,     \* history: the columns, pointed at by a job, a result or held,
              \* that the player was beyond the unload radius of when it last
              \* moved or the copying began
  spills, moves,
  setting     \* one of Settings

chunkVars == <<state, dirty, relight, blocks, shown>>
jobVars == <<queue, running, stage, results>>
updateVars == <<phase, batch, uploads>>
editVars == <<recorded, pending, edited>>
vars == <<chunkVars, jobVars, updateVars, editVars, place, held, outrun, spills,
          moves, setting>>

Stages == <<"absent", "generating", "generated", "lighting", "lit", "meshing",
            "ready">>
Level(s) == CHOOSE i \in DOMAIN Stages : Stages[i] = s

AtLeast(c, s) == Level(state[c]) >= Level(s)

\* The states in which a worker is supposed to own the column.
Busy(c) == state[c] \in {"generating", "lighting", "meshing"}

\* neighbours and slices are empty where the kind of job has none.
Job == [kind : {"generate", "light", "mesh"}, chunk : Chunks \cup {Freed},
        nbs : SUBSET (Chunks \cup {Freed}), slices : SUBSET Edits]
Idle == [kind |-> "none", chunk |-> NoChunk, nbs |-> {}, slices |-> {}]

\* A ResultItem: mesh_data is NULL unless it comes from a mesh job.
Result == [isMesh : BOOLEAN, chunk : Chunks \cup {Freed}, mesh : SUBSET Edits]

Phases == {"idle", "results", "unload", "load", "light", "relight", "mesh",
           "remesh"}

On(c) == {e \in Edits : Home[e] = c}
Bordering(c) == {e \in Edits : c \in Borders[e]}
Present(S) == {c \in S : state[c] # "absent"}

TypeOK ==
  /\ state \in [Chunks -> {Stages[i] : i \in DOMAIN Stages}]
  /\ dirty \in [Chunks -> BOOLEAN] /\ relight \in [Chunks -> BOOLEAN]
  /\ blocks \in [Chunks -> SUBSET Edits] /\ shown \in [Chunks -> SUBSET Edits]
  /\ queue \in Seq(Job) /\ results \in Seq(Result) /\ batch \in Seq(Result)
  /\ running \in [Workers -> Job \cup {Idle}]
  /\ stage \in [Workers -> {"idle", "first", "second"}]
  /\ phase \in Phases /\ uploads \in 0 .. UploadLimit
  /\ setting \in Settings /\ place \in DOMAIN setting.near
  /\ recorded \in SUBSET Edits /\ pending \in SUBSET recorded
  /\ edited \in SUBSET recorded
  /\ held \in Chunks \cup {Freed, NoChunk} /\ outrun \in SUBSET Chunks
  /\ spills \in 0 .. MaxSpills /\ moves \in 0 .. setting.moves

Init ==
  /\ state = [c \in Chunks |-> "absent"]
  /\ dirty = [c \in Chunks |-> FALSE] /\ relight = [c \in Chunks |-> FALSE]
  /\ blocks = [c \in Chunks |-> {}] /\ shown = [c \in Chunks |-> {}]
  /\ queue = <<>> /\ results = <<>> /\ batch = <<>>
  /\ running = [w \in Workers |-> Idle]
  /\ stage = [w \in Workers |-> "idle"]
  /\ phase = "idle" /\ uploads = 0
  /\ setting \in Settings /\ place = 1
  /\ recorded = {} /\ pending = {} /\ edited = {}
  /\ held = NoChunk /\ outrun = {}
  /\ spills = 0 /\ moves = 0

-----------------------------------------------------------------------------
(* worker_func.                                                            *)

TakeJob(w) ==
  /\ stage[w] = "idle"
  /\ queue # <<>>
  /\ queue' = Tail(queue)
  /\ running' = [running EXCEPT ![w] = Head(queue)]
  /\ stage' = [stage EXCEPT ![w] = "first"]
  /\ UNCHANGED <<chunkVars, results, updateVars, editVars, place, held, outrun, spills,
                 moves>>

Doing(w, kind, part) ==
  /\ running[w].kind = kind /\ stage[w] = part
  /\ running[w].chunk \in Chunks

PushResult(w, isMesh, mesh) ==
  /\ results' = <<[isMesh |-> isMesh, chunk |-> running[w].chunk,
                   mesh |-> mesh]>> \o results
  /\ running' = [running EXCEPT ![w] = Idle]
  /\ stage' = [stage EXCEPT ![w] = "idle"]

\* worldgen_generate ends by storing GENERATED.
Generate(w) ==
  /\ Doing(w, "generate", "first")
  /\ blocks' = [blocks EXCEPT ![running[w].chunk] = {}]
  /\ state' = [state EXCEPT ![running[w].chunk] = "generated"]
  /\ stage' = [stage EXCEPT ![w] = "second"]
  /\ UNCHANGED <<dirty, relight, shown, queue, running, results, updateVars,
                 editVars, place, held, outrun, spills, moves>>

\* Only then does overlay_apply_chunk replay the saved edits.
ApplyOverlay(w) ==
  /\ Doing(w, "generate", "second")
  /\ LET c == running[w].chunk
     IN  blocks' = [blocks EXCEPT ![c] = @ \cup (recorded \cap On(c))]
  /\ PushResult(w, FALSE, {})
  /\ UNCHANGED <<state, dirty, relight, shown, queue, updateVars, editVars,
                 place, held, outrun, spills, moves>>

\* push_boundary_delta: light that crosses an edge is left for the neighbours
\* among S in whose direction it goes; taken says which column's own deltas are
\* taken at the same time.
SpillInto(S, taken) ==
  \E lit \in SUBSET S :
    /\ lit # {} => spills < MaxSpills
    /\ spills' = IF lit = {} THEN spills ELSE spills + 1
    /\ relight' = [c \in Chunks |-> (relight[c] /\ c \notin taken) \/ c \in lit]

\* lighting_initial_pass.
LightPass(w) ==
  /\ Doing(w, "light", "first")
  /\ SpillInto(running[w].nbs \cap Chunks, {})
  /\ stage' = [stage EXCEPT ![w] = "second"]
  /\ UNCHANGED <<state, dirty, blocks, shown, queue, running, results,
                 updateVars, editVars, place, held, outrun, moves>>

\* Mutant of ConsumePending: needs_relight is not cleared.
ConsumePendingMarked(w) ==
  /\ Doing(w, "light", "second")
  /\ SpillInto(IF relight[running[w].chunk] THEN running[w].nbs \cap Chunks ELSE {},
               {})
  /\ PushResult(w, FALSE, {})
  /\ UNCHANGED <<state, dirty, blocks, shown, queue, updateVars, editVars,
                 place, held, outrun, moves>>

\* lighting_consume_pending takes what the neighbours have left so far and, if
\* there is any, propagates it, into the neighbours too.
ConsumePending(w) ==
  /\ Doing(w, "light", "second")
  /\ SpillInto(IF relight[running[w].chunk] THEN running[w].nbs \cap Chunks ELSE {},
               {running[w].chunk})
  /\ PushResult(w, FALSE, {})
  /\ UNCHANGED <<state, dirty, blocks, shown, queue, updateVars, editVars,
                 place, held, outrun, moves>>

\* mesher_build reads the column itself and the slices of its neighbours.
BuildMesh(w) ==
  /\ Doing(w, "mesh", "first")
  /\ PushResult(w, TRUE, blocks[running[w].chunk] \cup running[w].slices)
  /\ UNCHANGED <<chunkVars, queue, updateVars, editVars, place, held, outrun, spills,
                 moves>>
-----------------------------------------------------------------------------
(* world_update.                                                           *)

\* chunk_map_remove and chunk_destroy: every pointer that is left to a freed
\* column dangles from then on.
Free(gone) ==
  LET Without(f, blank) == [c \in Chunks |-> IF c \in gone THEN blank ELSE f[c]]
      Redirect(c) == IF c \in gone THEN Freed ELSE c
      RedirectJob(j) == [j EXCEPT !.chunk = Redirect(@),
                                  !.nbs = {Redirect(d) : d \in @}]
      RedirectAll(rs) ==
        [i \in DOMAIN rs |-> [rs[i] EXCEPT !.chunk = Redirect(@)]]
  IN  /\ state' = Without(state, "absent")
      /\ dirty' = Without(dirty, FALSE)
      /\ relight' = Without(relight, FALSE)
      /\ blocks' = Without(blocks, {})
      /\ shown' = Without(shown, {})
      /\ queue' = [i \in DOMAIN queue |-> RedirectJob(queue[i])]
      /\ running' = [w \in Workers |-> RedirectJob(running[w])]
      /\ results' = RedirectAll(results)
      /\ batch' = RedirectAll(batch)
      /\ held' = Redirect(held)
      /\ edited' = {e \in edited : Home[e] \notin gone}

\* The update begins by taking over the whole result list.
BeginUpdate ==
  /\ phase = "idle"
  /\ phase' = "results"
  /\ batch' = results
  /\ results' = <<>>
  /\ uploads' = 0
  /\ UNCHANGED <<chunkVars, queue, running, stage, editVars, place, held, outrun,
                 spills, moves>>

\* The result at the head of the list, whose column is still there.
Arrives(r) ==
  /\ phase = "results"
  /\ batch # <<>>
  /\ r = Head(batch)
  /\ r.chunk \in Chunks
  /\ batch' = Tail(batch)
  /\ UNCHANGED <<dirty, relight, blocks, jobVars, phase, editVars, place, held, outrun,
                 spills, moves>>

MeshArrives ==
  LET r == Head(batch)
  IN  /\ Arrives(r)
      /\ r.isMesh
      /\ uploads < UploadLimit
      /\ shown' = [shown EXCEPT ![r.chunk] = r.mesh]
      /\ state' = [state EXCEPT ![r.chunk] = "ready"]
      /\ uploads' = uploads + 1

\* Past the limit the mesh is thrown away and the column meshed again.
MeshDiscarded ==
  LET r == Head(batch)
  IN  /\ Arrives(r)
      /\ r.isMesh
      /\ uploads = UploadLimit
      /\ state' = [state EXCEPT ![r.chunk] = "lit"]
      /\ UNCHANGED <<shown, uploads>>

\* A result without a mesh is a light result or a generate result: the state
\* of the column decides which it is taken for.
LitOrGenerated ==
  LET r == Head(batch)
  IN  /\ Arrives(r)
      /\ ~r.isMesh
      /\ state' = IF state[r.chunk] = "lighting"
                    THEN [state EXCEPT ![r.chunk] = "lit"] ELSE state
      /\ UNCHANGED <<shown, uploads>>

\* Mutant of Unload: no margin beyond the columns that are loaded.
UnloadAtOnce ==
  /\ phase = "results"
  /\ batch = <<>>
  /\ Free({c \in Chunks \ setting.near[place] : ~Busy(c)})
  /\ phase' = "load"
  /\ UNCHANGED <<stage, uploads, recorded, pending, place, outrun, spills, moves>>

Unload ==
  /\ phase = "results"
  /\ batch = <<>>
  /\ Free({c \in Chunks \ setting.kept[place] : ~Busy(c)})
  /\ phase' = "load"
  /\ UNCHANGED <<stage, uploads, recorded, pending, place, outrun, spills, moves>>

\* One step of an update: submit a job for each column of S, in map order,
\* up to the limit of the step, and put these columns into the given state.
SubmitFor(S, busy, jobOf) ==
  LET order == SetToSeq(S)
      n == IF Len(order) <= SubmitLimit THEN Len(order) ELSE SubmitLimit
      picked == {order[i] : i \in 1 .. n}
  IN  /\ queue' = queue \o [i \in 1 .. n |-> jobOf[order[i]]]
      /\ state' = [c \in Chunks |-> IF c \in picked THEN busy ELSE state[c]]
      /\ dirty' = [c \in Chunks |->
                     dirty[c] /\ ~(phase = "remesh" /\ c \in picked)]
      /\ UNCHANGED <<relight, blocks, shown, running, stage, results, batch,
                     uploads, editVars, place, held, outrun, spills, moves>>

\* The neighbours that are loaded have reached a stage; absent ones do not
\* count against it.
NeighborsAtLeast(c, s) == \A d \in Present(Neighbors[c]) : AtLeast(d, s)

GenerateJob ==
  [c \in Chunks |->
    [kind |-> "generate", chunk |-> c, nbs |-> {}, slices |-> {}]]

LightJob ==
  [c \in Chunks |->
    [kind |-> "light", chunk |-> c, nbs |-> Present(Neighbors[c]),
     slices |-> {}]]

\* The slices hold what of the neighbours' edits borders on the column.
MeshJob ==
  [c \in Chunks |->
    [kind |-> "mesh", chunk |-> c, nbs |-> {},
     slices |-> Bordering(c)
                  \cap UNION {blocks[d] : d \in Present(Neighbors[c])}]]

Load ==
  /\ phase = "load"
  /\ phase' = "light"
  /\ SubmitFor(IF setting.networkFed THEN {} ELSE setting.near[place] \ Present(Chunks),
               "generating", GenerateJob)

Light ==
  /\ phase = "light"
  /\ phase' = "relight"
  /\ SubmitFor({c \in Chunks : state[c] = "generated"
                               /\ NeighborsAtLeast(c, "generated")},
               "lighting", LightJob)

Relight ==
  /\ phase = "relight"
  /\ phase' = "mesh"
  /\ SubmitFor({c \in Chunks : state[c] = "lit" /\ relight[c]
                               /\ NeighborsAtLeast(c, "generated")},
               "lighting", LightJob)

Mesh ==
  /\ phase = "mesh"
  /\ phase' = "remesh"
  /\ SubmitFor({c \in Chunks : state[c] = "lit" /\ NeighborsAtLeast(c, "lit")},
               "meshing", MeshJob)

Remesh ==
  /\ phase = "remesh"
  /\ phase' = "idle"
  /\ SubmitFor({c \in Chunks : state[c] = "ready" /\ dirty[c]
                               /\ NeighborsAtLeast(c, "lit")},
               "meshing", MeshJob)

Update ==
  \/ BeginUpdate \/ MeshArrives \/ MeshDiscarded \/ LitOrGenerated \/ Unload
  \/ Load \/ Light \/ Relight \/ Mesh \/ Remesh

\* The columns that jobs and results point at.
Pinned ==
  (UNION {{queue[i].chunk} \cup queue[i].nbs : i \in DOMAIN queue})
  \cup (UNION {{running[w].chunk} \cup running[w].nbs : w \in Workers})
  \cup {results[i].chunk : i \in DOMAIN results}

\* The columns still in the map that a job, a result or the server thread
\* points at.
PointedAt == (Pinned \cup {held}) \cap Chunks

\* The player is somewhere else when the next update begins, whatever jobs are
\* under way.
Move ==
  /\ phase = "idle"
  /\ moves < setting.moves
  /\ place' \in DOMAIN setting.near \ {place}
  /\ outrun' = PointedAt \ setting.kept[place']
  /\ moves' = moves + 1
  /\ UNCHANGED <<chunkVars, jobVars, updateVars, editVars, held, spills>>

-----------------------------------------------------------------------------
(* The server thread of a host, in its turns with map_mutex.               *)

\* world_ensure_chunk generates an absent column and replays the overlay
\* before it publishes the column.
Ensure(c) ==
  /\ phase = "idle" /\ ~setting.networkFed
  /\ c \in setting.reads
  /\ state[c] = "absent"
  /\ state' = [state EXCEPT ![c] = "generated"]
  /\ blocks' = [blocks EXCEPT ![c] = recorded \cap On(c)]
  /\ UNCHANGED <<dirty, relight, shown, jobVars, updateVars, editVars, place,
                 held, outrun, spills, moves>>

\* world_copy_chunk_blocks: world_ensure_chunk returns the column and gives
\* up the mutex ...
BeginCopy(c) ==
  /\ phase = "idle" /\ ~setting.networkFed
  /\ c \in setting.reads
  /\ AtLeast(c, "generated")
  /\ held = NoChunk
  /\ held' = c
  /\ outrun' = outrun \cup ({c} \ setting.kept[place])
  /\ UNCHANGED <<chunkVars, jobVars, updateVars, editVars, place, spills, moves>>

\* ... and the blocks are copied under the mutex again.
EndCopy ==
  /\ phase = "idle"
  /\ held # NoChunk
  /\ held' = NoChunk
  /\ UNCHANGED <<chunkVars, jobVars, updateVars, editVars, place, outrun, spills,
                 moves>>

\* An edit is accepted and put into the overlay (server_persist_edit), or, for
\* a remote client, accepted by its server and sent to it.
AcceptEdit(e) ==
  /\ e \in setting.edits \ recorded
  /\ setting.networkFed \/ pending = {}
  /\ recorded' = recorded \cup {e}
  /\ pending' = pending \cup {e}
  /\ UNCHANGED <<chunkVars, jobVars, updateVars, edited, place, held, outrun, spills,
                 moves>>

\* Mutant of Writable: the rule is kept for meshing alone.
WritableWhileLighting(c) == AtLeast(c, "generated") /\ state[c] # "meshing"

Writable(c) == AtLeast(c, "generated") /\ ~Busy(c)

\* Mutant of SetBlock: the columns on the other side of an edge are forgotten.
SetBlockNoBorders(e) ==
  /\ phase = "idle"
  /\ e \in pending
  /\ Writable(Home[e])
  /\ blocks' = [blocks EXCEPT ![Home[e]] = @ \cup {e}]
  /\ dirty' = [c \in Chunks |->
                 \/ dirty[c]
                 \/ e \notin blocks[Home[e]]
                    /\ c \in {Home[e]}]
  /\ SpillInto(IF e \notin blocks[Home[e]] /\ AtLeast(Home[e], "lit")
                 THEN Present(Neighbors[Home[e]]) ELSE {}, {})
  /\ pending' = pending \ {e}
  /\ edited' = edited \cup ({e} \ blocks[Home[e]])
  /\ UNCHANGED <<state, shown, jobVars, updateVars, recorded, place, held, outrun,
                 moves>>

\* world_set_block; lighting_on_block_changed runs at once, under the mutex, if
\* the column has been lit.
SetBlock(e) ==
  /\ phase = "idle"
  /\ e \in pending
  /\ Writable(Home[e])
  /\ blocks' = [blocks EXCEPT ![Home[e]] = @ \cup {e}]
  /\ dirty' = [c \in Chunks |->
                 \/ dirty[c]
                 \/ e \notin blocks[Home[e]]
                    /\ c \in {Home[e]} \cup Present(Borders[e])]
  /\ SpillInto(IF e \notin blocks[Home[e]] /\ AtLeast(Home[e], "lit")
                 THEN Present(Neighbors[Home[e]]) ELSE {}, {})
  /\ pending' = pending \ {e}
  /\ edited' = edited \cup ({e} \ blocks[Home[e]])
  /\ UNCHANGED <<state, shown, jobVars, updateVars, recorded, place, held, outrun,
                 moves>>

\* world_set_block returns false, and nobody tries again.
SetBlockRefused(e) ==
  /\ phase = "idle"
  /\ e \in pending
  /\ ~Writable(Home[e])
  /\ pending' = pending \ {e}
  /\ UNCHANGED <<chunkVars, jobVars, updateVars, recorded, edited, place, held, outrun,
                 spills, moves>>

-----------------------------------------------------------------------------
(* The packet handlers of a remote client.                                 *)

\* Mutant of Insert: a column that is being lit is replaced as well.
InsertWhileLighting(c) ==
  /\ phase = "idle" /\ setting.networkFed /\ c \in setting.sent
  /\ state[c] # "meshing"
  /\ \E S \in SUBSET (recorded \cap On(c)) :
       blocks' = [blocks EXCEPT ![c] = S]
  /\ state' = [state EXCEPT ![c] = "generated"]
  /\ edited' = edited \ On(c)
  /\ UNCHANGED <<dirty, relight, shown, jobVars, updateVars, recorded, pending,
                 place, held, outrun, spills, moves>>

\* world_insert_network_chunk, with what the server's column held at some
\* earlier time.
Insert(c) ==
  /\ phase = "idle" /\ setting.networkFed /\ c \in setting.sent
  /\ state[c] \notin {"lighting", "meshing"}
  /\ \E S \in SUBSET (recorded \cap On(c)) :
       blocks' = [blocks EXCEPT ![c] = S]
  /\ state' = [state EXCEPT ![c] = "generated"]
  /\ edited' = edited \ On(c)
  /\ UNCHANGED <<dirty, relight, shown, jobVars, updateVars, recorded, pending,
                 place, held, outrun, spills, moves>>

\* world_evict_chunk; of a busy column it does nothing.
Evict(c) ==
  /\ phase = "idle" /\ setting.networkFed
  /\ state[c] # "absent"
  /\ ~Busy(c)
  /\ Free({c})
  /\ UNCHANGED <<stage, phase, uploads, recorded, pending, place, outrun, spills,
                 moves>>

Step ==
  \/ \E w \in Workers :
       \/ TakeJob(w) \/ Generate(w) \/ ApplyOverlay(w) \/ LightPass(w)
       \/ ConsumePending(w) \/ BuildMesh(w)
  \/ Update \/ Move \/ EndCopy
  \/ \E c \in Chunks : Ensure(c) \/ BeginCopy(c) \/ Insert(c) \/ Evict(c)
  \/ \E e \in Edits : AcceptEdit(e) \/ SetBlock(e) \/ SetBlockRefused(e)

Next == Step /\ UNCHANGED setting

Spec == Init /\ [][Next]_vars

-----------------------------------------------------------------------------
(* What the pipeline promises.                                             *)

\* The jobs and results under way for a column.
JobsFor(c, kind) ==
  {<<"queue", i>> : i \in {i \in DOMAIN queue :
     queue[i].chunk = c /\ queue[i].kind = kind}}
  \cup {<<"worker", w>> : w \in {w \in Workers :
     running[w].chunk = c /\ running[w].kind = kind}}

ResultsFor(c, isMesh) ==
  LET In(rs) == {i \in DOMAIN rs : rs[i].chunk = c /\ rs[i].isMesh = isMesh}
  IN  {<<"result", i>> : i \in In(results)} \cup {<<"batch", i>> : i \in In(batch)}

Underway(c, kind) == JobsFor(c, kind) \cup ResultsFor(c, kind = "mesh")

\* A column never stays busy without the job that will end it, and a column
\* is meshed by one worker at a time: GENERATING, LIGHTING and MESHING, which
\* unloading, world_set_block and the submit steps trust, are backed by jobs.
BusyMeansJob ==
  \A c \in Chunks :
    /\ state[c] = "generating" => Cardinality(JobsFor(c, "generate")) = 1
    /\ state[c] = "lighting" => Underway(c, "light") # {}
    /\ Cardinality(Underway(c, "mesh")) = IF state[c] = "meshing" THEN 1 ELSE 0

\* The column of a job or a result is not freed before the result is
\* processed.
ColumnsOutliveJobs ==
  /\ \A i \in DOMAIN queue : queue[i].chunk # Freed
  /\ \A w \in Workers : running[w].chunk # Freed
  /\ \A i \in DOMAIN results : results[i].chunk # Freed
  /\ \A i \in DOMAIN batch : batch[i].chunk # Freed

\* The neighbours that a lighting job reads and leaves light for are not freed
\* before it ends.
NeighborsOutliveJobs ==
  /\ \A i \in DOMAIN queue : Freed \notin queue[i].nbs
  /\ \A w \in Workers : Freed \notin running[w].nbs

\* The columns that jobs and results are about, and those that lighting jobs
\* read besides.
Owned ==
  {queue[i].chunk : i \in DOMAIN queue} \cup {running[w].chunk : w \in Workers}
  \cup {results[i].chunk : i \in DOMAIN results}
  \cup {batch[i].chunk : i \in DOMAIN batch}

\* The columns a step frees.
FreedNow == {c \in Present(Chunks) : state'[c] = "absent"}

\* world_update's unloading spares busy columns only, not those whose lighting
\* neighbours read, whose generation has stored GENERATED but not ended, or that
\* world_copy_chunk_blocks is about to copy.  The margin of four columns is what
\* protects these: a column that is still pointed at is freed only if the player
\* left it behind beyond the margin while it was pointed at, or the copying
\* began beyond the margin, or, as a neighbour, by a remote client's
\* world_evict_chunk, see EvictionIsDeferred.
NothingDangles ==
  [][\A c \in FreedNow \cap PointedAt :
       \/ c \in outrun
       \/ setting.networkFed /\ phase = "idle" /\ c \notin Owned]_vars

\* world_evict_chunk: "A worker may hold a pointer to this chunk; defer the
\* eviction."
EvictionIsDeferred == NeighborsOutliveJobs

\* What world_set_block changes is seen: a ready column that is not marked for
\* another mesh shows every change made to it and on its edges since the
\* changed column was loaded, although meshes are built from slices taken
\* earlier and edits go on while they are built.
EditsReachMeshes ==
  \A c \in Chunks :
    state[c] = "ready" /\ ~dirty[c]
      => edited \cap (On(c) \cup Bordering(c)) \subseteq shown[c]

\* "Safe write": the blocks of a remote client's column do not change while a
\* worker lights or meshes that column, whatever the server sends.
SafeWrite ==
  [][\A c \in Chunks :
       setting.networkFed /\ blocks'[c] # blocks[c]
         => JobsFor(c, "light") \cup JobsFor(c, "mesh") = {}]_vars

\* A column of a remote client is lit by one worker, and only while it is
\* LIGHTING, the state in which lights[] may be written.  A host breaks this:
\* see OverlayBeforeLight.
LightOwnsColumn ==
  \A c \in Chunks :
    setting.networkFed =>
      Cardinality(JobsFor(c, "light")) <= IF state[c] = "lighting" THEN 1 ELSE 0

\* Results carry no kind: what world_update takes for the end of a stage is the
\* end of it only while the jobs about a column agree with its state.
JobsMatchStates == BusyMeansJob /\ LightOwnsColumn

\* server_run_ex: the saved edits are replayed "before the chunk advances to
\* GENERATED/LIT/MESHING", so nobody meshes terrain without them.  (The late
\* generate result is then taken for the end of the lighting.)
OverlayBeforeLight ==
  \A w \in Workers :
    running[w].kind = "generate" /\ running[w].chunk \in Chunks
      => ~AtLeast(running[w].chunk, "lit")

\* Workers and updates keep running.
Fairness ==
  /\ \A w \in Workers :
       WF_vars(/\ \/ TakeJob(w) \/ Generate(w) \/ ApplyOverlay(w) \/ LightPass(w)
                  \/ ConsumePending(w) \/ BuildMesh(w)
               /\ UNCHANGED setting)
  /\ WF_vars(Update /\ UNCHANGED setting)

FairSpec == Spec /\ Fairness

\* A column the player of a host stays near gets to be rendered, whatever is
\* discarded at the upload limit and lit again for a neighbour's sake, unless a
\* job's own column was freed, see NothingDangles.
ColumnsBecomeReady ==
  \A c \in Chunks :
    <>[](~setting.networkFed /\ c \in setting.near[place] /\ ColumnsOutliveJobs)
      => []<>(state[c] = "ready")
=============================================================================
