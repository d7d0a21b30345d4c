------------------------ MODULE ChunkPipelineProofs ------------------------
(***************************************************************************)
(* Proofs about ChunkPipeline, for any finite set of columns, any workers, *)
(* edits and limits, and any programs and players in Settings: jobs and    *)
(* column states agree, no pointer to a freed column is left, edits reach  *)
(* the meshes, and blocks are not written under a worker.                  *)
(***************************************************************************)
EXTENDS ChunkPipeline, FiniteSetTheorems, TLAPS

Kinds == {"generate", "light", "mesh"}

-----------------------------------------------------------------------------
(* Sequences and the columns of a submit step.                             *)

LEMMA StageNames ==
  /\ {Stages[i] : i \in DOMAIN Stages}
       = {"absent", "generating", "generated", "lighting", "lit", "meshing", "ready"}
  /\ Level("absent") = 1 /\ Level("generating") = 2 /\ Level("generated") = 3
  /\ Level("lighting") = 4 /\ Level("lit") = 5 /\ Level("meshing") = 6
  /\ Level("ready") = 7
<1>1. DOMAIN Stages = 1 .. 7
  BY DEF Stages
<1> QED  BY <1>1 DEF Stages, Level

LEMMA SeqConcat ==
  ASSUME NEW S, NEW s \in Seq(S), NEW t \in Seq(S)
  PROVE  /\ s \o t \in Seq(S)
         /\ DOMAIN (s \o t) = 1 .. Len(s) + Len(t)
         /\ \A i \in 1 .. Len(s) : (s \o t)[i] = s[i]
         /\ \A i \in 1 .. Len(t) : (s \o t)[Len(s) + i] = t[i]
OBVIOUS

LEMMA SeqTail ==
  ASSUME NEW S, NEW s \in Seq(S), s # <<>>
  PROVE  /\ Tail(s) \in Seq(S) /\ Head(s) \in S /\ Head(s) = s[1]
         /\ 1 \in DOMAIN s
         /\ DOMAIN s = 1 .. Len(s) /\ DOMAIN Tail(s) = 1 .. Len(s) - 1
         /\ Len(s) \in Nat \ {0}
         /\ \A i \in DOMAIN Tail(s) : Tail(s)[i] = s[i + 1] /\ i + 1 \in DOMAIN s
OBVIOUS

LEMMA SeqMap ==
  ASSUME NEW S, NEW T, NEW s \in Seq(S), NEW t,
         t = [i \in DOMAIN s |-> t[i]], \A i \in DOMAIN s : t[i] \in T
  PROVE  t \in Seq(T) /\ DOMAIN t = DOMAIN s /\ Len(t) = Len(s)
<1>1. DOMAIN s = 1 .. Len(s) /\ Len(s) \in Nat
  OBVIOUS
<1>2. t \in [1 .. Len(s) -> T]
  BY <1>1
<1>3. t \in Seq(T)
  BY <1>1, <1>2
<1> QED  BY <1>1, <1>2, <1>3

LEMMA SetToSeqLists ==
  ASSUME NEW S, IsFiniteSet(S)
  PROVE  /\ Cardinality(S) \in Nat
         /\ SetToSeq(S) \in [1 .. Cardinality(S) -> S]
         /\ SetToSeq(S) \in Seq(S) /\ Len(SetToSeq(S)) = Cardinality(S)
         /\ \A i, j \in 1 .. Cardinality(S) : SetToSeq(S)[i] = SetToSeq(S)[j] => i = j
<1>1. Cardinality(S) \in Nat /\ ExistsBijection(1 .. Cardinality(S), S)
  BY FS_CardinalityType
<1>2. \E f \in [1 .. Cardinality(S) -> S] : IsInjective(f)
  BY <1>1 DEF ExistsBijection, Bijection, Injection
<1>3. SetToSeq(S) \in [1 .. Cardinality(S) -> S] /\ IsInjective(SetToSeq(S))
  BY <1>2, Zenon DEF SetToSeq
<1>4. SetToSeq(S) \in Seq(S) /\ Len(SetToSeq(S)) = Cardinality(S)
  BY <1>1, <1>3
<1> QED  BY <1>1, <1>3, <1>4 DEF IsInjective

\* A submit step appends jobs of different columns and changes the state of
\* exactly these columns.
Appends(picked, busy, jobOf) ==
  /\ state' = [c \in Chunks |-> IF c \in picked THEN busy ELSE state[c]]
  /\ dirty' = [c \in Chunks |-> dirty[c] /\ ~(phase = "remesh" /\ c \in picked)]
  /\ queue' \in Seq(Job) /\ DOMAIN queue \subseteq DOMAIN queue'
  /\ \A i \in DOMAIN queue : queue'[i] = queue[i]
  /\ \A i \in DOMAIN queue' \ DOMAIN queue : \E c \in picked : queue'[i] = jobOf[c]
  /\ \A c \in picked :
       \E i \in DOMAIN queue' \ DOMAIN queue : queue'[i] = jobOf[c]
  /\ \A i, j \in DOMAIN queue' \ DOMAIN queue :
       queue'[i].chunk = queue'[j].chunk => i = j

LEMMA SubmitActs ==
  ASSUME TypeOK, NEW S \in SUBSET Chunks, NEW busy, NEW jobOf \in [Chunks -> Job],
         \A c \in Chunks : jobOf[c].chunk = c, SubmitFor(S, busy, jobOf)
  PROVE  \E picked \in SUBSET S : Appends(picked, busy, jobOf)
<1> DEFINE order == SetToSeq(S)
           n == IF Len(order) <= SubmitLimit THEN Len(order) ELSE SubmitLimit
           picked == {order[i] : i \in 1 .. n}
           jobs == [i \in 1 .. n |-> jobOf[order[i]]]
<1>1. IsFiniteSet(S)
  BY FS_Subset, PipelineAssumption
<1>2. /\ order \in Seq(S) /\ Len(order) \in Nat /\ order \in [1 .. Len(order) -> S]
      /\ \A i, j \in 1 .. Len(order) : order[i] = order[j] => i = j
  BY <1>1, SetToSeqLists
<1>3. n \in Nat /\ 1 .. n \subseteq 1 .. Len(order)
  BY <1>2, PipelineAssumption
<1>4. \A i \in 1 .. n : order[i] \in S
  BY <1>2, <1>3
<1>5. \A c : c \in picked <=> \E i \in 1 .. n : order[i] = c
  OBVIOUS
<1>6. /\ queue' = queue \o jobs
      /\ state' = [c \in Chunks |-> IF c \in picked THEN busy ELSE state[c]]
      /\ dirty' = [c \in Chunks |-> dirty[c] /\ ~(phase = "remesh" /\ c \in picked)]
  BY DEF SubmitFor
<1> HIDE DEF order, n, picked
<1>7. jobs \in Seq(Job) /\ Len(jobs) = n
  BY <1>3, <1>4
<1>8. \A i \in 1 .. n : jobs[i] = jobOf[order[i]] /\ jobs[i].chunk = order[i]
  BY <1>4
<1> HIDE DEF jobs
<1>9. queue \in Seq(Job) /\ Len(queue) \in Nat /\ DOMAIN queue = 1 .. Len(queue)
  BY DEF TypeOK
<1>10. /\ queue' \in Seq(Job) /\ DOMAIN queue' = 1 .. Len(queue) + n
       /\ \A i \in 1 .. Len(queue) : queue'[i] = queue[i]
       /\ \A i \in 1 .. n : queue'[Len(queue) + i] = jobs[i]
  BY <1>6, <1>7, <1>9, SeqConcat
<1>11. ASSUME NEW i \in DOMAIN queue' \ DOMAIN queue
       PROVE  /\ i - Len(queue) \in 1 .. n
              /\ queue'[i] = jobs[i - Len(queue)]
  <2>1. i - Len(queue) \in 1 .. n /\ i = Len(queue) + (i - Len(queue))
    BY <1>3, <1>9, <1>10
  <2> QED  BY <1>10, <2>1
<1>12. \A i \in DOMAIN queue' \ DOMAIN queue : \E c \in picked : queue'[i] = jobOf[c]
  BY <1>5, <1>8, <1>11
<1>13. ASSUME NEW c \in picked
       PROVE  \E i \in DOMAIN queue' \ DOMAIN queue : queue'[i] = jobOf[c]
  <2>1. PICK i \in 1 .. n : order[i] = c
    BY <1>5
  <2>2. Len(queue) + i \in DOMAIN queue' \ DOMAIN queue
    BY <1>3, <1>9, <1>10
  <2> QED  BY <1>8, <1>10, <2>1, <2>2
<1>14. ASSUME NEW i \in DOMAIN queue' \ DOMAIN queue,
              NEW j \in DOMAIN queue' \ DOMAIN queue,
              queue'[i].chunk = queue'[j].chunk
       PROVE  i = j
  <2>1. order[i - Len(queue)] = order[j - Len(queue)]
    BY <1>8, <1>11, <1>14
  <2>2. i - Len(queue) = j - Len(queue)
    BY <1>2, <1>3, <1>11, <2>1
  <2> QED  BY <1>9, <1>10, <2>2
<1>15. picked \in SUBSET S
  BY <1>4, <1>5
<1>16. DOMAIN queue \subseteq DOMAIN queue'
  BY <1>3, <1>9, <1>10
<1>17. Appends(picked, busy, jobOf)
  BY <1>6, <1>9, <1>10, <1>12, <1>13, <1>14, <1>16 DEF Appends
<1> QED  BY <1>15, <1>17

LEMMA JobsOfColumns ==
  /\ GenerateJob \in [Chunks -> Job] /\ LightJob \in [Chunks -> Job]
  /\ MeshJob \in [Chunks -> Job]
  /\ \A c \in Chunks : /\ GenerateJob[c].chunk = c /\ GenerateJob[c].kind = "generate"
                       /\ LightJob[c].chunk = c /\ LightJob[c].kind = "light"
                       /\ MeshJob[c].chunk = c /\ MeshJob[c].kind = "mesh"
<1>1. GenerateJob \in [Chunks -> Job]
  BY DEF GenerateJob, Job
<1>2. \A c \in Chunks : Present(Neighbors[c]) \in SUBSET (Chunks \cup {Freed})
  BY PipelineAssumption DEF Present
<1>3. LightJob \in [Chunks -> Job]
  BY <1>2 DEF LightJob, Job
<1>4. \A c \in Chunks : Bordering(c) \in SUBSET Edits
  BY DEF Bordering
<1>5. MeshJob \in [Chunks -> Job]
  BY <1>4 DEF MeshJob, Job
<1> QED  BY <1>1, <1>3, <1>5 DEF GenerateJob, LightJob, MeshJob

-----------------------------------------------------------------------------
(* What unloading and evicting do to the pointers that are left.           *)

Redirected(c, gone) == IF c \in gone THEN Freed ELSE c

LEMMA FreeActs ==
  ASSUME TypeOK, NEW gone \in SUBSET Chunks, Free(gone)
  PROVE  /\ queue' \in Seq(Job) /\ DOMAIN queue' = DOMAIN queue
         /\ \A i \in DOMAIN queue :
              /\ queue'[i].chunk = Redirected(queue[i].chunk, gone)
              /\ queue'[i].kind = queue[i].kind
              /\ queue'[i].slices = queue[i].slices
              /\ queue'[i].nbs = {Redirected(d, gone) : d \in queue[i].nbs}
         /\ running' \in [Workers -> Job \cup {Idle}]
         /\ \A w \in Workers :
              /\ running'[w].chunk = Redirected(running[w].chunk, gone)
              /\ running'[w].kind = running[w].kind
              /\ running'[w].slices = running[w].slices
              /\ running'[w].nbs = {Redirected(d, gone) : d \in running[w].nbs}
              /\ running'[w] = Idle <=> running[w] = Idle
         /\ results' \in Seq(Result) /\ DOMAIN results' = DOMAIN results
         /\ \A i \in DOMAIN results :
              /\ results'[i].chunk = Redirected(results[i].chunk, gone)
              /\ results'[i].isMesh = results[i].isMesh
              /\ results'[i].mesh = results[i].mesh
         /\ batch' \in Seq(Result) /\ DOMAIN batch' = DOMAIN batch
         /\ \A i \in DOMAIN batch :
              /\ batch'[i].chunk = Redirected(batch[i].chunk, gone)
              /\ batch'[i].isMesh = batch[i].isMesh
              /\ batch'[i].mesh = batch[i].mesh
<1> DEFINE OfJob(j) == [j EXCEPT !.chunk = Redirected(j.chunk, gone),
                                 !.nbs = {Redirected(d, gone) : d \in j.nbs}]
           OfResult(r) == [r EXCEPT !.chunk = Redirected(r.chunk, gone)]
<1>1. ASSUME NEW j \in Job
      PROVE  /\ OfJob(j) \in Job /\ OfJob(j).chunk = Redirected(j.chunk, gone)
             /\ OfJob(j).kind = j.kind /\ OfJob(j).slices = j.slices
             /\ OfJob(j).nbs = {Redirected(d, gone) : d \in j.nbs}
             /\ OfJob(j) # Idle /\ j # Idle
  <2> DEFINE nbs == {Redirected(d, gone) : d \in j.nbs}
             chunk == Redirected(j.chunk, gone)
  <2>1. nbs \in SUBSET (Chunks \cup {Freed})
    BY DEF Job, Redirected
  <2>2. chunk \in Chunks \cup {Freed}
    BY DEF Job, Redirected
  <2>3. OfJob(j) = [j EXCEPT !.chunk = chunk, !.nbs = nbs]
    BY Zenon
  <2> HIDE DEF OfJob, nbs, chunk
  <2>4. /\ OfJob(j) \in Job /\ OfJob(j).chunk = chunk /\ OfJob(j).nbs = nbs
        /\ OfJob(j).kind = j.kind /\ OfJob(j).slices = j.slices
    BY <2>1, <2>2, <2>3 DEF Job
  <2>5. j.kind # "none" /\ Idle.kind = "none"
    BY DEF Job, Idle
  <2>6. OfJob(j) # Idle /\ j # Idle
    BY <2>4, <2>5
  <2> QED  BY <2>4, <2>6 DEF nbs, chunk
<1>2. /\ OfJob(Idle).chunk = Redirected(Idle.chunk, gone)
      /\ OfJob(Idle).kind = Idle.kind /\ OfJob(Idle).slices = Idle.slices
      /\ OfJob(Idle).nbs = {Redirected(d, gone) : d \in Idle.nbs}
      /\ OfJob(Idle) = Idle
  <2>1. Idle.chunk = NoChunk /\ Idle.nbs = {} /\ NoChunk \notin gone
    BY PipelineAssumption DEF Idle
  <2>2. {Redirected(d, gone) : d \in Idle.nbs} = {}
    BY <2>1
  <2>3. Redirected(Idle.chunk, gone) = Idle.chunk
    BY <2>1 DEF Redirected
  <2>4. OfJob(Idle) = Idle
    BY <2>1, <2>2, <2>3 DEF Idle
  <2> QED  BY <2>2, <2>3, <2>4
<1>3. ASSUME NEW r \in Result
      PROVE  /\ OfResult(r) \in Result
             /\ OfResult(r).chunk = Redirected(r.chunk, gone)
             /\ OfResult(r).isMesh = r.isMesh /\ OfResult(r).mesh = r.mesh
  BY DEF Result, Redirected
<1>4. /\ queue' = [i \in DOMAIN queue |-> OfJob(queue[i])]
      /\ running' = [w \in Workers |-> OfJob(running[w])]
      /\ results' = [i \in DOMAIN results |-> OfResult(results[i])]
      /\ batch' = [i \in DOMAIN batch |-> OfResult(batch[i])]
  BY DEF Free, Redirected
<1>5. /\ queue \in Seq(Job) /\ results \in Seq(Result) /\ batch \in Seq(Result)
      /\ running \in [Workers -> Job \cup {Idle}]
      /\ \A i \in DOMAIN queue : queue[i] \in Job
      /\ \A i \in DOMAIN results : results[i] \in Result
      /\ \A i \in DOMAIN batch : batch[i] \in Result
  BY DEF TypeOK
<1> HIDE DEF OfJob, OfResult
<1>6. queue' \in Seq(Job) /\ DOMAIN queue' = DOMAIN queue
  BY <1>1, <1>4, <1>5, SeqMap
<1>7. results' \in Seq(Result) /\ DOMAIN results' = DOMAIN results
  BY <1>3, <1>4, <1>5, SeqMap
<1>8. batch' \in Seq(Result) /\ DOMAIN batch' = DOMAIN batch
  BY <1>3, <1>4, <1>5, SeqMap
<1>9. ASSUME NEW w \in Workers
      PROVE  /\ running'[w] \in Job \cup {Idle}
             /\ running'[w].chunk = Redirected(running[w].chunk, gone)
             /\ running'[w].kind = running[w].kind
             /\ running'[w].slices = running[w].slices
             /\ running'[w].nbs = {Redirected(d, gone) : d \in running[w].nbs}
             /\ running'[w] = Idle <=> running[w] = Idle
  <2>1. running'[w] = OfJob(running[w])
    BY <1>4
  <2>2. CASE running[w] \in Job
    BY <1>1, <2>1, <2>2
  <2>3. CASE running[w] = Idle
    BY <1>2, <2>1, <2>3
  <2> QED  BY <1>5, <2>2, <2>3
<1>10. running' \in [Workers -> Job \cup {Idle}]
  BY <1>4, <1>9
<1> QED  BY <1>1, <1>3, <1>4, <1>5, <1>6, <1>7, <1>8, <1>9, <1>10

-----------------------------------------------------------------------------
(* Types.                                                                  *)

LEMMA InitTyped == Init => TypeOK
<1> SUFFICES ASSUME Init PROVE TypeOK
  OBVIOUS
<1>1. setting \in Setting /\ 1 \in DOMAIN setting.near
  <2>1. setting \in Setting /\ setting.near # <<>>
    BY PipelineAssumption DEF Init
  <2>2. setting.near \in Seq(SUBSET Chunks)
    BY <2>1 DEF Setting
  <2> QED  BY <2>1, <2>2
<1>2. state \in [Chunks -> {Stages[i] : i \in DOMAIN Stages}]
  BY StageNames DEF Init
<1>3. 0 \in 0 .. setting.moves /\ 0 \in 0 .. MaxSpills /\ 0 \in 0 .. UploadLimit
  BY <1>1, PipelineAssumption DEF Setting
<1> QED  BY <1>1, <1>2, <1>3 DEF Init, TypeOK, Phases

\* The parts of TypeOK, for the actions of one actor each.
ColumnsTyped ==
  /\ state \in [Chunks -> {Stages[i] : i \in DOMAIN Stages}]
  /\ dirty \in [Chunks -> BOOLEAN] /\ relight \in [Chunks -> BOOLEAN]
  /\ blocks \in [Chunks -> SUBSET Edits] /\ shown \in [Chunks -> SUBSET Edits]
JobsTyped ==
  /\ queue \in Seq(Job) /\ results \in Seq(Result) /\ batch \in Seq(Result)
  /\ running \in [Workers -> Job \cup {Idle}]
  /\ stage \in [Workers -> {"idle", "first", "second"}]
OthersTyped ==
  /\ phase \in Phases /\ uploads \in 0 .. UploadLimit
  /\ setting \in Settings /\ place \in DOMAIN setting.near
  /\ recorded \in SUBSET Edits /\ pending \in SUBSET recorded
  /\ edited \in SUBSET recorded
  /\ held \in Chunks \cup {Freed, NoChunk} /\ outrun \in SUBSET Chunks
  /\ spills \in 0 .. MaxSpills /\ moves \in 0 .. setting.moves

LEMMA TypeParts == /\ TypeOK <=> ColumnsTyped /\ JobsTyped /\ OthersTyped
                   /\ TypeOK' <=> ColumnsTyped' /\ JobsTyped' /\ OthersTyped'
  BY DEF TypeOK, ColumnsTyped, JobsTyped, OthersTyped

\* The worker's step leaves the settings, edits and the update alone.
WorkerStep(w) ==
  \/ TakeJob(w) \/ Generate(w) \/ ApplyOverlay(w) \/ LightPass(w)
  \/ ConsumePending(w) \/ BuildMesh(w)

LEMMA PushTyped ==
  ASSUME TypeOK, NEW w \in Workers, NEW isMesh \in BOOLEAN,
         NEW mesh \in SUBSET Edits, running[w].chunk \in Chunks,
         PushResult(w, isMesh, mesh)
  PROVE  /\ results' \in Seq(Result)
         /\ running' \in [Workers -> Job \cup {Idle}]
         /\ stage' \in [Workers -> {"idle", "first", "second"}]
<1>1. [isMesh |-> isMesh, chunk |-> running[w].chunk, mesh |-> mesh] \in Result
  BY DEF Result
<1> QED  BY <1>1 DEF PushResult, TypeOK

\* Light left at neighbours.
LEMMA SpillTyped ==
  ASSUME TypeOK, NEW S \in SUBSET Chunks, NEW taken, SpillInto(S, taken)
  PROVE  relight' \in [Chunks -> BOOLEAN] /\ spills' \in 0 .. MaxSpills
<1>1. PICK lit \in SUBSET S :
        /\ lit # {} => spills < MaxSpills
        /\ spills' = IF lit = {} THEN spills ELSE spills + 1
        /\ relight' = [c \in Chunks |-> (relight[c] /\ c \notin taken) \/ c \in lit]
  BY DEF SpillInto
<1> QED  BY <1>1, PipelineAssumption DEF TypeOK

LEMMA WorkerTyped ==
  ASSUME TypeOK, NEW w \in Workers, WorkerStep(w), UNCHANGED setting
  PROVE  TypeOK'
<1> USE DEF chunkVars, updateVars, editVars, jobVars
<1>1. CASE TakeJob(w)
  <2>1. queue' \in Seq(Job) /\ Head(queue) \in Job
    BY <1>1 DEF TakeJob, TypeOK
  <2> QED  BY <1>1, <2>1 DEF TakeJob, TypeOK
<1>2. CASE Generate(w)
  <2>1. state' \in [Chunks -> {Stages[i] : i \in DOMAIN Stages}]
    BY <1>2, StageNames DEF Generate, TypeOK
  <2>2. blocks' \in [Chunks -> SUBSET Edits]
    BY <1>2 DEF Generate, TypeOK
  <2> QED  BY <1>2, <2>1, <2>2 DEF Generate, TypeOK
<1>3. CASE ApplyOverlay(w)
  <2>1. running[w].chunk \in Chunks /\ PushResult(w, FALSE, {})
    BY <1>3 DEF ApplyOverlay, Doing
  <2>2. blocks' \in [Chunks -> SUBSET Edits]
    BY <1>3, <2>1 DEF ApplyOverlay, TypeOK, On
  <2>3. JobsTyped'
    BY <1>3, <2>1, PushTyped DEF ApplyOverlay, TypeOK, JobsTyped
  <2>4. ColumnsTyped'
    BY <1>3, <2>2 DEF ApplyOverlay, TypeOK, ColumnsTyped
  <2>5. OthersTyped'
    BY <1>3 DEF ApplyOverlay, TypeOK, OthersTyped
  <2> QED  BY <2>3, <2>4, <2>5, TypeParts
<1>4. CASE LightPass(w)
  <2>1. relight' \in [Chunks -> BOOLEAN] /\ spills' \in 0 .. MaxSpills
    BY <1>4, SpillTyped DEF LightPass
  <2> QED  BY <1>4, <2>1 DEF LightPass, TypeOK
<1>5. CASE ConsumePending(w)
  <2>1. running[w].chunk \in Chunks /\ PushResult(w, FALSE, {})
    BY <1>5 DEF ConsumePending, Doing
  <2>2. JobsTyped'
    BY <1>5, <2>1, PushTyped DEF ConsumePending, TypeOK, JobsTyped
  <2>3. relight' \in [Chunks -> BOOLEAN] /\ spills' \in 0 .. MaxSpills
    <3> DEFINE S == IF relight[running[w].chunk] THEN running[w].nbs \cap Chunks ELSE {}
    <3>1. S \in SUBSET Chunks /\ SpillInto(S, {running[w].chunk})
      BY <1>5 DEF ConsumePending
    <3> HIDE DEF S
    <3> QED  BY <3>1, SpillTyped
  <2>4. ColumnsTyped'
    BY <1>5, <2>3 DEF ConsumePending, TypeOK, ColumnsTyped
  <2>5. OthersTyped'
    BY <1>5, <2>3 DEF ConsumePending, TypeOK, OthersTyped
  <2> QED  BY <2>2, <2>4, <2>5, TypeParts
<1>6. CASE BuildMesh(w)
  <2> DEFINE mesh == blocks[running[w].chunk] \cup running[w].slices
  <2>1. /\ running[w].chunk \in Chunks /\ PushResult(w, TRUE, mesh)
        /\ running[w].kind = "mesh"
    BY <1>6 DEF BuildMesh, Doing
  <2>2. running[w] \in Job
    BY <2>1 DEF TypeOK, Idle
  <2>3. mesh \in SUBSET Edits
    BY <2>1, <2>2 DEF TypeOK, Job
  <2> HIDE DEF mesh
  <2>4. JobsTyped'
    BY <1>6, <2>1, <2>3, PushTyped DEF BuildMesh, TypeOK, JobsTyped
  <2>5. ColumnsTyped' /\ OthersTyped'
    BY <1>6 DEF BuildMesh, TypeOK, ColumnsTyped, OthersTyped
  <2> QED  BY <2>4, <2>5, TypeParts
<1> QED  BY <1>1, <1>2, <1>3, <1>4, <1>5, <1>6 DEF WorkerStep

\* The five submit steps of an update, by the columns they pick.
Submits(picked) ==
  \/ /\ Appends(picked, "generating", GenerateJob)
     /\ phase = "load" /\ phase' = "light"
     /\ \A c \in picked : /\ ~setting.networkFed /\ state[c] = "absent"
                          /\ c \in setting.near[place]
  \/ /\ Appends(picked, "lighting", LightJob)
     /\ phase = "light" /\ phase' = "relight"
     /\ \A c \in picked : state[c] = "generated"
  \/ /\ Appends(picked, "lighting", LightJob)
     /\ phase = "relight" /\ phase' = "mesh"
     /\ \A c \in picked : state[c] = "lit"
  \/ /\ Appends(picked, "meshing", MeshJob)
     /\ phase = "mesh" /\ phase' = "remesh"
     /\ \A c \in picked : state[c] = "lit"
  \/ /\ Appends(picked, "meshing", MeshJob)
     /\ phase = "remesh" /\ phase' = "idle"
     /\ \A c \in picked : state[c] = "ready"

SubmitStep == Load \/ Light \/ Relight \/ Mesh \/ Remesh

LEMMA PlacesTyped ==
  ASSUME TypeOK
  PROVE  /\ setting \in Setting
         /\ setting.near[place] \in SUBSET Chunks /\ setting.kept[place] \in SUBSET Chunks
         /\ setting.near[place] \subseteq setting.kept[place]
<1>1. setting \in Settings /\ place \in DOMAIN setting.near
  BY DEF TypeOK
<1>2. /\ setting \in Setting /\ DOMAIN setting.near = DOMAIN setting.kept
      /\ setting.near[place] \subseteq setting.kept[place]
  BY <1>1, PipelineAssumption
<1>3. setting.near \in Seq(SUBSET Chunks) /\ setting.kept \in Seq(SUBSET Chunks)
  BY <1>2 DEF Setting
<1> QED  BY <1>1, <1>2, <1>3

LEMMA StatesDiffer ==
  ASSUME TypeOK
  PROVE  \A c \in Chunks :
           state[c] \in {"absent", "generating", "generated", "lighting", "lit",
                         "meshing", "ready"}
BY StageNames DEF TypeOK

LEMMA SubmitSteps ==
  ASSUME TypeOK, SubmitStep
  PROVE  /\ \E picked \in SUBSET Chunks : Submits(picked)
         /\ UNCHANGED <<relight, blocks, shown, running, stage, results, batch,
                        uploads, editVars, place, held, outrun, spills, moves>>
<1>1. UNCHANGED <<relight, blocks, shown, running, stage, results, batch, uploads,
                  editVars, place, held, outrun, spills, moves>>
  BY DEF SubmitStep, Load, Light, Relight, Mesh, Remesh, SubmitFor
<1>2. ASSUME NEW S \in SUBSET Chunks, NEW busy,
             NEW jobOf \in {GenerateJob, LightJob, MeshJob}, SubmitFor(S, busy, jobOf)
      PROVE  \E picked \in SUBSET S : Appends(picked, busy, jobOf)
  <2>1. jobOf \in [Chunks -> Job] /\ \A c \in Chunks : jobOf[c].chunk = c
    BY JobsOfColumns
  <2> QED  BY <1>2, <2>1, SubmitActs, Zenon
<1>3. CASE Load
  <2> DEFINE S == IF setting.networkFed THEN {}
                  ELSE setting.near[place] \ Present(Chunks)
  <2>1. SubmitFor(S, "generating", GenerateJob) /\ phase = "load" /\ phase' = "light"
    BY <1>3 DEF Load
  <2>2. S \in SUBSET Chunks
    BY PlacesTyped
  <2>3. \A c \in S : /\ ~setting.networkFed /\ state[c] = "absent"
                     /\ c \in setting.near[place]
    BY <2>2 DEF Present
  <2> HIDE DEF S
  <2>4. PICK picked \in SUBSET S : Appends(picked, "generating", GenerateJob)
    BY <1>2, <2>1, <2>2
  <2> QED  BY <1>1, <2>1, <2>2, <2>3, <2>4 DEF Submits
<1>4. CASE Light
  <2> DEFINE S == {c \in Chunks : state[c] = "generated"
                                  /\ NeighborsAtLeast(c, "generated")}
  <2>1. SubmitFor(S, "lighting", LightJob) /\ phase = "light" /\ phase' = "relight"
    BY <1>4 DEF Light
  <2>2. S \in SUBSET Chunks /\ \A c \in S : state[c] = "generated"
    OBVIOUS
  <2> HIDE DEF S
  <2>3. PICK picked \in SUBSET S : Appends(picked, "lighting", LightJob)
    BY <1>2, <2>1, <2>2
  <2> QED  BY <1>1, <2>1, <2>2, <2>3 DEF Submits
<1>5. CASE Relight
  <2> DEFINE S == {c \in Chunks : state[c] = "lit" /\ relight[c]
                                  /\ NeighborsAtLeast(c, "generated")}
  <2>1. SubmitFor(S, "lighting", LightJob) /\ phase = "relight" /\ phase' = "mesh"
    BY <1>5 DEF Relight
  <2>2. S \in SUBSET Chunks /\ \A c \in S : state[c] = "lit"
    OBVIOUS
  <2> HIDE DEF S
  <2>3. PICK picked \in SUBSET S : Appends(picked, "lighting", LightJob)
    BY <1>2, <2>1, <2>2
  <2> QED  BY <1>1, <2>1, <2>2, <2>3 DEF Submits
<1>6. CASE Mesh
  <2> DEFINE S == {c \in Chunks : state[c] = "lit" /\ NeighborsAtLeast(c, "lit")}
  <2>1. SubmitFor(S, "meshing", MeshJob) /\ phase = "mesh" /\ phase' = "remesh"
    BY <1>6 DEF Mesh
  <2>2. S \in SUBSET Chunks /\ \A c \in S : state[c] = "lit"
    OBVIOUS
  <2> HIDE DEF S
  <2>3. PICK picked \in SUBSET S : Appends(picked, "meshing", MeshJob)
    BY <1>2, <2>1, <2>2
  <2> QED  BY <1>1, <2>1, <2>2, <2>3 DEF Submits
<1>7. CASE Remesh
  <2> DEFINE S == {c \in Chunks : state[c] = "ready" /\ dirty[c]
                                  /\ NeighborsAtLeast(c, "lit")}
  <2>1. SubmitFor(S, "meshing", MeshJob) /\ phase = "remesh" /\ phase' = "idle"
    BY <1>7 DEF Remesh
  <2>2. S \in SUBSET Chunks /\ \A c \in S : state[c] = "ready"
    OBVIOUS
  <2> HIDE DEF S
  <2>3. PICK picked \in SUBSET S : Appends(picked, "meshing", MeshJob)
    BY <1>2, <2>1, <2>2
  <2> QED  BY <1>1, <2>1, <2>2, <2>3 DEF Submits
<1> QED  BY <1>3, <1>4, <1>5, <1>6, <1>7 DEF SubmitStep

LEMMA FreeTyped ==
  ASSUME TypeOK, NEW gone \in SUBSET Chunks, Free(gone)
  PROVE  /\ ColumnsTyped' /\ (UNCHANGED stage => JobsTyped')
         /\ edited' \subseteq edited /\ held' \in Chunks \cup {Freed, NoChunk}
<1>1. ColumnsTyped'
  BY StageNames DEF Free, TypeOK, ColumnsTyped
<1>2. UNCHANGED stage => JobsTyped'
  BY FreeActs DEF TypeOK, JobsTyped
<1> QED  BY <1>1, <1>2 DEF Free, TypeOK

LEMMA UpdateTyped ==
  ASSUME TypeOK, Update, UNCHANGED setting
  PROVE  TypeOK'
<1> USE DEF chunkVars, updateVars, editVars, jobVars
<1>1. CASE BeginUpdate
  BY <1>1, PipelineAssumption DEF BeginUpdate, TypeOK, Phases
<1>2. ASSUME NEW r, Arrives(r)
      PROVE  /\ JobsTyped' /\ UNCHANGED <<dirty, relight, blocks, phase, editVars,
                                          place, held, outrun, spills, moves>>
             /\ r = Head(batch) /\ r \in Result /\ r.chunk \in Chunks
  BY <1>2 DEF Arrives, TypeOK, JobsTyped
<1>3. CASE MeshArrives
  <2>1. Head(batch).mesh \in SUBSET Edits
    BY <1>2, <1>3 DEF MeshArrives, Result
  <2>2. ColumnsTyped'
    BY <1>2, <1>3, <2>1, StageNames DEF MeshArrives, TypeOK, ColumnsTyped
  <2>3. OthersTyped'
    BY <1>2, <1>3, PipelineAssumption DEF MeshArrives, TypeOK, OthersTyped
  <2> QED  BY <1>2, <1>3, <2>2, <2>3, TypeParts DEF MeshArrives
<1>4. CASE MeshDiscarded
  <2>1. ColumnsTyped'
    BY <1>2, <1>4, StageNames DEF MeshDiscarded, TypeOK, ColumnsTyped
  <2>2. OthersTyped'
    BY <1>2, <1>4 DEF MeshDiscarded, TypeOK, OthersTyped
  <2> QED  BY <1>2, <1>4, <2>1, <2>2, TypeParts DEF MeshDiscarded
<1>5. CASE LitOrGenerated
  <2>1. ColumnsTyped'
    BY <1>2, <1>5, StageNames DEF LitOrGenerated, TypeOK, ColumnsTyped
  <2>2. OthersTyped'
    BY <1>2, <1>5 DEF LitOrGenerated, TypeOK, OthersTyped
  <2> QED  BY <1>2, <1>5, <2>1, <2>2, TypeParts DEF LitOrGenerated
<1>6. CASE Unload
  <2> DEFINE gone == {c \in Chunks \ setting.kept[place] : ~Busy(c)}
  <2>1. Free(gone) /\ gone \in SUBSET Chunks
    BY <1>6 DEF Unload
  <2> HIDE DEF gone
  <2>2. OthersTyped'
    BY <1>6, <2>1, FreeTyped DEF Unload, TypeOK, OthersTyped, Phases
  <2> QED  BY <1>6, <2>1, <2>2, FreeTyped, TypeParts DEF Unload
<1>7. CASE SubmitStep
  <2>1. PICK picked \in SUBSET Chunks : Submits(picked)
    BY <1>7, SubmitSteps
  <2>2. UNCHANGED <<relight, blocks, shown, running, stage, results, batch,
                    uploads, editVars, place, held, outrun, spills, moves>>
    BY <1>7, SubmitSteps
  <2>3. \E busy \in {"generating", "lighting", "meshing"} :
          state' = [c \in Chunks |-> IF c \in picked THEN busy ELSE state[c]]
    BY <2>1 DEF Submits, Appends
  <2>4. /\ queue' \in Seq(Job) /\ phase' \in Phases
        /\ dirty' = [c \in Chunks |-> dirty[c] /\ ~(phase = "remesh" /\ c \in picked)]
    BY <2>1 DEF Submits, Appends, Phases
  <2>5. state' \in [Chunks -> {Stages[i] : i \in DOMAIN Stages}]
    BY <2>3, StageNames DEF TypeOK
  <2> QED  BY <2>2, <2>4, <2>5 DEF TypeOK
<1> QED
  BY <1>1, <1>3, <1>4, <1>5, <1>6, <1>7 DEF Update, SubmitStep

\* What the server thread, the packet handlers and the player do.
OtherStep ==
  \/ Move \/ EndCopy
  \/ \E c \in Chunks : Ensure(c) \/ BeginCopy(c) \/ Insert(c) \/ Evict(c)
  \/ \E e \in Edits : AcceptEdit(e) \/ SetBlock(e) \/ SetBlockRefused(e)

LEMMA OtherTyped ==
  ASSUME TypeOK, OtherStep, UNCHANGED setting
  PROVE  TypeOK'
<1> USE DEF chunkVars, updateVars, editVars, jobVars
<1>1. CASE Move
  <2>1. setting.moves \in Nat
    BY PlacesTyped DEF Setting
  <2>2. outrun' \in SUBSET Chunks
    BY <1>1 DEF Move, PointedAt
  <2> QED  BY <1>1, <2>1, <2>2 DEF Move, TypeOK
<1>2. CASE EndCopy
  BY <1>2 DEF EndCopy, TypeOK
<1>3. ASSUME NEW c \in Chunks, Ensure(c) PROVE TypeOK'
  <2>1. ColumnsTyped'
    BY <1>3, StageNames DEF Ensure, TypeOK, ColumnsTyped
  <2> QED  BY <1>3, <2>1, TypeParts DEF Ensure, JobsTyped, OthersTyped
<1>4. ASSUME NEW c \in Chunks, BeginCopy(c) PROVE TypeOK'
  BY <1>4 DEF BeginCopy, TypeOK
<1>5. ASSUME NEW c \in Chunks, Insert(c) PROVE TypeOK'
  <2>1. PICK S \in SUBSET (recorded \cap On(c)) : blocks' = [blocks EXCEPT ![c] = S]
    BY <1>5 DEF Insert
  <2>2. ColumnsTyped'
    BY <1>5, <2>1, StageNames DEF Insert, TypeOK, ColumnsTyped
  <2> QED  BY <1>5, <2>2, TypeParts DEF Insert, JobsTyped, OthersTyped
<1>6. ASSUME NEW c \in Chunks, Evict(c) PROVE TypeOK'
  <2>1. Free({c}) /\ {c} \in SUBSET Chunks
    BY <1>6 DEF Evict
  <2>2. OthersTyped'
    BY <1>6, <2>1, FreeTyped DEF Evict, TypeOK, OthersTyped
  <2> QED  BY <1>6, <2>1, <2>2, FreeTyped, TypeParts DEF Evict
<1>7. ASSUME NEW e \in Edits, AcceptEdit(e) PROVE TypeOK'
  BY <1>7 DEF AcceptEdit, TypeOK
<1>8. ASSUME NEW e \in Edits, SetBlock(e) PROVE TypeOK'
  <2>1. blocks' \in [Chunks -> SUBSET Edits] /\ dirty' \in [Chunks -> BOOLEAN]
    BY <1>8 DEF SetBlock, TypeOK
  <2>2. edited' \in SUBSET recorded' /\ pending' \in SUBSET recorded'
    BY <1>8 DEF SetBlock, TypeOK
  <2>3. relight' \in [Chunks -> BOOLEAN] /\ spills' \in 0 .. MaxSpills
    <3> DEFINE S == IF e \notin blocks[Home[e]] /\ AtLeast(Home[e], "lit")
                      THEN Present(Neighbors[Home[e]]) ELSE {}
    <3>1. SpillInto(S, {})
      BY <1>8 DEF SetBlock
    <3>2. S \in SUBSET Chunks
      BY PipelineAssumption DEF Present
    <3> HIDE DEF S
    <3> QED  BY <3>1, <3>2, SpillTyped
  <2> QED  BY <1>8, <2>1, <2>2, <2>3 DEF SetBlock, TypeOK
<1>9. ASSUME NEW e \in Edits, SetBlockRefused(e) PROVE TypeOK'
  BY <1>9 DEF SetBlockRefused, TypeOK
<1> QED
  BY <1>1, <1>2, <1>3, <1>4, <1>5, <1>6, <1>7, <1>8, <1>9 DEF OtherStep

LEMMA NextSplits ==
  ASSUME [Next]_vars
  PROVE  \/ \E w \in Workers : WorkerStep(w) /\ UNCHANGED setting
         \/ Update /\ UNCHANGED setting
         \/ OtherStep /\ UNCHANGED setting
         \/ UNCHANGED vars
BY DEF Next, Step, WorkerStep, OtherStep

LEMMA StepTyped == ASSUME TypeOK, [Next]_vars PROVE TypeOK'
<1>1. CASE UNCHANGED vars
  BY <1>1 DEF vars, chunkVars, jobVars, updateVars, editVars, TypeOK
<1> QED  BY <1>1, NextSplits, WorkerTyped, UpdateTyped, OtherTyped

\* Every variable of the pipeline keeps its type (world.c, chunk.h).
THEOREM PipelineTypeCorrect == Spec => []TypeOK
<1>1. Init => TypeOK
  BY InitTyped
<1>2. TypeOK /\ [Next]_vars => TypeOK'
  BY StepTyped
<1> QED  BY <1>1, <1>2, PTL DEF Spec

-----------------------------------------------------------------------------
(* Jobs and states.                                                        *)

JobIs(j, c, kind) == j.chunk = c /\ j.kind = kind
ResultIs(r, c, isMesh) == r.chunk = c /\ r.isMesh = isMesh

HasJob(c, kind) ==
  \/ \E i \in DOMAIN queue : JobIs(queue[i], c, kind)
  \/ \E w \in Workers : JobIs(running[w], c, kind)
HasResult(c, isMesh) ==
  \/ \E i \in DOMAIN results : ResultIs(results[i], c, isMesh)
  \/ \E i \in DOMAIN batch : ResultIs(batch[i], c, isMesh)

\* There is at most one.
OneJob(c, kind) ==
  /\ \A i, j \in DOMAIN queue :
       JobIs(queue[i], c, kind) /\ JobIs(queue[j], c, kind) => i = j
  /\ \A v, w \in Workers :
       JobIs(running[v], c, kind) /\ JobIs(running[w], c, kind) => v = w
  /\ \A i \in DOMAIN queue, w \in Workers :
       ~(JobIs(queue[i], c, kind) /\ JobIs(running[w], c, kind))
OneResult(c, isMesh) ==
  /\ \A i, j \in DOMAIN results :
       ResultIs(results[i], c, isMesh) /\ ResultIs(results[j], c, isMesh) => i = j
  /\ \A i, j \in DOMAIN batch :
       ResultIs(batch[i], c, isMesh) /\ ResultIs(batch[j], c, isMesh) => i = j
  /\ \A i \in DOMAIN results, j \in DOMAIN batch :
       ~(ResultIs(results[i], c, isMesh) /\ ResultIs(batch[j], c, isMesh))

\* A generate job that has not stored GENERATED.
Early(c) ==
  \/ \E i \in DOMAIN queue : JobIs(queue[i], c, "generate")
  \/ \E w \in Workers : JobIs(running[w], c, "generate") /\ stage[w] = "first"

\* A column is generated once, and is there until that job ends; it is
\* GENERATING until GENERATED is stored.
GenerateInv(c) ==
  /\ OneJob(c, "generate")
  /\ state[c] = "absent" => ~HasJob(c, "generate")
  /\ state[c] = "generating" <=> Early(c)

\* It is MESHING from the submission of its one mesh job to the arrival of the
\* mesh.
MeshInv(c) ==
  /\ OneJob(c, "mesh") /\ OneResult(c, TRUE)
  /\ ~(HasJob(c, "mesh") /\ HasResult(c, TRUE))
  /\ state[c] = "meshing" <=> HasJob(c, "mesh") \/ HasResult(c, TRUE)

\* While it is LIGHTING there is a job, or a result that will be taken for its
\* end.
LightInv(c) ==
  state[c] = "lighting" => HasJob(c, "light") \/ HasResult(c, FALSE)

\* With a remote client nothing is generated, so that lighting is as orderly
\* as meshing.
FedInv(c) ==
  setting.networkFed =>
    /\ ~HasJob(c, "generate")
    /\ OneJob(c, "light") /\ OneResult(c, FALSE)
    /\ ~(HasJob(c, "light") /\ HasResult(c, FALSE))
    /\ HasJob(c, "light") \/ HasResult(c, FALSE) => state[c] = "lighting"

ColumnInv(c) == GenerateInv(c) /\ MeshInv(c) /\ LightInv(c) /\ FedInv(c)

StageInv ==
  /\ phase # "results" => batch = <<>>
  /\ \A w \in Workers : stage[w] = "idle" <=> running[w] = Idle
  /\ \A w \in Workers : stage[w] = "second" => running[w].kind # "mesh"

JobsInv == TypeOK /\ StageInv /\ \A c \in Chunks : ColumnInv(c)

\* What a step does to the jobs and results of one kind and column.
SameJobs(c, kind) == /\ HasJob(c, kind)' <=> HasJob(c, kind)
                     /\ OneJob(c, kind) => OneJob(c, kind)'
SameResults(c, isMesh) == /\ HasResult(c, isMesh)' <=> HasResult(c, isMesh)
                          /\ OneResult(c, isMesh) => OneResult(c, isMesh)'

LEMMA JobsUntouched ==
  ASSUME UNCHANGED <<queue, running>>, NEW c, NEW kind
  PROVE  SameJobs(c, kind) /\ (UNCHANGED stage => (Early(c)' <=> Early(c)))
BY DEF SameJobs, HasJob, OneJob, JobIs, Early

LEMMA ResultsUntouched ==
  ASSUME UNCHANGED <<results, batch>>, NEW c, NEW isMesh
  PROVE  SameResults(c, isMesh)
BY DEF SameResults, HasResult, OneResult, ResultIs

LEMMA JobTaken ==
  ASSUME TypeOK, StageInv, NEW w \in Workers, TakeJob(w),
         NEW c, NEW kind \in Kinds
  PROVE  SameJobs(c, kind) /\ (Early(c)' <=> Early(c))
<1>1. /\ queue \in Seq(Job) /\ queue # <<>> /\ queue' = Tail(queue)
      /\ running' = [running EXCEPT ![w] = Head(queue)]
      /\ stage' = [stage EXCEPT ![w] = "first"]
      /\ stage[w] = "idle" /\ running[w] = Idle
  BY DEF TakeJob, TypeOK, StageInv
<1>2. /\ Head(queue) = queue[1] /\ 1 \in DOMAIN queue
      /\ DOMAIN queue = 1 .. Len(queue) /\ DOMAIN queue' = 1 .. Len(queue) - 1
      /\ Len(queue) \in Nat \ {0}
      /\ \A i \in DOMAIN queue' : queue'[i] = queue[i + 1] /\ i + 1 \in DOMAIN queue
  BY <1>1, SeqTail
<1>3. \A i \in DOMAIN queue : i = 1 \/ (i - 1 \in DOMAIN queue' /\ queue'[i - 1] = queue[i])
  BY <1>2
<1>4. ~JobIs(running[w], c, kind)
  BY <1>1 DEF JobIs, Idle, Kinds
<1>5. /\ running'[w] = queue[1] /\ stage'[w] = "first"
      /\ \A v \in Workers \ {w} : running'[v] = running[v] /\ stage'[v] = stage[v]
  BY <1>1, <1>2 DEF TypeOK
<1>6. HasJob(c, kind)' <=> HasJob(c, kind)
  BY <1>2, <1>3, <1>4, <1>5 DEF HasJob, JobIs
<1>7. Early(c)' <=> Early(c)
  <2>1. ~JobIs(running[w], c, "generate")
    BY <1>1 DEF JobIs, Idle
  <2> QED  BY <1>2, <1>3, <1>5, <2>1 DEF Early, JobIs
<1>8. ASSUME OneJob(c, kind) PROVE OneJob(c, kind)'
  <2>1. ASSUME NEW i \in DOMAIN queue', NEW j \in DOMAIN queue',
               JobIs(queue'[i], c, kind), JobIs(queue'[j], c, kind)
        PROVE  i = j
    <3>1. i + 1 = j + 1
      BY <1>2, <1>8, <2>1 DEF OneJob
    <3> QED  BY <1>2, <3>1
  <2>2. ASSUME NEW i \in DOMAIN queue', NEW v \in Workers,
               JobIs(queue'[i], c, kind), JobIs(running'[v], c, kind)
        PROVE  FALSE
    <3>1. i + 1 \in DOMAIN queue /\ JobIs(queue[i + 1], c, kind) /\ i + 1 # 1
      BY <1>2, <2>2
    <3> QED  BY <1>2, <1>5, <1>8, <2>2, <3>1 DEF OneJob
  <2>3. ASSUME NEW u \in Workers, NEW v \in Workers,
               JobIs(running'[u], c, kind), JobIs(running'[v], c, kind)
        PROVE  u = v
    BY <1>2, <1>5, <1>8, <2>3 DEF OneJob
  <2> QED  BY <2>1, <2>2, <2>3 DEF OneJob, JobIs
<1> QED  BY <1>6, <1>7, <1>8 DEF SameJobs

\* A worker that ends its job leaves a result in the place of the job.
LEMMA JobDone ==
  ASSUME TypeOK, NEW w \in Workers, NEW isMesh \in BOOLEAN, NEW mesh,
         running[w].chunk \in Chunks, PushResult(w, isMesh, mesh),
         UNCHANGED <<queue, batch>>,
         NEW c \in Chunks
  PROVE  /\ \A kind \in Kinds :
              /\ OneJob(c, kind) => OneJob(c, kind)'
              /\ HasJob(c, kind)' => HasJob(c, kind)
              /\ HasJob(c, kind) => HasJob(c, kind)' \/ JobIs(running[w], c, kind)
              /\ OneJob(c, kind) /\ JobIs(running[w], c, kind) => ~HasJob(c, kind)'
         /\ \A m \in BOOLEAN :
              /\ HasResult(c, m)'
                   <=> HasResult(c, m) \/ (m = isMesh /\ c = running[w].chunk)
              /\ OneResult(c, m) /\ ~(m = isMesh /\ c = running[w].chunk /\ HasResult(c, m))
                   => OneResult(c, m)'
         /\ Early(c)' => Early(c)
         /\ Early(c) => \/ Early(c)'
                        \/ stage[w] = "first" /\ JobIs(running[w], c, "generate")
<1> DEFINE r == [isMesh |-> isMesh, chunk |-> running[w].chunk, mesh |-> mesh]
<1>1. /\ results \in Seq(Result) /\ results' = <<r>> \o results
      /\ running' = [running EXCEPT ![w] = Idle] /\ stage' = [stage EXCEPT ![w] = "idle"]
      /\ running \in [Workers -> Job \cup {Idle}]
      /\ stage \in [Workers -> {"idle", "first", "second"}]
      /\ queue' = queue /\ batch' = batch
  BY DEF PushResult, TypeOK
<1>2. r.isMesh = isMesh /\ r.chunk = running[w].chunk
  OBVIOUS
<1> HIDE DEF r
<1>3. /\ DOMAIN results = 1 .. Len(results) /\ DOMAIN results' = 1 .. Len(results) + 1
      /\ Len(results) \in Nat /\ results'[1] = r
      /\ \A i \in DOMAIN results : results'[i + 1] = results[i]
  BY <1>1
<1>4. /\ running'[w] = Idle /\ stage'[w] = "idle"
      /\ \A v \in Workers \ {w} : running'[v] = running[v] /\ stage'[v] = stage[v]
  BY <1>1
<1>5. ASSUME NEW kind \in Kinds PROVE ~JobIs(Idle, c, kind)
  BY DEF JobIs, Idle, Kinds
<1>6. ASSUME NEW kind \in Kinds
      PROVE  /\ OneJob(c, kind) => OneJob(c, kind)'
             /\ HasJob(c, kind)' => HasJob(c, kind)
             /\ HasJob(c, kind) => HasJob(c, kind)' \/ JobIs(running[w], c, kind)
             /\ OneJob(c, kind) /\ JobIs(running[w], c, kind) => ~HasJob(c, kind)'
  BY <1>1, <1>4, <1>5 DEF OneJob, HasJob, JobIs
<1>7. ASSUME NEW m \in BOOLEAN
      PROVE  /\ HasResult(c, m)'
                  <=> HasResult(c, m) \/ (m = isMesh /\ c = running[w].chunk)
             /\ OneResult(c, m) /\ ~(m = isMesh /\ c = running[w].chunk /\ HasResult(c, m))
                  => OneResult(c, m)'
  <2>1. \A i \in DOMAIN results' :
          \/ i = 1 /\ (ResultIs(results'[i], c, m)
                         <=> m = isMesh /\ c = running[w].chunk)
          \/ i - 1 \in DOMAIN results /\ results'[i] = results[i - 1]
    BY <1>2, <1>3 DEF ResultIs
  <2>2. 1 \in DOMAIN results' /\ \A i \in DOMAIN results : i + 1 \in DOMAIN results'
    BY <1>3
  <2>3. HasResult(c, m)' <=> HasResult(c, m) \/ (m = isMesh /\ c = running[w].chunk)
    BY <1>1, <1>2, <1>3, <2>1, <2>2 DEF HasResult, ResultIs
  <2>4. ASSUME OneResult(c, m), ~(m = isMesh /\ c = running[w].chunk /\ HasResult(c, m))
        PROVE  OneResult(c, m)'
    <3>1. ASSUME NEW i \in DOMAIN results', NEW j \in DOMAIN results',
                 ResultIs(results'[i], c, m), ResultIs(results'[j], c, m)
          PROVE  i = j
      <4>1. CASE i # 1 /\ j # 1
        <5>1. i - 1 = j - 1
          BY <2>1, <2>4, <3>1, <4>1 DEF OneResult
        <5> QED  BY <1>3, <5>1
      <4>2. CASE i = 1 \/ j = 1
        BY <1>3, <2>1, <2>4, <3>1, <4>2 DEF HasResult
      <4> QED  BY <4>1, <4>2
    <3>2. ASSUME NEW i \in DOMAIN results', NEW j \in DOMAIN batch,
                 ResultIs(results'[i], c, m), ResultIs(batch[j], c, m)
          PROVE  FALSE
      BY <2>1, <2>4, <3>2 DEF OneResult, HasResult
    <3> QED  BY <1>1, <2>4, <3>1, <3>2 DEF OneResult, ResultIs
  <2> QED  BY <2>3, <2>4
<1>8. Early(c)' => Early(c)
  <2>1. ~JobIs(Idle, c, "generate")
    BY DEF JobIs, Idle
  <2> QED  BY <1>1, <1>4, <2>1 DEF Early, JobIs
<1>9. Early(c) => \/ Early(c)'
                  \/ stage[w] = "first" /\ JobIs(running[w], c, "generate")
  BY <1>1, <1>4 DEF Early, JobIs
<1> QED  BY <1>6, <1>7, <1>8, <1>9

\* The update takes the list of results as its batch.
LEMMA ResultsTaken ==
  ASSUME TypeOK, StageInv, BeginUpdate, NEW c, NEW m
  PROVE  SameResults(c, m)
<1>1. batch = <<>> /\ batch' = results /\ results' = <<>>
  BY DEF BeginUpdate, StageInv
<1> QED  BY <1>1 DEF SameResults, HasResult, OneResult, ResultIs

\* The head of the batch is processed.
LEMMA ResultGone ==
  ASSUME TypeOK, NEW r, Arrives(r), NEW c \in Chunks, NEW m \in BOOLEAN
  PROVE  /\ OneResult(c, m) => OneResult(c, m)'
         /\ HasResult(c, m)' => HasResult(c, m)
         /\ HasResult(c, m) => HasResult(c, m)' \/ ResultIs(r, c, m)
         /\ OneResult(c, m) /\ ResultIs(r, c, m) => ~HasResult(c, m)'
         /\ ResultIs(r, c, m) => HasResult(c, m)
<1>1. /\ batch \in Seq(Result) /\ batch # <<>> /\ batch' = Tail(batch)
      /\ r = Head(batch) /\ results' = results
  BY DEF Arrives, TypeOK, jobVars
<1>2. /\ r = batch[1] /\ 1 \in DOMAIN batch
      /\ DOMAIN batch = 1 .. Len(batch) /\ DOMAIN batch' = 1 .. Len(batch) - 1
      /\ Len(batch) \in Nat \ {0}
      /\ \A i \in DOMAIN batch' : batch'[i] = batch[i + 1] /\ i + 1 \in DOMAIN batch
  BY <1>1, SeqTail
<1>3. \A i \in DOMAIN batch : i = 1 \/ (i - 1 \in DOMAIN batch' /\ batch'[i - 1] = batch[i])
  BY <1>2
<1>4. HasResult(c, m)' => HasResult(c, m)
  BY <1>1, <1>2 DEF HasResult, ResultIs
<1>5. HasResult(c, m) => HasResult(c, m)' \/ ResultIs(r, c, m)
  BY <1>1, <1>2, <1>3 DEF HasResult, ResultIs
<1>6. ResultIs(r, c, m) => HasResult(c, m)
  BY <1>2 DEF HasResult
<1>7. OneResult(c, m) => OneResult(c, m)'
  <2> SUFFICES ASSUME OneResult(c, m) PROVE OneResult(c, m)'
    OBVIOUS
  <2>1. ASSUME NEW i \in DOMAIN batch', NEW j \in DOMAIN batch',
               ResultIs(batch'[i], c, m), ResultIs(batch'[j], c, m)
        PROVE  i = j
    <3>1. i + 1 = j + 1
      BY <1>2, <2>1 DEF OneResult
    <3> QED  BY <1>2, <3>1
  <2>2. ASSUME NEW i \in DOMAIN results, NEW j \in DOMAIN batch',
               ResultIs(results[i], c, m), ResultIs(batch'[j], c, m)
        PROVE  FALSE
    BY <1>2, <2>2 DEF OneResult
  <2> QED  BY <1>1, <2>1, <2>2 DEF OneResult, ResultIs
<1>8. OneResult(c, m) /\ ResultIs(r, c, m) => ~HasResult(c, m)'
  <2> SUFFICES ASSUME OneResult(c, m), ResultIs(r, c, m), HasResult(c, m)' PROVE FALSE
    OBVIOUS
  <2>1. ASSUME NEW i \in DOMAIN batch', ResultIs(batch'[i], c, m) PROVE FALSE
    <3>1. i + 1 # 1 /\ i + 1 \in DOMAIN batch /\ ResultIs(batch[i + 1], c, m)
      BY <1>2, <2>1
    <3> QED  BY <1>2, <3>1 DEF OneResult
  <2>2. ASSUME NEW i \in DOMAIN results, ResultIs(results[i], c, m) PROVE FALSE
    BY <1>2, <2>2 DEF OneResult
  <2> QED  BY <1>1, <2>1, <2>2 DEF HasResult, ResultIs
<1> QED  BY <1>4, <1>5, <1>6, <1>7, <1>8

\* Columns that stay keep their jobs and results, those that are freed have
\* none.
LEMMA JobsOfFreed ==
  ASSUME TypeOK, NEW gone \in SUBSET Chunks, Free(gone), UNCHANGED stage,
         NEW c \in Chunks
  PROVE  /\ c \notin gone =>
              /\ \A kind \in Kinds : SameJobs(c, kind)
              /\ \A m \in BOOLEAN : SameResults(c, m)
              /\ Early(c)' <=> Early(c)
         /\ c \in gone =>
              /\ \A kind \in Kinds : ~HasJob(c, kind)' /\ OneJob(c, kind)'
              /\ \A m \in BOOLEAN : ~HasResult(c, m)' /\ OneResult(c, m)'
              /\ ~Early(c)'
<1>1. Freed # c
  BY PipelineAssumption
<1>2. \A d : Redirected(d, gone) = c <=> d = c /\ c \notin gone
  BY <1>1 DEF Redirected
<1>3. ASSUME NEW kind
      PROVE  /\ DOMAIN queue' = DOMAIN queue
             /\ \A i \in DOMAIN queue :
                  JobIs(queue'[i], c, kind) <=> JobIs(queue[i], c, kind) /\ c \notin gone
             /\ \A w \in Workers :
                  JobIs(running'[w], c, kind) <=> JobIs(running[w], c, kind) /\ c \notin gone
  BY <1>2, FreeActs DEF JobIs
<1>4. ASSUME NEW m
      PROVE  /\ DOMAIN results' = DOMAIN results /\ DOMAIN batch' = DOMAIN batch
             /\ \A i \in DOMAIN results :
                  ResultIs(results'[i], c, m) <=> ResultIs(results[i], c, m) /\ c \notin gone
             /\ \A i \in DOMAIN batch :
                  ResultIs(batch'[i], c, m) <=> ResultIs(batch[i], c, m) /\ c \notin gone
  BY <1>2, FreeActs DEF ResultIs
<1>5. CASE c \notin gone
  <2>1. \A kind \in Kinds : SameJobs(c, kind)
    BY <1>3, <1>5 DEF SameJobs, HasJob, OneJob, JobIs
  <2>2. \A m \in BOOLEAN : SameResults(c, m)
    BY <1>4, <1>5 DEF SameResults, HasResult, OneResult, ResultIs
  <2>3. Early(c)' <=> Early(c)
    BY <1>3, <1>5 DEF Early, JobIs
  <2> QED  BY <1>5, <2>1, <2>2, <2>3
<1>6. CASE c \in gone
  <2>1. \A kind \in Kinds : ~HasJob(c, kind)' /\ OneJob(c, kind)'
    BY <1>3, <1>6 DEF HasJob, OneJob, JobIs
  <2>2. \A m \in BOOLEAN : ~HasResult(c, m)' /\ OneResult(c, m)'
    BY <1>4, <1>6 DEF HasResult, OneResult, ResultIs
  <2>3. ~Early(c)'
    BY <1>3, <1>6 DEF Early, JobIs
  <2> QED  BY <1>6, <2>1, <2>2, <2>3
<1> QED  BY <1>5, <1>6

\* What that means for one column: it gets one more job of the kind, if picked.
Grows(c, k, picked, busy) ==
  /\ \A kind \in Kinds :
       /\ HasJob(c, kind)' <=> HasJob(c, kind) \/ (kind = k /\ c \in picked)
       /\ OneJob(c, kind) /\ ~(kind = k /\ c \in picked /\ HasJob(c, kind))
            => OneJob(c, kind)'
  /\ Early(c)' <=> Early(c) \/ (k = "generate" /\ c \in picked)
  /\ state'[c] = IF c \in picked THEN busy ELSE state[c]

\* A submit step adds one job of its kind for every column it picks.
LEMMA JobsAppended ==
  ASSUME TypeOK, NEW picked \in SUBSET Chunks, NEW busy,
         NEW jobOf, NEW k \in Kinds,
         \A d \in Chunks : jobOf[d].chunk = d /\ jobOf[d].kind = k,
         Appends(picked, busy, jobOf), UNCHANGED <<running, stage>>,
         NEW c \in Chunks
  PROVE  Grows(c, k, picked, busy)
<1>1. ASSUME NEW i \in DOMAIN queue'
      PROVE  \/ i \in DOMAIN queue /\ queue'[i] = queue[i]
             \/ /\ i \in DOMAIN queue' \ DOMAIN queue
                /\ queue'[i].chunk \in picked /\ queue'[i].kind = k
  BY DEF Appends
<1>2. c \in picked => \E i \in DOMAIN queue' \ DOMAIN queue : JobIs(queue'[i], c, k)
  BY DEF Appends, JobIs
<1>3. DOMAIN queue \subseteq DOMAIN queue' /\ \A i \in DOMAIN queue : queue'[i] = queue[i]
  BY DEF Appends
<1>4. \A i, j \in DOMAIN queue' \ DOMAIN queue :
        queue'[i].chunk = queue'[j].chunk => i = j
  BY DEF Appends
<1>5. ASSUME NEW kind \in Kinds
      PROVE  /\ HasJob(c, kind)' <=> HasJob(c, kind) \/ (kind = k /\ c \in picked)
             /\ OneJob(c, kind) /\ ~(kind = k /\ c \in picked /\ HasJob(c, kind))
                  => OneJob(c, kind)'
  <2>1. HasJob(c, kind)' <=> HasJob(c, kind) \/ (kind = k /\ c \in picked)
    BY <1>1, <1>2, <1>3 DEF HasJob, JobIs
  <2>2. ASSUME OneJob(c, kind), ~(kind = k /\ c \in picked /\ HasJob(c, kind))
        PROVE  OneJob(c, kind)'
    <3>1. ASSUME NEW i \in DOMAIN queue', NEW j \in DOMAIN queue',
                 JobIs(queue'[i], c, kind), JobIs(queue'[j], c, kind)
          PROVE  i = j
      <4>1. CASE i \in DOMAIN queue /\ j \in DOMAIN queue
        BY <1>3, <2>2, <3>1, <4>1 DEF OneJob
      <4>2. CASE i \notin DOMAIN queue /\ j \notin DOMAIN queue
        BY <1>4, <3>1, <4>2 DEF JobIs
      <4>3. CASE i \in DOMAIN queue /\ j \notin DOMAIN queue
        BY <1>1, <1>3, <2>2, <3>1, <4>3 DEF JobIs, HasJob
      <4>4. CASE i \notin DOMAIN queue /\ j \in DOMAIN queue
        BY <1>1, <1>3, <2>2, <3>1, <4>4 DEF JobIs, HasJob
      <4> QED  BY <4>1, <4>2, <4>3, <4>4
    <3>2. ASSUME NEW i \in DOMAIN queue', NEW w \in Workers,
                 JobIs(queue'[i], c, kind), JobIs(running[w], c, kind)
          PROVE  FALSE
      BY <1>1, <2>2, <3>2 DEF OneJob, HasJob, JobIs
    <3> QED  BY <2>2, <3>1, <3>2 DEF OneJob, JobIs
  <2> QED  BY <2>1, <2>2
<1>6. Early(c)' <=> Early(c) \/ (k = "generate" /\ c \in picked)
  BY <1>1, <1>2, <1>3 DEF Early, JobIs
<1>7. state'[c] = IF c \in picked THEN busy ELSE state[c]
  BY DEF Appends
<1> QED  BY <1>5, <1>6, <1>7 DEF Grows

LEMMA EarlyIsJob ==
  ASSUME NEW c PROVE Early(c) => HasJob(c, "generate")
BY DEF Early, HasJob

LEMMA JobsInit == Init => JobsInv
<1> SUFFICES ASSUME Init PROVE JobsInv
  OBVIOUS
<1>1. TypeOK
  BY InitTyped
<1>2. StageInv
  BY DEF Init, StageInv, Idle
<1>3. ASSUME NEW c \in Chunks PROVE ColumnInv(c)
  <2>1. \A kind \in Kinds : ~HasJob(c, kind) /\ OneJob(c, kind)
    BY <1>3, PipelineAssumption DEF Init, HasJob, OneJob, JobIs, Idle
  <2>2. \A m \in BOOLEAN : ~HasResult(c, m) /\ OneResult(c, m)
    BY DEF Init, HasResult, OneResult
  <2>3. state[c] = "absent"
    BY DEF Init
  <2> QED
    BY <2>1, <2>2, <2>3, EarlyIsJob
       DEF ColumnInv, GenerateInv, MeshInv, LightInv, FedInv, Kinds
<1> QED  BY <1>1, <1>2, <1>3 DEF JobsInv

LEMMA StageStep ==
  ASSUME TypeOK, StageInv, [Next]_vars
  PROVE  StageInv'
<1> USE DEF StageInv, chunkVars, updateVars, editVars, jobVars
<1>1. ASSUME NEW w \in Workers, NEW isMesh, NEW mesh, PushResult(w, isMesh, mesh)
      PROVE  \A v \in Workers : /\ stage'[v] = "idle" <=> running'[v] = Idle
                                /\ stage'[v] = "second" => running'[v].kind # "mesh"
  BY <1>1 DEF PushResult, TypeOK
<1>2. ASSUME NEW w \in Workers, TakeJob(w) PROVE StageInv'
  <2>1. Head(queue) \in Job
    BY <1>2 DEF TakeJob, TypeOK
  <2>2. Head(queue) # Idle
    BY <2>1 DEF Job, Idle
  <2> QED  BY <1>2, <2>2 DEF TakeJob, TypeOK
<1>3. ASSUME NEW w \in Workers, Generate(w) \/ LightPass(w) PROVE StageInv'
  <2>1. /\ stage[w] = "first" /\ running[w].kind \in {"generate", "light"}
        /\ stage' = [stage EXCEPT ![w] = "second"]
        /\ UNCHANGED <<running, phase, batch>>
    BY <1>3 DEF Generate, LightPass, Doing
  <2> QED  BY <2>1 DEF TypeOK
<1>4. ASSUME NEW w \in Workers, ApplyOverlay(w) \/ ConsumePending(w) \/ BuildMesh(w)
      PROVE  StageInv'
  <2>1. UNCHANGED <<phase, batch>>
    BY <1>4 DEF ApplyOverlay, ConsumePending, BuildMesh
  <2>2. \E isMesh, mesh : PushResult(w, isMesh, mesh)
    BY <1>4 DEF ApplyOverlay, ConsumePending, BuildMesh
  <2> QED  BY <1>1, <2>1, <2>2
<1>5. CASE BeginUpdate
  BY <1>5 DEF BeginUpdate
<1>6. CASE MeshArrives \/ MeshDiscarded \/ LitOrGenerated
  <2>1. phase = "results" /\ UNCHANGED <<phase, running, stage>>
    BY <1>6 DEF MeshArrives, MeshDiscarded, LitOrGenerated, Arrives
  <2> QED  BY <2>1
<1>7. ASSUME NEW gone \in SUBSET Chunks, Free(gone), UNCHANGED stage, batch = <<>>
      PROVE  StageInv'
  <2>1. batch' = <<>>
    <3>1. batch' \in Seq(Result) /\ DOMAIN batch' = DOMAIN batch
      BY <1>7, FreeActs
    <3>2. DOMAIN batch = {} /\ DOMAIN batch' = 1 .. Len(batch') /\ Len(batch') \in Nat
      BY <1>7, <3>1
    <3> QED  BY <3>1, <3>2
  <2> QED  BY <1>7, <2>1, FreeActs
<1>8. CASE Unload
  BY <1>7, <1>8 DEF Unload
<1>9. CASE SubmitStep
  <2>1. PICK picked \in SUBSET Chunks : Submits(picked)
    BY <1>9, SubmitSteps
  <2>2. UNCHANGED <<running, stage, batch>>
    BY <1>9, SubmitSteps
  <2>3. phase # "results"
    BY <2>1 DEF Submits
  <2> QED  BY <2>2, <2>3
<1>10. ASSUME NEW c \in Chunks, Evict(c) PROVE StageInv'
  BY <1>7, <1>10 DEF Evict
<1>11. CASE \/ Move \/ EndCopy
            \/ \E c \in Chunks : Ensure(c) \/ BeginCopy(c) \/ Insert(c)
            \/ \E e \in Edits : AcceptEdit(e) \/ SetBlock(e) \/ SetBlockRefused(e)
  BY <1>11 DEF Move, EndCopy, Ensure, BeginCopy, Insert, AcceptEdit, SetBlock,
               SetBlockRefused
<1>12. CASE UNCHANGED vars
  BY <1>12 DEF vars
<1> QED
  BY <1>2, <1>3, <1>4, <1>5, <1>6, <1>8, <1>9, <1>10, <1>11, <1>12, NextSplits
     DEF WorkerStep, Update, SubmitStep, OtherStep

\* The columns about which a step changes nothing that ColumnInv looks at.
LEMMA ColumnUntouched ==
  ASSUME NEW c, ColumnInv(c), state'[c] = state[c], UNCHANGED setting,
         \A kind \in Kinds : SameJobs(c, kind),
         \A m \in BOOLEAN : SameResults(c, m),
         Early(c)' <=> Early(c)
  PROVE  ColumnInv(c)'
BY DEF ColumnInv, GenerateInv, MeshInv, LightInv, FedInv, SameJobs, SameResults, Kinds

LEMMA WorkerColumn ==
  ASSUME JobsInv, NEW w \in Workers, WorkerStep(w), UNCHANGED setting,
         NEW c \in Chunks
  PROVE  ColumnInv(c)'
<1> USE DEF chunkVars, updateVars, editVars, jobVars
<1>1. TypeOK /\ StageInv /\ \A d \in Chunks : ColumnInv(d)
  BY DEF JobsInv
<1>2. CASE TakeJob(w)
  <2>1. UNCHANGED <<state, results, batch>>
    BY <1>2 DEF TakeJob
  <2> QED  BY <1>1, <1>2, <2>1, JobTaken, ResultsUntouched, ColumnUntouched DEF Kinds
<1>3. CASE Generate(w)
  <2> DEFINE d == running[w].chunk
  <2>1. /\ d \in Chunks /\ JobIs(running[w], d, "generate") /\ stage[w] = "first"
        /\ state' = [state EXCEPT ![d] = "generated"]
        /\ stage' = [stage EXCEPT ![w] = "second"]
        /\ UNCHANGED <<queue, running, results, batch>>
    BY <1>3 DEF Generate, Doing, JobIs
  <2> HIDE DEF d
  <2>2. (\A kind \in Kinds : SameJobs(c, kind)) /\ \A m \in BOOLEAN : SameResults(c, m)
    BY <2>1, JobsUntouched, ResultsUntouched
  <2>3. CASE c # d
    <3>1. state'[c] = state[c]
      BY <1>1, <2>1, <2>3 DEF TypeOK
    <3>2. ~JobIs(running[w], c, "generate")
      BY <2>1, <2>3 DEF JobIs
    <3>3. Early(c)' <=> Early(c)
      BY <1>1, <2>1, <3>2 DEF Early, JobIs, TypeOK
    <3> QED  BY <1>1, <2>2, <3>1, <3>3, ColumnUntouched
  <2>4. CASE c = d
    <3>1. state[c] = "generating" /\ ~setting.networkFed
      BY <1>1, <2>1, <2>4, EarlyIsJob DEF Early, ColumnInv, GenerateInv, FedInv
    <3>2. state'[c] = "generated"
      BY <1>1, <2>1, <2>4 DEF TypeOK
    <3>3. ~Early(c)'
      <4>1. OneJob(c, "generate")
        BY <1>1 DEF ColumnInv, GenerateInv
      <4>2. stage'[w] # "first"
        BY <1>1, <2>1 DEF TypeOK
      <4> QED  BY <2>1, <2>4, <4>1, <4>2 DEF Early, OneJob, JobIs
    <3> QED
      BY <1>1, <2>2, <3>1, <3>2, <3>3
         DEF ColumnInv, GenerateInv, MeshInv, LightInv, FedInv, SameJobs,
             SameResults, Kinds
  <2> QED  BY <2>3, <2>4
<1>4. ASSUME NEW kind \in Kinds, NEW part, NEW isMesh \in BOOLEAN, NEW mesh,
             Doing(w, kind, part), PushResult(w, isMesh, mesh),
             UNCHANGED <<state, queue, batch>>,
             kind = "mesh" <=> isMesh, kind = "generate" => part # "first"
      PROVE  ColumnInv(c)'
  <2>1. running[w].chunk \in Chunks /\ running[w].kind = kind /\ stage[w] = part
    BY <1>4 DEF Doing
  <2>2. \A k \in Kinds : JobIs(running[w], c, k) <=> k = kind /\ c = running[w].chunk
    BY <2>1 DEF JobIs
  <2>3. c = running[w].chunk => HasJob(c, kind)
    BY <2>2 DEF HasJob
  <2>4. setting.networkFed => kind # "generate"
    BY <1>1, <2>1 DEF ColumnInv, FedInv, HasJob, JobIs
  <2>5. Early(c)' <=> Early(c)
    BY <1>1, <1>4, <2>1, JobDone DEF JobIs
  <2>6. /\ \A k \in Kinds :
             /\ OneJob(c, k) => OneJob(c, k)'
             /\ HasJob(c, k)' => HasJob(c, k)
             /\ HasJob(c, k) => HasJob(c, k)' \/ JobIs(running[w], c, k)
             /\ OneJob(c, k) /\ JobIs(running[w], c, k) => ~HasJob(c, k)'
        /\ \A m \in BOOLEAN :
             /\ HasResult(c, m)'
                  <=> HasResult(c, m) \/ (m = isMesh /\ c = running[w].chunk)
             /\ OneResult(c, m) /\ ~(m = isMesh /\ c = running[w].chunk /\ HasResult(c, m))
                  => OneResult(c, m)'
    BY <1>1, <1>4, <2>1, JobDone
  <2>7. ColumnInv(c) /\ UNCHANGED <<state, setting>>
    BY <1>1, <1>4
  <2>8. GenerateInv(c)'
    BY <2>5, <2>6, <2>7 DEF ColumnInv, GenerateInv, Kinds
  <2>9. MeshInv(c)'
    BY <1>4, <2>2, <2>3, <2>6, <2>7 DEF ColumnInv, MeshInv, Kinds
  <2>10. LightInv(c)'
    BY <1>4, <2>2, <2>3, <2>6, <2>7 DEF ColumnInv, LightInv, Kinds
  <2>11. FedInv(c)'
    BY <1>4, <2>2, <2>3, <2>4, <2>6, <2>7 DEF ColumnInv, FedInv, Kinds
  <2> QED  BY <2>8, <2>9, <2>10, <2>11 DEF ColumnInv
<1>5. CASE ApplyOverlay(w)
  BY <1>4, <1>5 DEF ApplyOverlay, Kinds
<1>6. CASE ConsumePending(w)
  BY <1>4, <1>6 DEF ConsumePending, Kinds
<1>7. CASE BuildMesh(w)
  BY <1>4, <1>7 DEF BuildMesh, Kinds
<1>8. CASE LightPass(w)
  <2>1. /\ running[w].kind = "light" /\ stage' = [stage EXCEPT ![w] = "second"]
        /\ UNCHANGED <<state, queue, running, results, batch>>
    BY <1>8 DEF LightPass, Doing
  <2>2. Early(c)' <=> Early(c)
    BY <1>1, <2>1 DEF Early, JobIs, TypeOK
  <2> QED  BY <1>1, <2>1, <2>2, JobsUntouched, ResultsUntouched, ColumnUntouched
<1> QED  BY <1>2, <1>3, <1>5, <1>6, <1>7, <1>8 DEF WorkerStep

\* A column that is freed is not busy, so that nothing is under way for it but
\* what will never be processed.
LEMMA FreeColumn ==
  ASSUME JobsInv, NEW gone \in SUBSET Chunks, Free(gone), UNCHANGED <<stage, setting>>,
         NEW c \in Chunks
  PROVE  ColumnInv(c)'
<1>1. TypeOK /\ ColumnInv(c)
  BY DEF JobsInv
<1>2. state'[c] = IF c \in gone THEN "absent" ELSE state[c]
  BY DEF Free
<1>3. CASE c \notin gone
  BY <1>1, <1>2, <1>3, JobsOfFreed, ColumnUntouched
<1>4. CASE c \in gone
  <2>1. /\ \A kind \in Kinds : ~HasJob(c, kind)' /\ OneJob(c, kind)'
        /\ \A m \in BOOLEAN : ~HasResult(c, m)' /\ OneResult(c, m)'
        /\ ~Early(c)'
    BY <1>1, <1>4, JobsOfFreed
  <2> QED
    BY <1>2, <1>4, <2>1 DEF ColumnInv, GenerateInv, MeshInv, LightInv, FedInv, Kinds
<1> QED  BY <1>3, <1>4

LEMMA ArrivalColumn ==
  ASSUME JobsInv, MeshArrives \/ MeshDiscarded \/ LitOrGenerated, UNCHANGED setting,
         NEW c \in Chunks
  PROVE  ColumnInv(c)'
<1> DEFINE r == Head(batch)
<1>1. /\ TypeOK /\ \A d \in Chunks : ColumnInv(d)
      /\ Arrives(r) /\ r.chunk \in Chunks /\ r \in Result
      /\ UNCHANGED <<queue, running, stage>>
  BY DEF JobsInv, MeshArrives, MeshDiscarded, LitOrGenerated, Arrives, jobVars, TypeOK
<1>2. \/ r.isMesh /\ \E s \in {"ready", "lit"} : state' = [state EXCEPT ![r.chunk] = s]
      \/ ~r.isMesh /\ state' = IF state[r.chunk] = "lighting"
                                 THEN [state EXCEPT ![r.chunk] = "lit"] ELSE state
  BY DEF MeshArrives, MeshDiscarded, LitOrGenerated
<1>3. r.isMesh \in BOOLEAN
  BY <1>1 DEF Result
<1> HIDE DEF r
<1>4. /\ \A kind \in Kinds : SameJobs(c, kind)
      /\ Early(c)' <=> Early(c)
  BY <1>1, JobsUntouched
<1>5. \A m \in BOOLEAN :
        /\ OneResult(c, m) => OneResult(c, m)'
        /\ HasResult(c, m)' => HasResult(c, m)
        /\ HasResult(c, m) => HasResult(c, m)' \/ ResultIs(r, c, m)
        /\ OneResult(c, m) /\ ResultIs(r, c, m) => ~HasResult(c, m)'
        /\ ResultIs(r, c, m) => HasResult(c, m)
  BY <1>1, ResultGone
<1>6. \A m \in BOOLEAN : ResultIs(r, c, m) <=> c = r.chunk /\ r.isMesh = m
  BY DEF ResultIs
<1>7. CASE c # r.chunk
  <2>1. state'[c] = state[c]
    BY <1>1, <1>2, <1>7 DEF TypeOK
  <2>2. \A m \in BOOLEAN : SameResults(c, m)
    BY <1>5, <1>6, <1>7 DEF SameResults
  <2> QED  BY <1>1, <1>4, <2>1, <2>2, ColumnUntouched
<1>8. CASE c = r.chunk /\ r.isMesh
  <2>1. state[c] = "meshing" /\ ~HasJob(c, "mesh") /\ ~HasResult(c, TRUE)'
    BY <1>1, <1>5, <1>6, <1>8 DEF ColumnInv, MeshInv
  <2>2. state'[c] \in {"ready", "lit"}
    BY <1>1, <1>2, <1>8 DEF TypeOK
  <2> QED
    BY <1>1, <1>4, <1>5, <2>1, <2>2
       DEF ColumnInv, GenerateInv, MeshInv, LightInv, FedInv, SameJobs, Kinds
<1>9. CASE c = r.chunk /\ ~r.isMesh
  <2>1. HasResult(c, FALSE)
    BY <1>3, <1>5, <1>6, <1>9
  <2>2. state'[c] = IF state[c] = "lighting" THEN "lit" ELSE state[c]
    BY <1>1, <1>2, <1>9 DEF TypeOK
  <2>3. HasResult(c, TRUE)' <=> HasResult(c, TRUE)
    BY <1>5, <1>6, <1>9
  <2>4. GenerateInv(c)' /\ MeshInv(c)'
    BY <1>1, <1>4, <1>5, <2>2, <2>3 DEF ColumnInv, GenerateInv, MeshInv, SameJobs, Kinds
  <2>5. LightInv(c)'
    BY <2>2 DEF LightInv
  <2>6. FedInv(c)'
    BY <1>1, <1>3, <1>4, <1>5, <1>6, <1>9, <2>1, <2>2 DEF ColumnInv, FedInv, SameJobs, Kinds
  <2> QED  BY <2>4, <2>5, <2>6 DEF ColumnInv
<1> QED  BY <1>3, <1>7, <1>8, <1>9

LEMMA SubmitColumn ==
  ASSUME JobsInv, SubmitStep, UNCHANGED setting, NEW c \in Chunks
  PROVE  ColumnInv(c)'
<1>1. TypeOK /\ ColumnInv(c)
  BY DEF JobsInv
<1>2. UNCHANGED <<running, stage, results, batch>>
  BY <1>1, SubmitSteps
<1>3. PICK picked \in SUBSET Chunks : Submits(picked)
  BY <1>1, SubmitSteps
<1>4. \A m \in BOOLEAN : SameResults(c, m)
  BY <1>2, ResultsUntouched
<1>5. ASSUME NEW busy, NEW jobOf, NEW k \in Kinds, Appends(picked, busy, jobOf),
             \A d \in Chunks : jobOf[d].chunk = d /\ jobOf[d].kind = k
      PROVE  Grows(c, k, picked, busy)
  <2>2. UNCHANGED <<running, stage>>
    BY <1>2
  <2> QED  BY <1>1, <1>5, <2>2, JobsAppended, Zenon
<1>6. CASE /\ Appends(picked, "generating", GenerateJob)
           /\ \A d \in picked : ~setting.networkFed /\ state[d] = "absent"
  <2>1. Grows(c, "generate", picked, "generating")
    BY <1>5, <1>6, JobsOfColumns DEF Kinds
  <2> QED
    BY <1>1, <1>4, <1>6, <2>1
       DEF Grows, ColumnInv, GenerateInv, MeshInv, LightInv, FedInv, SameResults, Kinds
<1>7. CASE /\ Appends(picked, "lighting", LightJob)
           /\ \A d \in picked : state[d] \in {"generated", "lit"}
  <2>1. Grows(c, "light", picked, "lighting")
    BY <1>5, <1>7, JobsOfColumns DEF Kinds
  <2> QED
    BY <1>1, <1>4, <1>7, <2>1
       DEF Grows, ColumnInv, GenerateInv, MeshInv, LightInv, FedInv, SameResults, Kinds
<1>8. CASE /\ Appends(picked, "meshing", MeshJob)
           /\ \A d \in picked : state[d] \in {"lit", "ready"}
  <2>1. Grows(c, "mesh", picked, "meshing")
    BY <1>5, <1>8, JobsOfColumns DEF Kinds
  <2> QED
    BY <1>1, <1>4, <1>8, <2>1
       DEF Grows, ColumnInv, GenerateInv, MeshInv, LightInv, FedInv, SameResults, Kinds
<1> QED  BY <1>3, <1>6, <1>7, <1>8 DEF Submits

LEMMA JobsStep == ASSUME JobsInv, [Next]_vars PROVE JobsInv'
<1> USE DEF chunkVars, updateVars, editVars, jobVars
<1>1. TypeOK /\ StageInv /\ \A d \in Chunks : ColumnInv(d)
  BY DEF JobsInv
<1>2. TypeOK' /\ StageInv'
  BY <1>1, StepTyped, StageStep
<1>3. ASSUME NEW c \in Chunks PROVE ColumnInv(c)'
  <2>1. ASSUME NEW w \in Workers, WorkerStep(w), UNCHANGED setting PROVE ColumnInv(c)'
    BY <2>1, WorkerColumn
  <2>2. CASE BeginUpdate /\ UNCHANGED setting
    <3>1. UNCHANGED <<state, queue, running, stage>>
      BY <2>2 DEF BeginUpdate
    <3> QED  BY <1>1, <2>2, <3>1, JobsUntouched, ResultsTaken, ColumnUntouched
  <2>3. CASE (MeshArrives \/ MeshDiscarded \/ LitOrGenerated) /\ UNCHANGED setting
    BY <2>3, ArrivalColumn
  <2>4. CASE Unload /\ UNCHANGED setting
    BY <2>4, FreeColumn DEF Unload
  <2>5. CASE SubmitStep /\ UNCHANGED setting
    BY <2>5, SubmitColumn
  <2>6. ASSUME UNCHANGED <<state, queue, running, stage, results, batch, setting>>
        PROVE  ColumnInv(c)'
    BY <1>1, <2>6, JobsUntouched, ResultsUntouched, ColumnUntouched
  <2>7. CASE OtherStep /\ UNCHANGED setting
    <3>1. CASE \/ Move \/ EndCopy \/ \E d \in Chunks : BeginCopy(d)
               \/ \E e \in Edits : AcceptEdit(e) \/ SetBlock(e) \/ SetBlockRefused(e)
      BY <2>6, <2>7, <3>1 DEF Move, EndCopy, BeginCopy, AcceptEdit, SetBlock,
                              SetBlockRefused
    <3>2. ASSUME NEW d \in Chunks, Ensure(d) \/ Insert(d) PROVE ColumnInv(c)'
      <4>1. /\ state' = [state EXCEPT ![d] = "generated"]
            /\ UNCHANGED <<queue, running, stage, results, batch>>
            /\ \/ state[d] = "absent" /\ ~setting.networkFed
               \/ state[d] \notin {"lighting", "meshing"} /\ setting.networkFed
        BY <3>2 DEF Ensure, Insert
      <4>2. /\ \A kind \in Kinds : SameJobs(c, kind)
            /\ \A m \in BOOLEAN : SameResults(c, m)
            /\ Early(c)' <=> Early(c)
        BY <4>1, JobsUntouched, ResultsUntouched
      <4>3. CASE c = d
        <5>1. state'[c] = "generated"
          BY <1>1, <4>1, <4>3 DEF TypeOK
        <5>2. ~Early(c)
          BY <1>1, <4>1, <4>3, EarlyIsJob DEF ColumnInv, GenerateInv, FedInv
        <5> QED
          BY <1>1, <2>7, <4>1, <4>2, <4>3, <5>1, <5>2
             DEF ColumnInv, GenerateInv, MeshInv, LightInv, FedInv, SameJobs,
                 SameResults, Kinds
      <4>4. CASE c # d
        <5>1. state'[c] = state[c]
          BY <1>1, <4>1, <4>4 DEF TypeOK
        <5> QED  BY <1>1, <2>7, <4>2, <5>1, ColumnUntouched
      <4> QED  BY <4>3, <4>4
    <3>3. ASSUME NEW d \in Chunks, Evict(d) PROVE ColumnInv(c)'
      <4>1. Free({d}) /\ UNCHANGED <<stage, setting>> /\ {d} \in SUBSET Chunks
        BY <2>7, <3>3 DEF Evict
      <4> QED  BY <4>1, FreeColumn
    <3> QED  BY <2>7, <3>1, <3>2, <3>3 DEF OtherStep
  <2>8. CASE UNCHANGED vars
    BY <2>6, <2>8 DEF vars
  <2> QED
    BY <2>1, <2>2, <2>3, <2>4, <2>5, <2>7, <2>8, NextSplits DEF Update, SubmitStep
<1> QED  BY <1>2, <1>3 DEF JobsInv

-----------------------------------------------------------------------------
(* Jobs and column states.                                                 *)

LEMMA AtMostOne ==
  ASSUME NEW S, \A x, y \in S : x = y
  PROVE  Cardinality(S) = IF S = {} THEN 0 ELSE 1
<1>1. CASE S = {}
  BY <1>1, FS_EmptySet
<1>2. ASSUME NEW x \in S PROVE Cardinality(S) = 1 /\ S # {}
  <2>1. S = {x}
    OBVIOUS
  <2> QED  BY <2>1, FS_Singleton
<1> QED  BY <1>1, <1>2

\* The jobs and results of ChunkPipeline's properties are those counted here.
LEMMA JobsForActs ==
  ASSUME NEW c, NEW kind
  PROVE  /\ JobsFor(c, kind) # {} <=> HasJob(c, kind)
         /\ OneJob(c, kind) => \A x, y \in JobsFor(c, kind) : x = y
<1>1. \A x : x \in JobsFor(c, kind)
               <=> \/ \E i \in DOMAIN queue : JobIs(queue[i], c, kind) /\ x = <<"queue", i>>
                   \/ \E w \in Workers : JobIs(running[w], c, kind) /\ x = <<"worker", w>>
  BY DEF JobsFor, JobIs
<1>2. JobsFor(c, kind) # {} <=> HasJob(c, kind)
  BY <1>1 DEF HasJob
<1>3. ASSUME OneJob(c, kind), NEW x \in JobsFor(c, kind), NEW y \in JobsFor(c, kind)
      PROVE  x = y
  BY <1>1, <1>3 DEF OneJob
<1> QED  BY <1>2, <1>3

LEMMA ResultsForActs ==
  ASSUME NEW c, NEW m
  PROVE  /\ ResultsFor(c, m) # {} <=> HasResult(c, m)
         /\ OneResult(c, m) => \A x, y \in ResultsFor(c, m) : x = y
<1>1. \A x : x \in ResultsFor(c, m)
               <=> \/ \E i \in DOMAIN results :
                        ResultIs(results[i], c, m) /\ x = <<"result", i>>
                   \/ \E i \in DOMAIN batch :
                        ResultIs(batch[i], c, m) /\ x = <<"batch", i>>
  BY DEF ResultsFor, ResultIs
<1>2. ResultsFor(c, m) # {} <=> HasResult(c, m)
  BY <1>1 DEF HasResult
<1>3. ASSUME OneResult(c, m), NEW x \in ResultsFor(c, m), NEW y \in ResultsFor(c, m)
      PROVE  x = y
  BY <1>1, <1>3 DEF OneResult
<1> QED  BY <1>2, <1>3

\* The bookkeeping that JobsMatchStates rests on: every job and result is the
\* one its column waits for, be it queued, with a worker, or in a result list.
LEMMA JobsInvariant == Spec => []JobsInv
<1>1. Init => JobsInv
  BY JobsInit
<1>2. JobsInv /\ [Next]_vars => JobsInv'
  BY JobsStep
<1> QED  BY <1>1, <1>2, PTL DEF Spec

LEMMA JobsInvAgrees == JobsInv => JobsMatchStates
<1> SUFFICES ASSUME JobsInv, NEW c \in Chunks
             PROVE  /\ state[c] = "generating" => Cardinality(JobsFor(c, "generate")) = 1
                    /\ state[c] = "lighting" => Underway(c, "light") # {}
                    /\ Cardinality(Underway(c, "mesh"))
                         = IF state[c] = "meshing" THEN 1 ELSE 0
                    /\ setting.networkFed =>
                         Cardinality(JobsFor(c, "light"))
                           <= IF state[c] = "lighting" THEN 1 ELSE 0
  BY Zenon DEF JobsMatchStates, BusyMeansJob, LightOwnsColumn
<1>1. GenerateInv(c) /\ MeshInv(c) /\ LightInv(c) /\ FedInv(c)
  BY DEF JobsInv, ColumnInv
<1>2. state[c] = "generating" => Cardinality(JobsFor(c, "generate")) = 1
  BY <1>1, EarlyIsJob, JobsForActs, AtMostOne DEF GenerateInv
<1>3. state[c] = "lighting" => Underway(c, "light") # {}
  <2>1. Underway(c, "light") = JobsFor(c, "light") \cup ResultsFor(c, FALSE)
    BY DEF Underway
  <2>2. /\ JobsFor(c, "light") # {} <=> HasJob(c, "light")
        /\ ResultsFor(c, FALSE) # {} <=> HasResult(c, FALSE)
    BY JobsForActs, ResultsForActs, Zenon
  <2> QED  BY <1>1, <2>1, <2>2 DEF LightInv
<1>4. Cardinality(Underway(c, "mesh")) = IF state[c] = "meshing" THEN 1 ELSE 0
  <2>1. Underway(c, "mesh") = JobsFor(c, "mesh") \cup ResultsFor(c, TRUE)
    BY DEF Underway
  <2>2. /\ JobsFor(c, "mesh") # {} <=> HasJob(c, "mesh")
        /\ ResultsFor(c, TRUE) # {} <=> HasResult(c, TRUE)
        /\ \A x, y \in JobsFor(c, "mesh") : x = y
        /\ \A x, y \in ResultsFor(c, TRUE) : x = y
    BY <1>1, JobsForActs, ResultsForActs, Zenon DEF MeshInv
  <2>3. \A x, y \in Underway(c, "mesh") : x = y
    BY <1>1, <2>1, <2>2 DEF MeshInv
  <2>4. Underway(c, "mesh") = {} <=> state[c] # "meshing"
    BY <1>1, <2>1, <2>2 DEF MeshInv
  <2> QED  BY <2>3, <2>4, AtMostOne
<1>5. setting.networkFed =>
        Cardinality(JobsFor(c, "light")) <= IF state[c] = "lighting" THEN 1 ELSE 0
  <2>1. /\ JobsFor(c, "light") # {} <=> HasJob(c, "light")
        /\ OneJob(c, "light") => \A x, y \in JobsFor(c, "light") : x = y
    BY JobsForActs, Zenon
  <2>2. ASSUME setting.networkFed
        PROVE  \/ Cardinality(JobsFor(c, "light")) = 0
               \/ Cardinality(JobsFor(c, "light")) = 1 /\ state[c] = "lighting"
    <3>1. \A x, y \in JobsFor(c, "light") : x = y
      BY <1>1, <2>1, <2>2 DEF FedInv
    <3>2. Cardinality(JobsFor(c, "light")) = IF JobsFor(c, "light") = {} THEN 0 ELSE 1
      BY <3>1, AtMostOne, Zenon
    <3>3. JobsFor(c, "light") # {} => state[c] = "lighting"
      BY <1>1, <2>1, <2>2 DEF FedInv
    <3> QED  BY <3>2, <3>3
  <2> QED  BY <2>2
<1> QED  BY <1>2, <1>3, <1>4, <1>5

\* world.c's assert-like rules: a column that is GENERATING, LIGHTING or
\* MESHING has the job that ends that state, is meshed by one worker at a time,
\* and at a remote client is lit by one worker, while it is LIGHTING.
THEOREM JobsAndStatesAgree == Spec => []JobsMatchStates
BY JobsInvariant, JobsInvAgrees, PTL

-----------------------------------------------------------------------------
(* Who changes blocks.                                                     *)

\* Columns are freed only when nobody is supposed to own them.
LEMMA FreedColumns ==
  ASSUME TypeOK, Unload \/ \E d \in Chunks : Evict(d)
  PROVE  \E gone \in SUBSET Chunks : Free(gone) /\ \A c \in gone : ~Busy(c)
<1>1. CASE Unload
  <2>1. Free({d \in Chunks \ setting.kept[place] : ~Busy(d)})
    BY <1>1 DEF Unload
  <2> QED  BY <2>1
<1>2. ASSUME NEW d \in Chunks, Evict(d)
      PROVE  \E gone \in SUBSET Chunks : Free(gone) /\ \A c \in gone : ~Busy(c)
  <2>1. Free({d}) /\ ~Busy(d)
    BY <1>2 DEF Evict
  <2> QED  BY <2>1
<1> QED  BY <1>1, <1>2

\* What freeing does to one column.
LEMMA FreedColumn ==
  ASSUME TypeOK, NEW gone \in SUBSET Chunks, Free(gone), NEW c \in Chunks
  PROVE  /\ c \in gone => state'[c] = "absent" /\ edited' \cap On(c) = {}
         /\ c \notin gone => /\ state'[c] = state[c] /\ dirty'[c] = dirty[c]
                             /\ blocks'[c] = blocks[c] /\ shown'[c] = shown[c]
         /\ edited' \subseteq edited
<1>1. /\ state' = [d \in Chunks |-> IF d \in gone THEN "absent" ELSE state[d]]
      /\ dirty' = [d \in Chunks |-> IF d \in gone THEN FALSE ELSE dirty[d]]
      /\ blocks' = [d \in Chunks |-> IF d \in gone THEN {} ELSE blocks[d]]
      /\ shown' = [d \in Chunks |-> IF d \in gone THEN {} ELSE shown[d]]
      /\ edited' = {e \in edited : Home[e] \notin gone}
  BY DEF Free
<1> QED  BY <1>1 DEF On

\* The worker that has a column's generate job changes its blocks, or somebody
\* who holds the mutex and finds the column neither LIGHTING nor MESHING.
LEMMA WhoWrites ==
  ASSUME TypeOK, [Next]_vars, NEW c \in Chunks, blocks'[c] # blocks[c]
  PROVE  HasJob(c, "generate") \/ state[c] \notin {"lighting", "meshing"}
<1> USE DEF chunkVars, updateVars, editVars, jobVars
<1>1. ASSUME NEW w \in Workers, WorkerStep(w) PROVE HasJob(c, "generate")
  <2>1. Generate(w) \/ ApplyOverlay(w)
    BY <1>1 DEF WorkerStep, TakeJob, LightPass, ConsumePending, BuildMesh
  <2>2. running[w].kind = "generate" /\ running[w].chunk = c
    BY <2>1 DEF Generate, ApplyOverlay, Doing, TypeOK
  <2> QED  BY <2>2 DEF HasJob, JobIs
<1>2. ASSUME Unload \/ \E d \in Chunks : Evict(d)
      PROVE  state[c] \notin {"lighting", "meshing"}
  BY <1>2, FreedColumns, FreedColumn DEF Busy
<1>3. ~(BeginUpdate \/ MeshArrives \/ MeshDiscarded \/ LitOrGenerated \/ SubmitStep)
  BY SubmitSteps DEF BeginUpdate, MeshArrives, MeshDiscarded, LitOrGenerated, Arrives
<1>4. CASE OtherStep
  <2>1. ASSUME NEW d \in Chunks, Ensure(d) \/ Insert(d)
        PROVE  state[c] \notin {"lighting", "meshing"}
    <3>1. \E S : blocks' = [blocks EXCEPT ![d] = S]
      BY <2>1 DEF Ensure, Insert
    <3>2. d = c
      BY <3>1 DEF TypeOK
    <3> QED  BY <2>1, <3>2 DEF Ensure, Insert
  <2>2. ASSUME NEW e \in Edits, SetBlock(e)
        PROVE  state[c] \notin {"lighting", "meshing"}
    <3>1. Home[e] = c
      BY <2>2 DEF SetBlock, TypeOK
    <3> QED  BY <2>2, <3>1 DEF SetBlock, Writable, Busy
  <2> QED
    BY <1>2, <1>4, <2>1, <2>2
       DEF OtherStep, Move, EndCopy, BeginCopy, AcceptEdit, SetBlockRefused
<1>5. ~UNCHANGED vars
  BY DEF vars
<1> QED
  BY <1>1, <1>2, <1>3, <1>4, <1>5, NextSplits DEF Update, SubmitStep

\* The blocks of a remote client's column do not change while a worker lights
\* or meshes it: world_insert_network_chunk, world_evict_chunk and
\* world_set_block trust the column's state, and JobsInv says they may.
THEOREM SafeWriteProved == Spec => SafeWrite
<1>1. ASSUME JobsInv, [Next]_vars, NEW c \in Chunks, setting.networkFed,
             blocks'[c] # blocks[c]
      PROVE  JobsFor(c, "light") \cup JobsFor(c, "mesh") = {}
  <2>1. TypeOK /\ MeshInv(c) /\ FedInv(c)
    BY <1>1 DEF JobsInv, ColumnInv
  <2>2. state[c] \notin {"lighting", "meshing"}
    BY <1>1, <2>1, WhoWrites DEF FedInv
  <2>3. ~HasJob(c, "light") /\ ~HasJob(c, "mesh")
    BY <1>1, <2>1, <2>2 DEF FedInv, MeshInv
  <2>4. JobsFor(c, "light") = {} /\ JobsFor(c, "mesh") = {}
    BY <2>3, JobsForActs, Zenon
  <2> QED  BY <2>4
<1>2. JobsInv /\ [Next]_vars
        => [\A c \in Chunks :
              setting.networkFed /\ blocks'[c] # blocks[c]
                => JobsFor(c, "light") \cup JobsFor(c, "mesh") = {}]_vars
  BY <1>1, Zenon
<1> QED  BY <1>2, JobsInvariant, PTL DEF Spec, SafeWrite

-----------------------------------------------------------------------------
(* Edits reach the meshes.                                                 *)

\* The changes that the mesh of c has to show.
EditsOf(c) == edited \cap (On(c) \cup Bordering(c))

\* A mesh job with these slices, or a mesh built from these edits, is under way.
HasSlices(c, s) ==
  \/ \E i \in DOMAIN queue : JobIs(queue[i], c, "mesh") /\ queue[i].slices = s
  \/ \E w \in Workers : JobIs(running[w], c, "mesh") /\ running[w].slices = s
HasMesh(c, m) ==
  \/ \E i \in DOMAIN results : ResultIs(results[i], c, TRUE) /\ results[i].mesh = m
  \/ \E i \in DOMAIN batch : ResultIs(batch[i], c, TRUE) /\ batch[i].mesh = m

\* A change by world_set_block stays in the blocks of its column; a column that
\* is absent or being generated has none.
Landed(c) ==
  /\ edited \cap On(c) \subseteq blocks[c]
  /\ state[c] \in {"absent", "generating"} => edited \cap On(c) = {}

\* Until the column is marked again, what it shows, the mesh that is on its way
\* and the mesh that a job will build have all these changes.
MeshFollows(c) ==
  ~dirty[c] =>
    /\ state[c] = "ready" => EditsOf(c) \subseteq shown[c]
    /\ \A s : HasSlices(c, s) => EditsOf(c) \subseteq blocks[c] \cup s
    /\ \A m : HasMesh(c, m) => EditsOf(c) \subseteq m

EditsInv == JobsInv /\ \A c \in Chunks : Landed(c) /\ MeshFollows(c)

LEMMA MeshesAreJobs ==
  ASSUME NEW c
  PROVE  /\ \A s : HasSlices(c, s) => HasJob(c, "mesh")
         /\ \A m : HasMesh(c, m) => HasResult(c, TRUE)
BY DEF HasSlices, HasMesh, HasJob, HasResult

\* A column that is not MESHING and does not become ready has no mesh to follow.
LEMMA NoMeshFollows ==
  ASSUME JobsInv', NEW c \in Chunks, state'[c] \notin {"meshing", "ready"}
  PROVE  MeshFollows(c)'
<1>1. state'[c] \notin {"meshing", "ready"} /\ MeshInv(c)'
  BY DEF JobsInv, ColumnInv
<1>2. ~HasJob(c, "mesh")' /\ ~HasResult(c, TRUE)'
  BY <1>1 DEF MeshInv
<1>3. /\ \A s : HasSlices(c, s)' => HasJob(c, "mesh")'
      /\ \A m : HasMesh(c, m)' => HasResult(c, TRUE)'
  BY DEF HasSlices, HasMesh, HasJob, HasResult
<1> QED  BY <1>1, <1>2, <1>3 DEF MeshFollows

\* The meshes of c stay behind no change: no new job, mesh or change.
LEMMA FollowsOn ==
  ASSUME NEW c \in Chunks, MeshFollows(c),
         dirty[c] => dirty'[c], blocks[c] \subseteq blocks'[c],
         edited' \cap (On(c) \cup Bordering(c)) \subseteq EditsOf(c),
         \A s : HasSlices(c, s)' => HasSlices(c, s),
         \A m : HasMesh(c, m)' => HasMesh(c, m),
         state'[c] = "ready" => state[c] = "ready" /\ shown'[c] = shown[c]
  PROVE  MeshFollows(c)'
<1>1. EditsOf(c)' \subseteq EditsOf(c)
  BY DEF EditsOf, On, Bordering
<1> QED  BY <1>1 DEF MeshFollows

LEMMA WorkerMeshes ==
  ASSUME TypeOK, StageInv, NEW w \in Workers, WorkerStep(w), NEW c \in Chunks
  PROVE  /\ \A s : HasSlices(c, s)' => HasSlices(c, s)
         /\ \A m : HasMesh(c, m)' =>
              \/ HasMesh(c, m)
              \/ \E s : HasSlices(c, s) /\ m = blocks[c] \cup s
<1> USE DEF updateVars
<1>1. \A v \in Workers \ {w} : running'[v] = running[v]
  BY DEF WorkerStep, TakeJob, Generate, ApplyOverlay, LightPass, ConsumePending,
         BuildMesh, PushResult, TypeOK
<1>2. CASE TakeJob(w)
  <2>1. queue \in Seq(Job) /\ queue # <<>> /\ queue' = Tail(queue)
        /\ running'[w] = Head(queue) /\ UNCHANGED <<results, batch>>
    BY <1>2 DEF TakeJob, TypeOK
  <2>2. /\ running'[w] = queue[1] /\ 1 \in DOMAIN queue
        /\ \A i \in DOMAIN queue' : queue'[i] = queue[i + 1] /\ i + 1 \in DOMAIN queue
    BY <2>1, SeqTail
  <2>3. \A s : HasSlices(c, s)' => HasSlices(c, s)
    BY <1>1, <2>2 DEF HasSlices
  <2> QED  BY <2>1, <2>3 DEF HasMesh
<1>3. CASE Generate(w) \/ LightPass(w)
  BY <1>3 DEF Generate, LightPass, HasSlices, HasMesh
<1>4. CASE ApplyOverlay(w) \/ ConsumePending(w) \/ BuildMesh(w)
  <2>1. /\ running'[w] = Idle /\ UNCHANGED <<queue, batch>>
        /\ results \in Seq(Result)
    BY <1>4 DEF ApplyOverlay, ConsumePending, BuildMesh, PushResult, TypeOK
  <2>2. \A s : HasSlices(c, s)' => HasSlices(c, s)
    BY <1>1, <2>1 DEF HasSlices, JobIs, Idle
  <2>3. PICK m1 \in SUBSET Edits, b \in BOOLEAN :
          /\ results' = <<[isMesh |-> b, chunk |-> running[w].chunk, mesh |-> m1]>>
                          \o results
          /\ b => JobIs(running[w], running[w].chunk, "mesh")
                  /\ running[w].chunk \in Chunks
                  /\ m1 = blocks[running[w].chunk] \cup running[w].slices
    <3>1. CASE ApplyOverlay(w) \/ ConsumePending(w)
      <4>1. PushResult(w, FALSE, {})
        BY <3>1 DEF ApplyOverlay, ConsumePending
      <4> QED  BY <4>1 DEF PushResult
    <3>2. CASE BuildMesh(w)
      <4>1. /\ PushResult(w, TRUE, blocks[running[w].chunk] \cup running[w].slices)
            /\ running[w].chunk \in Chunks /\ running[w].kind = "mesh"
        BY <3>2 DEF BuildMesh, Doing
      <4>2. blocks[running[w].chunk] \cup running[w].slices \in SUBSET Edits
        BY <4>1 DEF TypeOK, Job, Idle
      <4> QED  BY <4>1, <4>2 DEF PushResult, JobIs
    <3> QED  BY <1>4, <3>1, <3>2
  <2> DEFINE new == [isMesh |-> b, chunk |-> running[w].chunk, mesh |-> m1]
  <2>4. new.isMesh = b /\ new.chunk = running[w].chunk /\ new.mesh = m1
    OBVIOUS
  <2> HIDE DEF new
  <2>5. \A i \in DOMAIN results' : results'[i] = new
                                   \/ \E j \in DOMAIN results : results'[i] = results[j]
    BY <2>1, <2>3 DEF new
  <2>6. ASSUME NEW m, HasMesh(c, m)', ~HasMesh(c, m)
        PROVE  \E s : HasSlices(c, s) /\ m = blocks[c] \cup s
    <3>1. ResultIs(new, c, TRUE) /\ new.mesh = m
      BY <2>1, <2>5, <2>6 DEF HasMesh
    <3>2. c = running[w].chunk /\ b /\ m = m1
      BY <2>4, <3>1 DEF ResultIs
    <3> QED  BY <2>3, <3>2 DEF HasSlices
  <2> QED  BY <2>2, <2>6
<1> QED  BY <1>2, <1>3, <1>4 DEF WorkerStep

LEMMA FreedMeshes ==
  ASSUME TypeOK, NEW gone \in SUBSET Chunks, Free(gone), NEW c \in Chunks
  PROVE  /\ \A s : HasSlices(c, s)' => HasSlices(c, s)
         /\ \A m : HasMesh(c, m)' => HasMesh(c, m)
<1>1. \A d : Redirected(d, gone) = c => d = c
  BY PipelineAssumption DEF Redirected
<1>2. ASSUME NEW s, HasSlices(c, s)' PROVE HasSlices(c, s)
  <2>1. /\ DOMAIN queue' = DOMAIN queue
        /\ \A i \in DOMAIN queue :
             /\ JobIs(queue'[i], c, "mesh") => JobIs(queue[i], c, "mesh")
             /\ queue'[i].slices = queue[i].slices
        /\ \A w \in Workers :
             /\ JobIs(running'[w], c, "mesh") => JobIs(running[w], c, "mesh")
             /\ running'[w].slices = running[w].slices
    BY <1>1, FreeActs DEF JobIs
  <2> QED  BY <1>2, <2>1 DEF HasSlices
<1>3. ASSUME NEW m, HasMesh(c, m)' PROVE HasMesh(c, m)
  <2>1. /\ DOMAIN results' = DOMAIN results /\ DOMAIN batch' = DOMAIN batch
        /\ \A i \in DOMAIN results :
             /\ ResultIs(results'[i], c, TRUE) => ResultIs(results[i], c, TRUE)
             /\ results'[i].mesh = results[i].mesh
        /\ \A i \in DOMAIN batch :
             /\ ResultIs(batch'[i], c, TRUE) => ResultIs(batch[i], c, TRUE)
             /\ batch'[i].mesh = batch[i].mesh
    BY <1>1, FreeActs DEF ResultIs
  <2> QED  BY <1>3, <2>1 DEF HasMesh
<1> QED  BY <1>2, <1>3

OnlyMeshes(picked, jobOf, c) ==
  \A s : HasSlices(c, s)' =>
    \/ HasSlices(c, s)
    \/ c \in picked /\ jobOf[c].kind = "mesh" /\ s = jobOf[c].slices

LEMMA SubmittedMeshes ==
  ASSUME TypeOK, NEW picked \in SUBSET Chunks, NEW busy, NEW jobOf,
         \A d \in Chunks : jobOf[d].chunk = d,
         Appends(picked, busy, jobOf), UNCHANGED running,
         NEW c \in Chunks
  PROVE  OnlyMeshes(picked, jobOf, c)
<1>1. \A i \in DOMAIN queue' : \/ i \in DOMAIN queue /\ queue'[i] = queue[i]
                               \/ \E d \in picked : queue'[i] = jobOf[d]
  BY DEF Appends
<1> QED  BY <1>1 DEF OnlyMeshes, HasSlices, JobIs

LEMMA EditsInit == Init => EditsInv
<1> SUFFICES ASSUME Init, NEW c \in Chunks PROVE Landed(c) /\ MeshFollows(c)
  BY JobsInit DEF EditsInv
<1>1. Landed(c) /\ EditsOf(c) = {}
  BY DEF Init, Landed, EditsOf
<1> QED  BY <1>1 DEF MeshFollows

\* A change is made only to a column whose generation is over; it leaves the
\* blocks only with the column, or with a whole new column from the server.
LEMMA LandedStep ==
  ASSUME EditsInv, [Next]_vars, NEW c \in Chunks
  PROVE  Landed(c)'
<1> USE DEF chunkVars, updateVars, editVars, jobVars
<1>1. TypeOK /\ Landed(c) /\ GenerateInv(c)
  BY DEF EditsInv, JobsInv, ColumnInv
<1>2. ASSUME blocks[c] \subseteq blocks'[c], edited' \cap On(c) \subseteq edited,
             state'[c] \in {"absent", "generating"}
               => state[c] \in {"absent", "generating"}
      PROVE  Landed(c)'
  BY <1>1, <1>2 DEF Landed, On
<1>3. ASSUME NEW w \in Workers, WorkerStep(w) PROVE Landed(c)'
  <2>1. CASE Generate(w) /\ running[w].chunk = c
    <3>1. Early(c) /\ state'[c] = "generated" /\ UNCHANGED edited
      BY <1>1, <2>1 DEF Generate, Doing, Early, JobIs, TypeOK
    <3>2. edited \cap On(c) = {}
      BY <1>1, <3>1 DEF GenerateInv, Landed
    <3> QED  BY <3>1, <3>2 DEF Landed, On
  <2>2. CASE Generate(w) /\ running[w].chunk # c
    BY <1>1, <1>2, <2>2 DEF Generate, TypeOK
  <2>3. CASE ApplyOverlay(w)
    <3>1. blocks[c] \subseteq blocks'[c] /\ UNCHANGED <<state, edited>>
      BY <1>1, <2>3 DEF ApplyOverlay, TypeOK
    <3> QED  BY <1>2, <3>1
  <2>4. CASE TakeJob(w) \/ LightPass(w) \/ ConsumePending(w) \/ BuildMesh(w)
    BY <1>2, <2>4 DEF TakeJob, LightPass, ConsumePending, BuildMesh
  <2> QED  BY <1>3, <2>1, <2>2, <2>3, <2>4 DEF WorkerStep
<1>4. CASE BeginUpdate \/ MeshArrives \/ MeshDiscarded \/ LitOrGenerated
  <2>1. UNCHANGED <<blocks, edited>>
    BY <1>4 DEF BeginUpdate, MeshArrives, MeshDiscarded, LitOrGenerated, Arrives
  <2>2. state'[c] \in {state[c], "ready", "lit"}
    BY <1>1, <1>4
       DEF BeginUpdate, MeshArrives, MeshDiscarded, LitOrGenerated, TypeOK
  <2> QED  BY <1>2, <2>1, <2>2
<1>5. CASE Unload \/ \E d \in Chunks : Evict(d)
  <2>1. PICK gone \in SUBSET Chunks : Free(gone)
    BY <1>1, <1>5, FreedColumns
  <2>2. CASE c \in gone
    BY <1>1, <2>1, <2>2, FreedColumn DEF Landed, On
  <2>3. CASE c \notin gone
    BY <1>1, <1>2, <2>1, <2>3, FreedColumn
  <2> QED  BY <2>2, <2>3
<1>6. CASE SubmitStep
  <2>1. UNCHANGED <<blocks, edited>>
    BY <1>1, <1>6, SubmitSteps
  <2>2. PICK picked \in SUBSET Chunks : Submits(picked)
    BY <1>1, <1>6, SubmitSteps
  <2>3. \/ state'[c] = state[c] \/ state'[c] \in {"lighting", "meshing"}
        \/ state[c] = "absent"
    BY <2>2 DEF Submits, Appends
  <2> QED  BY <1>2, <2>1, <2>3
<1>7. CASE OtherStep /\ ~\E d \in Chunks : Evict(d)
  <2>1. CASE Move \/ EndCopy \/ (\E d \in Chunks : BeginCopy(d))
               \/ \E e \in Edits : AcceptEdit(e) \/ SetBlockRefused(e)
    BY <1>2, <2>1 DEF Move, EndCopy, BeginCopy, AcceptEdit, SetBlockRefused
  <2>2. ASSUME NEW d \in Chunks, Ensure(d) PROVE Landed(c)'
    <3>1. state[d] = "absent" /\ UNCHANGED edited
          /\ state' = [state EXCEPT ![d] = "generated"]
          /\ blocks' = [blocks EXCEPT ![d] = recorded \cap On(d)]
      BY <2>2 DEF Ensure
    <3>2. d # c => UNCHANGED <<state[c], blocks[c]>>
      BY <1>1, <3>1 DEF TypeOK
    <3>3. d = c => edited \cap On(c) = {} /\ state'[c] = "generated"
      BY <1>1, <3>1 DEF TypeOK, Landed
    <3> QED  BY <1>2, <3>1, <3>2, <3>3 DEF Landed, On
  <2>3. ASSUME NEW d \in Chunks, Insert(d) PROVE Landed(c)'
    <3>1. /\ edited' = edited \ On(d)
          /\ state' = [state EXCEPT ![d] = "generated"]
          /\ \E S : blocks' = [blocks EXCEPT ![d] = S]
      BY <2>3 DEF Insert
    <3>2. d # c => UNCHANGED <<state[c], blocks[c]>>
      BY <1>1, <3>1 DEF TypeOK
    <3>3. d = c => edited' \cap On(c) = {} /\ state'[c] = "generated"
      BY <1>1, <3>1 DEF TypeOK
    <3> QED  BY <1>2, <3>1, <3>2, <3>3 DEF Landed, On
  <2>4. ASSUME NEW e \in Edits, SetBlock(e) PROVE Landed(c)'
    <3>1. /\ blocks' = [blocks EXCEPT ![Home[e]] = @ \cup {e}]
          /\ edited' = edited \cup ({e} \ blocks[Home[e]])
          /\ UNCHANGED state /\ AtLeast(Home[e], "generated")
      BY <2>4 DEF SetBlock, Writable
    <3>2. CASE Home[e] = c
      <4>1. blocks'[c] = blocks[c] \cup {e}
        BY <1>1, <3>1, <3>2 DEF TypeOK
      <4>2. state[c] \notin {"absent", "generating"}
        BY <3>1, <3>2, StageNames DEF AtLeast
      <4> QED  BY <1>1, <3>1, <4>1, <4>2 DEF Landed, On
    <3>3. CASE Home[e] # c
      <4>1. e \notin On(c) /\ blocks'[c] = blocks[c]
        BY <1>1, <3>1, <3>3 DEF On, TypeOK
      <4> QED  BY <1>2, <3>1, <4>1
    <3> QED  BY <3>2, <3>3
  <2> QED  BY <1>7, <2>1, <2>2, <2>3, <2>4 DEF OtherStep
<1>8. CASE UNCHANGED vars
  BY <1>2, <1>8 DEF vars
<1> QED
  BY <1>3, <1>4, <1>5, <1>6, <1>7, <1>8, NextSplits DEF Update, SubmitStep, OtherStep

\* A mesh job is made from the blocks of its column and from the slices of its
\* neighbours: all the changes are in there, because the neighbour that holds
\* one is present.
LEMMA NewMeshHasAll ==
  ASSUME TypeOK, \A d \in Chunks : Landed(d), NEW c \in Chunks
  PROVE  EditsOf(c) \subseteq blocks[c] \cup MeshJob[c].slices
<1>1. MeshJob[c].slices
        = Bordering(c) \cap UNION {blocks[d] : d \in Present(Neighbors[c])}
  BY DEF MeshJob
<1>2. ASSUME NEW e \in EditsOf(c) PROVE e \in blocks[c] \cup MeshJob[c].slices
  <2>1. e \in edited /\ e \in Edits /\ Home[e] \in Chunks
    BY <1>2, PipelineAssumption DEF EditsOf, TypeOK
  <2>2. CASE e \in On(c)
    BY <2>1, <2>2 DEF Landed
  <2>3. CASE e \in Bordering(c)
    <3>1. Home[e] \in Neighbors[c]
      BY <2>1, <2>3, PipelineAssumption DEF Bordering
    <3>2. e \in edited \cap On(Home[e])
      BY <2>1 DEF On
    <3>3. e \in blocks[Home[e]] /\ state[Home[e]] # "absent"
      BY <2>1, <3>2 DEF Landed
    <3>4. Home[e] \in Present(Neighbors[c])
      BY <3>1, <3>3 DEF Present
    <3> QED  BY <1>1, <2>3, <3>3, <3>4
  <2> QED  BY <1>2, <2>2, <2>3 DEF EditsOf
<1> QED  BY <1>2

LEMMA FollowsSubmit ==
  ASSUME EditsInv, SubmitStep, NEW c \in Chunks
  PROVE  MeshFollows(c)'
<1>1. /\ TypeOK /\ MeshFollows(c) /\ MeshInv(c) /\ \A d \in Chunks : Landed(d)
  BY DEF EditsInv, JobsInv, ColumnInv
<1>2. UNCHANGED <<blocks, shown, running, results, batch, edited>>
  BY <1>1, SubmitSteps DEF editVars
<1>3. PICK picked \in SUBSET Chunks : Submits(picked)
  BY <1>1, SubmitSteps
<1>4. /\ \A m : HasMesh(c, m)' => HasMesh(c, m)
      /\ edited' \cap (On(c) \cup Bordering(c)) = EditsOf(c)
      /\ blocks[c] = blocks'[c]
  BY <1>2 DEF HasMesh, EditsOf
<1>5. ASSUME NEW busy \in {"generating", "lighting", "meshing"},
             NEW jobOf \in {GenerateJob, LightJob, MeshJob},
             Appends(picked, busy, jobOf)
      PROVE  /\ \A s : HasSlices(c, s)' =>
                  \/ HasSlices(c, s)
                  \/ c \in picked /\ jobOf[c].kind = "mesh" /\ s = jobOf[c].slices
             /\ c \notin picked => state'[c] = state[c] /\ dirty'[c] = dirty[c]
             /\ c \in picked => state'[c] = busy
             /\ phase # "remesh" => dirty'[c] = dirty[c]
  <2>1. \A d \in Chunks : jobOf[d].chunk = d
    BY JobsOfColumns
  <2>2. UNCHANGED running
    BY <1>2
  <2>3. OnlyMeshes(picked, jobOf, c)
    BY <1>1, <1>5, <2>1, <2>2, SubmittedMeshes, Zenon
  <2> QED  BY <1>1, <1>5, <2>3 DEF OnlyMeshes, Appends, TypeOK
<1>6. CASE c \notin picked
  BY <1>1, <1>2, <1>3, <1>4, <1>5, <1>6, FollowsOn DEF Submits
<1>7. CASE Load \/ Light \/ Relight
  <2>1. phase # "remesh"
    BY <1>7 DEF Load, Light, Relight
  <2>2. \/ Appends(picked, "generating", GenerateJob)
        \/ Appends(picked, "lighting", LightJob)
    BY <1>3, <1>7 DEF Submits, Load, Light, Relight
  <2>3. \A s : HasSlices(c, s)' => HasSlices(c, s)
    BY <1>5, <2>2, JobsOfColumns
  <2>4. c \in picked => state'[c] # "ready"
    BY <1>5, <2>2
  <2>5. dirty'[c] = dirty[c]
    BY <1>5, <2>1, <2>2
  <2> QED  BY <1>1, <1>2, <1>4, <1>6, <2>3, <2>4, <2>5, FollowsOn
<1>8. CASE (Mesh \/ Remesh) /\ c \in picked
  <2>1. Appends(picked, "meshing", MeshJob) /\ state[c] # "meshing"
    BY <1>3, <1>8 DEF Submits, Mesh, Remesh
  <2>2. \A s : ~HasSlices(c, s)
    BY <1>1, <2>1, MeshesAreJobs DEF MeshInv
  <2>3. \A m : ~HasMesh(c, m)'
    BY <1>1, <1>4, <2>1, MeshesAreJobs DEF MeshInv
  <2>4. \A s : HasSlices(c, s)' => s = MeshJob[c].slices
    BY <1>5, <2>1, <2>2
  <2>5. EditsOf(c)' \subseteq blocks'[c] \cup MeshJob[c].slices
    BY <1>1, <1>2, NewMeshHasAll DEF EditsOf, On, Bordering
  <2>6. state'[c] = "meshing"
    BY <1>5, <1>8, <2>1
  <2> QED  BY <2>3, <2>4, <2>5, <2>6 DEF MeshFollows
<1> QED  BY <1>6, <1>7, <1>8 DEF SubmitStep

LEMMA FollowsStep ==
  ASSUME EditsInv, [Next]_vars, NEW c \in Chunks
  PROVE  MeshFollows(c)'
<1> USE DEF chunkVars, updateVars, editVars, jobVars
<1>1. /\ TypeOK /\ StageInv /\ MeshFollows(c) /\ ColumnInv(c) /\ Landed(c)
      /\ JobsInv'
  BY JobsStep DEF EditsInv, JobsInv
<1>2. ASSUME UNCHANGED <<dirty, blocks, shown, edited, queue, running, results,
                         batch>>,
             state'[c] = "ready" => state[c] = "ready"
      PROVE  MeshFollows(c)'
  <2>1. /\ \A s : HasSlices(c, s)' => HasSlices(c, s)
        /\ \A m : HasMesh(c, m)' => HasMesh(c, m)
        /\ edited' \cap (On(c) \cup Bordering(c)) \subseteq EditsOf(c)
    BY <1>2 DEF HasSlices, HasMesh, EditsOf
  <2> QED  BY <1>1, <1>2, <2>1, FollowsOn
<1>3. ASSUME NEW w \in Workers, WorkerStep(w) PROVE MeshFollows(c)'
  <2>1. /\ \A s : HasSlices(c, s)' => HasSlices(c, s)
        /\ \A m : HasMesh(c, m)' =>
             \/ HasMesh(c, m)
             \/ \E s : HasSlices(c, s) /\ m = blocks[c] \cup s
    BY <1>1, <1>3, WorkerMeshes
  <2>2. UNCHANGED <<dirty, shown, edited>> /\ EditsOf(c)' = EditsOf(c)
    BY <1>3 DEF WorkerStep, TakeJob, Generate, ApplyOverlay, LightPass,
                ConsumePending, BuildMesh, EditsOf, On, Bordering
  <2>3. CASE Generate(w) /\ running[w].chunk = c
    <3>1. state'[c] = "generated"
      BY <1>1, <2>3 DEF Generate, TypeOK
    <3> QED  BY <1>1, <3>1, NoMeshFollows
  <2>4. CASE ~(Generate(w) /\ running[w].chunk = c)
    <3>1. state'[c] = state[c] /\ blocks[c] \subseteq blocks'[c]
      BY <1>1, <1>3, <2>4
         DEF WorkerStep, TakeJob, Generate, ApplyOverlay, LightPass,
             ConsumePending, BuildMesh, TypeOK
    <3> QED  BY <1>1, <2>1, <2>2, <3>1 DEF MeshFollows
  <2> QED  BY <2>3, <2>4
<1>4. CASE BeginUpdate
  <2>1. \A m : HasMesh(c, m)' => HasMesh(c, m)
    <3>1. batch' = results /\ results' = <<>>
      BY <1>4 DEF BeginUpdate
    <3>2. DOMAIN results' = {}
      BY <3>1
    <3> QED  BY <3>1, <3>2 DEF HasMesh
  <2>2. \A s : HasSlices(c, s)' => HasSlices(c, s)
    BY <1>4 DEF BeginUpdate, HasSlices
  <2> QED  BY <1>1, <1>4, <2>1, <2>2, FollowsOn DEF BeginUpdate, EditsOf
<1>5. CASE MeshArrives \/ MeshDiscarded \/ LitOrGenerated
  <2> DEFINE r == Head(batch)
  <2>1. /\ batch \in Seq(Result) /\ batch # <<>> /\ batch' = Tail(batch)
        /\ UNCHANGED <<dirty, blocks, edited, queue, running, results>>
        /\ r.chunk \in Chunks
    BY <1>1, <1>5 DEF MeshArrives, MeshDiscarded, LitOrGenerated, Arrives, TypeOK
  <2>2. /\ r = batch[1] /\ 1 \in DOMAIN batch
        /\ \A i \in DOMAIN batch' : batch'[i] = batch[i + 1] /\ i + 1 \in DOMAIN batch
    BY <2>1, SeqTail
  <2>3. /\ \A m : HasMesh(c, m)' => HasMesh(c, m)
        /\ \A s : HasSlices(c, s)' => HasSlices(c, s)
    BY <2>1, <2>2 DEF HasMesh, HasSlices
  <2>4. edited' \cap (On(c) \cup Bordering(c)) = EditsOf(c) /\ EditsOf(c)' = EditsOf(c)
    BY <2>1 DEF EditsOf, On, Bordering
  <2>5. CASE MeshArrives /\ c = r.chunk
    <3>1. r.isMesh /\ shown'[c] = r.mesh
      BY <1>1, <2>5 DEF MeshArrives, TypeOK
    <3>2. HasMesh(c, r.mesh)
      BY <2>2, <2>5, <3>1 DEF HasMesh, ResultIs
    <3> QED  BY <1>1, <2>1, <2>3, <2>4, <3>1, <3>2 DEF MeshFollows
  <2>6. CASE ~(MeshArrives /\ c = r.chunk)
    <3>1. state'[c] = "ready" => state[c] = "ready" /\ shown'[c] = shown[c]
      BY <1>1, <1>5, <2>1, <2>6
         DEF MeshArrives, MeshDiscarded, LitOrGenerated, TypeOK
    <3> QED  BY <1>1, <2>1, <2>3, <2>4, <3>1, FollowsOn
  <2> QED  BY <2>5, <2>6
<1>6. CASE Unload \/ \E d \in Chunks : Evict(d)
  <2>1. PICK gone \in SUBSET Chunks : Free(gone)
    BY <1>1, <1>6, FreedColumns
  <2>2. CASE c \in gone
    <3>1. state'[c] = "absent"
      BY <1>1, <2>1, <2>2, FreedColumn
    <3> QED  BY <1>1, <3>1, NoMeshFollows
  <2>3. CASE c \notin gone
    <3>1. edited' \cap (On(c) \cup Bordering(c)) \subseteq EditsOf(c)
      BY <1>1, <2>1, FreedColumn DEF EditsOf
    <3> QED  BY <1>1, <2>1, <2>3, <3>1, FreedColumn, FreedMeshes, FollowsOn
  <2> QED  BY <2>2, <2>3
<1>7. CASE SubmitStep
  BY <1>7, FollowsSubmit
<1>8. CASE OtherStep /\ ~\E d \in Chunks : Evict(d)
  <2>1. CASE Move \/ EndCopy \/ (\E d \in Chunks : BeginCopy(d))
               \/ \E e \in Edits : AcceptEdit(e) \/ SetBlockRefused(e)
    BY <1>2, <2>1 DEF Move, EndCopy, BeginCopy, AcceptEdit, SetBlockRefused
  <2>2. ASSUME NEW d \in Chunks, Ensure(d) \/ Insert(d) PROVE MeshFollows(c)'
    <3>1. /\ state' = [state EXCEPT ![d] = "generated"] /\ edited' \subseteq edited
          /\ UNCHANGED <<dirty, shown, queue, running, results, batch>>
          /\ \E S : blocks' = [blocks EXCEPT ![d] = S]
      BY <2>2 DEF Ensure, Insert
    <3>2. CASE d = c
      BY <1>1, <3>1, <3>2, NoMeshFollows DEF TypeOK
    <3>3. CASE d # c
      <4>1. state'[c] = state[c] /\ blocks'[c] = blocks[c]
        BY <1>1, <3>1, <3>3 DEF TypeOK
      <4>2. /\ \A s : HasSlices(c, s)' => HasSlices(c, s)
            /\ \A m : HasMesh(c, m)' => HasMesh(c, m)
            /\ edited' \cap (On(c) \cup Bordering(c)) \subseteq EditsOf(c)
        BY <3>1 DEF HasSlices, HasMesh, EditsOf
      <4> QED  BY <1>1, <3>1, <4>1, <4>2, FollowsOn
    <3> QED  BY <3>2, <3>3
  <2>3. ASSUME NEW e \in Edits, SetBlock(e) PROVE MeshFollows(c)'
    <3>1. /\ blocks' = [blocks EXCEPT ![Home[e]] = @ \cup {e}]
          /\ dirty' = [d \in Chunks |->
                         \/ dirty[d]
                         \/ e \notin blocks[Home[e]]
                            /\ d \in {Home[e]} \cup Present(Borders[e])]
          /\ edited' = edited \cup ({e} \ blocks[Home[e]])
          /\ UNCHANGED <<state, shown, queue, running, results, batch>>
      BY <2>3 DEF SetBlock
    <3>2. CASE dirty'[c]
      BY <3>2 DEF MeshFollows
    <3>3. CASE ~dirty'[c] /\ state[c] = "absent"
      BY <1>1, <3>1, <3>3, NoMeshFollows
    <3>4. CASE ~dirty'[c] /\ state[c] # "absent"
      <4>1. e \in edited' \cap (On(c) \cup Bordering(c)) => e \in edited
        BY <3>1, <3>4 DEF On, Bordering, Present
      <4>2. edited' \cap (On(c) \cup Bordering(c)) \subseteq EditsOf(c)
        BY <3>1, <4>1 DEF EditsOf
      <4>3. blocks[c] \subseteq blocks'[c] /\ ~dirty[c]
        BY <1>1, <3>1, <3>4 DEF TypeOK
      <4>4. /\ \A s : HasSlices(c, s)' => HasSlices(c, s)
            /\ \A m : HasMesh(c, m)' => HasMesh(c, m)
        BY <3>1 DEF HasSlices, HasMesh
      <4> QED  BY <1>1, <3>1, <4>2, <4>3, <4>4, FollowsOn
    <3> QED  BY <3>2, <3>3, <3>4
  <2> QED  BY <1>8, <2>1, <2>2, <2>3 DEF OtherStep
<1>9. CASE UNCHANGED vars
  BY <1>2, <1>9 DEF vars
<1> QED
  BY <1>3, <1>4, <1>5, <1>6, <1>7, <1>8, <1>9, NextSplits
     DEF Update, SubmitStep, OtherStep

\* world_set_block marks the column it changes and, at an edge, the column
\* across; chunk_build_neighbor_slices copies what the neighbours hold when the
\* job is made.  Whatever is changed while meshes are made and wait, a ready
\* column that is not marked shows every change.
THEOREM EditsReach == Spec => []EditsReachMeshes
<1>1. Init => EditsInv
  BY EditsInit
<1>2. EditsInv /\ [Next]_vars => EditsInv'
  <2>1. ASSUME EditsInv, [Next]_vars PROVE EditsInv'
    <3>1. JobsInv'
      BY <2>1, JobsStep DEF EditsInv
    <3>2. \A c \in Chunks : Landed(c)' /\ MeshFollows(c)'
      BY <2>1, LandedStep, FollowsStep
    <3> QED  BY <3>1, <3>2 DEF EditsInv
  <2> QED  BY <2>1
<1>3. EditsInv => EditsReachMeshes
  BY DEF EditsInv, MeshFollows, EditsOf, EditsReachMeshes
<1> QED  BY <1>1, <1>2, <1>3, PTL DEF Spec

-----------------------------------------------------------------------------
(* Which pointers are left to freed columns.                               *)

Kept == setting.kept[place]

\* Whoever has a pointer, it is to a column within the unload radius or left
\* behind by the player, or dangles already; and once an update has unloaded,
\* there are no other columns.
Within == Kept \cup outrun \cup {Freed}

JobKept(j) == j.chunk \in Within \cup {NoChunk} /\ j.nbs \subseteq Within

PointersKept ==
  /\ \A i \in DOMAIN queue : JobKept(queue[i])
  /\ \A w \in Workers : JobKept(running[w])
  /\ \A i \in DOMAIN results : results[i].chunk \in Within
  /\ \A i \in DOMAIN batch : batch[i].chunk \in Within
ColumnsKept ==
  phase \notin {"idle", "results"} => Present(Chunks) \subseteq Kept \cup outrun
HeldKept == /\ held \in Within \cup {NoChunk}
            /\ setting.networkFed => held = NoChunk

TetherInv == JobsInv /\ PointersKept /\ ColumnsKept /\ HeldKept

LEMMA TetherInit == Init => TetherInv
<1> SUFFICES ASSUME Init PROVE TetherInv
  OBVIOUS
<1>1. PointersKept
  BY DEF Init, PointersKept, JobKept, Idle
<1>2. ColumnsKept /\ HeldKept
  BY DEF Init, ColumnsKept, HeldKept
<1> QED  BY <1>1, <1>2, JobsInit DEF TetherInv

LEMMA KeptStays ==
  ASSUME UNCHANGED <<setting, place, outrun>>
  PROVE  Kept' = Kept /\ Within' = Within
BY DEF Kept, Within

LEMMA TetherWorker ==
  ASSUME TetherInv, NEW w \in Workers, WorkerStep(w), UNCHANGED setting
  PROVE  PointersKept' /\ ColumnsKept' /\ HeldKept'
<1> USE DEF chunkVars, updateVars, editVars, jobVars
<1>1. TypeOK /\ PointersKept /\ \A c \in Chunks : GenerateInv(c)
  BY DEF TetherInv, JobsInv, ColumnInv
<1>2. UNCHANGED <<phase, place, held, outrun, batch, setting>>
  BY DEF WorkerStep, TakeJob, Generate, ApplyOverlay, LightPass, ConsumePending,
         BuildMesh
<1>3. Kept' = Kept /\ Within' = Within
  BY <1>2, KeptStays
<1>4. \A v \in Workers \ {w} : running'[v] = running[v]
  BY <1>1 DEF WorkerStep, TakeJob, Generate, ApplyOverlay, LightPass, ConsumePending,
         BuildMesh, PushResult, TypeOK
<1>5. Present(Chunks)' = Present(Chunks)
  <2>1. CASE Generate(w)
    <3>1. LET c == running[w].chunk
          IN  /\ c \in Chunks /\ state' = [state EXCEPT ![c] = "generated"]
              /\ Early(c)
      BY <2>1 DEF Generate, Doing, Early, JobIs
    <3> QED  BY <1>1, <3>1 DEF GenerateInv, Present, TypeOK
  <2>2. CASE ~Generate(w)
    BY <2>2 DEF WorkerStep, TakeJob, ApplyOverlay, LightPass, ConsumePending,
                BuildMesh, Present
  <2> QED  BY <2>1, <2>2
<1>6. PointersKept'
  <2>1. CASE TakeJob(w)
    <3>1. queue \in Seq(Job) /\ queue # <<>> /\ queue' = Tail(queue)
          /\ running'[w] = Head(queue) /\ UNCHANGED results
      BY <1>1, <2>1 DEF TakeJob, TypeOK
    <3>2. /\ running'[w] = queue[1] /\ 1 \in DOMAIN queue
          /\ \A i \in DOMAIN queue' : queue'[i] = queue[i + 1] /\ i + 1 \in DOMAIN queue
      BY <3>1, SeqTail
    <3> QED  BY <1>1, <1>2, <1>3, <1>4, <3>1, <3>2 DEF PointersKept, JobKept
  <2>2. CASE Generate(w) \/ LightPass(w)
    BY <1>1, <1>2, <1>3, <2>2 DEF Generate, LightPass, PointersKept, JobKept
  <2>3. CASE ApplyOverlay(w) \/ ConsumePending(w) \/ BuildMesh(w)
    <3>1. /\ running'[w] = Idle /\ UNCHANGED queue
          /\ running[w].chunk \in Chunks /\ results \in Seq(Result)
      BY <1>1, <2>3
         DEF ApplyOverlay, ConsumePending, BuildMesh, Doing, PushResult, TypeOK
    <3>2. PICK r : r.chunk = running[w].chunk /\ results' = <<r>> \o results
      BY <2>3 DEF ApplyOverlay, ConsumePending, BuildMesh, PushResult
    <3>3. \A i \in DOMAIN results' :
            results'[i] = r \/ \E j \in DOMAIN results : results'[i] = results[j]
      BY <3>1, <3>2
    <3>4. running[w].chunk \in Within
      BY <1>1, <3>1, PipelineAssumption DEF PointersKept, JobKept
    <3>5. \A i \in DOMAIN results' : results'[i].chunk \in Within
      BY <1>1, <3>2, <3>3, <3>4 DEF PointersKept
    <3>6. JobKept(running[w])'
      BY <3>1 DEF JobKept, Idle
    <3> QED  BY <1>1, <1>2, <1>3, <1>4, <3>1, <3>5, <3>6 DEF PointersKept, JobKept
  <2> QED  BY <2>1, <2>2, <2>3 DEF WorkerStep
<1> QED  BY <1>2, <1>3, <1>5, <1>6 DEF TetherInv, ColumnsKept, HeldKept

\* Freeing columns changes pointers to Freed and nothing else.
LEMMA TetherFree ==
  ASSUME TetherInv, NEW gone \in SUBSET Chunks, Free(gone),
         UNCHANGED <<setting, place, outrun>>
  PROVE  PointersKept' /\ HeldKept'
<1>1. TypeOK /\ PointersKept /\ HeldKept
  BY DEF TetherInv, JobsInv
<1>2. Kept' = Kept /\ Within' = Within
  BY KeptStays
<1>3. \A c : Redirected(c, gone) \in {c, Freed} /\ Freed \in Within
  BY DEF Redirected, Within
<1>4. ASSUME NEW i \in DOMAIN queue' PROVE JobKept(queue'[i])
  <2>1. /\ i \in DOMAIN queue /\ queue'[i].chunk = Redirected(queue[i].chunk, gone)
        /\ queue'[i].nbs = {Redirected(d, gone) : d \in queue[i].nbs}
    BY <1>1, FreeActs
  <2> QED  BY <1>1, <1>3, <2>1 DEF PointersKept, JobKept
<1>5. ASSUME NEW w \in Workers PROVE JobKept(running'[w])
  <2>1. /\ running'[w].chunk = Redirected(running[w].chunk, gone)
        /\ running'[w].nbs = {Redirected(d, gone) : d \in running[w].nbs}
    BY <1>1, FreeActs
  <2> QED  BY <1>1, <1>3, <2>1 DEF PointersKept, JobKept
<1>6. /\ \A i \in DOMAIN results' : results'[i].chunk \in Within
      /\ \A i \in DOMAIN batch' : batch'[i].chunk \in Within
  <2>1. /\ DOMAIN results' = DOMAIN results /\ DOMAIN batch' = DOMAIN batch
        /\ \A i \in DOMAIN results :
             results'[i].chunk = Redirected(results[i].chunk, gone)
        /\ \A i \in DOMAIN batch :
             batch'[i].chunk = Redirected(batch[i].chunk, gone)
    BY <1>1, FreeActs
  <2> QED  BY <1>1, <1>3, <2>1 DEF PointersKept
<1>7. PointersKept'
  BY <1>2, <1>4, <1>5, <1>6 DEF PointersKept, JobKept
<1>8. held' = IF held \in gone THEN Freed ELSE held
  BY DEF Free
<1>9. NoChunk \notin gone
  BY PipelineAssumption
<1> QED  BY <1>1, <1>2, <1>3, <1>7, <1>8, <1>9 DEF HeldKept

LEMMA TetherSubmit ==
  ASSUME TetherInv, SubmitStep, UNCHANGED setting
  PROVE  PointersKept' /\ ColumnsKept' /\ HeldKept'
<1>1. TypeOK /\ PointersKept /\ ColumnsKept
  BY DEF TetherInv, JobsInv
<1>2. UNCHANGED <<running, results, batch, held, place, outrun>>
  BY <1>1, SubmitSteps
<1>3. PICK picked \in SUBSET Chunks : Submits(picked)
  BY <1>1, SubmitSteps
<1>4. Kept' = Kept /\ Within' = Within
  BY <1>2, KeptStays
<1>5. setting.near[place] \subseteq Kept
  BY <1>1, PlacesTyped DEF Kept
<1>6. Present(Chunks) \subseteq Kept \cup outrun
  BY <1>1 DEF SubmitStep, Load, Light, Relight, Mesh, Remesh, ColumnsKept
<1>7. picked \subseteq Kept \cup outrun
  <2>1. \A c \in picked : state[c] # "absent" \/ c \in setting.near[place]
    BY <1>3 DEF Submits
  <2> QED  BY <1>5, <1>6, <2>1 DEF Present
<1>8. PICK busy \in {"generating", "lighting", "meshing"},
           jobOf \in {GenerateJob, LightJob, MeshJob} : Appends(picked, busy, jobOf)
  BY <1>3 DEF Submits
<1>9. ASSUME NEW c \in picked
      PROVE  jobOf[c].chunk = c /\ jobOf[c].nbs \subseteq Kept \cup outrun
  <2>1. \/ jobOf[c].nbs = {} \/ jobOf[c].nbs = Present(Neighbors[c])
    BY DEF GenerateJob, LightJob, MeshJob
  <2>2. Present(Neighbors[c]) \subseteq Present(Chunks)
    BY PipelineAssumption DEF Present
  <2> QED  BY <1>6, <2>1, <2>2, JobsOfColumns
<1>10. \A i \in DOMAIN queue' : \/ i \in DOMAIN queue /\ queue'[i] = queue[i]
                                \/ \E c \in picked : queue'[i] = jobOf[c]
  BY <1>8 DEF Appends
<1>11. \A i \in DOMAIN queue' : JobKept(queue'[i])
  BY <1>1, <1>7, <1>9, <1>10 DEF PointersKept, JobKept, Within
<1>12. PointersKept'
  BY <1>1, <1>2, <1>4, <1>11 DEF PointersKept, JobKept
<1>13. Present(Chunks)' \subseteq Present(Chunks) \cup picked
  BY <1>8 DEF Appends, Present
<1> QED  BY <1>2, <1>4, <1>6, <1>7, <1>12, <1>13 DEF TetherInv, ColumnsKept, HeldKept

\* What the jobs, the results and the server thread point at is in PointedAt.
LEMMA PointedAtHas ==
  /\ \A i \in DOMAIN queue : queue[i].chunk \in Pinned /\ queue[i].nbs \subseteq Pinned
  /\ \A w \in Workers : running[w].chunk \in Pinned /\ running[w].nbs \subseteq Pinned
  /\ \A i \in DOMAIN results : results[i].chunk \in Pinned
<1> DEFINE Q == UNION {{queue[i].chunk} \cup queue[i].nbs : i \in DOMAIN queue}
           W == UNION {{running[w].chunk} \cup running[w].nbs : w \in Workers}
           R == {results[i].chunk : i \in DOMAIN results}
<1>1. \A i \in DOMAIN queue : queue[i].chunk \in Q /\ queue[i].nbs \subseteq Q
  OBVIOUS
<1>2. \A w \in Workers : running[w].chunk \in W /\ running[w].nbs \subseteq W
  OBVIOUS
<1>3. \A i \in DOMAIN results : results[i].chunk \in R
  OBVIOUS
<1>4. Pinned = Q \cup W \cup R
  BY DEF Pinned
<1> HIDE DEF Q, W, R
<1> QED  BY <1>1, <1>2, <1>3, <1>4

LEMMA TetherMove ==
  ASSUME TetherInv, Move, UNCHANGED setting
  PROVE  PointersKept' /\ ColumnsKept' /\ HeldKept'
<1> USE DEF chunkVars, updateVars, editVars, jobVars
<1>1. TypeOK /\ StageInv /\ HeldKept
  BY DEF TetherInv, JobsInv
<1>2. /\ UNCHANGED <<queue, running, results, batch, held, phase>> /\ phase = "idle"
      /\ outrun' = PointedAt \ Kept'
  BY DEF Move, Kept
<1>3. DOMAIN batch = {}
  BY <1>1, <1>2 DEF StageInv
<1>4. PointedAt \subseteq Within'
  BY <1>2 DEF Within
<1>5. \A c \in Chunks \cup {Freed} : c \in Pinned \cup {held} => c \in Within'
  BY <1>4 DEF PointedAt, Within
<1>6. \A j \in Job \cup {Idle} :
        j.chunk \in Chunks \cup {Freed, NoChunk} /\ j.nbs \subseteq Chunks \cup {Freed}
  BY DEF Job, Idle
<1>7. \A r \in Result : r.chunk \in Chunks \cup {Freed}
  BY DEF Result
<1>8. /\ \A i \in DOMAIN queue : queue[i] \in Job
      /\ \A w \in Workers : running[w] \in Job \cup {Idle}
      /\ \A i \in DOMAIN results : results[i] \in Result
      /\ held \in Chunks \cup {Freed, NoChunk}
  BY <1>1 DEF TypeOK
<1>9. \A i \in DOMAIN queue' :
        queue'[i].chunk \in Within' \cup {NoChunk} /\ queue'[i].nbs \subseteq Within'
  BY <1>2, <1>5, <1>6, <1>8, PointedAtHas
<1>10. \A w \in Workers :
         running'[w].chunk \in Within' \cup {NoChunk} /\ running'[w].nbs \subseteq Within'
  BY <1>2, <1>5, <1>6, <1>8, PointedAtHas
<1>11. \A i \in DOMAIN results' : results'[i].chunk \in Within'
  BY <1>2, <1>5, <1>7, <1>8, PointedAtHas
<1>12. PointersKept'
  BY <1>2, <1>3, <1>9, <1>10, <1>11 DEF PointersKept, JobKept
<1>13. HeldKept'
  BY <1>1, <1>2, <1>5, <1>8 DEF HeldKept
<1> QED  BY <1>2, <1>12, <1>13 DEF ColumnsKept

LEMMA TetherStep ==
  ASSUME TetherInv, [Next]_vars
  PROVE  TetherInv'
<1> USE DEF chunkVars, updateVars, editVars, jobVars
<1>1. /\ TypeOK /\ StageInv /\ PointersKept /\ ColumnsKept /\ HeldKept /\ JobsInv'
      /\ \A c \in Chunks : ColumnInv(c)
  BY JobsStep DEF TetherInv, JobsInv
<1>2. UNCHANGED setting
  BY DEF Next, vars
<1>3. SUFFICES PointersKept' /\ ColumnsKept' /\ HeldKept'
  BY <1>1 DEF TetherInv
<1>4. ASSUME UNCHANGED <<queue, running, results, batch>>, Within \subseteq Within'
      PROVE  PointersKept'
  BY <1>1, <1>4 DEF PointersKept, JobKept
<1>5. ASSUME NEW w \in Workers, WorkerStep(w)
      PROVE  PointersKept' /\ ColumnsKept' /\ HeldKept'
  BY <1>2, <1>5, TetherWorker
<1>6. CASE BeginUpdate
  <2>1. /\ UNCHANGED <<queue, running, place, held, outrun>> /\ phase' = "results"
        /\ batch' = results /\ results' = <<>>
    BY <1>6 DEF BeginUpdate
  <2>2. DOMAIN results' = {}
    BY <2>1
  <2>3. Within' = Within
    BY <1>2, <2>1, KeptStays
  <2> QED
    BY <1>1, <1>2, <2>1, <2>2, <2>3 DEF PointersKept, JobKept, ColumnsKept, HeldKept
<1>7. CASE MeshArrives \/ MeshDiscarded \/ LitOrGenerated
  <2>1. /\ batch \in Seq(Result) /\ batch # <<>> /\ batch' = Tail(batch)
        /\ phase' = "results" /\ UNCHANGED <<queue, running, results, place, held, outrun>>
    BY <1>1, <1>7 DEF MeshArrives, MeshDiscarded, LitOrGenerated, Arrives, TypeOK
  <2>2. \A i \in DOMAIN batch' : batch'[i] = batch[i + 1] /\ i + 1 \in DOMAIN batch
    BY <2>1, SeqTail
  <2>3. Within' = Within
    BY <1>2, <2>1, KeptStays
  <2> QED
    BY <1>1, <1>2, <2>1, <2>2, <2>3 DEF PointersKept, JobKept, ColumnsKept, HeldKept
<1>8. CASE Unload
  <2> DEFINE gone == {c \in Chunks \ Kept : ~Busy(c)}
  <2>1. /\ Free(gone) /\ gone \in SUBSET Chunks
        /\ UNCHANGED <<place, outrun, stage>> /\ batch = <<>>
    BY <1>8 DEF Unload, Kept
  <2>2. \A c : c \in gone <=> c \in Chunks /\ c \notin Kept /\ ~Busy(c)
    OBVIOUS
  <2> HIDE DEF gone
  <2>3. PointersKept' /\ HeldKept'
    BY <1>2, <2>1, TetherFree
  <2>4. ASSUME NEW c \in Chunks, Busy(c) PROVE c \in Kept \cup outrun
    <3>1. PICK kind \in Kinds, m \in BOOLEAN : HasJob(c, kind) \/ HasResult(c, m)
      BY <1>1, <2>4, EarlyIsJob
         DEF Busy, ColumnInv, GenerateInv, MeshInv, LightInv, Kinds
    <3>2. DOMAIN batch = {} /\ c # NoChunk /\ c # Freed
      BY <2>1, PipelineAssumption
    <3>3. c \in Within
      BY <1>1, <3>1, <3>2 DEF HasJob, HasResult, JobIs, ResultIs, PointersKept, JobKept
    <3> QED  BY <3>2, <3>3 DEF Within
  <2>5. Present(Chunks)' \subseteq Kept \cup outrun
    BY <1>1, <2>1, <2>2, <2>4, FreedColumn DEF Present
  <2>6. Kept' = Kept
    BY <1>2, <2>1, KeptStays
  <2> QED  BY <2>1, <2>3, <2>5, <2>6 DEF ColumnsKept
<1>9. CASE SubmitStep
  BY <1>2, <1>9, TetherSubmit
<1>10. CASE Move
  BY <1>2, <1>10, TetherMove
<1>11. ASSUME NEW c \in Chunks, Evict(c)
       PROVE  PointersKept' /\ ColumnsKept' /\ HeldKept'
  <2>1. /\ Free({c}) /\ {c} \in SUBSET Chunks
        /\ UNCHANGED <<place, outrun>> /\ phase' = "idle"
    BY <1>11 DEF Evict
  <2>2. PointersKept' /\ HeldKept'
    BY <1>2, <2>1, TetherFree
  <2> QED  BY <2>1, <2>2 DEF ColumnsKept
<1>12. CASE EndCopy \/ \E c \in Chunks : Ensure(c) \/ BeginCopy(c) \/ Insert(c)
  <2>1. UNCHANGED <<queue, running, results, batch, place>> /\ phase' = "idle"
    BY <1>12 DEF EndCopy, Ensure, BeginCopy, Insert
  <2>2. outrun \subseteq outrun' /\ Kept' = Kept
    BY <1>2, <1>12 DEF EndCopy, Ensure, BeginCopy, Insert, Kept
  <2>3. Within \subseteq Within'
    BY <2>2 DEF Within
  <2>4. ASSUME NEW c \in Chunks, BeginCopy(c) PROVE HeldKept'
    <3>1. /\ held' = c /\ ~setting.networkFed
          /\ outrun' = outrun \cup ({c} \ Kept)
      BY <2>4 DEF BeginCopy, Kept
    <3>2. c \in Within'
      BY <2>2, <3>1 DEF Within
    <3> QED  BY <1>2, <3>1, <3>2 DEF HeldKept
  <2>5. ASSUME EndCopy \/ \E c \in Chunks : Ensure(c) \/ Insert(c) PROVE HeldKept'
    <3>1. held' \in {held, NoChunk}
      BY <2>5 DEF EndCopy, Ensure, Insert
    <3> QED  BY <1>1, <1>2, <2>3, <3>1 DEF HeldKept
  <2>6. HeldKept'
    BY <1>12, <2>4, <2>5
  <2> QED  BY <1>4, <2>1, <2>3, <2>6 DEF ColumnsKept
<1>13. CASE \E e \in Edits : AcceptEdit(e) \/ SetBlock(e) \/ SetBlockRefused(e)
  <2>1. UNCHANGED <<queue, running, results, batch, place, outrun, state, phase, held>>
    BY <1>13 DEF AcceptEdit, SetBlock, SetBlockRefused
  <2>2. Kept' = Kept /\ Within' = Within
    BY <1>2, <2>1, KeptStays
  <2> QED  BY <1>1, <1>2, <1>4, <2>1, <2>2 DEF ColumnsKept, HeldKept, Present
<1>14. CASE UNCHANGED vars
  <2>1. UNCHANGED <<queue, running, results, batch, place, outrun, state, phase, held>>
    BY <1>14 DEF vars
  <2>2. Kept' = Kept /\ Within' = Within
    BY <1>2, <2>1, KeptStays
  <2> QED  BY <1>1, <1>2, <1>4, <2>1, <2>2 DEF ColumnsKept, HeldKept, Present
<1> QED
  BY <1>5, <1>6, <1>7, <1>8, <1>9, <1>10, <1>11, <1>12, <1>13, <1>14, NextSplits
     DEF Update, SubmitStep, OtherStep

\* A column is freed by unloading or eviction only.
LEMMA OnlyFreed ==
  ASSUME JobsInv, [Next]_vars, NEW c \in FreedNow
  PROVE  \/ Unload /\ c \notin Kept
         \/ Evict(c) /\ ~Busy(c)
<1> USE DEF chunkVars, updateVars, editVars, jobVars
<1>1. TypeOK /\ c \in Chunks /\ state[c] # "absent" /\ state'[c] = "absent"
      /\ \A d \in Chunks : ColumnInv(d)
  BY DEF FreedNow, Present, JobsInv
<1>2. ASSUME NEW w \in Workers, WorkerStep(w) PROVE FALSE
  BY <1>1, <1>2 DEF WorkerStep, TakeJob, Generate, ApplyOverlay, LightPass,
                    ConsumePending, BuildMesh, Doing, TypeOK
<1>3. ~(BeginUpdate \/ MeshArrives \/ MeshDiscarded \/ LitOrGenerated)
  BY <1>1 DEF BeginUpdate, MeshArrives, MeshDiscarded, LitOrGenerated, Arrives, TypeOK
<1>4. ~SubmitStep
  <2>1. ASSUME SubmitStep PROVE FALSE
    <3>1. PICK picked \in SUBSET Chunks : Submits(picked)
      BY <1>1, <2>1, SubmitSteps
    <3>2. PICK busy \in {"generating", "lighting", "meshing"},
               jobOf \in {GenerateJob, LightJob, MeshJob} : Appends(picked, busy, jobOf)
      BY <3>1 DEF Submits
    <3>3. state'[c] = IF c \in picked THEN busy ELSE state[c]
      BY <1>1, <3>2 DEF Appends
    <3> QED  BY <1>1, <3>3
  <2> QED  BY <2>1
<1>5. ASSUME Unload PROVE c \notin Kept
  <2> DEFINE gone == {d \in Chunks \ Kept : ~Busy(d)}
  <2>1. Free(gone) /\ gone \in SUBSET Chunks
    BY <1>5 DEF Unload, Kept
  <2>2. c \in gone
    BY <1>1, <2>1, FreedColumn
  <2> QED  BY <2>2
<1>6. ASSUME NEW d \in Chunks, Evict(d) PROVE Evict(c) /\ ~Busy(c)
  <2>1. Free({d}) /\ {d} \in SUBSET Chunks /\ ~Busy(d)
    BY <1>6 DEF Evict
  <2>2. c \in {d}
    BY <1>1, <2>1, FreedColumn
  <2> QED  BY <1>6, <2>1, <2>2
<1>7. ~(Move \/ EndCopy \/ \E d \in Chunks : Ensure(d) \/ BeginCopy(d) \/ Insert(d))
  BY <1>1 DEF Move, EndCopy, Ensure, BeginCopy, Insert, TypeOK
<1>8. ~\E e \in Edits : AcceptEdit(e) \/ SetBlock(e) \/ SetBlockRefused(e)
  BY <1>1 DEF AcceptEdit, SetBlock, SetBlockRefused
<1>9. ~UNCHANGED vars
  BY <1>1 DEF vars
<1> QED
  BY <1>2, <1>3, <1>4, <1>5, <1>6, <1>7, <1>8, <1>9, NextSplits
     DEF Update, SubmitStep, OtherStep

\* The column of a job or a result has it.
LEMMA OwnedHas ==
  ASSUME TypeOK, NEW c \in Chunks, c \in Owned
  PROVE  (\E kind \in Kinds : HasJob(c, kind)) \/ (\E m \in BOOLEAN : HasResult(c, m))
<1>1. /\ \A j \in Job : j.kind \in Kinds
      /\ \A r \in Result : r.isMesh \in BOOLEAN
  BY DEF Job, Result, Kinds
<1>2. /\ \A i \in DOMAIN queue : queue[i] \in Job
      /\ \A w \in Workers : running[w] \in Job \/ running[w] = Idle
      /\ \A i \in DOMAIN results : results[i] \in Result
      /\ \A i \in DOMAIN batch : batch[i] \in Result
  BY DEF TypeOK
<1>3. CASE \E i \in DOMAIN queue : queue[i].chunk = c
  BY <1>1, <1>2, <1>3 DEF HasJob, JobIs
<1>4. CASE \E w \in Workers : running[w].chunk = c
  <2>1. PICK w \in Workers : running[w].chunk = c
    BY <1>4
  <2>2. running[w] \in Job
    BY <1>2, <2>1, PipelineAssumption DEF Idle
  <2> QED  BY <1>1, <2>1, <2>2 DEF HasJob, JobIs
<1>5. CASE \E i \in DOMAIN results : results[i].chunk = c
  BY <1>1, <1>2, <1>5 DEF HasResult, ResultIs
<1>6. CASE \E i \in DOMAIN batch : batch[i].chunk = c
  BY <1>1, <1>2, <1>6 DEF HasResult, ResultIs
<1> QED  BY <1>3, <1>4, <1>5, <1>6 DEF Owned

\* A column that a job, a result or the server's copying points at is freed by
\* world_update only if the player left it behind, beyond the unload radius,
\* while it was pointed at, or the copying began beyond it; and by
\* world_evict_chunk only as a neighbour in a lighting job.
THEOREM PointersStay == Spec => NothingDangles
<1>1. Init => TetherInv
  BY TetherInit
<1>2. TetherInv /\ [Next]_vars => TetherInv'
  BY TetherStep
<1>3. ASSUME TetherInv, [Next]_vars, NEW c \in FreedNow \cap PointedAt
      PROVE  \/ c \in outrun
             \/ setting.networkFed /\ phase = "idle" /\ c \notin Owned
  <2>1. /\ JobsInv /\ TypeOK /\ PointersKept /\ HeldKept
        /\ \A d \in Chunks : ColumnInv(d)
    BY <1>3 DEF TetherInv, JobsInv
  <2>2. c \in Chunks /\ c # NoChunk /\ c # Freed
    BY PipelineAssumption DEF PointedAt
  <2>3. CASE Unload /\ c \notin Kept
    <3>1. c \in Pinned \cup {held}
      BY DEF PointedAt
    <3>2. c \in Within
      BY <2>1, <2>2, <3>1 DEF Pinned, PointersKept, JobKept, HeldKept
    <3> QED  BY <2>2, <2>3, <3>2 DEF Within
  <2>4. CASE Evict(c) /\ ~Busy(c)
    <3>1. setting.networkFed /\ phase = "idle"
      BY <2>4 DEF Evict
    <3>2. c \notin Owned
      BY <2>1, <2>2, <2>4, <3>1, OwnedHas DEF ColumnInv, MeshInv, FedInv, Busy, Kinds
    <3> QED  BY <3>1, <3>2
  <2> QED  BY <1>3, <2>1, <2>3, <2>4, OnlyFreed
<1>4. TetherInv /\ [Next]_vars
        => [\A c \in FreedNow \cap PointedAt :
              \/ c \in outrun
              \/ setting.networkFed /\ phase = "idle" /\ c \notin Owned]_vars
  BY <1>3
<1> QED  BY <1>1, <1>2, <1>4, PTL DEF Spec, NothingDangles

=============================================================================
