------------------------- MODULE PersistenceProofs -------------------------
(***************************************************************************)
(* Proofs about Persistence, for every set of cells, every interval and    *)
(* every number of edits, crashes and failures, whether rename replaces a  *)
(* file or not: what was saved survives, no edit stays unsaved for long,   *)
(* and the server's loop over the file system implements WorldStore.  And  *)
(* about WorldSaves, for every length of the list of worlds: which worlds  *)
(* New World and Load World open.                                          *)
(***************************************************************************)
EXTENDS Persistence, WorldSaves, FiniteSetTheorems, TLAPS

WorldInv ==
  /\ TypeOK /\ SaveInv /\ EditsAreMade /\ TimerCounts
  /\ FileIsSaved /\ SavedSurvives /\ UnsavedIsYoung /\ StopKeepsAll

-----------------------------------------------------------------------------
LEMMA BlankIsWorld == Blank \in Worlds
  BY PersistenceAssumption DEF Blank, Worlds

LEMMA ZerosTyped ==
  /\ 0 \in 0 .. SaveInterval - 1 /\ 0 \in 0 .. Burst - 1
  /\ 0 \in 0 .. MaxEdits /\ 0 \in 0 .. MaxCrashes /\ 0 \in 0 .. MaxFailures
  BY PersistenceAssumption

LEMMA FileTyped ==
  ASSUME NEW w \in Worlds
  PROVE  /\ Whole(w) \in Files /\ Whole(w).data = w
         /\ Content(Whole(w)) = w /\ Whole(w).kind = "whole"
         /\ NoFile \in Files /\ Torn \in Files
         /\ NoFile.data = Blank /\ Torn.data = Blank
  BY BlankIsWorld DEF Whole, NoFile, Torn, Files, Content

LEMMA ContentTyped ==
  ASSUME NEW f \in Files
  PROVE  Content(f) \in Worlds
  BY BlankIsWorld DEF Content, Files

\* One interval is granted for every save that failed.
LEMMA OneMoreInterval ==
  ASSUME NEW m \in Nat
  PROVE  /\ SaveInterval * m \in Nat
         /\ SaveInterval * (m + 1) = SaveInterval * m + SaveInterval
  <1>1. SaveInterval \in Nat
    BY PersistenceAssumption
  <1>2. SaveInterval * m \in Nat
    BY <1>1
  <1>3. SaveInterval * (m + 1) = SaveInterval * m + SaveInterval
    BY <1>1
  <1> QED  BY <1>2, <1>3

LEMMA InitHolds == Init => WorldInv
  <1> SUFFICES ASSUME Init PROVE WorldInv
    OBVIOUS
  <1>1. TypeOK
    BY ZerosTyped, BlankIsWorld, FileTyped
    DEF Init, TypeOK, Running, Saving
  <1>2. Blank \in [Cells -> 0 .. 0] /\ NoFile.data = Blank
    BY DEF Blank, NoFile
  <1>3. EditsAreMade
    BY <1>2 DEF Init, EditsAreMade
  <1>4. SaveInv /\ TimerCounts /\ SavedSurvives /\ StopKeepsAll
    BY DEF Init, SaveInv, TimerCounts, SavedSurvives, StopKeepsAll
  <1>5. FileIsSaved
    BY DEF Init, FileIsSaved, Content, NoFile
  <1>6. UnsavedIsYoung
    BY PersistenceAssumption, OneMoreInterval DEF Init, UnsavedIsYoung
  <1> QED  BY <1>1, <1>3, <1>4, <1>5, <1>6 DEF WorldInv

-----------------------------------------------------------------------------
(* Type correctness.                                                       *)

LEMMA StepTyped ==
  ASSUME TypeOK, Next
  PROVE  TypeOK'
  <1> USE PersistenceAssumption DEF TypeOK, Running, Saving
  <1>1. CASE Start
    <2>1. overlay' \in Worlds
      BY <1>1, BlankIsWorld, ContentTyped DEF Start
    <2>2. saved' \in Worlds /\ damaged' \in BOOLEAN
      BY <1>1, <2>1 DEF Start
    <2>3. failures' \in 0 .. MaxFailures
      BY <1>1 DEF Start
    <2>4. timer' \in 0 .. SaveInterval - 1 /\ burst' \in 0 .. Burst - 1
      BY <1>1, ZerosTyped DEF Start
    <2> QED  BY <1>1, <2>1, <2>2, <2>3, <2>4 DEF Start, disk
  <1>2. CASE BeginTick
    BY <1>2 DEF BeginTick, requests, disk, history
  <1>3. ASSUME NEW c \in Cells, Edit(c) PROVE TypeOK'
    <2>1. edits' \in 0 .. MaxEdits
      BY <1>3 DEF Edit
    <2>2. overlay' \in Worlds
      BY <1>3, <2>1 DEF Edit, Worlds
    <2> QED  BY <1>3, <2>1, <2>2 DEF Edit, requests, disk, history
  <1>4. CASE Tick
    <2>1. timer' \in 0 .. SaveInterval - 1 /\ waiting' \in Nat
      BY <1>4 DEF Tick
    <2>2. pc' \in {"open", "request"} /\ after' = "request"
      BY <1>4 DEF Tick
    <2> QED  BY <1>4, <2>1, <2>2 DEF Tick, requests, disk
  <1>5. CASE TakeRequest
    <2>1. timer' \in 0 .. SaveInterval - 1
      BY <1>5, ZerosTyped DEF TakeRequest
    <2> QED  BY <1>5, <2>1 DEF TakeRequest, disk, history
  <1>6. CASE Leave
    BY <1>6 DEF Leave, loopVars, requests, disk, history
  <1>7. CASE Open
    BY <1>7, BlankIsWorld, FileTyped DEF Open, loopVars, requests, history
  <1>8. CASE Write
    BY <1>8, FileTyped DEF Write, loopVars, requests, history
  <1>9. CASE Rename
    BY <1>9, BlankIsWorld, FileTyped DEF Rename, requests
  <1>10. CASE Fails
    <2>1. failures' \in 0 .. MaxFailures /\ misses' \in Nat
      BY <1>10 DEF Fails
    <2>2. tmp' \in Files
      BY <1>10, BlankIsWorld, FileTyped DEF Fails
    <2> QED  BY <1>10, <2>1, <2>2 DEF Fails, loopVars, requests
  <1>11. CASE Exit
    BY <1>11, BlankIsWorld, ZerosTyped DEF Exit, Gone, disk, requests
  <1>12. CASE RequestSave \/ RequestStop
    BY <1>12 DEF RequestSave, RequestStop, loopVars, disk, history
  <1>13. CASE WriteBack
    BY <1>13 DEF WriteBack, loopVars, requests, history
  <1>14. CASE Crash
    <2>1. crashes' \in 0 .. MaxCrashes
      BY <1>14 DEF Crash
    <2> QED  BY <1>14, <2>1, BlankIsWorld, ZerosTyped
             DEF Crash, Gone, disk, requests
  <1>15. CASE PowerFails
    <2>1. file' \in Files /\ durable' \in Files
      BY <1>15, BlankIsWorld, FileTyped DEF PowerFails
    <2>2. damaged' \in BOOLEAN
      BY <1>15 DEF PowerFails
    <2>3. crashes' \in 0 .. MaxCrashes
      BY <1>15 DEF PowerFails
    <2> QED  BY <1>15, <2>1, <2>2, <2>3, BlankIsWorld, ZerosTyped
             DEF PowerFails, Gone, requests
  <1> QED
    BY <1>1, <1>2, <1>3, <1>4, <1>5, <1>6, <1>7, <1>8, <1>9, <1>10, <1>11,
       <1>12, <1>13, <1>14, <1>15 DEF Next, Loop, Save

-----------------------------------------------------------------------------
(* The parts of the invariant.                                             *)

LEMMA StepSaveInv ==
  ASSUME WorldInv, Next
  PROVE  SaveInv'
  <1> USE DEF SaveInv
  <1>0. SaveInv /\ pc \in Running \cup {"down"}
        /\ after \in {"loop", "request", "exit"}
    BY DEF WorldInv, TypeOK
  <1>1. CASE Start
    <2>1. overlay' = saved'
      <3>1. CASE damaged'
        BY <1>1, <3>1 DEF Start
      <3>2. CASE ~damaged'
        BY <1>1, <3>2 DEF Start, WorldInv, FileIsSaved, TypeOK
      <3> QED  BY <3>1, <3>2
    <2> QED  BY <1>1, <2>1 DEF Start
  <1>2. CASE BeginTick
    BY <1>0, <1>2 DEF BeginTick, history
  <1>3. ASSUME NEW c \in Cells, Edit(c) PROVE SaveInv'
    BY <1>3 DEF Edit
  <1>4. CASE Tick
    BY <1>0, <1>4 DEF Tick
  <1>5. CASE TakeRequest
    BY <1>0, <1>5 DEF TakeRequest, history
  <1>6. CASE Leave
    BY <1>0, <1>6 DEF Leave, loopVars, history
  <1>7. CASE Open
    BY <1>0, <1>7 DEF Open, loopVars, history
  <1>8. CASE Write
    BY <1>0, <1>8 DEF Write, loopVars, history
  <1>9. CASE Rename
    BY <1>0, <1>9 DEF Rename
  <1>10. CASE Fails
    BY <1>0, <1>10 DEF Fails, loopVars, Saving
  <1>11. CASE Exit \/ Crash \/ PowerFails
    BY <1>11 DEF Exit, Crash, PowerFails, Gone
  <1>12. CASE RequestSave \/ RequestStop
    BY <1>0, <1>12 DEF RequestSave, RequestStop, loopVars, disk, history
  <1>13. CASE WriteBack
    BY <1>0, <1>13 DEF WriteBack, loopVars, history
  <1> QED
    BY <1>1, <1>2, <1>3, <1>4, <1>5, <1>6, <1>7, <1>8, <1>9, <1>10, <1>11,
       <1>12, <1>13 DEF Next, Loop, Save

LEMMA StepEditsAreMade ==
  ASSUME WorldInv, Next
  PROVE  EditsAreMade'
  <1> DEFINE Made(n) == [Cells -> 0 .. n]
  <1>0. /\ edits \in Nat
        /\ overlay \in Made(edits) /\ saved \in Made(edits)
        /\ file.data \in Made(edits) /\ tmp.data \in Made(edits)
        /\ durable.data \in Made(edits)
    BY DEF WorldInv, TypeOK, EditsAreMade
  <1>b. Blank \in Made(edits)
    BY <1>0 DEF Blank
  <1>c. \A f : f.data \in Made(edits) => Content(f) \in Made(edits)
    BY <1>b DEF Content
  <1>t. NoFile.data = Blank /\ Torn.data = Blank
    BY DEF NoFile, Torn
  <1>s. SUFFICES \/ /\ edits' = edits
                    /\ overlay' \in Made(edits) /\ saved' \in Made(edits)
                    /\ file'.data \in Made(edits) /\ tmp'.data \in Made(edits)
                    /\ durable'.data \in Made(edits)
                 \/ EditsAreMade'
    BY Zenon DEF EditsAreMade
  <1>1. CASE Start
    <2>1. overlay' \in Made(edits)
      BY <1>0, <1>1, <1>b, <1>c DEF Start
    <2>2. saved' \in Made(edits)
      BY <1>0, <1>1, <2>1 DEF Start
    <2> QED  BY <1>0, <1>1, <2>1, <2>2 DEF Start, disk
  <1>2. CASE BeginTick
    BY <1>0, <1>2 DEF BeginTick, disk, history
  <1>3. ASSUME NEW c \in Cells, Edit(c) PROVE EditsAreMade'
    <2>1. edits' = edits + 1 /\ edits' \in Nat
      BY <1>0, <1>3 DEF Edit
    <2>2. \A g \in Made(edits) : g \in Made(edits')
      BY <1>0, <2>1
    <2>3. overlay' \in Made(edits')
      BY <1>0, <1>3, <2>1, <2>2 DEF Edit
    <2>4. UNCHANGED <<saved, file, tmp, durable>>
      BY <1>3 DEF Edit, disk, history
    <2> QED  BY <1>0, <2>2, <2>3, <2>4 DEF EditsAreMade
  <1>4. CASE Tick
    BY <1>0, <1>4 DEF Tick, disk
  <1>5. CASE TakeRequest
    BY <1>0, <1>5 DEF TakeRequest, disk, history
  <1>6. CASE Leave
    BY <1>0, <1>6 DEF Leave, loopVars, disk, history
  <1>7. CASE Open
    BY <1>0, <1>7, <1>b, <1>t DEF Open, loopVars, history
  <1>8. CASE Write
    BY <1>0, <1>8 DEF Write, Whole, loopVars, history
  <1>9. CASE Rename
    BY <1>0, <1>9, <1>b, <1>t DEF Rename
  <1>10. CASE Fails
    BY <1>0, <1>10, <1>b, <1>t DEF Fails, loopVars
  <1>11. CASE Exit \/ Crash
    BY <1>0, <1>11, <1>b DEF Exit, Crash, Gone, disk
  <1>12. CASE PowerFails
    <2>1. file'.data \in Made(edits) /\ durable' = file'
      BY <1>0, <1>12, <1>b, <1>t DEF PowerFails
    <2> QED  BY <1>0, <1>12, <1>b, <2>1 DEF PowerFails, Gone
  <1>13. CASE RequestSave \/ RequestStop
    BY <1>0, <1>13 DEF RequestSave, RequestStop, loopVars, disk, history
  <1>14. CASE WriteBack
    BY <1>0, <1>14 DEF WriteBack, loopVars, history
  <1> QED
    BY <1>1, <1>2, <1>3, <1>4, <1>5, <1>6, <1>7, <1>8, <1>9, <1>10, <1>11,
       <1>12, <1>13, <1>14 DEF Next, Loop, Save

\* A due save that does nothing has nothing to save: only then does the timer
\* start again while an edit grows older.
LEMMA StepYoung ==
  ASSUME WorldInv, Next
  PROVE  TimerCounts' /\ UnsavedIsYoung'
  <1> DEFINE Granted(m) == SaveInterval * m
  <1>0. /\ pc \in Running \cup {"down"} /\ after \in {"loop", "request", "exit"}
        /\ timer \in Nat /\ timer <= SaveInterval - 1
        /\ waiting \in Nat /\ misses \in Nat
        /\ SaveInterval \in Nat /\ SaveInterval > 0
    BY PersistenceAssumption DEF WorldInv, TypeOK
  <1>g. /\ \A m \in Nat : Granted(m) \in Nat
        /\ \A m \in Nat : Granted(m + 1) = Granted(m) + SaveInterval
    BY OneMoreInterval
  <1>h. /\ pc \in {"loop", "tick", "request"} =>
             waiting <= Granted(misses) + timer
        /\ waiting <= Granted(misses + 1)
    BY DEF WorldInv, TimerCounts, UnsavedIsYoung
  <1>d. pc # "down" /\ ~dirty => overlay = saved
    BY DEF WorldInv, SaveInv
  <1>z. Granted(0) = 0
    BY <1>0
  <1>s. SUFFICES /\ pc' \in {"loop", "tick", "request"} =>
                      waiting' <= Granted(misses') + timer'
                 /\ waiting' <= Granted(misses' + 1)
    BY DEF TimerCounts, UnsavedIsYoung
  <1> HIDE DEF Granted
  <1>f. Granted(misses) \in Nat /\ Granted(misses + 1) \in Nat
        /\ Granted(misses + 1) = Granted(misses) + SaveInterval
    BY <1>0, <1>g
  <1>n. ASSUME waiting' = 0, misses' = misses, timer' \in Nat
        PROVE  waiting' <= Granted(misses') + timer'
               /\ waiting' <= Granted(misses' + 1)
    BY <1>f, <1>n
  <1>1. CASE Start
    BY <1>1, <1>n DEF Start
  <1>2. CASE BeginTick
    BY <1>2, <1>h DEF BeginTick, history
  <1>3. ASSUME NEW c \in Cells, Edit(c)
        PROVE  /\ waiting' <= Granted(misses') + timer'
               /\ waiting' <= Granted(misses' + 1)
    BY <1>3, <1>h DEF Edit, history
  <1>4. CASE Tick
    <2>1. waiting <= Granted(misses) + timer /\ misses' = misses
      BY <1>4, <1>h DEF Tick
    <2>2. CASE timer + 1 >= SaveInterval /\ dirty
      <3>1. pc' = "open"
        BY <1>4, <2>2 DEF Tick
      <3>2. waiting' <= waiting + 1
        BY <1>0, <1>4 DEF Tick
      <3>3. waiting' <= Granted(misses) + SaveInterval
        BY <1>0, <1>4, <1>f, <2>1, <3>2 DEF Tick
      <3> QED  BY <1>f, <2>1, <3>1, <3>3
    <2>3. CASE timer + 1 >= SaveInterval /\ ~dirty
      <3>1. waiting' = 0 /\ timer' = 0
        BY <1>4, <1>d, <2>3 DEF Tick
      <3> QED  BY <1>n, <2>1, <3>1
    <2>4. CASE ~(timer + 1 >= SaveInterval)
      <3>1. timer' = timer + 1 /\ (waiting' = waiting + 1 \/ waiting' = 0)
        BY <1>4, <2>4 DEF Tick
      <3>2. waiting' <= Granted(misses) + timer + 1
        BY <1>0, <1>f, <2>1, <3>1
      <3> QED  BY <1>0, <1>f, <2>1, <2>4, <3>1, <3>2
    <2> QED  BY <2>2, <2>3, <2>4
  <1>5. CASE TakeRequest
    BY <1>5, <1>h DEF TakeRequest, history
  <1>6. CASE Leave
    BY <1>6, <1>h DEF Leave, history
  <1>7. CASE Open \/ Write
    BY <1>7, <1>h DEF Open, Write, history
  <1>8. CASE Rename
    BY <1>0, <1>8, <1>z, <1>g DEF Rename
  <1>9. CASE Fails
    <2>1. misses' = misses + 1 /\ waiting' = waiting /\ timer' = timer
      BY <1>9 DEF Fails, loopVars
    <2>2. misses' \in Nat /\ Granted(misses' + 1) = Granted(misses') + SaveInterval
      BY <1>0, <1>g, <2>1
    <2> QED  BY <1>0, <1>f, <1>h, <2>1, <2>2
  <1>10. CASE Exit \/ Crash \/ PowerFails
    BY <1>10, <1>n DEF Exit, Crash, PowerFails, Gone
  <1>11. CASE RequestSave \/ RequestStop \/ WriteBack
    BY <1>11, <1>h DEF RequestSave, RequestStop, WriteBack, loopVars, history
  <1> QED
    BY <1>1, <1>2, <1>3, <1>4, <1>5, <1>6, <1>7, <1>8, <1>9, <1>10, <1>11
    DEF Next, Loop, Save

LEMMA StepFileIsSaved ==
  ASSUME WorldInv, Next
  PROVE  FileIsSaved'
  <1> USE DEF FileIsSaved
  <1>0. FileIsSaved /\ SaveInv /\ overlay \in Worlds
    BY DEF WorldInv, TypeOK
  <1>1. CASE Start
    BY <1>0, <1>1 DEF Start, disk
  <1>2. CASE Rename
    <2>1. file' = Whole(overlay) /\ saved' = overlay
      BY <1>0, <1>2 DEF Rename, SaveInv
    <2> QED  BY <1>0, <2>1, FileTyped
  <1>3. CASE PowerFails
    <2>1. ~damaged' => file' = file
      BY <1>3 DEF PowerFails
    <2> QED  BY <1>0, <1>3, <2>1 DEF PowerFails, Gone
  <1>4. CASE UNCHANGED <<file, saved, damaged>>
    BY <1>0, <1>4 DEF Content
  <1>5. ASSUME NEW c \in Cells, Edit(c) PROVE UNCHANGED <<file, saved, damaged>>
    BY <1>5 DEF Edit, disk, history
  <1>6. CASE BeginTick \/ Tick \/ TakeRequest \/ Leave
    BY <1>4, <1>6 DEF BeginTick, Tick, TakeRequest, Leave, disk, history
  <1>7. CASE Open \/ Write \/ Fails
    BY <1>4, <1>7 DEF Open, Write, Fails, history
  <1>8. CASE Exit \/ Crash
    BY <1>4, <1>8 DEF Exit, Crash, Gone, disk
  <1>9. CASE RequestSave \/ RequestStop \/ WriteBack
    BY <1>4, <1>9 DEF RequestSave, RequestStop, WriteBack, disk, history
  <1> QED
    BY <1>1, <1>2, <1>3, <1>4, <1>5, <1>6, <1>7, <1>8, <1>9
    DEF Next, Loop, Save

LEMMA StepSavedSurvives ==
  ASSUME WorldInv, Next
  PROVE  SavedSurvives'
  <1> USE DEF SavedSurvives
  <1>0. /\ SavedSurvives /\ FileIsSaved
        /\ overlay \in Worlds /\ saved \in Worlds
        /\ edits \in Nat /\ MaxEdits \in Nat
    BY PersistenceAssumption DEF WorldInv, TypeOK
  <1>1. CASE Start
    <2>1. ~damaged' => overlay' = saved /\ saved' = saved
      BY <1>0, <1>1 DEF Start, FileIsSaved
    <2> QED  BY <1>0, <2>1 DEF Worlds
  <1>2. ASSUME NEW c \in Cells, Edit(c) PROVE SavedSurvives'
    <2>1. \A d \in Cells : saved[d] \in Nat /\ saved[d] <= edits
      BY <1>0 DEF WorldInv, EditsAreMade
    <2>2. /\ overlay' = [overlay EXCEPT ![c] = edits + 1]
          /\ UNCHANGED <<pc, saved, damaged>>
      BY <1>2 DEF Edit, history
    <2> QED  BY <1>0, <2>1, <2>2 DEF Worlds
  <1>3. CASE Rename
    BY <1>0, <1>3 DEF Rename, Worlds
  <1>4. CASE Exit \/ Crash \/ PowerFails
    BY <1>4 DEF Exit, Crash, PowerFails, Gone
  <1>5. ASSUME UNCHANGED <<overlay, saved, damaged>>, pc # "down"
        PROVE  SavedSurvives'
    BY <1>0, <1>5
  <1>6. CASE BeginTick \/ Tick \/ TakeRequest \/ Leave
    BY <1>5, <1>6 DEF BeginTick, Tick, TakeRequest, Leave, loopVars, history
  <1>7. CASE Open \/ Write \/ Fails
    BY <1>5, <1>7 DEF Open, Write, Fails, Saving, loopVars, history
  <1>8. CASE RequestSave \/ RequestStop
    BY <1>5, <1>8 DEF RequestSave, RequestStop, loopVars, history
  <1>9. CASE WriteBack
    BY <1>0, <1>9 DEF WriteBack, loopVars, history
  <1> QED
    BY <1>1, <1>2, <1>3, <1>4, <1>6, <1>7, <1>8, <1>9 DEF Next, Loop, Save

LEMMA StepStopKeepsAll ==
  ASSUME WorldInv, Next
  PROVE  StopKeepsAll'
  <1> USE DEF StopKeepsAll
  <1>0. StopKeepsAll /\ misses \in Nat
    BY DEF WorldInv, TypeOK
  <1>1. CASE Rename
    BY <1>1 DEF Rename
  <1>2. CASE Fails
    BY <1>0, <1>2 DEF Fails
  <1>3. CASE RequestSave \/ RequestStop \/ WriteBack
    BY <1>0, <1>3 DEF RequestSave, RequestStop, WriteBack, loopVars, history
  <1>4. ASSUME pc' # "exit" PROVE StopKeepsAll'
    BY <1>4
  <1>5. ASSUME NEW c \in Cells, Edit(c) PROVE pc' # "exit"
    BY <1>5 DEF Edit
  <1>6. CASE Start \/ BeginTick \/ Tick \/ TakeRequest \/ Leave
    BY <1>4, <1>6 DEF Start, BeginTick, Tick, TakeRequest, Leave
  <1>7. CASE Open \/ Write \/ Exit \/ Crash \/ PowerFails
    BY <1>4, <1>7 DEF Open, Write, Exit, Crash, PowerFails, Gone
  <1> QED
    BY <1>1, <1>2, <1>3, <1>4, <1>5, <1>6, <1>7 DEF Next, Loop, Save

LEMMA Inductive == WorldInv /\ [Next]_vars => WorldInv'
  <1>1. ASSUME WorldInv, Next PROVE WorldInv'
    BY <1>1, StepTyped, StepSaveInv, StepEditsAreMade, StepYoung,
       StepFileIsSaved, StepSavedSurvives, StepStopKeepsAll DEF WorldInv
  <1>2. ASSUME WorldInv, UNCHANGED vars PROVE WorldInv'
    <2> USE <1>2 DEF WorldInv, vars, loopVars, requests, disk, history
    <2>1. TypeOK'
      BY DEF TypeOK
    <2>2. SaveInv' /\ EditsAreMade' /\ TimerCounts'
      BY DEF SaveInv, EditsAreMade, TimerCounts
    <2>3. FileIsSaved' /\ SavedSurvives' /\ UnsavedIsYoung' /\ StopKeepsAll'
      BY DEF FileIsSaved, SavedSurvives, UnsavedIsYoung, StopKeepsAll
    <2> QED  BY <2>1, <2>2, <2>3
  <1> QED  BY <1>1, <1>2

LEMMA WorldInvHolds == Spec => []WorldInv
  BY InitHolds, Inductive, PTL DEF Spec

-----------------------------------------------------------------------------
(* What the server promises.                                               *)

\* Every variable of the loop, the files and the histories keeps its type.
THEOREM PersistenceTypeCorrect == Spec => []TypeOK
  <1>1. WorldInv => TypeOK
    BY DEF WorldInv
  <1> QED  BY <1>1, WorldInvHolds, PTL

\* overlay_save replaces the file as a whole: at every moment it holds what was
\* saved last, unless the power failed or the file could not be read.
THEOREM FileIsAlwaysWhole == Spec => []FileIsSaved
  <1>1. WorldInv => FileIsSaved
    BY DEF WorldInv
  <1> QED  BY <1>1, WorldInvHolds, PTL

\* What was saved is in the world of every later start of server_run_ex.
THEOREM SavedEditsSurvive == Spec => []SavedSurvives
  <1>1. WorldInv => SavedSurvives
    BY DEF WorldInv
  <1> QED  BY <1>1, WorldInvHolds, PTL

\* The periodic save of server_tick leaves no edit unsaved for longer than its
\* interval, one more for every save that failed.
THEOREM UnsavedStaysYoung == Spec => []UnsavedIsYoung
  <1>1. WorldInv => UnsavedIsYoung
    BY DEF WorldInv
  <1> QED  BY <1>1, WorldInvHolds, PTL

\* The final save of server_run_ex: a stopped server has saved all edits, or a
\* save has failed.
THEOREM StopLosesNothing == Spec => []StopKeepsAll
  <1>1. WorldInv => StopKeepsAll
    BY DEF WorldInv
  <1> QED  BY <1>1, WorldInvHolds, PTL

-----------------------------------------------------------------------------
(* Persistence implements WorldStore.                                      *)

LEMMA InitRefines == Init => Store!Init
  BY DEF Init, Store!Init, Content, NoFile, Blank

\* Each step is an edit, a save, a restart, or damage, or changes nothing of
\* the store.
LEMMA StepRefines ==
  ASSUME WorldInv, Next
  PROVE  [Store!Next]_(Store!vars)
  <1> DEFINE World == IF pc = "down" THEN Content(file) ELSE overlay
  <1>0. /\ overlay \in Worlds /\ edits \in Nat /\ damaged \in BOOLEAN
        /\ file \in Files
    BY DEF WorldInv, TypeOK
  <1>a. ASSUME World' = World, Content(file)' = Content(file),
               damaged' = damaged
        PROVE  UNCHANGED Store!vars
    BY <1>a DEF Store!vars
  <1>b. ASSUME damaged' = TRUE PROVE Store!Next
    BY <1>b DEF Store!Next
  <1>c. ASSUME damaged' = damaged, World' = Content(file),
               Content(file)' = Content(file)
        PROVE  Store!Next
    BY <1>0, <1>b, <1>c DEF Store!Next, Store!Restart
  <1>d. ASSUME file' = file PROVE Content(file)' = Content(file)
    BY <1>d DEF Content
  <1>1. CASE Start
    <2>1. CASE overlay' = Content(file) /\ UNCHANGED damaged
      <3>1. pc' # "down" /\ pc = "down" /\ file' = file
        BY <1>1 DEF Start, disk
      <3> QED  BY <1>a, <1>d, <2>1, <3>1
    <2>2. CASE damaged' = TRUE
      BY <1>b, <2>2
    <2> QED  BY <1>1, <2>1, <2>2 DEF Start
  <1>2. ASSUME NEW c \in Cells, Edit(c) PROVE Store!Next
    <2>1. /\ pc' = pc /\ pc = "tick" /\ file' = file /\ damaged' = damaged
          /\ overlay' = [overlay EXCEPT ![c] = edits + 1]
          /\ edits + 1 \in 1 .. MaxEdits
      BY <1>0, <1>2, PersistenceAssumption DEF Edit, disk, history
    <2>2. overlay[c] < edits + 1
      BY <1>0 DEF WorldInv, EditsAreMade
    <2>3. Store!Record
      BY <1>d, <2>1, <2>2 DEF Store!Record
    <2> QED  BY <1>0, <1>b, <2>1, <2>3 DEF Store!Next
  <1>3. CASE Rename
    <2>1. /\ file' = Whole(overlay) /\ overlay' = overlay
          /\ damaged' = damaged /\ pc # "down" /\ pc' # "down"
      BY <1>3 DEF Rename, WorldInv, SaveInv, TypeOK
    <2>2. Content(file)' = overlay
      BY <1>0, <2>1, FileTyped DEF Content
    <2>3. Store!Save
      BY <2>1, <2>2 DEF Store!Save
    <2> QED  BY <1>0, <1>b, <2>1, <2>3 DEF Store!Next
  <1>4. CASE Exit \/ Crash
    <2>1. pc' = "down" /\ file' = file /\ damaged' = damaged
      BY <1>4 DEF Exit, Crash, Gone, disk
    <2> QED  BY <1>c, <1>d, <2>1
  <1>5. CASE PowerFails
    <2>1. CASE file' = file
      <3>1. pc' = "down" /\ (damaged' = damaged \/ damaged' = TRUE)
        BY <1>0, <1>5, <2>1 DEF PowerFails, Gone
      <3> QED  BY <1>b, <1>c, <1>d, <2>1, <3>1
    <2>2. CASE file' # file
      BY <1>5, <1>b, <2>2 DEF PowerFails
    <2> QED  BY <2>1, <2>2
  <1>6. ASSUME UNCHANGED <<overlay, file, damaged>>,
               (pc # "down" /\ pc' # "down") \/ pc' = pc
        PROVE  UNCHANGED Store!vars
    <2>1. World' = World
      BY <1>6, <1>d
    <2> QED  BY <1>6, <1>a, <1>d, <2>1
  <1>7. CASE BeginTick \/ Tick \/ TakeRequest \/ Leave
    BY <1>6, <1>7
    DEF BeginTick, Tick, TakeRequest, Leave, loopVars, disk, history
  <1>8. CASE Open \/ Write
    BY <1>6, <1>8 DEF Open, Write, loopVars, history
  <1>9. CASE Fails
    <2>1. after # "down"
      BY DEF WorldInv, TypeOK
    <2> QED  BY <1>6, <1>9, <2>1 DEF Fails, Saving, loopVars
  <1>10. CASE RequestSave \/ RequestStop \/ WriteBack
    BY <1>6, <1>10
    DEF RequestSave, RequestStop, WriteBack, loopVars, disk, history
  <1> QED
    BY <1>1, <1>2, <1>3, <1>4, <1>5, <1>7, <1>8, <1>9, <1>10
    DEF Next, Loop, Save

\* The server's loop, its saves, crashes and restarts implement the store that
\* a player is promised.
THEOREM ImplementsWorldStore == Spec => ImplementsStore
  <1>1. WorldInv /\ [Next]_vars => [Store!Next]_(Store!vars)
    <2>1. ASSUME UNCHANGED vars PROVE UNCHANGED Store!vars
      BY <2>1 DEF vars, loopVars, disk, history, Store!vars, Content
    <2> QED  BY <2>1, StepRefines
  <1> QED
    BY <1>1, InitRefines, WorldInvHolds, PTL
    DEF Spec, ImplementsStore, Store!Spec

-----------------------------------------------------------------------------
(* The menu of worlds: name and seed are made of one counter, and as long  *)
(* as nothing is lost the worlds are numbered from 1 without a gap.        *)

NameIsSeed ==
  /\ session.world.seed = session.world.name - 1
  /\ \A k \in Names : /\ meta[k] \in Meta => meta[k].name = k /\ meta[k].seed = k - 1
                      /\ dat[k] \in {k - 1, NoEdits}

Numbered(n) ==
  /\ \A k \in Names : meta[k] # Missing \/ dat[k] # NoEdits => k <= n
  /\ \A k \in Names :
       k <= n => meta[k] \in Meta \/ (at = "writing" /\ k = session.world.name)
  /\ at \in {"writing", "playing"} => session.world.name <= n
  /\ at = "menu" => counter = IF n <= ListMax THEN n ELSE ListMax

MenuInv ==
  /\ MenuTypeOK /\ NameIsSeed /\ NewWorldIsNew
  /\ losses = 0 => \E n \in 0 .. ListMax + 1 : Numbered(n)

Readable == {meta[k] : k \in Names} \cap Meta

LEMMA NamesAre ==
  /\ Names = 1 .. ListMax + 1 /\ NoEdits = ListMax + 1 /\ ListMax \in Nat
  /\ \A m \in Meta : /\ m.name \in Names /\ m.seed \in 0 .. ListMax
                     /\ m.played \in 1 .. MaxPlayed
  /\ Missing \notin Meta /\ Unreadable \notin Meta /\ Missing # Unreadable
<1>1. \A m \in Meta : m.name \in Names
  BY DEF Meta
<1>2. 0 \notin Names
  BY MenuAssumption DEF Names
<1>3. Missing.name = 0 /\ Unreadable.name = 0
  BY DEF Missing, Unreadable
<1>4. DOMAIN Missing # DOMAIN Unreadable
  BY DEF Missing, Unreadable
<1> QED
  BY <1>1, <1>2, <1>3, <1>4, MenuAssumption DEF Names, NoEdits, Meta

LEMMA ReadableFinite == IsFiniteSet(Readable)
<1> DEFINE All == {meta[k] : k \in Names}
           f == [k \in Names |-> meta[k]]
<1>1. IsFiniteSet(Names)
  BY FS_Interval, NamesAre
<1>2. f \in Surjection(Names, All)
  BY DEF Surjection
<1>3. IsFiniteSet(All)
  BY <1>1, <1>2, FS_Surjection
<1> QED  BY <1>3, FS_Subset DEF Readable

\* A list shows worlds that can be read, all of them if there is room.
LEMMA ListsShow ==
  ASSUME NEW l \in Lists
  PROVE  /\ \A i \in DOMAIN l : l[i] \in Readable
         /\ Len(l) = IF Cardinality(Readable) <= ListMax THEN Cardinality(Readable)
                     ELSE ListMax
<1> DEFINE shown == IF Cardinality(Readable) <= ListMax THEN {Readable}
                    ELSE kSubset(ListMax, Readable)
<1>1. PICK r \in shown : l \in SetToSeqs(r)
  BY DEF Lists, Readable
<1>2. /\ r \subseteq Readable
      /\ Cardinality(r) = IF Cardinality(Readable) <= ListMax
                          THEN Cardinality(Readable) ELSE ListMax
  BY <1>1 DEF kSubset
<1>3. l \in [1 .. Cardinality(r) -> r]
  BY <1>1 DEF SetToSeqs
<1>4. Cardinality(r) \in Nat
  BY <1>2, ReadableFinite, FS_CardinalityType, MenuAssumption
<1> HIDE DEF shown
<1>5. Len(l) = Cardinality(r)
  BY <1>3, <1>4
<1> QED  BY <1>2, <1>3, <1>5

LEMMA ListsTyped ==
  ASSUME NEW l \in Lists
  PROVE  Len(l) \in 0 .. ListMax
BY ListsShow, ReadableFinite, FS_CardinalityType, MenuAssumption

LEMMA ListedAre ==
  ASSUME NameIsSeed, NEW l \in Lists, NEW i \in DOMAIN l
  PROVE  /\ l[i] \in Meta /\ l[i].seed = l[i].name - 1
         /\ meta[l[i].name] = l[i]
<1>1. l[i] \in Readable
  BY ListsShow
<1>2. PICK k \in Names : meta[k] = l[i] /\ l[i] \in Meta
  BY <1>1 DEF Readable
<1> QED  BY <1>2 DEF NameIsSeed

\* Worlds numbered from 1 to n, all readable, are n worlds.
LEMMA CounterCounts ==
  ASSUME NameIsSeed, at = "off", NEW n \in 0 .. ListMax + 1, Numbered(n)
  PROVE  Cardinality(Readable) = n
<1> DEFINE f == [k \in 1 .. n |-> meta[k]]
<1>1. \A k \in 1 .. n : k \in Names /\ meta[k] \in Meta /\ meta[k].name = k
  BY NamesAre DEF Numbered, NameIsSeed
<1>2. \A k \in Names : meta[k] \in Meta => k \in 1 .. n
  BY NamesAre DEF Numbered
<1>3. f \in Injection(1 .. n, Readable)
  <2>1. f \in [1 .. n -> Readable]
    BY <1>1 DEF Readable
  <2>2. \A j, k \in 1 .. n : f[j] = f[k] => j = k
    BY <1>1
  <2> QED  BY <2>1, <2>2 DEF Injection, IsInjective
<1>4. f \in Surjection(1 .. n, Readable)
  <2>1. \A m \in Readable : \E k \in 1 .. n : f[k] = m
    BY <1>2 DEF Readable
  <2> QED  BY <1>3, <2>1 DEF Injection, Surjection
<1>5. ExistsBijection(1 .. n, Readable)
  BY <1>3, <1>4 DEF ExistsBijection, Bijection
<1> QED  BY <1>5, FS_CountingElements, MenuAssumption

-----------------------------------------------------------------------------
LEMMA MenuInvInit == MenuInit => MenuInv
<1> SUFFICES ASSUME MenuInit PROVE MenuInv
  OBVIOUS
<1>1. MenuTypeOK
  BY MenuAssumption DEF MenuInit, MenuTypeOK, Meta, Names, NoEdits
<1>2. NameIsSeed
  BY NamesAre DEF MenuInit, NameIsSeed
<1>3. Numbered(0)
  BY NamesAre DEF MenuInit, Numbered
<1>4. 0 \in 0 .. ListMax + 1
  BY MenuAssumption
<1> QED
  BY <1>1, <1>2, <1>3, <1>4 DEF MenuInv, NewWorldIsNew, MenuInit

\* A world is chosen for a session: its meta file is emptied, or left as it is.
LEMMA ChooseSteps ==
  ASSUME MenuInv, at = "menu", NEW w \in Meta, NEW new \in BOOLEAN,
         w.seed = w.name - 1, Choose(w, new)
  PROVE  /\ session' = [world |-> w, new |-> new] /\ counter' = counter
         /\ at' \in {"writing", "playing"} /\ dat' = dat
         /\ (losses' = losses /\ at' = "writing") \/ losses' \in 1 .. MaxLosses
         /\ meta' \in [Names -> Meta \cup {Missing, Unreadable}]
         /\ \A k \in Names : \/ meta'[k] = meta[k] /\ k # w.name
                             \/ meta'[k] = meta[k] /\ losses' # 0
                             \/ meta'[k] = Unreadable /\ k = w.name
         /\ NameIsSeed'
<1>1. /\ session' = [world |-> w, new |-> new] /\ counter' = counter
      /\ at' \in {"writing", "playing"} /\ dat' = dat
  BY DEF Choose
<1>2. w.name \in Names
  BY NamesAre
<1>3. /\ (losses' = losses /\ at' = "writing") \/ losses' \in 1 .. MaxLosses
      /\ meta' \in [Names -> Meta \cup {Missing, Unreadable}]
      /\ \A k \in Names : \/ meta'[k] = meta[k] /\ k # w.name
                          \/ meta'[k] = meta[k] /\ losses' # 0
                          \/ meta'[k] = Unreadable /\ k = w.name
  <2>1. CASE at' = "writing" /\ losses' = losses
             /\ meta' = [meta EXCEPT ![w.name] = Unreadable]
    BY <1>2, <2>1 DEF MenuInv, MenuTypeOK
  <2>2. CASE losses < MaxLosses /\ losses' = losses + 1 /\ meta' = meta
    BY <2>2, MenuAssumption DEF MenuInv, MenuTypeOK
  <2> QED  BY <2>1, <2>2 DEF Choose
<1>4. NameIsSeed'
  <2>1. \A k \in Names : meta'[k] \in Meta => meta'[k] = meta[k]
    BY <1>3, NamesAre
  <2>2. session'.world = w
    BY <1>1
  <2> QED  BY <1>1, <2>1, <2>2 DEF MenuInv, NameIsSeed
<1> QED  BY <1>1, <1>3, <1>4

LEMMA NewWorldKeeps == ASSUME MenuInv, NewWorld PROVE MenuInv'
<1>0. PICK k \in Names : k = counter + 1 /\ k <= MaxPlayed
  <2>1. counter \in 0 .. ListMax /\ counter + 1 <= MaxPlayed
    BY DEF NewWorld, MenuInv, MenuTypeOK
  <2> QED  BY <2>1, NamesAre
<1> DEFINE w == [name |-> k, seed |-> counter, played |-> k]
<1>1. /\ at = "menu" /\ Choose(w, TRUE)
      /\ fresh' = (meta[k] = Missing /\ dat[k] = NoEdits)
      /\ k \in Names /\ k <= MaxPlayed
  BY <1>0 DEF NewWorld
<1>2. w \in Meta /\ w.name = k /\ w.seed = k - 1
  BY <1>0, NamesAre, MenuAssumption DEF Meta, MenuInv, MenuTypeOK
<1> HIDE DEF w
<1>3. /\ session' = [world |-> w, new |-> TRUE] /\ counter' = counter
      /\ at' \in {"writing", "playing"} /\ dat' = dat
      /\ (losses' = losses /\ at' = "writing") \/ losses' \in 1 .. MaxLosses
      /\ meta' \in [Names -> Meta \cup {Missing, Unreadable}]
      /\ \A j \in Names : \/ meta'[j] = meta[j] /\ j # k
                          \/ meta'[j] = meta[j] /\ losses' # 0
                          \/ meta'[j] = Unreadable /\ j = k
      /\ NameIsSeed'
  BY <1>1, <1>2, ChooseSteps
<1>4. MenuTypeOK'
  <2>1. losses' \in 0 .. MaxLosses
    BY <1>3, MenuAssumption DEF MenuInv, MenuTypeOK
  <2>2. session' \in [world : Meta, new : BOOLEAN]
    BY <1>2, <1>3
  <2> QED  BY <1>1, <1>3, <2>1, <2>2 DEF MenuInv, MenuTypeOK
<1>5. ASSUME losses' = 0
      PROVE  /\ fresh' \/ counter = ListMax
             /\ \E n \in 0 .. ListMax + 1 : Numbered(n)'
  <2>1. losses = 0 /\ at' = "writing"
    BY <1>3, <1>5
  <2>2. PICK n \in 0 .. ListMax + 1 : Numbered(n)
    BY <2>1 DEF MenuInv
  <2>3. counter = IF n <= ListMax THEN n ELSE ListMax
    BY <1>1, <2>2 DEF Numbered
  <2>4. fresh' \/ counter = ListMax
    <3>1. CASE counter # ListMax
      <4>1. ~(k <= n)
        BY <1>0, <2>3, <3>1, NamesAre
      <4>2. meta[k] = Missing /\ dat[k] = NoEdits
        BY <2>2, <4>1 DEF Numbered
      <4> QED  BY <1>1, <4>2
    <3> QED  BY <3>1
  <2>5. session'.world.name = k
    BY <1>2, <1>3
  <2>6. k \in 0 .. ListMax + 1 /\ n <= k
    BY <1>0, <2>3, NamesAre
  <2>7. Numbered(k)'
    <3>1. \A j \in Names : meta'[j] # Missing \/ dat'[j] # NoEdits => j <= k
      BY <1>1, <1>3, <2>2, <2>6, NamesAre DEF Numbered
    <3>2. \A j \in Names : j <= k => j = k \/ j <= n
      BY <1>0, <2>3, NamesAre
    <3>3. \A j \in Names : j <= k => meta'[j] \in Meta \/ j = k
      BY <1>1, <1>3, <1>5, <2>2, <3>2 DEF Numbered
    <3>4. k <= k
      BY NamesAre
    <3> QED
      BY <2>1, <2>5, <3>1, <3>3, <3>4 DEF Numbered
  <2> QED  BY <2>4, <2>6, <2>7
<1>6. NewWorldIsNew'
  <2>1. losses' \in Nat
    BY <1>4, MenuAssumption DEF MenuTypeOK
  <2> QED  BY <1>3, <1>5, <2>1 DEF NewWorldIsNew
<1> QED  BY <1>3, <1>4, <1>5, <1>6 DEF MenuInv

LEMMA LoadWorldKeeps == ASSUME MenuInv, LoadWorld PROVE MenuInv'
<1>0. PICK l \in Lists : \E i \in DOMAIN l :
        /\ l[i].played < MaxPlayed
        /\ Choose([l[i] EXCEPT !.played = @ + 1], FALSE)
  BY DEF LoadWorld
<1>1. PICK i \in DOMAIN l :
        /\ l[i].played < MaxPlayed
        /\ Choose([l[i] EXCEPT !.played = @ + 1], FALSE)
  BY <1>0
<1> DEFINE w == [l[i] EXCEPT !.played = @ + 1]
           k == l[i].name
<1>2. at = "menu" /\ fresh' = fresh
  BY DEF LoadWorld
<1>3. l[i] \in Meta /\ l[i].seed = k - 1 /\ meta[k] = l[i] /\ k \in Names
  BY ListedAre, NamesAre DEF MenuInv
<1>4. w \in Meta /\ w.name = k /\ w.seed = k - 1
  BY <1>1, <1>3, MenuAssumption DEF Meta
<1>5. Choose(w, FALSE)
  BY <1>1
<1> HIDE DEF w, k
<1>6. /\ session' = [world |-> w, new |-> FALSE] /\ counter' = counter
      /\ at' \in {"writing", "playing"} /\ dat' = dat
      /\ (losses' = losses /\ at' = "writing") \/ losses' \in 1 .. MaxLosses
      /\ meta' \in [Names -> Meta \cup {Missing, Unreadable}]
      /\ \A j \in Names : \/ meta'[j] = meta[j] /\ j # k
                          \/ meta'[j] = meta[j] /\ losses' # 0
                          \/ meta'[j] = Unreadable /\ j = k
      /\ NameIsSeed'
  BY <1>2, <1>4, <1>5, ChooseSteps
<1>7. session'.world.name = k /\ ~session'.new
  BY <1>4, <1>6
<1>8. MenuTypeOK'
  <2>1. losses' \in 0 .. MaxLosses
    BY <1>6, MenuAssumption DEF MenuInv, MenuTypeOK
  <2>2. session' \in [world : Meta, new : BOOLEAN]
    BY <1>4, <1>6
  <2> QED  BY <1>2, <1>6, <2>1, <2>2 DEF MenuInv, MenuTypeOK
<1>9. ASSUME losses' = 0 PROVE \E n \in 0 .. ListMax + 1 : Numbered(n)'
  <2>1. losses = 0 /\ at' = "writing"
    BY <1>6, <1>9
  <2>2. PICK n \in 0 .. ListMax + 1 : Numbered(n)
    BY <2>1 DEF MenuInv
  <2>3. k <= n
    BY <1>3, <2>2, NamesAre DEF Numbered
  <2>4. Numbered(n)'
    <3>1. \A j \in Names : meta'[j] # Missing \/ dat'[j] # NoEdits => j <= n
      BY <1>6, <2>2, <2>3 DEF Numbered
    <3>2. \A j \in Names : j <= n => meta'[j] \in Meta \/ j = k
      BY <1>2, <1>6, <2>2 DEF Numbered
    <3> QED  BY <1>7, <2>1, <2>3, <3>1, <3>2 DEF Numbered
  <2> QED  BY <2>4
<1> QED
  BY <1>6, <1>7, <1>8, <1>9 DEF MenuInv, NewWorldIsNew

LEMMA MenuInvStep == ASSUME MenuInv, [MenuNext]_menuVars PROVE MenuInv'
<1>1. CASE OpenMenu
  <2>1. PICK l \in Lists : counter' = Len(l)
    BY <1>1 DEF OpenMenu
  <2>2. /\ at = "off" /\ at' = "menu"
        /\ UNCHANGED <<session, fresh, meta, dat, losses>>
    BY <1>1 DEF OpenMenu
  <2>3. MenuTypeOK'
    BY <2>1, <2>2, ListsTyped DEF MenuInv, MenuTypeOK
  <2>4. ASSUME losses = 0 PROVE \E n \in 0 .. ListMax + 1 : Numbered(n)'
    <3>1. PICK n \in 0 .. ListMax + 1 : Numbered(n)
      BY <2>4 DEF MenuInv
    <3>2. Cardinality(Readable) = n
      BY <2>2, <3>1, CounterCounts DEF MenuInv
    <3>3. counter' = IF n <= ListMax THEN n ELSE ListMax
      BY <2>1, <3>2, ListsShow
    <3>4. Numbered(n)'
      BY <2>2, <3>1, <3>3 DEF Numbered
    <3> QED  BY <3>4
  <2> QED
    BY <2>2, <2>3, <2>4 DEF MenuInv, NameIsSeed, NewWorldIsNew
<1>2. CASE WriteMeta
  <2>1. /\ at = "writing" /\ at' = "playing"
        /\ meta' = [meta EXCEPT ![session.world.name] = session.world]
        /\ UNCHANGED <<counter, session, fresh, dat, losses>>
    BY <1>2 DEF WriteMeta
  <2>2. session.world \in Meta /\ session.world.name \in Names
    BY NamesAre DEF MenuInv, MenuTypeOK
  <2>3. MenuTypeOK'
    BY <2>1, <2>2 DEF MenuInv, MenuTypeOK
  <2>4. \A k \in Names :
          meta'[k] = IF k = session.world.name THEN session.world ELSE meta[k]
    BY <2>1 DEF MenuInv, MenuTypeOK
  <2>5. NameIsSeed'
    BY <2>1, <2>4 DEF MenuInv, NameIsSeed
  <2>6. ASSUME NEW n \in 0 .. ListMax + 1, Numbered(n) PROVE Numbered(n)'
    BY <2>1, <2>2, <2>4, <2>6 DEF Numbered
  <2> QED
    BY <2>1, <2>3, <2>5, <2>6 DEF MenuInv, NewWorldIsNew
<1>3. CASE SaveWorld
  <2> DEFINE k == session.world.name
  <2>1. /\ at = "playing"
        /\ dat' = [dat EXCEPT ![k] = IF @ = NoEdits THEN session.world.seed ELSE @]
        /\ UNCHANGED <<at, counter, session, fresh, meta, losses>>
    BY <1>3 DEF SaveWorld
  <2>2. k \in Names /\ session.world.seed = k - 1 /\ session.world.seed \in 0 .. ListMax
    BY NamesAre DEF MenuInv, MenuTypeOK, NameIsSeed
  <2>3. \A j \in Names : dat'[j] = dat[j] \/ (j = k /\ dat'[j] = k - 1)
    BY <2>1, <2>2 DEF MenuInv, MenuTypeOK
  <2>4. MenuTypeOK'
    BY <2>1, <2>2, NamesAre DEF MenuInv, MenuTypeOK
  <2>5. NameIsSeed'
    BY <2>1, <2>3 DEF MenuInv, NameIsSeed
  <2>6. ASSUME NEW n \in 0 .. ListMax + 1, Numbered(n) PROVE Numbered(n)'
    BY <2>1, <2>3, <2>6 DEF Numbered
  <2> QED
    BY <2>1, <2>4, <2>5, <2>6 DEF MenuInv, NewWorldIsNew
<1>4. CASE LeaveWorld
  <2>1. ASSUME NEW n \in 0 .. ListMax + 1, Numbered(n) PROVE Numbered(n)'
    BY <1>4, <2>1 DEF LeaveWorld, Numbered
  <2> QED
    BY <1>4, <2>1 DEF LeaveWorld, MenuInv, MenuTypeOK, NameIsSeed, NewWorldIsNew
<1>5. CASE CrashUnwritten
  <2>1. losses' \in 1 .. MaxLosses
    BY <1>5, MenuAssumption DEF CrashUnwritten, MenuInv, MenuTypeOK
  <2> QED
    BY <1>5, <2>1, MenuAssumption
       DEF CrashUnwritten, MenuInv, MenuTypeOK, NameIsSeed, NewWorldIsNew
<1>6. ASSUME NEW k \in Names, Delete(k) PROVE MenuInv'
  <2>1. losses' \in 1 .. MaxLosses
    BY <1>6, MenuAssumption DEF Delete, MenuInv, MenuTypeOK
  <2>2. MenuTypeOK'
    BY <1>6, <2>1, NamesAre DEF Delete, MenuInv, MenuTypeOK
  <2>3. \A j \in Names : /\ meta'[j] = meta[j] \/ meta'[j] = Missing
                         /\ dat'[j] = dat[j] \/ dat'[j] = NoEdits
    BY <1>6 DEF Delete, MenuInv, MenuTypeOK
  <2>4. NameIsSeed'
    BY <1>6, <2>3, NamesAre DEF Delete, MenuInv, NameIsSeed
  <2> QED
    BY <1>6, <2>1, <2>2, <2>4, MenuAssumption DEF Delete, MenuInv, NewWorldIsNew
<1>7. CASE UNCHANGED menuVars
  <2>1. ASSUME NEW n \in 0 .. ListMax + 1, Numbered(n) PROVE Numbered(n)'
    BY <1>7, <2>1 DEF menuVars, Numbered
  <2> QED
    BY <1>7, <2>1 DEF menuVars, MenuInv, MenuTypeOK, NameIsSeed, NewWorldIsNew
<1> QED
  BY <1>1, <1>2, <1>3, <1>4, <1>5, <1>6, <1>7, NewWorldKeeps, LoadWorldKeeps
     DEF MenuNext

LEMMA MenuInvariant == MenuSpec => []MenuInv
BY MenuInvInit, MenuInvStep, PTL DEF MenuSpec

\* New World (main.c) opens a world that was not there, for every size of the
\* list, until a world was lost or the list is full.
THEOREM NewWorldsAreNew == MenuSpec => []NewWorldIsNew
<1>1. MenuInv => NewWorldIsNew
  BY DEF MenuInv
<1> QED  BY <1>1, MenuInvariant, PTL

\* A world opened from the menu (main.c) never has its saved edits replayed on
\* the terrain of another seed, and no two worlds share edits.
THEOREM TerrainKeepsItsEdits == MenuSpec => []EditsKeepTheirTerrain
<1>1. MenuInv => EditsKeepTheirTerrain
  <2> SUFFICES ASSUME MenuInv PROVE EditsKeepTheirTerrain
    OBVIOUS
  <2>1. session.world.name \in Names
    BY NamesAre DEF MenuInv, MenuTypeOK
  <2>2. dat[session.world.name] \in {session.world.seed, NoEdits}
    BY <2>1 DEF MenuInv, NameIsSeed
  <2>3. \A k, j \in Names : dat[k] = dat[j] /\ dat[k] # NoEdits => k = j
    BY NamesAre DEF MenuInv, NameIsSeed
  <2> QED  BY <2>2, <2>3 DEF EditsKeepTheirTerrain
<1> QED  BY <1>1, MenuInvariant, PTL

=============================================================================
