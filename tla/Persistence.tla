---------------------------- MODULE Persistence ----------------------------
(***************************************************************************)
(* The edits of a world and the file that keeps them (world_persist.c),    *)
(* with the server loop that decides when to save, the stop and the save   *)
(* requests of the user interface, crashes, power failures and restarts.   *)
(*                                                                         *)
(* The server's thread alone records edits and saves; the workers that     *)
(* read the overlay under its mutex are ChunkPipeline's.  A save is the    *)
(* steps of the file system that a crash can fall between.  An overlay is  *)
(* the number of the last edit of each cell.                               *)
(***************************************************************************)
EXTENDS Naturals

CONSTANTS
  Cells,         \* positions of blocks
  SaveInterval,  \* ticks between periodic saves (30 seconds)
  Burst,         \* ticks run before the stop flag is looked at again (4)
  RenameReplaces,  \* rename replaces a file: POSIX yes, Windows no
  MaxEdits, MaxCrashes, MaxFailures  \* bounds

ASSUME PersistenceAssumption ==
  /\ SaveInterval \in Nat \ {0} /\ Burst \in Nat \ {0}
  /\ RenameReplaces \in BOOLEAN
  /\ MaxEdits \in Nat /\ MaxCrashes \in Nat /\ MaxFailures \in Nat

VARIABLES
  pc,        \* where the server's thread is
  after,     \* where it goes on after a save
  overlay,   \* the recorded edits, in memory
  dirty,     \* overlay_dirty
  timer,     \* save_timer, in ticks
  burst,     \* ticks still due before the loop looks at the stop flag
  saveReq, stop,  \* g_server_save_req, g_server_stop
  file, tmp, \* the world's file and the temporary file
  durable,   \* the file a power failure leaves, if file is not yet written back
  edits,     \* number of edits made
  saved,     \* history: what "world saved" was said of last, or what damage left
  waiting,   \* history: ticks since the oldest unsaved edit
  misses,    \* history: saves that failed since the last one that did not
  damaged,   \* history: a power failure or an unreadable file cost the world
  crashes, failures

loopVars == <<overlay, dirty, timer, burst>>
requests == <<saveReq, stop>>
disk == <<file, tmp, durable>>
history == <<saved, waiting, misses, damaged>>
vars == <<pc, after, loopVars, requests, disk, edits, history, crashes,
          failures>>

Worlds == [Cells -> 0 .. MaxEdits]
Blank == [c \in Cells |-> 0]

\* A file is missing, readable, or cut short.
Files == [kind : {"none", "whole", "torn"}, data : Worlds]
NoFile == [kind |-> "none", data |-> Blank]
Torn == [kind |-> "torn", data |-> Blank]
Whole(w) == [kind |-> "whole", data |-> w]

\* overlay_load, else overlay_init.
Content(f) == IF f.kind = "whole" THEN f.data ELSE Blank

Saving == {"open", "write", "rename"}
Running == {"loop", "tick", "request", "exit"} \cup Saving

TypeOK ==
  /\ pc \in Running \cup {"down"} /\ after \in {"loop", "request", "exit"}
  /\ overlay \in Worlds /\ dirty \in BOOLEAN
  /\ timer \in 0 .. SaveInterval - 1 /\ burst \in 0 .. Burst - 1
  /\ saveReq \in BOOLEAN /\ stop \in BOOLEAN
  /\ file \in Files /\ tmp \in Files /\ durable \in Files
  /\ edits \in 0 .. MaxEdits
  /\ saved \in Worlds /\ waiting \in Nat /\ misses \in Nat
  /\ damaged \in BOOLEAN
  /\ crashes \in 0 .. MaxCrashes /\ failures \in 0 .. MaxFailures

Init ==
  /\ pc = "down" /\ after = "loop"
  /\ overlay = Blank /\ dirty = FALSE /\ timer = 0 /\ burst = 0
  /\ saveReq = FALSE /\ stop = FALSE
  /\ file = NoFile /\ tmp = NoFile /\ durable = NoFile
  /\ edits = 0
  /\ saved = Blank /\ waiting = 0 /\ misses = 0 /\ damaged = FALSE
  /\ crashes = 0 /\ failures = 0

-----------------------------------------------------------------------------
(* server_run_ex and server_tick.                                          *)

\* Mutant of Start: a temporary file left by a crash is taken for the world.
StartFromTmp ==
  /\ pc = "down"
  /\ pc' = "loop"
  /\ overlay' = IF tmp.kind = "whole" THEN tmp.data ELSE Content(file)
  /\ dirty' = FALSE /\ timer' = 0 /\ burst' = 0
  /\ saveReq' = FALSE /\ stop' = FALSE
  /\ saved' = IF damaged THEN overlay' ELSE saved
  /\ waiting' = 0
  /\ UNCHANGED <<after, disk, edits, misses, damaged, crashes, failures>>

\* Mutant of Start: the overlay is initialised without the file.
StartAfresh ==
  /\ pc = "down"
  /\ pc' = "loop"
  /\ overlay' = Blank
  /\ dirty' = FALSE /\ timer' = 0 /\ burst' = 0
  /\ saveReq' = FALSE /\ stop' = FALSE
  /\ saved' = IF damaged THEN overlay' ELSE saved
  /\ waiting' = 0
  /\ UNCHANGED <<after, disk, edits, misses, damaged, crashes, failures>>

\* The overlay is loaded before the world is published.  A file that is
\* missing or malformed means a fresh world, and so does one that cannot be
\* read this time.
Start ==
  /\ pc = "down"
  /\ pc' = "loop"
  /\ \/ /\ overlay' = Content(file)
        /\ UNCHANGED <<damaged, failures>>
     \/ /\ file.kind = "whole" /\ failures < MaxFailures
        /\ overlay' = Blank
        /\ damaged' = TRUE
        /\ failures' = failures + 1
  /\ dirty' = FALSE /\ timer' = 0 /\ burst' = 0
  /\ saveReq' = FALSE /\ stop' = FALSE
  /\ saved' = IF damaged' THEN overlay' ELSE saved
  /\ waiting' = 0
  /\ UNCHANGED <<after, disk, edits, misses, crashes>>

\* The loop runs the ticks that are due, then looks at the stop flag.
BeginTick ==
  /\ pc = "loop"
  /\ \/ burst > 0 /\ burst' = burst - 1
     \/ burst = 0 /\ ~stop /\ burst' \in 0 .. Burst - 1
  /\ pc' = "tick"
  /\ UNCHANGED <<after, overlay, dirty, timer, requests, disk, edits, history,
                 crashes, failures>>

\* A request of a client is accepted: server_persist_edit.
Edit(c) ==
  /\ pc = "tick"
  /\ edits < MaxEdits
  /\ edits' = edits + 1
  /\ overlay' = [overlay EXCEPT ![c] = edits']
  /\ dirty' = TRUE
  /\ UNCHANGED <<pc, after, timer, burst, requests, disk, history, crashes,
                 failures>>

\* The end of a tick: every SaveInterval ticks server_flush_world, which does
\* nothing if there are no unsaved edits.
Tick ==
  LET due == timer + 1 >= SaveInterval
  IN  /\ pc = "tick"
      /\ timer' = IF due THEN 0 ELSE timer + 1
      /\ waiting' = IF overlay # saved THEN waiting + 1 ELSE 0
      /\ pc' = IF due /\ dirty THEN "open" ELSE "request"
      /\ after' = "request"
      /\ UNCHANGED <<overlay, dirty, burst, requests, disk, edits, saved,
                     misses, damaged, crashes, failures>>

\* Then a save the user has asked for, edits or not.
TakeRequest ==
  /\ pc = "request"
  /\ saveReq' = FALSE
  /\ timer' = IF saveReq THEN 0 ELSE timer
  /\ pc' = IF saveReq THEN "open" ELSE "loop"
  /\ after' = "loop"
  /\ UNCHANGED <<overlay, dirty, burst, stop, disk, edits, history, crashes,
                 failures>>

\* Mutant of Leave: the loop ends without the final save.
LeaveUnsaved ==
  /\ pc = "loop" /\ burst = 0
  /\ stop
  /\ pc' = "exit" /\ after' = "exit"
  /\ UNCHANGED <<loopVars, requests, disk, edits, history, crashes, failures>>

\* The loop ends between two ticks, with a final save.
Leave ==
  /\ pc = "loop" /\ burst = 0
  /\ stop
  /\ pc' = "open" /\ after' = "exit"
  /\ UNCHANGED <<loopVars, requests, disk, edits, history, crashes, failures>>

\* The memory goes with the process.
Gone ==
  /\ pc' = "down"
  /\ overlay' = Blank /\ dirty' = FALSE /\ timer' = 0 /\ burst' = 0
  /\ waiting' = 0
  /\ UNCHANGED <<after, requests, edits, saved, misses>>

Exit ==
  /\ pc = "exit"
  /\ Gone
  /\ UNCHANGED <<disk, damaged, crashes, failures>>

-----------------------------------------------------------------------------
(* overlay_save, for server_flush_world.                                   *)

\* Mutant of Open: the world's file is written in place.
OpenInPlace ==
  /\ pc = "open"
  /\ pc' = "write"
  /\ file' = Torn /\ tmp' = Torn
  /\ UNCHANGED <<after, loopVars, requests, durable, edits, history, crashes,
                 failures>>

\* fopen truncates the temporary file.
Open ==
  /\ pc = "open"
  /\ pc' = "write"
  /\ tmp' = Torn
  /\ UNCHANGED <<after, loopVars, requests, file, durable, edits, history,
                 crashes, failures>>

\* fwrite, fflush and fclose; the file is not synced.
Write ==
  /\ pc = "write"
  /\ pc' = "rename"
  /\ tmp' = Whole(overlay)
  /\ UNCHANGED <<after, loopVars, requests, file, durable, edits, history,
                 crashes, failures>>

Rename ==
  /\ pc = "rename"
  /\ RenameReplaces \/ file.kind = "none"
  /\ pc' = after
  /\ file' = tmp /\ tmp' = NoFile
  /\ dirty' = FALSE
  /\ saved' = overlay /\ waiting' = 0 /\ misses' = 0
  /\ UNCHANGED <<after, overlay, timer, burst, requests, durable, edits, damaged,
                 crashes, failures>>

\* Mutant of Fails: the edits are taken for saved.
FailsClean ==
  /\ pc \in Saving
  /\ \/ failures < MaxFailures /\ failures' = failures + 1
     \/ pc = "rename" /\ ~RenameReplaces /\ file.kind # "none"
        /\ UNCHANGED failures
  /\ pc' = after
  /\ tmp' = IF pc = "open" THEN tmp ELSE NoFile
  /\ dirty' = FALSE
  /\ misses' = misses + 1
  /\ UNCHANGED <<after, overlay, timer, burst, requests, file, durable, edits, saved,
                 waiting, damaged, crashes>>

\* fopen, the write or the rename fails: the temporary file is removed, a
\* warning is written, and the edits stay dirty.
Fails ==
  /\ pc \in Saving
  /\ \/ failures < MaxFailures /\ failures' = failures + 1
     \/ pc = "rename" /\ ~RenameReplaces /\ file.kind # "none"
        /\ UNCHANGED failures
  /\ pc' = after
  /\ tmp' = IF pc = "open" THEN tmp ELSE NoFile
  /\ misses' = misses + 1
  /\ UNCHANGED <<after, loopVars, requests, file, durable, edits, saved,
                 waiting, damaged, crashes>>

Save == Open \/ Write \/ Rename \/ Fails

-----------------------------------------------------------------------------
(* The user interface, the operating system and faults.                    *)

\* Save, and Save & Quit or the end of the program.
RequestSave ==
  /\ pc # "down" /\ ~saveReq
  /\ saveReq' = TRUE
  /\ UNCHANGED <<pc, after, loopVars, stop, disk, edits, history, crashes,
                 failures>>

RequestStop ==
  /\ pc # "down" /\ ~stop
  /\ stop' = TRUE
  /\ UNCHANGED <<pc, after, loopVars, saveReq, disk, edits, history, crashes,
                 failures>>

\* The system writes the renamed file back.
WriteBack ==
  /\ durable # file
  /\ durable' = file
  /\ UNCHANGED <<pc, after, loopVars, requests, file, tmp, edits, history,
                 crashes, failures>>

Crash ==
  /\ pc # "down"
  /\ crashes < MaxCrashes
  /\ crashes' = crashes + 1
  /\ Gone
  /\ UNCHANGED <<disk, damaged, failures>>

\* Of a file that is not written back there may remain the former file, or the
\* new name without its content.
PowerFails ==
  /\ pc # "down"
  /\ crashes < MaxCrashes
  /\ crashes' = crashes + 1
  /\ Gone
  /\ file' \in {file, durable} \cup (IF file = durable THEN {} ELSE {Torn})
  /\ durable' = file'
  /\ damaged' = (damaged \/ file' # file)
  /\ UNCHANGED <<tmp, failures>>

Loop == BeginTick \/ Tick \/ TakeRequest \/ Leave \/ Save \/ Exit

Next ==
  \/ Start \/ Loop \/ \E c \in Cells : Edit(c)
  \/ RequestSave \/ RequestStop \/ WriteBack \/ Crash \/ PowerFails

Spec == Init /\ [][Next]_vars

-----------------------------------------------------------------------------
(* What is kept.                                                           *)

\* A temporary file that is about to get the name is complete, and memory
\* without unsaved edits is what was saved.
SaveInv ==
  /\ pc = "rename" => tmp = Whole(overlay)
  /\ pc # "down" /\ ~dirty => overlay = saved

\* Nothing holds an edit that was not made yet.
EditsAreMade ==
  LET Made == [Cells -> 0 .. edits]
  IN  /\ overlay \in Made /\ saved \in Made
      /\ file.data \in Made /\ tmp.data \in Made /\ durable.data \in Made

\* Between saves the oldest unsaved edit is no older than the timer and the
\* saves that failed account for.
TimerCounts ==
  pc \in {"loop", "tick", "request"} => waiting <= SaveInterval * misses + timer

\* The file is replaced as a whole: whatever the moment of a crash or a failed
\* write, it holds what was saved last.
FileIsSaved ==
  ~damaged => file.kind # "torn" /\ Content(file) = saved

\* What the player was told is saved is in the world after any restart, and
\* only replaced by later edits.
SavedSurvives ==
  ~damaged /\ pc # "down" => \A c \in Cells : overlay[c] >= saved[c]

\* An edit is at most one interval old before it is in the file, one more for
\* every save that failed meanwhile.
UnsavedIsYoung == waiting <= SaveInterval * (misses + 1)

\* A program that was stopped has saved everything, or said that it failed.
StopKeepsAll == pc = "exit" => overlay = saved \/ misses > 0

\* main.c:1028: "the teardown below force-flushes again, so the save is
\* guaranteed", if no call of the file system fails that could have succeeded.
SaveIsGuaranteed == pc = "exit" /\ failures = 0 => overlay = saved

\* The store: file and memory taken together.
Store == INSTANCE WorldStore
           WITH Cells <- Cells, MaxEdits <- MaxEdits,
                world <- IF pc = "down" THEN Content(file) ELSE overlay,
                store <- Content(file),
                damaged <- damaged
ImplementsStore == Store!Spec
=============================================================================
