----------------------------- MODULE MCThreads ------------------------------
(***************************************************************************)
(* The threads of the program, for TLC: the workers of a World, and the    *)
(* threads around a server.  What they share, the world itself, is the     *)
(* subject of ChunkPipeline; a behaviour is about the one group of threads *)
(* or about the other.                                                     *)
(***************************************************************************)
EXTENDS WorkerPool

CONSTANTS SyncTicks, MaxDue, MaxCommands
VARIABLES about, harness, ahead, commands, server, due, taken, stop, published,
          operations, socket, inbound, done, starved

Main == INSTANCE ServerThreads WITH queue <- operations

ASSUME MCThreadsAssumption == Main!SyncAssumption

mainVars == <<harness, ahead, commands, server, due, taken, stop, published,
              operations, socket, inbound, done, starved>>

ThreadsInit == Init /\ Main!Init /\ about \in {"workers", "server"}

ThreadsNext ==
  \/ about = "workers" /\ Next /\ UNCHANGED <<about, mainVars>>
  \/ about = "server" /\ Main!Next /\ UNCHANGED <<about, vars>>

\* The fairness of WorkerPool; the server thread runs, and a join returns when
\* its thread has ended.
ThreadsFairness ==
  /\ \A w \in Workers :
       /\ SF_vars(about = "workers" /\ Acquire(w))
       /\ WF_vars(/\ about = "workers"
                  /\ DecideToSleep(w) \/ Sleep(w) \/ Exit(w) \/ Take(w) \/ Finish(w))
  /\ WF_vars(about = "workers" /\ Broadcast)
  /\ WF_vars(about = "workers" /\ Join)
  /\ WF_mainVars(about = "server" /\ Main!ServerStep)
  /\ WF_mainVars(about = "server" /\ Main!Join)

ThreadsSpec ==
  ThreadsInit /\ [][ThreadsNext]_<<about, vars, mainVars>> /\ ThreadsFairness

\* HARNESS_SYNC_TICKS (main.c) covers the way of a command to the server thread
\* and the tick that carries it out, whatever the tick under way has done.
ReportedIsDone == Main!ReportedIsDone
\* server_request_stop always reaches the loop of server_run_ex: the join of
\* main.c returns.
StopIsHeeded == Main!StopIsHeeded
=============================================================================
