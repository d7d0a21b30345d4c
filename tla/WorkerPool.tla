----------------------------- MODULE WorkerPool -----------------------------
(***************************************************************************)
(* The worker threads of a World (src/src/world.c), its work queue, mutex  *)
(* and condition variable, and how world_destroy stops them.  What a job   *)
(* does is left to ChunkPipeline; here a job is a number, given in the     *)
(* order of submission.                                                    *)
(***************************************************************************)
EXTENDS Integers, Sequences

CONSTANTS
  Workers,      \* the worker threads: max(1, cores - 2), at most 8
  NoWorker,     \* holder of a free mutex
  MaxJobs       \* bound: jobs submitted in one run

ASSUME PoolAssumption ==
  Workers # {} /\ NoWorker \notin Workers /\ MaxJobs \in Nat

VARIABLES
  queue,        \* work_q, first in first out
  submitted,    \* jobs submitted so far: 1 .. submitted
  finished,     \* history: the jobs a worker has carried out
  mutex,        \* the worker holding work_mutex, or NoWorker
  waiting,      \* workers blocked in pt_cond_wait and not yet woken
  pc,           \* where each worker is in worker_func
  job,          \* the job of each worker that is working
  shutdown,     \* the atomic flag
  owner         \* where the owning thread is: running or in world_destroy

vars == <<queue, submitted, finished, mutex, waiting, pc, job, shutdown, owner>>

Jobs == 1 .. MaxJobs

TypeOK ==
  /\ queue \in Seq(Jobs)
  /\ submitted \in 0 .. MaxJobs
  /\ finished \in SUBSET Jobs
  /\ mutex \in Workers \cup {NoWorker}
  /\ waiting \in SUBSET Workers
  /\ pc \in [Workers -> {"outside", "holding", "sleepy", "asleep",
                         "working", "exited"}]
  /\ job \in [Workers -> Jobs \cup {0}]
  /\ shutdown \in BOOLEAN
  /\ owner \in {"running", "stopping", "joining", "joined"}

\* A worker has a job exactly while it is working.
WorkingMeansJob == \A w \in Workers : pc[w] = "working" <=> job[w] # 0

\* The type invariant, with what the types of pc and job have to do with each
\* other.
TypeInv == TypeOK /\ WorkingMeansJob

Init ==
  /\ queue = <<>>
  /\ submitted = 0
  /\ finished = {}
  /\ mutex = NoWorker
  /\ waiting = {}
  /\ pc = [w \in Workers |-> "outside"]
  /\ job = [w \in Workers |-> 0]
  /\ shutdown = FALSE
  /\ owner = "running"

Goto(w, place) == pc' = [pc EXCEPT ![w] = place]

-----------------------------------------------------------------------------
(* worker_func.                                                            *)

\* pt_mutex_lock, or a woken pt_cond_wait that takes the mutex again.
Acquire(w) ==
  /\ pc[w] = "outside" \/ (pc[w] = "asleep" /\ w \notin waiting)
  /\ mutex = NoWorker
  /\ mutex' = w
  /\ Goto(w, "holding")
  /\ UNCHANGED <<queue, submitted, finished, waiting, job, shutdown, owner>>

\* The test of the while loop says wait.  The flag is not guarded by the
\* mutex: it can be set before the worker is asleep.
DecideToSleep(w) ==
  /\ pc[w] = "holding"
  /\ queue = <<>>
  /\ ~shutdown
  /\ Goto(w, "sleepy")
  /\ UNCHANGED <<queue, submitted, finished, mutex, waiting, job, shutdown,
                 owner>>

\* pt_cond_wait gives up the mutex and blocks, in one step.
Sleep(w) ==
  /\ pc[w] = "sleepy"
  /\ mutex' = NoWorker
  /\ waiting' = waiting \cup {w}
  /\ Goto(w, "asleep")
  /\ UNCHANGED <<queue, submitted, finished, job, shutdown, owner>>

\* Mutant of Exit: a worker leaves as soon as the flag is set.
ExitAtOnce(w) ==
  /\ pc[w] = "holding"
  /\ shutdown
  /\ mutex' = NoWorker
  /\ Goto(w, "exited")
  /\ UNCHANGED <<queue, submitted, finished, waiting, job, shutdown, owner>>

Exit(w) ==
  /\ pc[w] = "holding"
  /\ queue = <<>>
  /\ shutdown
  /\ mutex' = NoWorker
  /\ Goto(w, "exited")
  /\ UNCHANGED <<queue, submitted, finished, waiting, job, shutdown, owner>>

\* workqueue_pop, even when shutdown is set already.
Take(w) ==
  /\ pc[w] = "holding"
  /\ queue # <<>>
  /\ queue' = Tail(queue)
  /\ job' = [job EXCEPT ![w] = Head(queue)]
  /\ mutex' = NoWorker
  /\ Goto(w, "working")
  /\ UNCHANGED <<submitted, finished, waiting, shutdown, owner>>

Finish(w) ==
  /\ pc[w] = "working"
  /\ finished' = finished \cup {job[w]}
  /\ job' = [job EXCEPT ![w] = 0]
  /\ Goto(w, "outside")
  /\ UNCHANGED <<queue, submitted, mutex, waiting, shutdown, owner>>

\* POSIX and Windows allow a wait to return unsignalled.
SpuriousWake(w) ==
  /\ w \in waiting
  /\ waiting' = waiting \ {w}
  /\ UNCHANGED <<queue, submitted, finished, mutex, pc, job, shutdown, owner>>

-----------------------------------------------------------------------------
(* The thread that calls world_update and, at the end, world_destroy.      *)

\* Mutant of Signal: pt_cond_signal is forgotten.
SignalNobody == UNCHANGED waiting

Signal ==
  IF waiting = {}
    THEN UNCHANGED waiting
    ELSE \E w \in waiting : waiting' = waiting \ {w}

\* submit_work: push and signal while holding the mutex.
Submit ==
  /\ owner = "running"
  /\ submitted < MaxJobs
  /\ mutex = NoWorker
  /\ submitted' = submitted + 1
  /\ queue' = Append(queue, submitted + 1)
  /\ Signal
  /\ UNCHANGED <<finished, mutex, pc, job, shutdown, owner>>

\* world_destroy: the flag is set without the mutex.
BeginDestroy ==
  /\ owner = "running"
  /\ shutdown' = TRUE
  /\ owner' = "stopping"
  /\ UNCHANGED <<queue, submitted, finished, mutex, waiting, pc, job>>

\* pt_cond_broadcast, without the mutex as well.
Broadcast ==
  /\ owner = "stopping"
  /\ waiting' = {}
  /\ owner' = "joining"
  /\ UNCHANGED <<queue, submitted, finished, mutex, pc, job, shutdown>>

\* The loop of pt_thread_join, then the loop that frees what is left in the
\* work queue.
Join ==
  /\ owner = "joining"
  /\ \A w \in Workers : pc[w] = "exited"
  /\ queue' = <<>>
  /\ owner' = "joined"
  /\ UNCHANGED <<submitted, finished, mutex, waiting, pc, job, shutdown>>

Next ==
  \/ \E w \in Workers :
       \/ Acquire(w) \/ DecideToSleep(w) \/ Sleep(w) \/ Exit(w)
       \/ Take(w) \/ Finish(w) \/ SpuriousWake(w)
  \/ Submit \/ BeginDestroy \/ Broadcast \/ Join

Spec == Init /\ [][Next]_vars

-----------------------------------------------------------------------------

\* A job that was pushed is never left with every worker blocked: a worker
\* goes to sleep only with the queue empty, under the mutex that submit_work
\* pushes and signals under.
WorkFindsAWorker == queue # <<>> => waiting # Workers

\* world_destroy drops no job: when the threads are joined, every job that
\* was submitted has been carried out.  (So its loop that frees the work
\* items "remaining" never finds one, and every result is in the list that
\* the next loop frees.)
NoJobDropped == owner = "joined" => finished = 1 .. submitted

-----------------------------------------------------------------------------
(* The inductive invariants behind WorkFindsAWorker and NoJobDropped.      *)

\* Who is between taking and giving up the mutex holds it.
HolderIsHolding ==
  \A w \in Workers : (mutex = w) <=> (pc[w] \in {"holding", "sleepy"})

\* The decision to sleep stays right until the mutex is given up.
SleepyMeansEmpty == \A w \in Workers : pc[w] = "sleepy" => queue = <<>>

SleepInv == TypeInv /\ HolderIsHolding /\ SleepyMeansEmpty /\ WorkFindsAWorker

\* Every job is in the queue, with a worker, or finished.
JobsAccounted ==
  \A j \in 1 .. submitted :
    \/ j \in finished
    \/ \E w \in Workers : job[w] = j
    \/ \E i \in DOMAIN queue : queue[i] = j

\* Only what was submitted is in any of these places.
JobsSubmitted ==
  /\ finished \subseteq 1 .. submitted
  /\ \A i \in DOMAIN queue : queue[i] <= submitted
  /\ \A w \in Workers : job[w] <= submitted

\* After the first exit nothing is in the queue, and nothing can be pushed.
ExitedMeansDrained ==
  /\ shutdown => owner # "running"
  /\ \A w \in Workers : pc[w] = "exited" => shutdown /\ queue = <<>>
  /\ owner = "joined" => \A w \in Workers : pc[w] = "exited"

DrainInv ==
  /\ TypeInv
  /\ JobsAccounted
  /\ JobsSubmitted
  /\ ExitedMeansDrained

-----------------------------------------------------------------------------

\* Threads are scheduled, a free mutex is not withheld for ever from a thread
\* that asks for it, a job ends, and the owner destroys what it created.
Fairness ==
  /\ \A w \in Workers :
       /\ SF_vars(Acquire(w))
       /\ WF_vars(DecideToSleep(w) \/ Sleep(w) \/ Exit(w) \/ Take(w) \/ Finish(w))
  /\ WF_vars(Broadcast)
  /\ WF_vars(Join)

FairSpec == Spec /\ Fairness

\* A job that was submitted is carried out, also when the world is being
\* destroyed.
EveryJobRuns == \A j \in Jobs : (submitted >= j) ~> (j \in finished)

\* What "graceful shutdown via atomic boolean" promises: world_destroy
\* returns.
DestroyReturns == (owner = "stopping") ~> (owner = "joined")
=============================================================================
