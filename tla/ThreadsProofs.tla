---------------------------- MODULE ThreadsProofs ----------------------------
(***************************************************************************)
(* Proofs about the threads of the program.  About WorkerPool, for any set *)
(* of workers and any number of jobs: no submitted job is left with every  *)
(* worker blocked, and world_destroy drops no job.  About ServerThreads,   *)
(* which is Main in MCThreads: what the harness reports includes its       *)
(* commands, however many it gives and however long the turns of the       *)
(* server's loop are, if it waits for two ticks at least.                  *)
(***************************************************************************)
EXTENDS MCThreads, TLAPS

\* Popping a job gives a job and leaves a queue of jobs.
LEMMA PopTyped ==
  ASSUME queue \in Seq(Jobs), queue # <<>>
  PROVE  /\ Head(queue) \in Jobs /\ Tail(queue) \in Seq(Jobs)
         /\ Head(queue) = queue[1] /\ 1 \in DOMAIN queue
         /\ \A i \in DOMAIN Tail(queue) :
              i + 1 \in DOMAIN queue /\ Tail(queue)[i] = queue[i + 1]
         /\ \A i \in DOMAIN queue :
              i # 1 => i - 1 \in DOMAIN Tail(queue)
                       /\ Tail(queue)[i - 1] = queue[i]
OBVIOUS

\* Pushing a job leaves what was in the queue where it was.
LEMMA PushTyped ==
  ASSUME queue \in Seq(Jobs), NEW j \in Jobs
  PROVE  /\ Append(queue, j) \in Seq(Jobs)
         /\ Append(queue, j) # <<>>
         /\ DOMAIN Append(queue, j) = DOMAIN queue \cup {Len(queue) + 1}
         /\ \A i \in DOMAIN queue : Append(queue, j)[i] = queue[i]
         /\ Append(queue, j)[Len(queue) + 1] = j
OBVIOUS

-----------------------------------------------------------------------------
(* Type correctness.                                                       *)

\* The state has its type at the start, and nobody works.
LEMMA InitTyped == Init => TypeInv
<1> SUFFICES ASSUME Init PROVE TypeInv
  OBVIOUS
<1>1. queue \in Seq(Jobs) /\ submitted \in 0 .. MaxJobs /\ finished \in SUBSET Jobs
  BY PoolAssumption DEF Init, Jobs
<1>2. /\ pc \in [Workers -> {"outside", "holding", "sleepy", "asleep",
                            "working", "exited"}]
      /\ job \in [Workers -> Jobs \cup {0}]
  BY DEF Init
<1>3. TypeOK
  BY <1>1, <1>2 DEF Init, TypeOK
<1>4. WorkingMeansJob
  BY DEF Init, WorkingMeansJob
<1> QED  BY <1>3, <1>4 DEF TypeInv

\* Every step keeps the types.
LEMMA StepTyped == TypeInv /\ [Next]_vars => TypeInv'
<1> SUFFICES ASSUME TypeInv, [Next]_vars PROVE TypeInv'
  OBVIOUS
<1> USE PoolAssumption DEF TypeInv, TypeOK, WorkingMeansJob, Jobs, Goto
<1>1. ASSUME NEW w \in Workers, Acquire(w) PROVE TypeInv'
  BY <1>1 DEF Acquire
<1>2. ASSUME NEW w \in Workers, DecideToSleep(w) PROVE TypeInv'
  BY <1>2 DEF DecideToSleep
<1>3. ASSUME NEW w \in Workers, Sleep(w) PROVE TypeInv'
  BY <1>3 DEF Sleep
<1>4. ASSUME NEW w \in Workers, Exit(w) PROVE TypeInv'
  BY <1>4 DEF Exit
<1>5. ASSUME NEW w \in Workers, Take(w) PROVE TypeInv'
  BY <1>5, PopTyped DEF Take
<1>6. ASSUME NEW w \in Workers, Finish(w) PROVE TypeInv'
  BY <1>6 DEF Finish
<1>7. ASSUME NEW w \in Workers, SpuriousWake(w) PROVE TypeInv'
  BY <1>7 DEF SpuriousWake
<1>8. ASSUME Submit PROVE TypeInv'
  BY <1>8 DEF Submit, Signal
<1>9. ASSUME BeginDestroy PROVE TypeInv'
  BY <1>9 DEF BeginDestroy
<1>10. ASSUME Broadcast PROVE TypeInv'
  BY <1>10 DEF Broadcast
<1>11. ASSUME Join PROVE TypeInv'
  BY <1>11 DEF Join
<1>12. ASSUME UNCHANGED vars PROVE TypeInv'
  BY <1>12 DEF vars
<1> QED
  BY <1>1, <1>2, <1>3, <1>4, <1>5, <1>6, <1>7, <1>8, <1>9, <1>10, <1>11,
     <1>12 DEF Next

\* In every behaviour every variable keeps its type.
THEOREM PoolTypeCorrect == Spec => []TypeInv
BY InitTyped, StepTyped, PTL DEF Spec

-----------------------------------------------------------------------------
(* No lost wakeup between submit_work and the workers.                     *)

\* Nobody holds the mutex at the start, and nobody sleeps.
LEMMA InitSleep == Init => SleepInv
BY InitTyped, PoolAssumption
   DEF Init, SleepInv, HolderIsHolding, SleepyMeansEmpty, WorkFindsAWorker

\* Every step keeps the invariant: the two steps that could break it are
\* Sleep, which is taken with the queue empty, and Submit, which wakes a
\* worker if any is blocked.
LEMMA StepSleep == SleepInv /\ [Next]_vars => SleepInv'
<1> SUFFICES ASSUME SleepInv, [Next]_vars PROVE SleepInv'
  OBVIOUS
<1>0. TypeInv /\ TypeInv'
  BY StepTyped DEF SleepInv
<1>t. TypeOK /\ TypeOK'
  BY <1>0 DEF TypeInv
<1> USE <1>0, <1>t, PoolAssumption
    DEF SleepInv, HolderIsHolding, SleepyMeansEmpty, WorkFindsAWorker, Goto
<1>1. ASSUME NEW w \in Workers, Acquire(w) PROVE SleepInv'
  BY <1>1 DEF Acquire, TypeOK
<1>2. ASSUME NEW w \in Workers, DecideToSleep(w) PROVE SleepInv'
  BY <1>2 DEF DecideToSleep, TypeOK
<1>3. ASSUME NEW w \in Workers, Sleep(w) PROVE SleepInv'
  BY <1>3 DEF Sleep, TypeOK
<1>4. ASSUME NEW w \in Workers, Exit(w) PROVE SleepInv'
  BY <1>4 DEF Exit, TypeOK
<1>5. ASSUME NEW w \in Workers, Take(w) PROVE SleepInv'
  <2>1. queue # <<>> /\ waiting # Workers
    BY <1>5 DEF Take
  <2> QED  BY <1>5, <2>1 DEF Take, TypeOK
<1>6. ASSUME NEW w \in Workers, Finish(w) PROVE SleepInv'
  BY <1>6 DEF Finish, TypeOK
<1>7. ASSUME NEW w \in Workers, SpuriousWake(w) PROVE SleepInv'
  <2>1. waiting' # Workers
    BY <1>7 DEF SpuriousWake
  <2> QED  BY <1>7, <2>1 DEF SpuriousWake, TypeOK
<1>8. ASSUME Submit PROVE SleepInv'
  <2>1. waiting' # Workers
    <3>1. CASE waiting = {}
      BY <1>8, <3>1 DEF Submit, Signal
    <3>2. CASE waiting # {}
      BY <1>8, <3>2 DEF Submit, Signal, TypeOK
    <3> QED  BY <3>1, <3>2
  <2>2. \A w \in Workers : pc'[w] # "sleepy"
    BY <1>8 DEF Submit
  <2>3. HolderIsHolding'
    BY <1>8 DEF Submit
  <2> QED  BY <2>1, <2>2, <2>3
<1>9. ASSUME BeginDestroy PROVE SleepInv'
  BY <1>9 DEF BeginDestroy
<1>10. ASSUME Broadcast PROVE SleepInv'
  BY <1>10 DEF Broadcast
<1>11. ASSUME Join PROVE SleepInv'
  BY <1>11 DEF Join
<1>12. ASSUME UNCHANGED vars PROVE SleepInv'
  BY <1>12 DEF vars
<1> QED
  BY <1>1, <1>2, <1>3, <1>4, <1>5, <1>6, <1>7, <1>8, <1>9, <1>10, <1>11,
     <1>12 DEF Next

\* Whenever a job is in the queue, some worker is not blocked, so submit_work
\* needs no more than its one pt_cond_signal.
THEOREM WorkNeverStrands == Spec => []WorkFindsAWorker
<1>1. SleepInv => WorkFindsAWorker
  BY DEF SleepInv
<1> QED  BY <1>1, InitSleep, StepSleep, PTL DEF Spec

-----------------------------------------------------------------------------
(* world_destroy drops no job.                                             *)

\* No job exists at the start.
LEMMA InitDrain == Init => DrainInv
<1> SUFFICES ASSUME Init PROVE DrainInv
  OBVIOUS
<1>1. TypeInv
  BY InitTyped
<1>2. JobsAccounted /\ JobsSubmitted /\ ExitedMeansDrained
  BY DEF Init, JobsAccounted, JobsSubmitted, ExitedMeansDrained
<1> QED  BY <1>1, <1>2 DEF DrainInv

\* A step that moves no job keeps the accounts.
LEMMA AccountsKept ==
  ASSUME JobsAccounted, JobsSubmitted,
         UNCHANGED <<queue, submitted, finished, job>>
  PROVE  JobsAccounted' /\ JobsSubmitted'
BY DEF JobsAccounted, JobsSubmitted

\* Every step keeps the accounts; only Take, Finish, Submit and Join move
\* jobs, and Join finds the queue empty.
LEMMA StepDrain == DrainInv /\ [Next]_vars => DrainInv'
<1> SUFFICES ASSUME DrainInv, [Next]_vars PROVE DrainInv'
  OBVIOUS
<1>0. TypeInv /\ TypeInv' /\ TypeOK /\ TypeOK'
  BY StepTyped DEF DrainInv, TypeInv
<1>a. JobsAccounted /\ JobsSubmitted /\ ExitedMeansDrained
  BY DEF DrainInv
<1> SUFFICES JobsAccounted' /\ JobsSubmitted' /\ ExitedMeansDrained'
  BY <1>0 DEF DrainInv
<1> HIDE DEF DrainInv
<1>1. ASSUME NEW w \in Workers, Acquire(w)
      PROVE  JobsAccounted' /\ JobsSubmitted' /\ ExitedMeansDrained'
  <2>1. JobsAccounted' /\ JobsSubmitted'
    BY <1>1, <1>a, AccountsKept DEF Acquire
  <2> QED
    BY <2>1, <1>1, <1>a, <1>0 DEF Acquire, Goto, ExitedMeansDrained, TypeOK
<1>2. ASSUME NEW w \in Workers, DecideToSleep(w)
      PROVE  JobsAccounted' /\ JobsSubmitted' /\ ExitedMeansDrained'
  <2>1. JobsAccounted' /\ JobsSubmitted'
    BY <1>2, <1>a, AccountsKept DEF DecideToSleep
  <2> QED
    BY <2>1, <1>2, <1>a, <1>0
       DEF DecideToSleep, Goto, ExitedMeansDrained, TypeOK
<1>3. ASSUME NEW w \in Workers, Sleep(w)
      PROVE  JobsAccounted' /\ JobsSubmitted' /\ ExitedMeansDrained'
  <2>1. JobsAccounted' /\ JobsSubmitted'
    BY <1>3, <1>a, AccountsKept DEF Sleep
  <2> QED
    BY <2>1, <1>3, <1>a, <1>0 DEF Sleep, Goto, ExitedMeansDrained, TypeOK
<1>4. ASSUME NEW w \in Workers, Exit(w)
      PROVE  JobsAccounted' /\ JobsSubmitted' /\ ExitedMeansDrained'
  <2>1. JobsAccounted' /\ JobsSubmitted'
    BY <1>4, <1>a, AccountsKept DEF Exit
  <2> QED
    BY <2>1, <1>4, <1>a, <1>0 DEF Exit, Goto, ExitedMeansDrained, TypeOK
<1>5. ASSUME NEW w \in Workers, Take(w)
      PROVE  JobsAccounted' /\ JobsSubmitted' /\ ExitedMeansDrained'
  <2>1. queue \in Seq(Jobs) /\ queue # <<>> /\ queue' = Tail(queue)
    BY <1>5, <1>0 DEF Take, TypeOK
  <2>2. job \in [Workers -> Jobs \cup {0}] /\ pc[w] = "holding"
        /\ job' = [job EXCEPT ![w] = Head(queue)] /\ job[w] = 0
    BY <1>5, <1>0 DEF Take, TypeOK, TypeInv, WorkingMeansJob
  <2>3. UNCHANGED <<submitted, finished, shutdown, owner>>
    BY <1>5 DEF Take
  <2>4. JobsAccounted'
    <3> SUFFICES ASSUME NEW j \in 1 .. submitted
                 PROVE  \/ j \in finished
                        \/ \E v \in Workers : job'[v] = j
                        \/ \E i \in DOMAIN Tail(queue) : Tail(queue)[i] = j
      BY <2>1, <2>3 DEF JobsAccounted
    <3>1. CASE j \in finished
      BY <3>1
    <3>2. ASSUME NEW v \in Workers, job[v] = j
          PROVE  \E u \in Workers : job'[u] = j
      BY <3>2, <2>2
    <3>3. ASSUME NEW i \in DOMAIN queue, queue[i] = j
          PROVE  \/ \E v \in Workers : job'[v] = j
                 \/ \E k \in DOMAIN Tail(queue) : Tail(queue)[k] = j
      <4>1. CASE i = 1
        BY <4>1, <3>3, <2>1, <2>2, PopTyped
      <4>2. CASE i # 1
        BY <4>2, <3>3, <2>1, PopTyped
      <4> QED  BY <4>1, <4>2
    <3> QED  BY <3>1, <3>2, <3>3, <1>a DEF JobsAccounted
  <2>5. JobsSubmitted'
    <3>1. \A i \in DOMAIN Tail(queue) : Tail(queue)[i] <= submitted
      BY <2>1, <1>a, PopTyped DEF JobsSubmitted
    <3>2. Head(queue) <= submitted
      BY <2>1, <1>a, PopTyped DEF JobsSubmitted
    <3> QED  BY <3>1, <3>2, <2>1, <2>2, <2>3, <1>a DEF JobsSubmitted
  <2>6. ExitedMeansDrained'
    BY <1>5, <2>1, <1>a, <1>0 DEF Take, Goto, ExitedMeansDrained, TypeOK
  <2> QED  BY <2>4, <2>5, <2>6
<1>6. ASSUME NEW w \in Workers, Finish(w)
      PROVE  JobsAccounted' /\ JobsSubmitted' /\ ExitedMeansDrained'
  <2>1. /\ job \in [Workers -> Jobs \cup {0}] /\ job[w] \in Jobs
        /\ finished' = finished \cup {job[w]}
        /\ job' = [job EXCEPT ![w] = 0]
        /\ submitted \in 0 .. MaxJobs
    BY <1>6, <1>0 DEF Finish, TypeOK, TypeInv, WorkingMeansJob
  <2>2. UNCHANGED <<queue, submitted, shutdown, owner>>
    BY <1>6 DEF Finish
  <2>3. JobsAccounted'
    <3> SUFFICES ASSUME NEW j \in 1 .. submitted
                 PROVE  \/ j \in finished'
                        \/ \E v \in Workers : job'[v] = j
                        \/ \E i \in DOMAIN queue : queue[i] = j
      BY <2>2 DEF JobsAccounted
    <3>1. ASSUME NEW v \in Workers, job[v] = j
          PROVE  j \in finished' \/ \E u \in Workers : job'[u] = j
      BY <3>1, <2>1
    <3> QED  BY <3>1, <2>1, <1>a DEF JobsAccounted
  <2>4. JobsSubmitted'
    <3>1. job[w] \in 1 .. submitted
      BY <2>1, <1>a, PoolAssumption DEF JobsSubmitted, Jobs
    <3>2. finished' \subseteq 1 .. submitted
      BY <3>1, <2>1, <1>a DEF JobsSubmitted
    <3>3. \A v \in Workers : job'[v] <= submitted
      BY <2>1, <1>a, PoolAssumption DEF JobsSubmitted
    <3> QED  BY <3>2, <3>3, <2>2, <1>a DEF JobsSubmitted
  <2>5. ExitedMeansDrained'
    BY <1>6, <1>a, <1>0 DEF Finish, Goto, ExitedMeansDrained, TypeOK
  <2> QED  BY <2>3, <2>4, <2>5
<1>7. ASSUME NEW w \in Workers, SpuriousWake(w)
      PROVE  JobsAccounted' /\ JobsSubmitted' /\ ExitedMeansDrained'
  <2>1. JobsAccounted' /\ JobsSubmitted'
    BY <1>7, <1>a, AccountsKept DEF SpuriousWake
  <2> QED  BY <2>1, <1>7, <1>a DEF SpuriousWake, ExitedMeansDrained
<1>8. ASSUME Submit PROVE JobsAccounted' /\ JobsSubmitted' /\ ExitedMeansDrained'
  <2>1. /\ queue \in Seq(Jobs) /\ submitted + 1 \in Jobs
        /\ submitted \in Nat
        /\ queue' = Append(queue, submitted + 1)
        /\ submitted' = submitted + 1
        /\ job \in [Workers -> Jobs \cup {0}]
    BY <1>8, <1>0, PoolAssumption DEF Submit, TypeOK, Jobs
  <2>2. UNCHANGED <<finished, job, pc, shutdown, owner>> /\ owner = "running"
    BY <1>8 DEF Submit
  <2>3. JobsAccounted'
    <3> SUFFICES ASSUME NEW j \in 1 .. submitted + 1
                 PROVE  \/ j \in finished
                        \/ \E v \in Workers : job[v] = j
                        \/ \E i \in DOMAIN queue' : queue'[i] = j
      BY <2>1, <2>2 DEF JobsAccounted
    <3>1. CASE j = submitted + 1
      BY <3>1, <2>1, PushTyped
    <3>2. CASE j \in 1 .. submitted
      BY <3>2, <2>1, <1>a, PushTyped DEF JobsAccounted
    <3> QED  BY <3>1, <3>2, <2>1
  <2>4. JobsSubmitted'
    <3>1. finished \subseteq 1 .. submitted + 1
      BY <2>1, <1>a DEF JobsSubmitted
    <3>2. \A i \in DOMAIN queue' : queue'[i] <= submitted + 1
      <4> TAKE i \in DOMAIN queue'
      <4>1. CASE i = Len(queue) + 1
        BY <4>1, <2>1, PushTyped
      <4>2. CASE i \in DOMAIN queue
        <5>1. queue'[i] = queue[i] /\ queue[i] <= submitted /\ queue[i] \in Jobs
          BY <4>2, <2>1, <1>a, PushTyped DEF JobsSubmitted
        <5> QED  BY <5>1, <2>1 DEF Jobs
      <4> QED  BY <4>1, <4>2, <2>1, PushTyped
    <3>3. \A v \in Workers : job[v] <= submitted + 1
      BY <2>1, <1>a DEF JobsSubmitted, Jobs
    <3> QED  BY <3>1, <3>2, <3>3, <2>1, <2>2 DEF JobsSubmitted
  <2>5. ExitedMeansDrained'
    BY <2>2, <1>a DEF ExitedMeansDrained
  <2> QED  BY <2>3, <2>4, <2>5
<1>9. ASSUME BeginDestroy
      PROVE  JobsAccounted' /\ JobsSubmitted' /\ ExitedMeansDrained'
  <2>1. JobsAccounted' /\ JobsSubmitted'
    BY <1>9, <1>a, AccountsKept DEF BeginDestroy
  <2> QED  BY <2>1, <1>9, <1>a DEF BeginDestroy, ExitedMeansDrained
<1>10. ASSUME Broadcast
       PROVE  JobsAccounted' /\ JobsSubmitted' /\ ExitedMeansDrained'
  <2>1. JobsAccounted' /\ JobsSubmitted'
    BY <1>10, <1>a, AccountsKept DEF Broadcast
  <2> QED  BY <2>1, <1>10, <1>a DEF Broadcast, ExitedMeansDrained
<1>11. ASSUME Join
       PROVE  JobsAccounted' /\ JobsSubmitted' /\ ExitedMeansDrained'
  <2>1. queue = <<>>
    BY <1>11, <1>a, PoolAssumption DEF Join, ExitedMeansDrained
  <2>2. UNCHANGED <<queue, submitted, finished, job>>
    BY <1>11, <2>1 DEF Join
  <2>3. JobsAccounted' /\ JobsSubmitted'
    BY <2>2, <1>a, AccountsKept
  <2> QED  BY <2>1, <2>3, <1>11, <1>a DEF Join, ExitedMeansDrained
<1>12. ASSUME UNCHANGED vars
       PROVE  JobsAccounted' /\ JobsSubmitted' /\ ExitedMeansDrained'
  <2>1. JobsAccounted' /\ JobsSubmitted'
    BY <1>12, <1>a, AccountsKept DEF vars
  <2> QED  BY <2>1, <1>12, <1>a DEF vars, ExitedMeansDrained
<1> QED
  BY <1>1, <1>2, <1>3, <1>4, <1>5, <1>6, <1>7, <1>8, <1>9, <1>10, <1>11,
     <1>12 DEF Next

\* When the threads are joined, what was submitted has been carried out.
LEMMA DrainedMeansDone == DrainInv => NoJobDropped
<1> SUFFICES ASSUME DrainInv, owner = "joined"
             PROVE  finished = 1 .. submitted
  BY DEF NoJobDropped
<1>1. queue = <<>>
  BY PoolAssumption DEF DrainInv, ExitedMeansDrained
<1>2. \A w \in Workers : job[w] = 0
  BY DEF DrainInv, ExitedMeansDrained, TypeInv, WorkingMeansJob
<1>3. \A j \in 1 .. submitted : j \in finished
  BY <1>1, <1>2 DEF DrainInv, JobsAccounted
<1> QED  BY <1>3 DEF DrainInv, JobsSubmitted

\* world_destroy, if it returns, has lost no job.
THEOREM DestroyDropsNothing == Spec => []NoJobDropped
BY InitDrain, StepDrain, DrainedMeansDone, PTL DEF Spec

-----------------------------------------------------------------------------
(* The threads around a server.                                            *)

Types ==
  /\ commands \in Nat /\ ahead \in Nat
  /\ operations \in Seq(Nat) /\ taken \in Seq(Nat)
  /\ socket \in Seq(Nat) /\ inbound \in Seq(Nat)

\* Where a command can be that the server has not carried out, and how many
\* ticks must still end before the harness goes on: two if the tick under way
\* has passed the place where the command waits.
Coming(k) ==
  \/ /\ k \in Main!Elements(operations)
     /\ ahead >= (IF server \in {"apply", "read", "rest"} THEN 2 ELSE 1)
  \/ /\ k \in Main!Elements(taken) /\ server = "apply"
     /\ ahead >= 1
  \/ /\ k \in Main!Elements(socket) \cup Main!Elements(inbound)
     /\ ahead >= (IF server = "rest" THEN 2 ELSE 1)
  \/ server = "gone" /\ ahead >= 1

Accounted(k) == starved \/ k \in done \/ (harness = "syncing" /\ Coming(k))

SyncInv == Types /\ \A k \in 1 .. commands : Accounted(k)

-----------------------------------------------------------------------------
(* Queues as sets.                                                         *)

LEMMA AppendElements ==
  ASSUME NEW s \in Seq(Nat), NEW x \in Nat
  PROVE  /\ Append(s, x) \in Seq(Nat)
         /\ Main!Elements(Append(s, x)) = Main!Elements(s) \cup {x}
<1>1. \A y \in Main!Elements(s) : y \in Main!Elements(Append(s, x))
  BY DEF Main!Elements
<1>2. x \in Main!Elements(Append(s, x))
  <2>1. Len(s) + 1 \in DOMAIN Append(s, x) /\ Append(s, x)[Len(s) + 1] = x
    OBVIOUS
  <2> QED  BY <2>1 DEF Main!Elements
<1>3. \A y \in Main!Elements(Append(s, x)) : y \in Main!Elements(s) \/ y = x
  BY DEF Main!Elements
<1> QED  BY <1>1, <1>2, <1>3

LEMMA TailElements ==
  ASSUME NEW s \in Seq(Nat), s # <<>>
  PROVE  /\ Head(s) \in Nat /\ Tail(s) \in Seq(Nat)
         /\ \A y \in Main!Elements(s) : y = Head(s) \/ y \in Main!Elements(Tail(s))
<1>1. Head(s) \in Nat /\ Tail(s) \in Seq(Nat)
  OBVIOUS
<1>2. ASSUME NEW y \in Main!Elements(s), y # Head(s)
      PROVE  y \in Main!Elements(Tail(s))
  <2>1. PICK i \in DOMAIN s : s[i] = y
    BY DEF Main!Elements
  <2>2. i - 1 \in DOMAIN Tail(s) /\ Tail(s)[i - 1] = y
    BY <1>2, <2>1
  <2> QED  BY <2>2 DEF Main!Elements
<1> QED  BY <1>1, <1>2

LEMMA EmptyElements == <<>> \in Seq(Nat) /\ Main!Elements(<<>>) = {}
BY DEF Main!Elements

-----------------------------------------------------------------------------
LEMMA TypesInit == Main!Init => Types
BY DEF Main!Init, Types

LEMMA TypesStep ==
  ASSUME Main!SyncAssumption, Types, [Main!Next]_Main!vars
  PROVE  Types'
<1> USE DEF Types, Main!harnessVars, Main!serverVars
<1>1. ASSUME Main!HarnessStep PROVE Types'
  <2>1. CASE Main!Backdoor
    <3>1. commands' \in Nat
      BY <2>1 DEF Main!Backdoor
    <3> QED
      BY <2>1, <3>1, AppendElements DEF Main!Backdoor, Main!Sync,
         Main!SyncAssumption
  <2>2. CASE Main!Request
    <3>1. commands' \in Nat
      BY <2>2 DEF Main!Request
    <3> QED
      BY <2>2, <3>1, AppendElements DEF Main!Request, Main!Sync,
         Main!SyncAssumption
  <2>3. CASE Main!FindServer \/ Main!Report \/ Main!GoOn \/ Main!Quit \/ Main!Join
    BY <2>3 DEF Main!FindServer, Main!Report, Main!GoOn, Main!Quit, Main!Join
  <2> QED  BY <1>1, <2>1, <2>2, <2>3 DEF Main!HarnessStep
<1>2. CASE Main!Receive
  BY <1>2, AppendElements, TailElements DEF Main!Receive
<1>3. ASSUME Main!ServerStep PROVE Types'
  <2>1. CASE Main!Handle
    BY <2>1, TailElements DEF Main!Handle
  <2>2. CASE Main!EndTick
    BY <2>2 DEF Main!EndTick
  <2>3. CASE Main!Drain \/ Main!Apply \/ Main!Leave
    BY <2>3, EmptyElements DEF Main!Drain, Main!Apply, Main!Leave
  <2>4. CASE Main!Start \/ Main!Publish \/ Main!Loop \/ Main!EndReading
    BY <2>4 DEF Main!Start, Main!Publish, Main!Loop, Main!EndReading
  <2> QED  BY <1>3, <2>1, <2>2, <2>3, <2>4 DEF Main!ServerStep
<1>4. CASE UNCHANGED Main!vars
  BY <1>4 DEF Main!vars
<1> QED  BY <1>1, <1>2, <1>3, <1>4 DEF Main!Next

-----------------------------------------------------------------------------
(* Steps of the harness: a command is given when all former ones are       *)
(* accounted for without waiting, and reported when no tick is to come.    *)

LEMMA HarnessAccounts ==
  ASSUME Main!SyncAssumption, SyncInv, Main!HarnessStep,
         NEW k \in 1 .. commands'
  PROVE  Accounted(k)'
<1> USE DEF SyncInv, Types, Main!harnessVars, Main!serverVars
<1>1. CASE Main!Backdoor
  <2>1. CASE k = commands'
    <3>1. k \in Main!Elements(operations)'
      <4>1. commands' \in Nat /\ operations' = Append(operations, commands')
        BY <1>1 DEF Main!Backdoor
      <4>2. k \in Main!Elements(operations')
        BY <2>1, <4>1, AppendElements
      <4> QED  BY <4>2 DEF Main!Elements
    <3>2. harness' = "syncing" /\ ahead' = SyncTicks
      BY <1>1 DEF Main!Backdoor, Main!Sync
    <3>3. ahead' >= 1 /\ ahead' >= 2
      BY <3>2 DEF Main!SyncAssumption
    <3>4. Coming(k)'
      BY <3>1, <3>3 DEF Coming
    <3> QED  BY <3>2, <3>4 DEF Accounted
  <2>2. CASE k # commands'
    <3>1. k \in 1 .. commands
      BY <1>1, <2>2 DEF Main!Backdoor
    <3>2. Accounted(k) /\ harness # "syncing"
      BY <1>1, <3>1 DEF Main!Backdoor
    <3> QED  BY <1>1, <3>2 DEF Main!Backdoor, Accounted
  <2> QED  BY <2>1, <2>2
<1>2. CASE Main!Request
  <2>1. CASE k = commands'
    <3>1. k \in Main!Elements(socket)'
      <4>1. commands' \in Nat /\ socket' = Append(socket, commands')
        BY <1>2 DEF Main!Request
      <4>2. k \in Main!Elements(socket')
        BY <2>1, <4>1, AppendElements
      <4> QED  BY <4>2 DEF Main!Elements
    <3>2. harness' = "syncing" /\ ahead' = SyncTicks
      BY <1>2 DEF Main!Request, Main!Sync
    <3>3. ahead' >= 1 /\ ahead' >= 2
      BY <3>2 DEF Main!SyncAssumption
    <3>4. Coming(k)'
      BY <3>1, <3>3 DEF Coming
    <3> QED  BY <3>2, <3>4 DEF Accounted
  <2>2. CASE k # commands'
    <3>1. k \in 1 .. commands
      BY <1>2, <2>2 DEF Main!Request
    <3>2. Accounted(k) /\ harness # "syncing"
      BY <1>2, <3>1 DEF Main!Request
    <3> QED  BY <1>2, <3>2 DEF Main!Request, Accounted
  <2> QED  BY <2>1, <2>2
<1>3. CASE Main!Report
  <2>1. ~Coming(k)
    BY <1>3 DEF Main!Report, Coming
  <2>2. Accounted(k)
    BY <1>3 DEF Main!Report
  <2> QED  BY <1>3, <2>1, <2>2 DEF Main!Report, Accounted
<1>4. CASE Main!FindServer \/ Main!GoOn \/ Main!Quit \/ Main!Join
  <2>1. Accounted(k) /\ harness # "syncing"
    BY <1>4 DEF Main!FindServer, Main!GoOn, Main!Quit, Main!Join
  <2> QED  BY <1>4, <2>1 DEF Main!FindServer, Main!GoOn, Main!Quit, Main!Join,
              Accounted
<1> QED  BY <1>1, <1>2, <1>3, <1>4 DEF Main!HarnessStep

\* Steps of the network thread and of the server: a command goes on to the next
\* place, or is carried out, before the tick that it needs has ended.
LEMMA ServerAccounts ==
  ASSUME SyncInv, Main!Receive \/ Main!ServerStep, NEW k \in 1 .. commands'
  PROVE  Accounted(k)'
<1> USE DEF SyncInv, Types, Main!harnessVars, Main!serverVars
<1>1. UNCHANGED <<harness, commands>> /\ (starved => starved') /\ done \subseteq done'
  <2>1. CASE Main!Receive \/ Main!Start \/ Main!Publish \/ Main!Loop \/ Main!Drain
    BY <2>1 DEF Main!Receive, Main!Start, Main!Publish, Main!Loop, Main!Drain
  <2>2. CASE Main!Apply \/ Main!Handle
    BY <2>2 DEF Main!Apply, Main!Handle
  <2>3. CASE Main!EndReading
    BY <2>3 DEF Main!EndReading
  <2>4. CASE Main!EndTick \/ Main!Leave
    BY <2>4 DEF Main!EndTick, Main!Leave
  <2> QED  BY <2>1, <2>2, <2>3, <2>4 DEF Main!ServerStep
<1>2. Accounted(k)
  BY <1>1
<1>3. CASE starved \/ k \in done
  BY <1>1, <1>3 DEF Accounted
<1>4. CASE harness = "syncing" /\ Coming(k)
  <2> SUFFICES ASSUME ~starved', k \notin done' PROVE Coming(k)'
    BY <1>1, <1>4 DEF Accounted
  <2>1. CASE Main!Receive
    <3>1. \A y \in Main!Elements(socket) \cup Main!Elements(inbound) :
            y \in Main!Elements(socket') \cup Main!Elements(inbound')
      BY <2>1, TailElements, AppendElements DEF Main!Receive
    <3>2. /\ Main!Elements(operations)' = Main!Elements(operations)
          /\ Main!Elements(taken)' = Main!Elements(taken)
      BY <2>1 DEF Main!Receive, Main!Elements
    <3> QED
      BY <1>4, <2>1, <3>1, <3>2 DEF Main!Receive, Coming, Main!Elements
  <2>2. CASE Main!Drain
    BY <1>4, <2>2 DEF Main!Drain, Coming, Main!Elements
  <2>3. CASE Main!Apply
    BY <1>4, <2>3 DEF Main!Apply, Coming, Main!Elements
  <2>4. CASE Main!Handle
    <3>1. \A y \in Main!Elements(inbound) : y \in done' \/ y \in Main!Elements(inbound')
      BY <2>4, TailElements DEF Main!Handle
    <3> QED
      BY <1>4, <2>4, <3>1 DEF Main!Handle, Coming, Main!Elements
  <2>5. CASE Main!EndReading
    <3>1. socket = <<>> /\ inbound = <<>>
      BY <2>5 DEF Main!EndReading
    <3>2. k \notin Main!Elements(socket) \cup Main!Elements(inbound)
      BY <3>1, EmptyElements
    <3> QED
      BY <1>4, <2>5, <3>2 DEF Main!EndReading, Coming, Main!Elements
  <2>6. CASE Main!EndTick
    BY <1>4, <2>6 DEF Main!EndTick, Coming, Main!Elements
  <2>7. CASE Main!Leave
    BY <1>4, <2>7 DEF Main!Leave, Coming, Main!Elements
  <2>8. CASE Main!Start \/ Main!Publish \/ Main!Loop
    BY <1>4, <2>8 DEF Main!Start, Main!Publish, Main!Loop, Coming, Main!Elements
  <2> QED
    BY <2>1, <2>2, <2>3, <2>4, <2>5, <2>6, <2>7, <2>8 DEF Main!ServerStep
<1> QED  BY <1>2, <1>3, <1>4 DEF Accounted

\* What the harness reports includes its commands (HARNESS_SYNC_TICKS, main.c),
\* as long as no tick has left a request in the socket.
THEOREM ReportsAreDone == Main!Spec => []ReportedIsDone
<1>1. Main!Init => SyncInv
  BY TypesInit, MCThreadsAssumption DEF Main!Init, SyncInv
<1>2. SyncInv /\ [Main!Next]_Main!vars => SyncInv'
  <2> SUFFICES ASSUME SyncInv, [Main!Next]_Main!vars PROVE SyncInv'
    OBVIOUS
  <2>1. Types'
    BY TypesStep, MCThreadsAssumption DEF SyncInv
  <2>2. ASSUME NEW k \in (1 .. commands)' PROVE Accounted(k)'
    <3>1. CASE Main!HarnessStep
      BY <2>2, <3>1, HarnessAccounts, MCThreadsAssumption
    <3>2. CASE Main!Receive \/ Main!ServerStep
      BY <2>2, <3>2, ServerAccounts, MCThreadsAssumption
    <3>3. CASE UNCHANGED Main!vars
      BY <2>2, <3>3 DEF Main!vars, Main!harnessVars, Main!serverVars, SyncInv,
         Accounted, Coming, Main!Elements
    <3> QED  BY <3>1, <3>2, <3>3 DEF Main!Next
  <2> QED  BY <2>1, <2>2 DEF SyncInv
<1>3. SyncInv => ReportedIsDone
  BY DEF SyncInv, Accounted, ReportedIsDone, Main!ReportedIsDone
<1> QED
  BY <1>1, <1>2, <1>3, PTL DEF Main!Spec
=============================================================================
