--------------------------- MODULE ServerThreads ---------------------------
(***************************************************************************)
(* The threads of a program that runs its own server, as a host and the    *)
(* headless harness of main.c do: the main thread, the server thread of    *)
(* server_run_ex, and the server's network thread.  They share the flags   *)
(* and pointers of server.c, the queue of backdoor operations, the inbound *)
(* queue, and tick_count, the barrier on which the harness waits until its *)
(* command was carried out.                                                *)
(*                                                                         *)
(* Commands are numbered.  A command that the server carries out takes one *)
(* of two ways: a backdoor operation goes into the shared queue, a request *)
(* goes through the socket and the inbound queue.                          *)
(***************************************************************************)
EXTENDS Naturals, Sequences

CONSTANTS
  SyncTicks,     \* ticks that a command waits: HARNESS_SYNC_TICKS(3)
  MaxDue,        \* ticks of one turn of the loop, 0.2 s of accumulated time
  MaxCommands    \* bound

\* Two ends of ticks are the fewest that will do.
SyncAssumption == SyncTicks \in Nat /\ SyncTicks >= 2

VARIABLES
  harness,    \* where the harness is
  ahead,      \* by how much the tick_count it waits for is ahead
  commands,   \* commands given so far
  server,     \* where the server thread is
  due,        \* ticks to do before the loop looks at the flag again
  taken,      \* the operations server_backdoor_drain has copied
  stop,       \* g_server_stop
  published,  \* g_server_instance is set
  queue,      \* backdoor_queue
  socket,     \* requests that wait in the kernel
  inbound,    \* in_head .. in_tail of the network thread
  done,       \* history: commands carried out
  starved     \* history: a tick ended its reading with requests in the socket

harnessVars == <<harness, commands>>
serverVars == <<server, due, taken, published>>
vars == <<harnessVars, ahead, serverVars, stop, queue, socket, inbound, done,
          starved>>

Init ==
  /\ harness = "start" /\ ahead = 0 /\ commands = 0
  /\ server = "start" /\ due = 0 /\ taken = <<>>
  /\ stop \in BOOLEAN      \* a former server of this program was stopped
  /\ published = FALSE /\ queue = <<>> /\ socket = <<>> /\ inbound = <<>>
  /\ done = {} /\ starved = FALSE

Elements(s) == {s[i] : i \in DOMAIN s}

-----------------------------------------------------------------------------
(* The harness.                                                            *)

\* It waits for the port and then for the instance, and gives up with the
\* process if they never appear.
FindServer ==
  /\ harness = "start"
  /\ \/ published /\ harness' = "idle"
     \/ server = "gone" /\ harness' = "exited"
  /\ UNCHANGED <<ahead, commands, serverVars, stop, queue, socket,
                 inbound, done, starved>>

\* Mutant of Sync: the next tick to end is taken for one that saw the command.
SyncNext ==
  /\ harness' = "syncing"
  /\ ahead' = 1

\* HARNESS_SYNC_TICKS
Sync ==
  /\ harness' = "syncing"
  /\ ahead' = SyncTicks

\* server_test_give and the like, server_backdoor_enqueue.  A full queue would
\* refuse, but the harness gives one command at a time and the queue has 64
\* places.
Backdoor ==
  /\ harness = "idle" /\ commands < MaxCommands
  /\ commands' = commands + 1
  /\ queue' = Append(queue, commands')
  /\ Sync
  /\ UNCHANGED <<serverVars, stop, socket, inbound, done, starved>>

\* client_send_break and the like: reliable_send writes to the socket.
Request ==
  /\ harness = "idle" /\ commands < MaxCommands
  /\ commands' = commands + 1
  /\ socket' = Append(socket, commands')
  /\ Sync
  /\ UNCHANGED <<serverVars, stop, queue, inbound, done, starved>>

\* The barrier is passed; the state that the server sent is reported.
Report ==
  /\ harness = "syncing" /\ ahead = 0
  /\ harness' = "reporting"
  /\ UNCHANGED <<ahead, commands, serverVars, stop, queue, socket,
                 inbound, done, starved>>

\* The next command.
GoOn ==
  /\ harness = "reporting"
  /\ harness' = "idle"
  /\ UNCHANGED <<ahead, commands, serverVars, stop, queue, socket, inbound, done,
                 starved>>

\* CMD_QUIT, or the window of a host is closed, maybe at once:
\* server_request_stop.
Quit ==
  /\ harness = "idle"
  /\ harness' = "joining" /\ stop' = TRUE
  /\ UNCHANGED <<ahead, commands, serverVars, queue, socket, inbound, done,
                 starved>>

\* pt_thread_join
Join ==
  /\ harness = "joining" /\ server = "gone"
  /\ harness' = "exited"
  /\ UNCHANGED <<ahead, commands, serverVars, stop, queue, socket,
                 inbound, done, starved>>

-----------------------------------------------------------------------------
(* The server's network thread.                                            *)

\* thread_func: one datagram from the socket to the inbound queue.
Receive ==
  /\ server \notin {"start", "gone"}
  /\ socket # <<>>
  /\ inbound' = Append(inbound, Head(socket))
  /\ socket' = Tail(socket)
  /\ UNCHANGED <<harnessVars, ahead, serverVars, stop, queue, done, starved>>

-----------------------------------------------------------------------------
(* The server thread.                                                      *)

\* server_run_ex up to the reset of the flags; without a socket it returns.
Start ==
  /\ server = "start"
  /\ \/ server' = "publish" /\ stop' = FALSE
     \/ server' = "gone" /\ UNCHANGED stop
  /\ UNCHANGED <<harnessVars, ahead, due, taken, published, queue,
                 socket, inbound, done, starved>>

\* Mutant of Publish: the flag is reset when others can already set it.
PublishThenReset ==
  /\ \/ server = "publish" /\ ~published /\ published' = TRUE
        /\ UNCHANGED <<server, stop>>
     \/ server = "publish" /\ published /\ server' = "loop" /\ stop' = FALSE
        /\ UNCHANGED published
  /\ UNCHANGED <<harnessVars, ahead, due, taken, queue, socket,
                 inbound, done, starved>>

Publish ==
  /\ server = "publish"
  /\ server' = "loop" /\ published' = TRUE
  /\ UNCHANGED <<harnessVars, ahead, due, taken, stop, queue, socket,
                 inbound, done, starved>>

\* The ticks that are due, then a look at the flag.
Loop ==
  /\ server = "loop"
  /\ \/ due > 0 /\ due' = due - 1 /\ server' = "drain"
     \/ due = 0 /\ ~stop /\ due' \in 1 .. MaxDue /\ UNCHANGED server
     \/ due = 0 /\ stop /\ server' = "leave" /\ UNCHANGED due
  /\ UNCHANGED <<harnessVars, ahead, taken, published, stop, queue,
                 socket, inbound, done, starved>>

\* server_backdoor_drain copies under the lock and applies outside it.
Drain ==
  /\ server = "drain"
  /\ server' = "apply" /\ taken' = queue /\ queue' = <<>>
  /\ UNCHANGED <<harnessVars, ahead, due, published, stop, socket,
                 inbound, done, starved>>

Apply ==
  /\ server = "apply"
  /\ server' = "read" /\ taken' = <<>>
  /\ done' = done \cup Elements(taken)
  /\ UNCHANGED <<harnessVars, ahead, due, published, stop, queue,
                 socket, inbound, starved>>

\* server_tick handles what is in the inbound queue until it finds it empty,
\* does the rest of the tick, and publishes its end last.
Handle ==
  /\ server = "read" /\ inbound # <<>>
  /\ inbound' = Tail(inbound)
  /\ done' = done \cup {Head(inbound)}
  /\ UNCHANGED <<harnessVars, ahead, serverVars, stop, queue, socket, starved>>

EndReading ==
  /\ server = "read" /\ inbound = <<>>
  /\ server' = "rest"
  /\ starved' = (starved \/ socket # <<>>)
  /\ UNCHANGED <<harnessVars, ahead, due, taken, published, stop,
                 queue, socket, inbound, done>>

EndTick ==
  /\ server = "rest"
  /\ server' = "loop" /\ ahead' = (IF ahead > 0 THEN ahead - 1 ELSE 0)
  /\ UNCHANGED <<harnessVars, due, taken, published, stop, queue,
                 socket, inbound, done, starved>>

\* After the loop: the last save, the instance is taken back, the world and the
\* queues are freed, net_thread_stop drops what was received.
Leave ==
  /\ server = "leave"
  /\ server' = "gone" /\ published' = FALSE /\ inbound' = <<>>
  /\ UNCHANGED <<harnessVars, ahead, due, taken, stop, queue, socket,
                 done, starved>>

ServerStep ==
  \/ Start \/ Publish \/ Loop \/ Drain \/ Apply \/ Handle \/ EndReading
  \/ EndTick \/ Leave

HarnessStep ==
  FindServer \/ Backdoor \/ Request \/ Report \/ GoOn \/ Quit
  \/ Join

Next == HarnessStep \/ Receive \/ ServerStep

Spec == Init /\ [][Next]_vars

-----------------------------------------------------------------------------
\* The harness reports only what includes its command: the ticks it waits for
\* cover the way of a request and of an operation, whatever the tick that was
\* under way had already read, as long as the network thread takes up a request
\* within a tick.
ReportedIsDone ==
  harness = "reporting" =>
    1 .. commands \subseteq done \/ starved

\* The server thread ends after the harness has asked it to, whatever a former
\* server left in the flag: the join of main.c returns.
StopIsHeeded == harness = "joining" ~> harness = "exited"
=============================================================================
