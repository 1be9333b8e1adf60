---------------------------- MODULE MainProgram ----------------------------
(***************************************************************************)
(* Start and stop of the program: main(), EventLoopThreadPool, and         *)
(* TcpServer's constructor and destructor.  Every sub loop is a local      *)
(* variable of its thread, whose address is handed to the main thread      *)
(* through a ThreadData that is itself a local variable of Start().  A     *)
(* signal ends the main loop; the server's destructor then ends the sub    *)
(* loops and joins their threads, before the main loop itself goes.        *)
(*                                                                         *)
(* What a loop does with the functors in its queue is FunctorQueue's; here *)
(* a pass takes them all at once.  A sub loop may be awake for reasons of  *)
(* its own, so a pass may come before the wakeup that follows a push.      *)
(*                                                                         *)
(* Two waits can last for ever.  A sub loop that serves connections may go *)
(* round in HttpCodec::OnMessage without end (HttpContext's module has     *)
(* why), and CommentRepository::Shutdown may join a worker that sleeps     *)
(* (CommentRepository's module has why).  Both are choices here.           *)
(***************************************************************************)
EXTENDS Integers, Sequences

CONSTANTS
    N,            \* thread_count_
    MaxConns      \* bound: connections accepted

ASSUME NAssumption == N \in Nat \ {0} /\ MaxConns \in Nat

Subs == 1..N

VARIABLES
    main,         \* the main thread's position
    cur,          \* the thread that its loop is at
    mainAlive,    \* main_loop exists
    g_main_loop,  \* the global pointer is set
    quit_,        \* main_loop.quit_
    data,         \* data[i]: ThreadData of thread i: "none", "live", "ready", "gone"
    mutex,        \* holder of the current ThreadData's mutex: 0 is main
    loops_,       \* the sub loops known to the pool
    next_,        \* round robin
    accepted,     \* connections handed out so far
    sub,          \* sub[i]: thread i's position
    connected,    \* the sub loops that have taken a connection
    queue,        \* queue[i]: pending_functors_ of sub loop i
    subQuit       \* subQuit[i]: quit_ of sub loop i

vars == <<main, cur, mainAlive, g_main_loop, quit_, data, mutex, loops_, next_,
          accepted, sub, connected, queue, subQuit>>

poolVars == <<data, mutex, loops_, sub, connected, queue, subQuit>>
Free == N + 1    \* nobody holds the mutex

Init ==
    /\ main = "init"
    /\ cur = 1
    /\ mainAlive = FALSE
    /\ g_main_loop = FALSE
    /\ quit_ = FALSE
    /\ data = [i \in Subs |-> "none"]
    /\ mutex = Free
    /\ loops_ = {}
    /\ next_ = 1
    /\ accepted = 0
    /\ sub = [i \in Subs |-> "none"]
    /\ connected = {}
    /\ queue = [i \in Subs |-> <<>>]
    /\ subQuit = [i \in Subs |-> FALSE]

-----------------------------------------------------------------------------
(* main() up to the threads, and EventLoopThreadPool::Start.               *)

\* CommentRepository::Shutdown joins its worker, which may sleep through the
\* notification: the step after it is reached, or never.
AfterRepository == {"stoplog", "hung"}

\* Init() of the subsystems succeeds, the loop and the server are built; or it
\* fails, and the repository that is already open is shut down.
Boot ==
    /\ main = "init"
    /\ \/ main' = "create" /\ mainAlive' = TRUE /\ g_main_loop' = TRUE
       \/ main' \in AfterRepository /\ UNCHANGED <<mainAlive, g_main_loop>>
    /\ UNCHANGED <<cur, quit_, next_, accepted, poolVars>>

CreateThread ==
    /\ main = "create" /\ cur <= N
    /\ data' = [data EXCEPT ![cur] = "live"]
    /\ sub' = [sub EXCEPT ![cur] = "created"]
    /\ main' = "lock"
    /\ UNCHANGED <<cur, mainAlive, g_main_loop, quit_, mutex, loops_, next_,
                   accepted, connected, queue, subQuit>>

MainLocks ==
    /\ main = "lock" /\ mutex = Free
    /\ mutex' = 0
    /\ main' = "check"
    /\ UNCHANGED <<cur, mainAlive, g_main_loop, quit_, data, loops_, next_,
                   accepted, sub, connected, queue, subQuit>>

\* while (!data.ready) pthread_cond_wait: sleeping lets the mutex go.
CheckReady ==
    /\ main = "check"
    /\ IF data[cur] = "ready"
       THEN main' = "take" /\ loops_' = loops_ \cup {cur} /\ UNCHANGED mutex
       ELSE main' = "asleep" /\ mutex' = Free /\ UNCHANGED loops_
    /\ UNCHANGED <<cur, mainAlive, g_main_loop, quit_, data, next_, accepted,
                   sub, connected, queue, subQuit>>

SpuriousWakeup ==
    /\ main = "asleep"
    /\ main' = "lock"
    /\ UNCHANGED <<cur, mainAlive, g_main_loop, quit_, next_, accepted, poolVars>>

\* Unlock, destroy the mutex and the condition variable; the block is left.
DropData ==
    /\ main = "take"
    /\ mutex' = Free
    /\ data' = [data EXCEPT ![cur] = "gone"]
    /\ cur' = cur + 1
    /\ main' = "create"
    /\ UNCHANGED <<mainAlive, g_main_loop, quit_, loops_, next_, accepted, sub,
                   connected, queue, subQuit>>

-----------------------------------------------------------------------------
(* EventLoopThreadPool::ThreadFunc.                                        *)

SubMoves(i, from, to) ==
    /\ sub[i] = from
    /\ sub' = [sub EXCEPT ![i] = to]
    /\ UNCHANGED <<cur, mainAlive, g_main_loop, quit_, loops_, next_, accepted,
                   connected>>

\* The EventLoop is built, then the mutex is taken.
SubLocks(i) ==
    /\ SubMoves(i, "created", "locked")
    /\ mutex = Free
    /\ mutex' = i
    /\ UNCHANGED <<main, data, queue, subQuit>>

\* Variant: the mutex is let go before the condition is signalled.
SubPublishesUnlocked(i) ==
    /\ SubMoves(i, "locked", "published")
    /\ data' = [data EXCEPT ![i] = "ready"]
    /\ mutex' = Free
    /\ UNCHANGED <<main, queue, subQuit>>

\* The address and ready are set and the condition is signalled.
SubPublishes(i) ==
    /\ SubMoves(i, "locked", "published")
    /\ data' = [data EXCEPT ![i] = "ready"]
    /\ main' = IF main = "asleep" THEN "lock" ELSE main
    /\ UNCHANGED <<mutex, queue, subQuit>>

SubUnlocks(i) ==
    /\ SubMoves(i, "published", "entering")
    /\ mutex' = IF mutex = i THEN Free ELSE mutex
    /\ UNCHANGED <<main, data, queue, subQuit>>

\* Loop() begins by clearing quit_.
SubEntersLoop(i) ==
    /\ SubMoves(i, "entering", "looping")
    /\ subQuit' = [subQuit EXCEPT ![i] = FALSE]
    /\ UNCHANGED <<main, data, mutex, queue>>

\* One pass: the functors are swapped out and executed.
SubPass(i) ==
    /\ sub[i] = "looping" /\ ~subQuit[i] /\ queue[i] # <<>>
    /\ subQuit' = [subQuit EXCEPT ![i] = \E k \in DOMAIN queue[i] : queue[i][k] = "quit"]
    /\ queue' = [queue EXCEPT ![i] = <<>>]
    /\ connected' = IF \E k \in DOMAIN queue[i] : queue[i][k] = "conn"
                    THEN connected \cup {i} ELSE connected
    /\ UNCHANGED <<main, cur, mainAlive, g_main_loop, quit_, data, mutex, loops_,
                   next_, accepted, sub>>

\* A client that was answered 400 sends on: the parser, still in the state of the
\* finished request, takes nothing from the buffer, and OnMessage's loop never
\* ends.
SubStuck(i) ==
    /\ i \in connected /\ ~subQuit[i]
    /\ SubMoves(i, "looping", "stuck")
    /\ UNCHANGED <<main, data, mutex, queue, subQuit>>

\* The loop is left and destroyed with the thread's stack.
SubEnds(i) ==
    /\ subQuit[i]
    /\ SubMoves(i, "looping", "done")
    /\ UNCHANGED <<main, data, mutex, queue, subQuit>>

-----------------------------------------------------------------------------
(* The server at work, and signals.                                        *)

\* Listen, then Loop(), which clears a quit that came too early.
EnterLoop ==
    /\ main = "create" /\ cur > N
    /\ quit_' = FALSE
    /\ main' = "loop"
    /\ UNCHANGED <<cur, mainAlive, g_main_loop, next_, accepted, poolVars>>

\* NewConnection hands a connection to the next sub loop.
NewConnection ==
    /\ main = "loop" /\ accepted < MaxConns
    /\ queue' = [queue EXCEPT ![next_] = Append(@, "conn")]
    /\ next_' = (next_ % N) + 1
    /\ accepted' = accepted + 1
    /\ UNCHANGED <<main, cur, mainAlive, g_main_loop, quit_, data, mutex, loops_,
                   sub, connected, subQuit>>

\* The handler follows g_main_loop, which is never reset: after the loop is
\* gone it writes to where quit_ was.
GracefulShutdownHandler ==
    /\ g_main_loop /\ main # "exited"
    /\ quit_' = TRUE
    /\ UNCHANGED <<main, cur, mainAlive, g_main_loop, next_, accepted, poolVars>>

-----------------------------------------------------------------------------
(* The end: ~TcpServer, ~EventLoop, Shutdown(), the log.                   *)

LeaveLoop ==
    /\ main = "loop" /\ quit_
    /\ main' = "push"
    /\ cur' = 1
    /\ UNCHANGED <<mainAlive, g_main_loop, quit_, next_, accepted, poolVars>>

\* Variant: the flag of the sub loop is set from here.
StopSubDirectly(i) ==
    /\ subQuit' = [subQuit EXCEPT ![i] = TRUE]
    /\ UNCHANGED queue

\* The sub loop is to quit by itself, in a functor.
StopSub(i) ==
    /\ queue' = [queue EXCEPT ![i] = Append(@, "quit")]
    /\ UNCHANGED subQuit

QueueQuit ==
    /\ main = "push"
    /\ StopSub(cur)
    /\ main' = "wakeup"
    /\ UNCHANGED <<cur, mainAlive, g_main_loop, quit_, data, mutex, loops_, next_,
                   accepted, sub, connected>>

\* The second half of QueueInLoop.  The functor is already in the queue: the sub
\* loop may have run it and be gone.  Reading a loop that is gone is undefined;
\* the outcome modelled is that nothing but the write is lost.
Wakeup ==
    /\ main = "wakeup"
    /\ main' = IF cur < N THEN "push" ELSE "join"
    /\ cur' = IF cur < N THEN cur + 1 ELSE 1
    /\ UNCHANGED <<mainAlive, g_main_loop, quit_, next_, accepted, poolVars>>

\* Variant: the threads are left to themselves.
JoinedAtOnce(i) == TRUE

Joined(i) == sub[i] = "done"

Join ==
    /\ main = "join" /\ Joined(cur)
    /\ main' = IF cur < N THEN "join" ELSE "destroy"
    /\ cur' = cur + 1
    /\ UNCHANGED <<mainAlive, g_main_loop, quit_, next_, accepted, poolVars>>

DestroyLoop ==
    /\ main = "destroy"
    /\ mainAlive' = FALSE
    /\ main' = "shutdown"
    /\ UNCHANGED <<cur, g_main_loop, quit_, next_, accepted, poolVars>>

\* SysMetricsDaemon, CommentRepository, then the log.
Shutdown ==
    /\ \/ main = "shutdown" /\ main' \in AfterRepository
       \/ main = "stoplog" /\ main' = "exited"
    /\ UNCHANGED <<cur, mainAlive, g_main_loop, quit_, next_, accepted, poolVars>>

-----------------------------------------------------------------------------

Main ==
    \/ Boot \/ CreateThread \/ MainLocks \/ CheckReady \/ DropData
    \/ EnterLoop \/ LeaveLoop \/ QueueQuit \/ Wakeup \/ Join \/ DestroyLoop
    \/ Shutdown

Sub(i) ==
    \/ SubLocks(i) \/ SubPublishes(i) \/ SubUnlocks(i) \/ SubEntersLoop(i)
    \/ SubPass(i) \/ SubEnds(i)

Next ==
    \/ Main
    \/ \E i \in Subs : Sub(i)
    \/ \E i \in Subs : SubStuck(i)
    \/ NewConnection
    \/ SpuriousWakeup
    \/ GracefulShutdownHandler

Spec == Init /\ [][Next]_vars

\* Threads run; clients, signals and spurious wakeups need not come.  A mutex
\* that is free again and again is obtained.  A thread that is stuck or hung has
\* no step left that fairness could ask for.
FairSpec ==
    /\ Spec
    /\ SF_vars(Main)
    /\ \A i \in Subs : SF_vars(Sub(i))

-----------------------------------------------------------------------------
(* Properties.                                                             *)

\* A thread that has yet to publish its loop or to let the mutex go finds its
\* ThreadData, a local variable of Start() that the next round overwrites.
DataOutlivesUse ==
    \A i \in Subs : sub[i] \in {"created", "locked", "published"}
                        => data[i] \in {"live", "ready"}

\* What the pool and the server's destructor rely on, wherever they use a loop
\* and the code has seen to its being there: a connection is handed out only
\* when every thread has handed its loop over, Stop pushes the quit on a sub loop
\* that is running, the main loop, on which a sub loop queues the removal of its
\* connections, outlives every sub loop that runs, and a sub loop that is gone
\* has executed everything it was given.  It has not seen to it in two places,
\* of which nothing is said here: the wakeup that follows Stop's push may find
\* the sub loop gone, and a signal behind the block of main() finds a
\* g_main_loop whose loop is gone.
LoopsInPlace ==
    /\ main = "loop" => loops_ = Subs
    /\ main = "push" => sub[cur] \in {"published", "entering", "looping", "stuck"}
    /\ \A i \in Subs : sub[i] \in {"looping", "stuck"} => mainAlive
    /\ \A i \in Subs : sub[i] = "done" => queue[i] = <<>>

\* A signal that comes while the main loop runs ends the program: every sub
\* loop quits, even one that has not entered Loop() yet, every thread is joined
\* and main() returns, unless a sub loop is stuck in OnMessage or the
\* repository's worker has slept through its notification.
SignalEndsProgram ==
    (main = "loop" /\ quit_)
        ~> (main \in {"exited", "hung"} \/ \E i \in Subs : sub[i] = "stuck")
=============================================================================
