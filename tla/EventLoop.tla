------------------------------ MODULE EventLoop ------------------------------
(***************************************************************************)
(* One reactor: the thread that runs EventLoop::Loop, the threads that     *)
(* hand it functors or ask it to quit, and the kernel objects between them *)
(* (the eventfd wakeup_fd_ and the ready list of an edge-triggered epoll). *)
(*                                                                         *)
(* A functor or a channel handler is a callback: while one runs, the loop  *)
(* thread may itself call QueueInLoop, RunInLoop or Quit any number of     *)
(* times.  The critical sections on mutex_ are single assignments and are  *)
(* atomic here; the write to the eventfd that follows an unlock is a step  *)
(* of its own, so every other thread can move in between.                  *)
(***************************************************************************)
EXTENDS Naturals, Sequences, FiniteSets, Functions

CONSTANTS
    Threads,            \* threads other than the loop's own
    LoopThread,         \* the thread that constructed the loop (thread_id_)
    SignalHandler,      \* the SIGINT/SIGTERM handler, on whatever thread
    Functors,           \* callbacks handed over, each one at most once
    WakeupChannel,      \* the channel of wakeup_fd_
    IoChannels,         \* every other channel (sockets, the timerfd)
    InitEventListSize,  \* kInitEventListSize
    MaxQuits            \* bound on the calls of Quit / QuitFromSignal

Actors == Threads \cup {LoopThread, SignalHandler}
Channels == IoChannels \cup {WakeupChannel}

ASSUME EventLoopAssumption ==
    /\ LoopThread \notin Threads
    /\ SignalHandler \notin Threads \cup {LoopThread}
    /\ WakeupChannel \notin IoChannels
    /\ IsFiniteSet(IoChannels)
    /\ InitEventListSize \in Nat \ {0}
    /\ MaxQuits \in Nat

VARIABLES
    lpc,                \* where the loop thread is inside Loop()
    inCallback,         \* the loop thread is inside a handler or a functor
    quit_,
    pending_functors_,
    functors,           \* the local vector of DoPendingFunctors, what is left
    events,             \* channels epoll_wait returned, not handled yet
    nfds,               \* how many it returned
    eventsSize,         \* events_.size()
    counter,            \* the eventfd's counter
    ready,              \* channels on epoll's ready list
    waking,             \* actors about to write to the eventfd
    quits,              \* calls of Quit and QuitFromSignal so far
    pushed,             \* history: functors queued, in order
    done,               \* history: queued functors executed, in order
    inlined             \* history: functors RunInLoop executed in place

loopVars == <<lpc, inCallback, functors, events, nfds, eventsSize>>
kernelVars == <<counter, ready>>
history == <<pushed, done, inlined>>
vars == <<lpc, inCallback, quit_, pending_functors_, functors, events, nfds,
          eventsSize, counter, ready, waking, quits, pushed, done, inlined>>

LoopPcs == {"start", "check", "wait", "dispatch", "swap", "run", "exited"}

TypeOK ==
    /\ lpc \in LoopPcs
    /\ inCallback \in BOOLEAN
    /\ quit_ \in BOOLEAN
    /\ pending_functors_ \in Seq(Functors)
    /\ functors \in Seq(Functors)
    /\ events \in SUBSET Channels
    /\ nfds \in Nat
    /\ eventsSize \in Nat \ {0}
    /\ counter \in Nat
    /\ ready \in SUBSET Channels
    /\ waking \in SUBSET Actors
    /\ quits \in Nat
    /\ pushed \in Seq(Functors)
    /\ done \in Seq(Functors)
    /\ inlined \in SUBSET Functors

Init ==
    /\ lpc = "start"
    /\ inCallback = FALSE
    /\ quit_ = FALSE
    /\ pending_functors_ = <<>>
    /\ functors = <<>>
    /\ events = {}
    /\ nfds = 0
    /\ eventsSize = InitEventListSize
    /\ counter = 0
    /\ ready = {}
    /\ waking = {}
    /\ quits = 0
    /\ pushed = <<>>
    /\ done = <<>>
    /\ inlined = {}

-----------------------------------------------------------------------------
(* Calls any thread may make.                                              *)

\* t can start a call: a foreign thread between calls, the loop thread only
\* from inside a callback.
CanCall(t) ==
    /\ t \in Threads \cup {LoopThread}
    /\ t \notin waking
    /\ t = LoopThread => inCallback

Fresh(f) == f \notin Range(pushed) \cup inlined

\* Variant: only foreign threads write to the eventfd after queueing.
WakesOnQueueForeignOnly(t) == {t} \ {LoopThread}

\* QueueInLoop always writes to the eventfd after it has unlocked.
WakesOnQueue(t) == {t}

\* Variant: Quit relies on somebody else's wakeup.
WakesOnQuitNever(t) == {}

\* Quit writes to the eventfd unless the loop's own thread calls it.
WakesOnQuit(t) == {t} \ {LoopThread}

\* The locked half of QueueInLoop; Wakeup is the other half.
QueueInLoop(t, f) ==
    /\ CanCall(t)
    /\ Fresh(f)
    /\ pending_functors_' = Append(pending_functors_, f)
    /\ pushed' = Append(pushed, f)
    /\ waking' = waking \cup WakesOnQueue(t)
    /\ UNCHANGED <<loopVars, kernelVars, quit_, quits, done, inlined>>

\* RunInLoop on the loop's own thread runs the functor in place; on any
\* other thread it is QueueInLoop.
RunInLoop(t, f) ==
    IF t = LoopThread
    THEN /\ CanCall(t)
         /\ Fresh(f)
         /\ inlined' = inlined \cup {f}
         /\ UNCHANGED <<loopVars, kernelVars, quit_, quits, waking,
                        pending_functors_, pushed, done>>
    ELSE QueueInLoop(t, f)

\* write() to an eventfd registered with EPOLLET puts the channel on the
\* ready list whether or not the counter was zero before.
Wakeup(t) ==
    /\ t \in waking
    /\ counter' = counter + 1
    /\ ready' = ready \cup {WakeupChannel}
    /\ waking' = waking \ {t}
    /\ UNCHANGED <<loopVars, quit_, quits, pending_functors_, history>>

Quit(t) ==
    /\ CanCall(t)
    /\ quits < MaxQuits
    /\ quit_' = TRUE
    /\ quits' = quits + 1
    /\ waking' = waking \cup WakesOnQuit(t)
    /\ UNCHANGED <<loopVars, kernelVars, pending_functors_, history>>

\* The handler may interrupt the loop thread anywhere; it always writes.
QuitFromSignal ==
    /\ SignalHandler \notin waking
    /\ quits < MaxQuits
    /\ quit_' = TRUE
    /\ quits' = quits + 1
    /\ waking' = waking \cup {SignalHandler}
    /\ UNCHANGED <<loopVars, kernelVars, pending_functors_, history>>

-----------------------------------------------------------------------------
(* The kernel side of the other channels.                                  *)

IoReady(c) ==
    /\ c \notin ready
    /\ ready' = ready \cup {c}
    /\ UNCHANGED <<loopVars, counter, waking, quit_, quits,
                   pending_functors_, history>>

-----------------------------------------------------------------------------
(* The loop thread.  It does nothing of its own while it is between the    *)
(* two halves of QueueInLoop.                                              *)

LoopFree == LoopThread \notin waking

LoopEnter ==
    /\ lpc = "start"
    /\ lpc' = "check"
    /\ quit_' = FALSE
    /\ UNCHANGED <<inCallback, functors, events, nfds, eventsSize, kernelVars,
                   waking, quits, pending_functors_, history>>

CheckQuit ==
    /\ lpc = "check"
    /\ lpc' = IF quit_ THEN "exited" ELSE "wait"
    /\ UNCHANGED <<inCallback, functors, events, nfds, eventsSize, kernelVars,
                   quit_, waking, quits, pending_functors_, history>>

\* What epoll_wait would report: the kernel polls each listed file again,
\* so an eventfd that was drained in the meantime is dropped.
Live == {c \in ready : c = WakeupChannel => counter > 0}

\* The sets of channels epoll_wait can report into an array of size n.
Batches(n) ==
    {b \in SUBSET Live :
        Cardinality(b) = IF Cardinality(Live) < n THEN Cardinality(Live) ELSE n}

EpollWait ==
    /\ lpc = "wait"
    /\ Live # {}
    /\ \E b \in Batches(eventsSize) :
         /\ events' = b
         /\ nfds' = Cardinality(b)
         /\ ready' = Live \ b
    /\ lpc' = "dispatch"
    /\ UNCHANGED <<inCallback, functors, eventsSize, counter, quit_, waking,
                   quits, pending_functors_, history>>

\* EINTR, reported only when nothing is ready.
EpollInterrupted ==
    /\ lpc = "wait"
    /\ Live = {}
    /\ lpc' = "check"
    /\ UNCHANGED <<inCallback, functors, events, nfds, eventsSize, kernelVars,
                   quit_, waking, quits, pending_functors_, history>>

\* Any other error leaves the loop.
EpollFails ==
    /\ lpc = "wait"
    /\ lpc' = "exited"
    /\ UNCHANGED <<inCallback, functors, events, nfds, eventsSize, kernelVars,
                   quit_, waking, quits, pending_functors_, history>>

\* HandleRead drains the counter.
HandleWakeup ==
    /\ lpc = "dispatch" /\ ~inCallback
    /\ WakeupChannel \in events
    /\ events' = events \ {WakeupChannel}
    /\ counter' = 0
    /\ UNCHANGED <<lpc, inCallback, functors, nfds, eventsSize, ready, quit_,
                   waking, quits, pending_functors_, history>>

HandleIo(c) ==
    /\ lpc = "dispatch" /\ ~inCallback
    /\ c \in events
    /\ events' = events \ {c}
    /\ inCallback' = TRUE
    /\ UNCHANGED <<lpc, functors, nfds, eventsSize, kernelVars, quit_, waking,
                   quits, pending_functors_, history>>

CallbackReturns ==
    /\ inCallback
    /\ LoopFree
    /\ inCallback' = FALSE
    /\ UNCHANGED <<lpc, functors, events, nfds, eventsSize, kernelVars, quit_,
                   waking, quits, pending_functors_, history>>

\* All events of the batch are handled; DoPendingFunctors is called.
DispatchDone ==
    /\ lpc = "dispatch" /\ ~inCallback
    /\ events = {}
    /\ lpc' = "swap"
    /\ UNCHANGED <<inCallback, functors, events, nfds, eventsSize, kernelVars,
                   quit_, waking, quits, pending_functors_, history>>

\* Variant: the pending functors are copied out, not swapped.
SwapFunctorsCopies ==
    /\ lpc = "swap"
    /\ functors' = pending_functors_
    /\ lpc' = "run"
    /\ UNCHANGED <<inCallback, events, nfds, eventsSize, kernelVars, quit_,
                   waking, quits, pending_functors_, history>>

SwapFunctors ==
    /\ lpc = "swap"
    /\ functors' = pending_functors_
    /\ pending_functors_' = <<>>
    /\ lpc' = "run"
    /\ UNCHANGED <<inCallback, events, nfds, eventsSize, kernelVars, quit_,
                   waking, quits, history>>

\* Variant: the functors are taken from the back.
RunFunctorFromBack ==
    /\ lpc = "run" /\ ~inCallback
    /\ functors # <<>>
    /\ functors' = SubSeq(functors, 1, Len(functors) - 1)
    /\ done' = Append(done, functors[Len(functors)])
    /\ inCallback' = TRUE
    /\ UNCHANGED <<lpc, events, nfds, eventsSize, kernelVars, quit_, waking,
                   quits, pending_functors_, pushed, inlined>>

RunFunctor ==
    /\ lpc = "run" /\ ~inCallback
    /\ functors # <<>>
    /\ functors' = Tail(functors)
    /\ done' = Append(done, Head(functors))
    /\ inCallback' = TRUE
    /\ UNCHANGED <<lpc, events, nfds, eventsSize, kernelVars, quit_, waking,
                   quits, pending_functors_, pushed, inlined>>

\* A batch that filled the array doubles it.
NextEventsSize == IF nfds = eventsSize THEN 2 * eventsSize ELSE eventsSize

\* DoPendingFunctors returns.
PassDone ==
    /\ lpc = "run" /\ ~inCallback
    /\ functors = <<>>
    /\ eventsSize' = NextEventsSize
    /\ lpc' = "check"
    /\ UNCHANGED <<inCallback, functors, events, nfds, kernelVars, quit_,
                   waking, quits, pending_functors_, history>>

-----------------------------------------------------------------------------
LoopStep ==
    \/ LoopEnter \/ CheckQuit \/ EpollWait \/ HandleWakeup
    \/ \E c \in IoChannels : HandleIo(c)
    \/ CallbackReturns \/ DispatchDone \/ SwapFunctors \/ RunFunctor \/ PassDone

Next ==
    \/ \E t \in Actors, f \in Functors : QueueInLoop(t, f) \/ RunInLoop(t, f)
    \/ \E t \in Actors : Wakeup(t) \/ Quit(t)
    \/ QuitFromSignal
    \/ \E c \in IoChannels : IoReady(c)
    \/ LoopStep
    \/ EpollInterrupted
    \/ EpollFails

Spec == Init /\ [][Next]_vars

(***************************************************************************)
(* The scheduler runs the loop thread, and lets a thread that has pushed   *)
(* finish its call; when more channels are ready than the array holds,     *)
(* epoll_wait goes round the ready list, so a channel that stays on it is  *)
(* reported in the end.  Nobody is obliged to call, and signals, errors    *)
(* and socket events are never assumed.                                    *)
(***************************************************************************)
DeliverWakeup == EpollWait /\ WakeupChannel \in events'

Fairness ==
    /\ WF_vars(LoopStep)
    /\ \A t \in Actors : WF_vars(Wakeup(t))
    /\ SF_vars(DeliverWakeup)

FairSpec == Spec /\ Fairness

-----------------------------------------------------------------------------
(* Properties.                                                             *)

\* A wakeup is on its way: somebody is about to write, or the write is
\* already on the ready list and the counter has not been drained.
WakeupComing ==
    \/ waking # {}
    \/ WakeupChannel \in ready /\ counter > 0

\* No lost wakeup (QueueInLoop, Wakeup, HandleRead, DoPendingFunctors): once
\* the loop thread has passed its swap, a functor queued behind its back
\* always has a wakeup coming, so epoll_wait cannot sleep on queued work.
NoLostWakeup ==
    lpc \in {"start", "run", "check", "wait"} /\ pending_functors_ # <<>>
        => WakeupComing

\* No lost quit (Quit, QuitFromSignal, Loop): the loop thread is never inside
\* epoll_wait with quit_ set and no wakeup coming.
NoLostQuit == lpc = "wait" /\ quit_ => WakeupComing

\* HandleRead never fails: the edge epoll_wait reports is never stale by the
\* time the handler reads, although further writes may come in between.
WakeupReadSucceeds == WakeupChannel \in events => counter > 0

\* Where the loop thread can be while it is inside a callback, holds swapped
\* functors or has events to handle (Loop, DoPendingFunctors); with it the
\* invariants above and below are inductive.
LoopShape ==
    /\ LoopThread \in waking => inCallback
    /\ inCallback => lpc \in {"dispatch", "run"}
    /\ functors # <<>> => lpc = "run"
    /\ events # {} => lpc = "dispatch"

\* The inductive invariant of the wakeup protocol.
WakeupInv == LoopShape /\ NoLostWakeup /\ NoLostQuit /\ WakeupReadSucceeds

\* Exactly once, in order (QueueInLoop, DoPendingFunctors): what has been
\* executed, what is swapped out and what is pending are together the
\* functors that were queued, in the order in which they were queued.
QueuedInOrder == pushed = done \o functors \o pending_functors_

\* The functor queue the rest of the code programs against is implemented.
FQ == INSTANCE FunctorQueue
        WITH queue <- functors \o pending_functors_,
             done <- done,
             stopped <- (lpc = "exited")

\* The loop implements the abstract functor queue, safety and progress.
ImplementsFunctorQueue == FQ!FQSpec

\* A Quit or QuitFromSignal that comes once Loop() has been entered makes
\* Loop() return.
QuitLeavesLoop == (quit_ /\ lpc # "start") ~> lpc = "exited"
=============================================================================
