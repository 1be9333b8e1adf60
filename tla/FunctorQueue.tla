---------------------------- MODULE FunctorQueue ----------------------------
(***************************************************************************)
(* What an EventLoop promises to the threads that hand it work with        *)
(* QueueInLoop: the functors form one queue and the loop executes them one *)
(* by one, each exactly once, in the order in which they were queued, for  *)
(* as long as the loop has not been left.  A functor still queued when the *)
(* loop is left is never executed.                                         *)
(***************************************************************************)
EXTENDS Sequences, Functions

CONSTANT Functors

VARIABLES
    queue,      \* queued functors that have not started yet
    done,       \* functors that have been executed, oldest first
    stopped     \* the loop has been left

fqVars == <<queue, done, stopped>>

FQInit ==
    /\ queue = <<>>
    /\ done = <<>>
    /\ stopped = FALSE

Post(f) ==
    /\ f \notin Range(queue) \cup Range(done)
    /\ queue' = Append(queue, f)
    /\ UNCHANGED <<done, stopped>>

Execute ==
    /\ ~stopped
    /\ queue # <<>>
    /\ done' = Append(done, Head(queue))
    /\ queue' = Tail(queue)
    /\ UNCHANGED stopped

Stop ==
    /\ ~stopped
    /\ stopped' = TRUE
    /\ UNCHANGED <<queue, done>>

FQNext == (\E f \in Functors : Post(f)) \/ Execute \/ Stop

FQSafety == FQInit /\ [][FQNext]_fqVars

FQSpec == FQSafety /\ WF_fqVars(Execute)
=============================================================================
