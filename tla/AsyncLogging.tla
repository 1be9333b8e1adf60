---------------------------- MODULE AsyncLogging ----------------------------
(***************************************************************************)
(* The asynchronous log: threads append lines to the current buffer, the   *)
(* backend thread swaps the full buffers out and writes them, and the main *)
(* thread stops it at the end of the program.                              *)
(*                                                                         *)
(* A buffer is the sequence of its lines and Null a moved-from unique_ptr. *)
(* Append and the two critical sections of the backend hold mutex_ and are *)
(* single steps.  The backend's wait is timed, so it may end at any time,  *)
(* and the notifications only make it end earlier.                         *)
(***************************************************************************)
EXTENDS Naturals, Sequences, SequencesExt

CONSTANTS
    Joined,         \* threads that have ended before Stop() is called
    Detached,       \* threads that live as long as the process
    Lines,          \* log lines, each appended at most once
    Capacity,       \* lines that fit into a large buffer
    Null

Threads == Joined \cup Detached

ASSUME AsyncLoggingAssumption ==
    /\ Joined \cap Detached = {}
    /\ Capacity \in Nat \ {0}
    /\ Null \notin Seq(Lines)

VARIABLES
    running_,
    currentBuffer_, nextBuffer_,
    buffers_,       \* full buffers
    buffer1, buffer2, buffersToWrite,       \* locals of ThreadFunc
    bpc,            \* where the backend thread is
    main,           \* the main thread: "init", "run", "stopping", "stopped", "off"
    file,           \* the lines in the log file
    undefined,      \* a null pointer or an empty vector has been dereferenced
    appended        \* history: lines handed to Append, in order

front == <<currentBuffer_, nextBuffer_, buffers_>>
back == <<buffer1, buffer2, buffersToWrite>>
vars == <<running_, currentBuffer_, nextBuffer_, buffers_, buffer1, buffer2,
          buffersToWrite, bpc, main, file, undefined, appended>>

Pointers == Seq(Lines) \cup {Null}

TypeOK ==
    /\ running_ \in BOOLEAN
    /\ {currentBuffer_, nextBuffer_, buffer1, buffer2} \subseteq Pointers
    /\ buffers_ \in Seq(Seq(Lines)) /\ buffersToWrite \in Seq(Seq(Lines))
    /\ bpc \in {"none", "open", "loop", "lock", "waiting", "write", "recycle",
                "sweep", "exited"}
    /\ main \in {"init", "run", "stopping", "stopped", "off"}
    /\ file \in Seq(Lines) /\ appended \in Seq(Lines)
    /\ undefined \in BOOLEAN

Init ==
    /\ running_ = FALSE
    /\ currentBuffer_ = <<>> /\ nextBuffer_ = <<>>
    /\ buffers_ = <<>>
    /\ buffer1 = <<>> /\ buffer2 = <<>> /\ buffersToWrite = <<>>
    /\ bpc = "none"
    /\ main = "init"
    /\ file = <<>>
    /\ undefined = FALSE
    /\ appended = <<>>

-----------------------------------------------------------------------------
(* The main thread.                                                        *)

Start ==
    /\ main = "init"
    /\ main' = "run"
    /\ running_' = TRUE
    /\ bpc' = "open"
    /\ UNCHANGED <<front, back, file, undefined, appended>>

StopStores ==
    /\ main = "run"
    /\ main' = "stopping"
    /\ running_' = FALSE
    /\ UNCHANGED <<front, back, bpc, file, undefined, appended>>

StopJoins ==
    /\ main = "stopping"
    /\ bpc = "exited"
    /\ main' = "stopped"
    /\ UNCHANGED <<running_, front, back, bpc, file, undefined, appended>>

\* g_asyncLog = nullptr: later lines go to the console.
CutOff ==
    /\ main = "stopped"
    /\ main' = "off"
    /\ UNCHANGED <<running_, front, back, bpc, file, undefined, appended>>

-----------------------------------------------------------------------------
(* Append.                                                                 *)

\* The spare buffer, or a new one: both are empty.
FreshBuffer == IF nextBuffer_ # Null THEN nextBuffer_ ELSE <<>>

AppendLine(t, x) ==
    /\ main \in {"init", "run"} \/ (t \in Detached /\ main \in {"stopping", "stopped"})
    /\ x \notin Range(appended)
    /\ ~undefined
    /\ \/ /\ currentBuffer_ = Null
          /\ undefined' = TRUE
          /\ UNCHANGED <<front, appended>>
       \/ /\ currentBuffer_ # Null /\ Len(currentBuffer_) < Capacity
          /\ currentBuffer_' = Append(currentBuffer_, x)
          /\ appended' = Append(appended, x)
          /\ UNCHANGED <<nextBuffer_, buffers_, undefined>>
       \/ /\ currentBuffer_ # Null /\ Len(currentBuffer_) >= Capacity
          /\ buffers_' = Append(buffers_, currentBuffer_)
          /\ currentBuffer_' = Append(FreshBuffer, x)
          /\ nextBuffer_' = Null
          /\ appended' = Append(appended, x)
          /\ UNCHANGED undefined
    /\ UNCHANGED <<running_, back, bpc, main, file>>

-----------------------------------------------------------------------------
(* The backend thread.                                                     *)

OpenFile ==
    /\ bpc = "open"
    /\ bpc' \in {"loop", "exited"}
    /\ UNCHANGED <<running_, front, back, main, file, undefined, appended>>

CheckRunning ==
    /\ bpc = "loop"
    /\ bpc' = IF running_ THEN "lock" ELSE "sweep"
    /\ UNCHANGED <<running_, front, back, main, file, undefined, appended>>

StartWaiting ==
    /\ bpc = "lock"
    /\ buffers_ = <<>>
    /\ bpc' = "waiting"
    /\ UNCHANGED <<running_, front, back, main, file, undefined, appended>>

Replenishes == nextBuffer_ = Null

\* Variant: the wait has no timeout.
WaitEndsWhenFull == bpc = "waiting" /\ buffers_ # <<>>

\* wait_for returns: a notification, the timeout, or neither.
WaitEnds == bpc = "waiting"

\* Full buffers and the current one are swapped out, empty ones go in.
SwapBuffers ==
    /\ WaitEnds \/ (bpc = "lock" /\ buffers_ # <<>>)
    /\ buffersToWrite' = Append(buffers_, currentBuffer_)
    /\ buffers_' = buffersToWrite
    /\ currentBuffer_' = buffer1
    /\ buffer1' = Null
    /\ nextBuffer_' = IF Replenishes THEN buffer2 ELSE nextBuffer_
    /\ buffer2' = IF Replenishes THEN Null ELSE buffer2
    /\ bpc' = "write"
    /\ UNCHANGED <<running_, main, file, undefined, appended>>

WriteBuffers ==
    /\ bpc = "write"
    /\ file' = file \o FlattenSeq(buffersToWrite)
    /\ bpc' = "recycle"
    /\ UNCHANGED <<running_, front, back, main, undefined, appended>>

\* Variant: a recycled buffer keeps its lines.
ResetKeeps(b) == b

Reset(b) == <<>>

\* Variant: a single buffer is kept.
KeptBuffersOne == SubSeq(buffersToWrite, 1, 1)

\* resize(2)
KeptBuffers ==
    IF Len(buffersToWrite) > 2 THEN SubSeq(buffersToWrite, 1, 2) ELSE buffersToWrite

\* How many of the backend's own buffers must come from the written ones.
Missing == (IF buffer1 = Null THEN 1 ELSE 0) + (IF buffer2 = Null THEN 1 ELSE 0)

Recycle ==
    /\ bpc = "recycle"
    /\ LET kept == KeptBuffers
           n    == Len(kept)
       IN  IF Missing > n
           THEN undefined' = TRUE /\ UNCHANGED back
           ELSE /\ undefined' = undefined
                /\ buffer1' = IF buffer1 = Null THEN Reset(kept[n]) ELSE buffer1
                /\ buffer2' = IF buffer2 = Null
                              THEN Reset(kept[n - Missing + 1]) ELSE buffer2
                /\ buffersToWrite' = <<>>
    /\ bpc' = "loop"
    /\ UNCHANGED <<running_, front, main, file, appended>>

\* Variant: the current buffer is left out of the last sweep.
SweptFullOnly == buffers_

Swept == Append(buffers_, currentBuffer_)

\* The last sweep takes the current buffer and puts nothing in its place.
FinalSweep ==
    /\ bpc = "sweep"
    /\ file' = file \o FlattenSeq(Swept)
    /\ buffers_' = buffersToWrite
    /\ buffersToWrite' = Swept
    /\ currentBuffer_' = Null
    /\ bpc' = "exited"
    /\ UNCHANGED <<running_, nextBuffer_, buffer1, buffer2, main, undefined, appended>>

Backend ==
    \/ OpenFile \/ CheckRunning \/ StartWaiting \/ SwapBuffers \/ WriteBuffers
    \/ Recycle \/ FinalSweep

Next ==
    \/ Start \/ StopStores \/ StopJoins \/ CutOff
    \/ \E t \in Threads, x \in Lines : AppendLine(t, x)
    \/ Backend

Spec == Init /\ [][Next]_vars

\* The backend is scheduled (its wait is timed), and so is a Stop in progress.
Fairness == WF_vars(Backend) /\ WF_vars(StopJoins)

FairSpec == Spec /\ Fairness

-----------------------------------------------------------------------------
(* Properties.                                                             *)

\* The lines on their way to the file, oldest first.
Unwritten ==
    (IF bpc = "write" THEN FlattenSeq(buffersToWrite) ELSE <<>>)
    \o FlattenSeq(buffers_)
    \o (IF currentBuffer_ = Null THEN <<>> ELSE currentBuffer_)

\* Exactly once, in order (Append, ThreadFunc): the file and the buffers on
\* their way to it hold every line that was appended, once and in order,
\* although buffers are moved, swapped and used again.
LinesInOrder == bpc # "exited" => appended = file \o Unwritten

\* The recycling never takes back() of an empty vector and Append never meets
\* a moved-from current buffer, until the backend has ended: only a thread
\* that outlives Stop(), as the detached reload thread of main.cpp does, can
\* still find the buffer that the last sweep has moved away.
NothingUndefined == undefined => bpc = "exited"

\* Stop() returns with every line in the file, if the file could be opened.
StopFlushes ==
    main \in {"stopped", "off"} /\ currentBuffer_ = Null => file = appended

\* Every line reaches the file, without a Stop, unless it cannot be opened.
LinesReachFile ==
    \A x \in Lines :
        (x \in Range(appended) /\ main # "init")
            ~> (x \in Range(file) \/ bpc = "exited")
=============================================================================
