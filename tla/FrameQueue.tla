------------------------------- MODULE FrameQueue -------------------------------
(***************************************************************************)
(* What a WebSocketWriteQueue promises: a bounded queue whose head is      *)
(* COMMITTED before it is written and stays at the head until it was, so   *)
(* that only frames that are QUEUED can be cancelled; and a failure gives  *)
(* up every frame and accepts no other.                                    *)
(***************************************************************************)
EXTENDS Naturals, Sequences, SequencesExt

CONSTANTS
    Frames,             \* what can be queued
    MaxQueuedFrames     \* MAX_QUEUED_FRAMES

VARIABLES
    queue,      \* the frames, and whether they are COMMITTED
    failed

queueVars == <<queue, failed>>

QueueInit == queue = <<>> /\ failed = FALSE

\* Mutant: the bound is off by one.
MayEnqueueOneMore == ~failed /\ Len(queue) <= MaxQueuedFrames

\* enqueueTracked
MayEnqueue == ~failed /\ Len(queue) < MaxQueuedFrames

Enqueue(frame) ==
    /\ MayEnqueue
    /\ queue' = Append(queue, [frame |-> frame, committed |-> FALSE])
    /\ UNCHANGED failed

\* cancelIfNotCommitted
Cancel(i) ==
    /\ ~queue[i].committed
    /\ queue' = RemoveAt(queue, i)
    /\ UNCHANGED failed

HeadIsCommitted == queue # <<>> /\ Head(queue).committed

\* The head is handed to the channel, and leaves once all of it is written.
Commit ==
    /\ queue # <<>> /\ ~HeadIsCommitted
    /\ queue' = [queue EXCEPT ![1].committed = TRUE]
    /\ UNCHANGED failed

HeadWritten ==
    /\ HeadIsCommitted
    /\ queue' = Tail(queue)
    /\ UNCHANGED failed

\* fail
Fail ==
    /\ failed' = TRUE
    /\ queue' = <<>>

QueueNext ==
    \/ \E frame \in Frames : Enqueue(frame)
    \/ \E i \in DOMAIN queue : Cancel(i)
    \/ Commit
    \/ HeadWritten
    \/ Fail

QueueSpec == QueueInit /\ [][QueueNext]_queueVars

================================================================================
