-------------------------- MODULE WebSocketWriteQueue --------------------------
(***************************************************************************)
(* The queue of frames of a WebSocket (WebSocketWriteQueue.java).  Any     *)
(* thread may enqueue a frame; one frame at a time is handed to the        *)
(* asynchronous channel, whose completion handler runs on a thread of the  *)
(* channel, possibly before the write returns.                             *)
(*                                                                         *)
(* Each block that holds the monitor is one step; what runs between two    *)
(* blocks is a place of the thread that runs it:                           *)
(*   starter     an enqueue that found no write pending, before its        *)
(*               requestDrive;                                             *)
(*   driver      the loop of requestDrive (driveActive): about to look at  *)
(*               the queue, about to write the head it committed, or back  *)
(*               from the write;                                           *)
(*   completion  the handler of a write: about to run onWritten, or about  *)
(*               to call requestDrive;                                     *)
(*   expiring    the task of a progress deadline that passed its check, on *)
(*               its way to fail.                                          *)
(* A loop that stops because of a failure leaves driveActive set, which    *)
(* nothing reads any more.  A deadline is armed or not: a task that is     *)
(* late finds another generation and does nothing.                         *)
(*                                                                         *)
(* The channel writes a frame in pieces, in one or several writes.  A      *)
(* frame is its number, in the order they were accepted.                   *)
(***************************************************************************)
EXTENDS Naturals, Sequences, SequencesExt

CONSTANTS
    MaxQueuedFrames     \* MAX_QUEUED_FRAMES

VARIABLES
    queue,          \* frames: their number, and whether they are COMMITTED
    accepted,       \* number of frames accepted so far
    writePending,
    failed,
    starter,
    driver,         \* "idle", "looking", "committed" or "written"
    driveRequested,
    current,        \* the frame the driver committed, or is writing
    socket,         \* the frame whose write is outstanding, or 0
    completion,     \* "none", "callback" or "drive"
    armed,          \* the progress deadline of the committed frame is armed
    expiring,
    wire            \* the frames whose pieces the peer received, in order

queueVars == <<queue, accepted, writePending, failed, starter, driver, driveRequested,
               current, socket, completion, armed, expiring, wire>>

WritesInit ==
    /\ queue = <<>>
    /\ accepted = 0
    /\ writePending = FALSE
    /\ failed = FALSE
    /\ starter = FALSE
    /\ driver = "idle"
    /\ driveRequested = FALSE
    /\ current = 0
    /\ socket = 0
    /\ completion = "none"
    /\ armed = FALSE
    /\ expiring = FALSE
    /\ wire = <<>>

--------------------------------------------------------------------------------
\* enqueueTracked: the frame is refused, or queued; it starts the writing if
\* nobody does it.

MayEnqueue == ~failed /\ Len(queue) < MaxQueuedFrames

Enqueue ==
    /\ MayEnqueue
    /\ queue' = Append(queue, [frame |-> accepted + 1, committed |-> FALSE])
    /\ accepted' = accepted + 1
    /\ starter' = (starter \/ ~writePending)
    /\ writePending' = TRUE
    /\ UNCHANGED <<failed, driver, driveRequested, current, socket, completion, armed,
                   expiring, wire>>

\* cancelIfNotCommitted of the i-th frame.
CancelFrame(i) ==
    /\ ~queue[i].committed
    /\ queue' = RemoveAt(queue, i)
    /\ UNCHANGED <<accepted, writePending, failed, starter, driver, driveRequested, current,
                   socket, completion, armed, expiring, wire>>

\* fail: the frames left are given up.  The first failure is told to onFailure.
Fail ==
    /\ failed' = TRUE
    /\ queue' = <<>>
    /\ writePending' = FALSE
    /\ driveRequested' = FALSE
    /\ armed' = FALSE
    /\ UNCHANGED <<accepted, current>>

--------------------------------------------------------------------------------
\* The drive

\* The first block of requestDrive: there is a driver already, or this is one.
RequestDrive ==
    /\ driver' = IF failed \/ driver # "idle" THEN driver ELSE "looking"
    /\ driveRequested' = (driveRequested \/ (~failed /\ driver # "idle"))
    /\ UNCHANGED <<queue, accepted, writePending, failed, current, socket, armed, expiring, wire>>

StarterDrives ==
    /\ starter
    /\ starter' = FALSE
    /\ RequestDrive
    /\ UNCHANGED completion

CompletionDrives ==
    /\ completion = "drive"
    /\ completion' = "none"
    /\ RequestDrive
    /\ UNCHANGED starter

\* The driver finds the queue failed or empty, and stops.
DriverStops ==
    /\ driver = "looking"
    /\ failed \/ queue = <<>>
    /\ driver' = "idle"
    /\ driveRequested' = FALSE
    /\ writePending' = FALSE
    /\ UNCHANGED <<queue, accepted, failed, starter, current, socket, completion, armed,
                   expiring, wire>>

\* It commits the head, unless a write of part of it did.
DriverCommits ==
    /\ driver = "looking"
    /\ ~failed /\ queue # <<>>
    /\ driver' = "committed"
    /\ driveRequested' = FALSE
    /\ current' = Head(queue).frame
    /\ queue' = [queue EXCEPT ![1].committed = TRUE]
    /\ armed' = (armed \/ ~Head(queue).committed)
    /\ UNCHANGED <<accepted, writePending, failed, starter, socket, completion, expiring, wire>>

\* onCommitted, then the call of the channel.
DriverWrites ==
    /\ driver = "committed"
    /\ driver' = "written"
    /\ socket' = current
    /\ UNCHANGED <<queue, accepted, writePending, failed, starter, driveRequested, current,
                   completion, armed, expiring, wire>>

\* onCommitted throws, or the call of the channel does.
DriverThrows ==
    /\ driver = "committed"
    /\ driver' = "idle"
    /\ Fail
    /\ UNCHANGED <<starter, socket, completion, expiring, wire>>

\* The last block of the loop: once more if a completion asked for it.
DriverReturns ==
    /\ driver = "written"
    /\ driver' = IF driveRequested THEN "looking" ELSE "idle"
    /\ UNCHANGED <<queue, accepted, writePending, failed, starter, driveRequested, current,
                   socket, completion, armed, expiring, wire>>

--------------------------------------------------------------------------------
\* Completions

\* Part of the frame is written, or nothing: a part arms the deadline again.
WritesPart(some) ==
    /\ socket # 0
    /\ socket' = 0
    /\ completion' = "drive"
    /\ wire' = IF some THEN Append(wire, socket) ELSE wire
    /\ armed' = (armed \/ some)
    /\ UNCHANGED <<queue, accepted, writePending, failed, starter, driver, driveRequested,
                   current, expiring>>

\* The rest of the frame is written: it leaves the queue.
HeadIsWritten == queue # <<>> /\ Head(queue).frame = socket

WritesRest ==
    /\ socket # 0
    /\ HeadIsWritten
    /\ socket' = 0
    /\ completion' = "callback"
    /\ wire' = Append(wire, socket)
    /\ queue' = Tail(queue)
    /\ armed' = FALSE
    /\ UNCHANGED <<accepted, writePending, failed, starter, driver, driveRequested, current,
                   expiring>>

\* Another frame is at the head: "write queue head changed while committed".
HeadChanged ==
    /\ socket # 0
    /\ ~HeadIsWritten
    /\ socket' = 0
    /\ wire' = Append(wire, socket)
    /\ Fail
    /\ UNCHANGED <<starter, driver, completion, expiring>>

\* onWritten returns, or throws.
CallbackReturns ==
    /\ completion = "callback"
    /\ completion' = "drive"
    /\ UNCHANGED <<queue, accepted, writePending, failed, starter, driver, driveRequested,
                   current, socket, armed, expiring, wire>>

CallbackThrows ==
    /\ completion = "callback"
    /\ completion' = "none"
    /\ Fail
    /\ UNCHANGED <<starter, driver, socket, expiring, wire>>

\* The write fails, or the socket was closed.
WriteFails ==
    /\ socket # 0
    /\ socket' = 0
    /\ Fail
    /\ UNCHANGED <<starter, driver, completion, expiring, wire>>

--------------------------------------------------------------------------------
\* The progress deadline: its check under the monitor, and its fail.

DeadlineExpires ==
    /\ armed /\ ~failed
    /\ armed' = FALSE
    /\ expiring' = TRUE
    /\ UNCHANGED <<queue, accepted, writePending, failed, starter, driver, driveRequested,
                   current, socket, completion, wire>>

DeadlineFails ==
    /\ expiring
    /\ expiring' = FALSE
    /\ Fail
    /\ UNCHANGED <<starter, driver, socket, completion, wire>>

--------------------------------------------------------------------------------
QueueNext ==
    \/ Enqueue
    \/ \E i \in DOMAIN queue : CancelFrame(i)
    \/ StarterDrives
    \/ CompletionDrives
    \/ DriverStops
    \/ DriverCommits
    \/ DriverWrites
    \/ DriverThrows
    \/ DriverReturns
    \/ \E some \in BOOLEAN : WritesPart(some)
    \/ WritesRest
    \/ HeadChanged
    \/ CallbackReturns
    \/ CallbackThrows
    \/ WriteFails
    \/ DeadlineExpires
    \/ DeadlineFails

QueueSpec == WritesInit /\ [][QueueNext]_queueVars

--------------------------------------------------------------------------------
\* Properties

Entry == [frame : Nat, committed : BOOLEAN]

QueueTyped ==
    /\ queue \in Seq(Entry)
    /\ accepted \in Nat
    /\ current \in Nat /\ socket \in Nat
    /\ writePending \in BOOLEAN /\ failed \in BOOLEAN
    /\ starter \in BOOLEAN /\ driveRequested \in BOOLEAN
    /\ armed \in BOOLEAN /\ expiring \in BOOLEAN
    /\ driver \in {"idle", "looking", "committed", "written"}
    /\ completion \in {"none", "callback", "drive"}
    /\ wire \in Seq(Nat)

\* The variables have their types, and the queue never holds more frames than
\* MAX_QUEUED_FRAMES, those committed or being written included.
QueueTypeOK == QueueTyped /\ Len(queue) <= MaxQueuedFrames

\* The work of the next write is in one place: with a starter, with the driver,
\* in the channel or with a completion.
Places ==
    <<starter, driver \in {"looking", "committed"}, socket # 0, completion # "none",
      driver = "written" /\ driveRequested>>

\* The queue never stops with frames in it, and never has two writes in the
\* channel, which would throw WritePendingException: whatever the thread that
\* completes a write and the moment it does, there is one place where the work
\* goes on, and none once the queue is empty and idle.
WritesHaveADriver ==
    /\ \A i, j \in DOMAIN Places : Places[i] /\ Places[j] => i = j
    /\ ~failed /\ queue # <<>> => \E i \in DOMAIN Places : Places[i]

\* "write queue head changed while committed" is a failure only after another:
\* no cancellation takes the frame in the channel out of the queue.
HeadStaysCommitted ==
    socket # 0 /\ ~failed => HeadIsWritten /\ Head(queue).committed

\* The peer receives the frames whole and in the order they were accepted; those
\* cancelled or queued are not on the wire.
WireInOrder ==
    /\ \A i, j \in DOMAIN wire : i <= j => wire[i] <= wire[j]
    /\ \A i \in DOMAIN queue : ~queue[i].committed => queue[i].frame \notin Range(wire)

\* The queue keeps what WebSocketConnection counts on.
Promise == INSTANCE FrameQueue WITH Frames <- Nat

ImplementsFrameQueue == Promise!QueueSpec

================================================================================
