-------------------------- MODULE WebSocketConnection --------------------------
(***************************************************************************)
(* A connection after its handshake (WebSocketConnection.java) with its    *)
(* WebSocketHeartbeat, over what its WebSocketWriteQueue promises          *)
(* (FrameQueue).                                                           *)
(*                                                                         *)
(* Threads: "session" runs the tasks of the session, one at a time;        *)
(* "reader" the handler of reads; "pinger" the ping timer; "deadline" the  *)
(* deadline of a pong; "writer" whoever learns first that the queue        *)
(* failed.  pc says where each is between two blocks that hold a monitor.  *)
(* The drive of the queue runs apart from the thread that calls it: that   *)
(* only adds interleavings.                                                *)
(*                                                                         *)
(* The peer sends what it likes, reads when it likes and may stop reading. *)
(* finish is one step: the steps between its compareAndSet and the close   *)
(* of the socket find the connection finished.  Of a socket that was       *)
(* closed only failures come.  The bytes of frames are left out: which     *)
(* frames are legal is the matter of the parser, a violation of it is      *)
(* ReadsViolation.                                                         *)
(***************************************************************************)
EXTENDS Naturals, FiniteSets, Sequences, SequencesExt, FrameQueue

CONSTANTS
    MaxPings,       \* bound: pings the heartbeat sends
    MaxPongs,       \* bound: pings of the peer that are answered
    MaxData         \* bound: messages of the session

ASSUME ConnectionAssumption == {MaxQueuedFrames, MaxPings, MaxPongs, MaxData} \subseteq Nat

VARIABLES
    sent,           \* history: frames of each type accepted by the queue
    late,           \* history: those accepted after a Close frame
    connection,     \* closeSent, closeReceived, finished, and the close timer
    heartbeat,      \* pendingPing, the timers, the deadlines that may still run, and
                    \* history: the last ping answered and the last expired
    pc              \* where each thread is

vars == <<queueVars, sent, late, connection, heartbeat, pc>>

Threads == {"session", "reader", "pinger", "deadline", "writer"}

\* "close" waits for the Close of the peer, "lastClose" for nothing.
Types == {"data", "ping", "pong", "close", "lastClose"}

Frame(type) == [type |-> type, nonce |-> 0]
Ping(nonce) == [type |-> "ping", nonce |-> nonce]

Init ==
    /\ QueueInit
    /\ sent = [type \in Types |-> 0]
    /\ late = sent
    /\ connection = [closeSent |-> FALSE, closeReceived |-> FALSE, finished |-> FALSE,
                     closeTimer |-> FALSE]
    /\ heartbeat = [pendingPing |-> 0, nonce |-> 0, pingTimer |-> TRUE, pongTimer |-> 0,
                    deadlines |-> {}, answered |-> 0, expired |-> 0]
    /\ pc = [t \in Threads |-> "idle"]

Now == [connection |-> connection, heartbeat |-> heartbeat, pc |-> pc]

Becomes(s) ==
    /\ connection' = s.connection
    /\ heartbeat' = s.heartbeat
    /\ pc' = s.pc

Goes(s, thread, place) == [s EXCEPT !.pc[thread] = place]

\* A step of a thread that leaves the queue alone.
Steps(thread, from, s) ==
    /\ pc[thread] = from
    /\ Becomes(s)
    /\ UNCHANGED <<queueVars, sent, late>>

CloseWasSent == sent["close"] + sent["lastClose"] > 0

\* A frame is offered to the queue.
Sends(frame, ifAccepted, ifRefused) ==
    IF MayEnqueue
    THEN /\ Enqueue(frame)
         /\ sent' = [sent EXCEPT ![frame.type] = @ + 1]
         /\ late' = IF CloseWasSent THEN [late EXCEPT ![frame.type] = @ + 1] ELSE late
         /\ Becomes(ifAccepted)
    ELSE /\ UNCHANGED <<queueVars, sent, late>>
         /\ Becomes(ifRefused)

--------------------------------------------------------------------------------
\* finish and fail

\* finish: once; the timers are cancelled, the heartbeat and the socket closed.
Finish(s) ==
    IF s.connection.finished THEN s
    ELSE [s EXCEPT
            !.connection.finished = TRUE, !.connection.closeTimer = FALSE,
            !.heartbeat.pendingPing = 0, !.heartbeat.pingTimer = FALSE,
            !.heartbeat.pongTimer = 0, !.heartbeat.deadlines = {}]

\* fail: a Close frame, the last one written, unless one was sent before.
\* The pinger goes on with "then" where its sender returned false.
Fails(thread, then) ==
    Steps(thread, IF then = "idle" THEN "failing" ELSE "failingFirst",
        IF connection.finished THEN Goes(Now, thread, then)
        ELSE IF connection.closeSent THEN Goes(Finish(Now), thread, then)
        ELSE Goes([Now EXCEPT !.connection.closeSent = TRUE], thread,
                  IF then = "idle" THEN "failed" ELSE "failedFirst"))

SendsLastClose(thread, from, then) ==
    /\ pc[thread] = from
    /\ Sends(Frame("lastClose"), Goes(Now, thread, then), Goes(Finish(Now), thread, then))

\* closeTimer
CloseTimer ==
    /\ connection.closeTimer
    /\ Becomes(Finish([Now EXCEPT !.connection.closeTimer = FALSE]))
    /\ UNCHANGED <<queueVars, sent, late>>

--------------------------------------------------------------------------------
\* The session

\* Mutant: closeSent is not looked at.
SessionSendsAnyway ==
    /\ ~connection.finished
    /\ sent["data"] < MaxData
    /\ Steps("session", "idle", Goes(Now, "session", "sending"))

\* sendTextTracked and sendBinaryTracked: the check under the lock, and the
\* frame offered to the queue after it.
SessionSends ==
    /\ ~connection.finished /\ ~connection.closeSent
    /\ sent["data"] < MaxData
    /\ Steps("session", "idle", Goes(Now, "session", "sending"))

SendsData ==
    /\ pc["session"] = "sending"
    /\ Sends(Frame("data"), Goes(Now, "session", "idle"), Goes(Now, "session", "idle"))

\* The session takes back a frame that is still queued.
SessionCancels(i) ==
    /\ queue[i].frame.type = "data"
    /\ Cancel(i)
    /\ UNCHANGED <<sent, late, connection, heartbeat, pc>>

\* initiateClose: the mark under the lock, the frame, the timer.
InitiateClose ==
    /\ ~connection.finished /\ ~connection.closeSent
    /\ Steps("session", "idle", Goes([Now EXCEPT !.connection.closeSent = TRUE],
                                     "session", "closing"))

SendsClose ==
    /\ pc["session"] = "closing"
    /\ Sends(Frame("close"), Goes(Now, "session", "arming"),
             Goes(Finish(Now), "session", "idle"))

\* Mutant: the Close of the peer is waited for without a timer.
ArmsNothing == Steps("session", "arming", Goes(Now, "session", "idle"))

ArmsCloseTimer ==
    Steps("session", "arming", Goes([Now EXCEPT !.connection.closeTimer = TRUE],
                                    "session", "idle"))

--------------------------------------------------------------------------------
\* The reader

Reads(s) == ~connection.finished /\ Steps("reader", "idle", s)

\* sendControl of a pong: closeSent is not looked at.
ReadsPing ==
    /\ pc["reader"] = "idle"
    /\ ~connection.finished
    /\ sent["pong"] < MaxPongs
    /\ Sends(Frame("pong"), Now, Goes(Now, "reader", "failing"))

\* onPong: only the pong of the ping that is pending counts.  A deadline that is
\* cancelled may be running already.
CancelsPongTimer(s, running) ==
    [s EXCEPT !.heartbeat.pongTimer = 0,
              !.heartbeat.deadlines = IF running THEN @ ELSE @ \ {s.heartbeat.pongTimer}]

\* Mutant: any pong answers the pending ping.
ReadsAnyPong(nonce, running) ==
    Reads(IF heartbeat.pendingPing = 0 THEN Now
          ELSE Goes(CancelsPongTimer([Now EXCEPT !.heartbeat.pendingPing = 0,
                                                 !.heartbeat.answered = nonce], running),
                    "reader", "matched"))

ReadsPong(nonce, running) ==
    Reads(IF heartbeat.pendingPing = 0 \/ heartbeat.pendingPing # nonce THEN Now
          ELSE Goes(CancelsPongTimer([Now EXCEPT !.heartbeat.pendingPing = 0,
                                                 !.heartbeat.answered = nonce], running),
                    "reader", "matched"))

\* Mutant: nobody schedules the ping that follows a pong.
SchedulesNothing == Steps("reader", "matched", Goes(Now, "reader", "idle"))

\* scheduleNextPing
SchedulesNextPing ==
    LET free == ~connection.finished /\ heartbeat.pendingPing = 0
    IN  Steps("reader", "matched",
            Goes([Now EXCEPT !.heartbeat.pingTimer = @ \/ free], "reader", "idle"))

\* receiveClose: what it saw of closeSent under the lock decides.
ReadsClose ==
    Reads(Goes([Now EXCEPT !.connection.closeReceived = TRUE], "reader",
               IF connection.closeSent THEN "finishing" ELSE "answering"))

AnswersClose ==
    Steps("reader", "answering",
          Goes([Now EXCEPT !.connection.closeSent = TRUE], "reader", "answered"))

\* A frame the parser or the assembler refuses.
ReadsViolation == Reads(Goes(Now, "reader", "failing"))

\* The end of the stream, or a read that fails.
ReadsEnd == Reads(Goes(Now, "reader", "finishing"))

ReaderFinishes == Steps("reader", "finishing", Goes(Finish(Now), "reader", "idle"))

--------------------------------------------------------------------------------
\* The heartbeat

\* sendPing of WebSocketHeartbeat
PingTimer ==
    LET fired == [Now EXCEPT !.heartbeat.pingTimer = FALSE]
        next == heartbeat.nonce + 1
    IN  /\ heartbeat.pingTimer
        /\ next <= MaxPings
        /\ Steps("pinger", "idle",
            IF connection.finished \/ heartbeat.pendingPing # 0 THEN fired
            ELSE Goes([fired EXCEPT !.heartbeat.nonce = next, !.heartbeat.pendingPing = next],
                      "pinger", "pinging"))

\* sendPing of WebSocketConnection: the checks, and the frame after them.
ChecksPing ==
    Steps("pinger", "pinging", Goes(Now, "pinger",
        IF connection.finished \/ connection.closeSent \/ connection.closeReceived
        THEN "refused" ELSE "offering"))

SendsPing ==
    /\ pc["pinger"] = "offering"
    /\ Sends(Ping(heartbeat.nonce), Goes(Now, "pinger", "idle"),
             Goes(Now, "pinger", "failingFirst"))

\* The ping was not accepted: as if its pong had not come.
PingRefused ==
    Steps("pinger", "refused",
        Goes([Now EXCEPT !.heartbeat.pendingPing = IF @ = heartbeat.nonce THEN 0 ELSE @],
             "pinger", IF connection.finished THEN "idle" ELSE "failing"))

\* onPingWritten
PingWritten(s, nonce) ==
    IF s.connection.finished \/ s.heartbeat.pendingPing = 0 \/ s.heartbeat.pendingPing # nonce
    THEN s
    ELSE [s EXCEPT !.heartbeat.pongTimer = nonce,
                   !.heartbeat.deadlines = (@ \ {s.heartbeat.pongTimer}) \cup {nonce}]

\* onPongDeadline: the handle is cleared also when it is another's.
PongDeadline(nonce) ==
    LET run == [Now EXCEPT !.heartbeat.deadlines = @ \ {nonce}, !.heartbeat.pongTimer = 0]
    IN  /\ nonce \in heartbeat.deadlines
        /\ Steps("deadline", "idle",
            IF connection.finished \/ heartbeat.pendingPing # nonce THEN run
            ELSE Goes([run EXCEPT !.heartbeat.pendingPing = 0, !.heartbeat.expired = nonce],
                      "deadline", "failing"))

--------------------------------------------------------------------------------
\* The queue, with the callbacks of the connection

Commits == Commit /\ UNCHANGED <<sent, late, connection, heartbeat, pc>>

\* onWritten of each type of frame, when the last of it was written.
Written(frame) ==
    CASE frame.type = "ping" -> PingWritten(Now, frame.nonce)
      [] frame.type = "close" /\ connection.closeReceived -> Finish(Now)
      [] frame.type = "lastClose" -> Finish(Now)
      [] OTHER -> Now

OnWritten ==
    /\ ~connection.finished
    /\ HeadWritten
    /\ Becomes(Written(Head(queue).frame))
    /\ UNCHANGED <<sent, late>>

\* The queue fails, for a write that fails or makes no progress before its
\* deadline, or a callback that throws; onFailure is told once.
QueueFails ==
    /\ ~failed
    /\ Fail
    /\ Becomes(Goes(Now, "writer", "failing"))
    /\ UNCHANGED <<sent, late>>

StuckWriteFails == HeadIsCommitted /\ QueueFails

--------------------------------------------------------------------------------
Session ==
    \/ SessionSends
    \/ InitiateClose
    \/ \E i \in DOMAIN queue : SessionCancels(i)

SessionGoesOn == SendsData \/ SendsClose \/ ArmsCloseTimer

Peer ==
    \/ ReadsPing
    \/ \E nonce \in 0..heartbeat.nonce, running \in BOOLEAN : ReadsPong(nonce, running)
    \/ ReadsClose
    \/ ReadsViolation
    \/ ReadsEnd

ReaderGoesOn ==
    \/ SchedulesNextPing
    \/ AnswersClose
    \/ SendsLastClose("reader", "answered", "idle")
    \/ ReaderFinishes

PingerGoesOn ==
    \/ ChecksPing
    \/ SendsPing
    \/ Fails("pinger", "refused")
    \/ SendsLastClose("pinger", "failedFirst", "refused")
    \/ PingRefused

FailureGoesOn(thread) == Fails(thread, "idle") \/ SendsLastClose(thread, "failed", "idle")

Timers ==
    \/ PingTimer
    \/ \E nonce \in heartbeat.deadlines : PongDeadline(nonce)

Next ==
    \/ Session
    \/ SessionGoesOn
    \/ Peer
    \/ ReaderGoesOn
    \/ PingerGoesOn
    \/ \E thread \in Threads : FailureGoesOn(thread)
    \/ CloseTimer
    \/ Timers
    \/ Commits
    \/ OnWritten
    \/ QueueFails

\* A thread in the middle of a call goes on, timers expire, the queue commits
\* its head, and the deadline of a write that makes no progress expires.  The
\* peer owes nothing, not even to read what is written.
Fairness ==
    /\ WF_vars(SessionGoesOn)
    /\ WF_vars(ReaderGoesOn)
    /\ WF_vars(PingerGoesOn)
    /\ \A thread \in Threads : WF_vars(FailureGoesOn(thread))
    /\ WF_vars(CloseTimer)
    /\ WF_vars(Commits)
    /\ WF_vars(StuckWriteFails)

Spec == Init /\ [][Next]_vars /\ Fairness

--------------------------------------------------------------------------------
\* Properties

\* The connection has its type, and its queue its bound.
TypeOK ==
    /\ Len(queue) <= MaxQueuedFrames
    /\ \A i \in DOMAIN queue : queue[i].frame.type \in Types
    /\ failed \in BOOLEAN
    /\ {sent, late} \subseteq [Types -> Nat]
    /\ connection \in [closeSent : BOOLEAN, closeReceived : BOOLEAN, finished : BOOLEAN,
                       closeTimer : BOOLEAN]
    /\ {heartbeat.pendingPing, heartbeat.pongTimer} \subseteq 0..heartbeat.nonce
    /\ heartbeat.deadlines \subseteq 1..heartbeat.nonce
    /\ heartbeat.pingTimer => heartbeat.pendingPing = 0
    /\ DOMAIN pc = Threads

\* After a Close frame the peer gets pongs, and besides them at most what was
\* checked before closeSent and offered after it: one message, one ping, and the
\* answer to a Close of the peer that crossed ours.
LateFramesOnly ==
    /\ late["data"] <= 1 /\ late["ping"] <= 1
    /\ late["close"] + late["lastClose"] <= IF connection.closeReceived THEN 1 ELSE 0

\* A connection that began to close is finished at last, although the peer stops
\* reading or never answers.
CloseEnds == connection.closeSent ~> connection.finished

Closing == connection.finished \/ connection.closeSent \/ connection.closeReceived

\* The last ping sent is still pending, or a pong with its own payload answered it,
\* or its own deadline expired, or the connection closes.
EndedByItsOwn ==
    heartbeat.nonce \in {heartbeat.pendingPing, heartbeat.answered, heartbeat.expired} \/ Closing

AnsweredDoNotExpire == heartbeat.expired = 0 \/ heartbeat.expired # heartbeat.answered

\* No pong and no deadline of an earlier ping ends a later one ("Un PONG con payload
\* distinto no satisface el heartbeat pendiente", docs/E22.md:155), and a ping that
\* was answered does not expire, though its deadline was running when the pong came:
\* onPong and onPongDeadline of WebSocketHeartbeat.
PingsEndByTheirOwn == EndedByItsOwn /\ AnsweredDoNotExpire

\* A peer that went silent is noticed: while the connection is open, the next
\* ping has its timer, or a ping is on its way to the socket, or its deadline is
\* armed, or somebody closes the connection already.
PingOnItsWay ==
    \/ pc["pinger"] \in {"pinging", "offering"}
    \/ \E i \in DOMAIN queue : queue[i].frame = Ping(heartbeat.pendingPing)

HeartbeatGoesOn ==
    \/ connection.finished \/ connection.closeSent \/ failed
    \/ heartbeat.pingTimer
    \/ heartbeat.pendingPing # 0 /\ (PingOnItsWay \/ heartbeat.pendingPing \in heartbeat.deadlines)
    \/ pc["reader"] = "matched"
    \/ \E thread \in Threads : pc[thread] \in {"failing", "failingFirst", "refused"}

================================================================================
