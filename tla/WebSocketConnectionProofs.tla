----------------------- MODULE WebSocketConnectionProofs -----------------------
(***************************************************************************)
(* Proofs about WebSocketConnection, for any bound of the queue and any    *)
(* number of pings, pongs and messages: what follows a Close frame on the  *)
(* wire, how each ping ends, and that a silent peer is noticed.            *)
(***************************************************************************)
EXTENDS WebSocketConnection, SequenceTheorems, TLAPS

--------------------------------------------------------------------------------
\* The inductive invariant

Places ==
    {"idle", "sending", "closing", "arming", "failing", "failed", "failingFirst",
     "failedFirst", "matched", "answering", "answered", "finishing", "pinging",
     "offering", "refused"}

Queued == [frame : [type : Types, nonce : Nat], committed : BOOLEAN]

ConnectionType ==
    [closeSent : BOOLEAN, closeReceived : BOOLEAN, finished : BOOLEAN, closeTimer : BOOLEAN]

HeartbeatType ==
    [pendingPing : Nat, nonce : Nat, pingTimer : BOOLEAN, pongTimer : Nat,
     deadlines : SUBSET Nat, answered : Nat, expired : Nat]

State == [connection : ConnectionType, heartbeat : HeartbeatType, pc : [Threads -> Places]]

Typed ==
    /\ queue \in Seq(Queued) /\ Len(queue) <= MaxQueuedFrames
    /\ failed \in BOOLEAN
    /\ sent \in [Types -> Nat] /\ late \in [Types -> Nat]
    /\ Now \in State

\* The places of each thread that its steps tell apart.
Roles ==
    /\ \A t \in Threads : pc[t] \in {"sending", "closing", "arming"} => t = "session"
    /\ \A t \in Threads :
          pc[t] \in {"matched", "answering", "answered", "finishing"} => t = "reader"
    /\ \A t \in Threads :
        pc[t] \in {"pinging", "offering", "refused", "failingFirst", "failedFirst"} => t = "pinger"

\* Close frames that were sent, and threads on their way to send one.
Closer(t) == IF pc[t] \in {"closing", "failed", "failedFirst", "answered"} THEN 1 ELSE 0
SentCloses == sent["close"] + sent["lastClose"]
Closes ==
    SentCloses + Closer("session") + Closer("reader") + Closer("pinger")
               + Closer("deadline") + Closer("writer")

\* One thread sets closeSent first, and besides it only the answer to a Close of
\* the peer is on its way.
OneCloses ==
    /\ ~connection.closeSent => Closes = 0
    /\ Closes <= 1 \/ (Closes = 2 /\ connection.closeReceived)
    /\ pc["reader"] = "answering" => Closes <= 1 /\ connection.closeReceived

\* What was sent after the first Close.
LateAccount ==
    /\ late["close"] + late["lastClose"] = IF SentCloses = 0 THEN 0 ELSE SentCloses - 1
    /\ SentCloses = 0 => late["data"] = 0 /\ late["ping"] = 0
    /\ late["data"] = 0 \/ (late["data"] = 1 /\ pc["session"] # "sending")
    /\ late["ping"] = 0 \/ (late["ping"] = 1 /\ pc["pinger"] # "offering")

\* The ping that is pending is the last one, and neither answered nor expired.
Pings ==
    LET h == heartbeat
    IN  /\ h.pendingPing \in {0, h.nonce}
        /\ h.pongTimer <= h.nonce /\ h.answered <= h.nonce /\ h.expired <= h.nonce
        /\ h.deadlines \subseteq 1..h.nonce
        /\ h.pendingPing # 0 => h.answered < h.pendingPing /\ h.expired < h.pendingPing
        /\ h.pingTimer => h.pendingPing = 0
        /\ pc["reader"] = "matched" => ~h.pingTimer /\ h.pendingPing = 0

ConnectionInv ==
    Typed /\ Roles /\ OneCloses /\ LateAccount /\ Pings
    /\ AnsweredDoNotExpire /\ HeartbeatGoesOn

--------------------------------------------------------------------------------
\* What the steps of a record of the state do

LEMMA NowState ==
    ASSUME Now \in State
    PROVE  /\ connection \in ConnectionType /\ heartbeat \in HeartbeatType
           /\ pc \in [Threads -> Places]
           /\ Now.connection = connection /\ Now.heartbeat = heartbeat /\ Now.pc = pc
BY DEF Now, State

\* A thread goes to another place.
LEMMA GoesState ==
    ASSUME NEW s \in State, NEW t \in Threads, NEW place \in Places
    PROVE  /\ Goes(s, t, place) \in State
           /\ Goes(s, t, place).connection = s.connection
           /\ Goes(s, t, place).heartbeat = s.heartbeat
           /\ Goes(s, t, place).pc = [s.pc EXCEPT ![t] = place]
BY DEF Goes, State

\* The mark under the lock.
LEMMA MarkState ==
    ASSUME NEW s \in State
    PROVE  LET r == [s EXCEPT !.connection.closeSent = TRUE] IN
           /\ r \in State
           /\ r.connection.closeSent = TRUE
           /\ r.connection.closeReceived = s.connection.closeReceived
           /\ r.connection.finished = s.connection.finished
           /\ r.heartbeat = s.heartbeat
           /\ r.pc = s.pc
BY DEF State, ConnectionType

\* finish stops the heartbeat.
Stopped(h, g) ==
    /\ h.pendingPing = 0 /\ h.pingTimer = FALSE /\ h.pongTimer = 0 /\ h.deadlines = {}
    /\ h.nonce = g.nonce /\ h.answered = g.answered /\ h.expired = g.expired

LEMMA FinishState ==
    ASSUME NEW s \in State
    PROVE  /\ Finish(s) \in State
           /\ Finish(s).connection.finished = TRUE
           /\ Finish(s).connection.closeSent = s.connection.closeSent
           /\ Finish(s).connection.closeReceived = s.connection.closeReceived
           /\ Finish(s).heartbeat = s.heartbeat \/ Stopped(Finish(s).heartbeat, s.heartbeat)
           /\ Finish(s).pc = s.pc
<1>1. CASE s.connection.finished
    BY <1>1 DEF Finish, State, ConnectionType
<1>2. CASE ~s.connection.finished
  <2> DEFINE c == [s.connection EXCEPT !.finished = TRUE, !.closeTimer = FALSE]
             h == [s.heartbeat EXCEPT !.pendingPing = 0, !.pingTimer = FALSE,
                                      !.pongTimer = 0, !.deadlines = {}]
  <2>1. /\ c \in ConnectionType /\ c.finished = TRUE
        /\ c.closeSent = s.connection.closeSent /\ c.closeReceived = s.connection.closeReceived
      BY DEF State, ConnectionType
  <2>2. h \in HeartbeatType /\ Stopped(h, s.heartbeat)
      BY DEF State, HeartbeatType, Stopped
  <2>3. Finish(s) = [s EXCEPT !.connection = c, !.heartbeat = h]
      BY <1>2 DEF Finish, State
  <2> HIDE DEF c, h
  <2>4. QED
      BY <2>1, <2>2, <2>3 DEF State
<1>3. QED
    BY <1>1, <1>2

--------------------------------------------------------------------------------
\* What the actions do

LEMMA BecomesState ==
    ASSUME NEW s \in State, Becomes(s)
    PROVE  /\ Now' \in State
           /\ connection' = s.connection /\ heartbeat' = s.heartbeat /\ pc' = s.pc
BY DEF Becomes, Now, State

FramesStay == queue' = queue /\ failed' = failed
SentStays == sent' = sent /\ late' = late
PhaseStays ==
    /\ connection'.closeSent = connection.closeSent
    /\ connection'.closeReceived = connection.closeReceived

\* A thread moves, and nothing else changes that the invariant looks at.
Calm == PhaseStays /\ connection'.finished = connection.finished /\ heartbeat' = heartbeat

\* The connection is finished, now or before.
Ended ==
    /\ PhaseStays
    /\ connection'.finished = TRUE
    /\ heartbeat' = heartbeat \/ Stopped(heartbeat', heartbeat)

Marked ==
    /\ connection'.closeSent = TRUE
    /\ connection'.closeReceived = connection.closeReceived
    /\ connection'.finished = connection.finished
    /\ heartbeat' = heartbeat

Moves(t, from, to) == pc[t] = from /\ pc' = [pc EXCEPT ![t] = to]

\* A frame that is accepted, and what was sent with it.
Queues(frame) ==
    /\ queue' = Append(queue, [frame |-> frame, committed |-> FALSE])
    /\ failed' = failed
    /\ sent' = [sent EXCEPT ![frame.type] = @ + 1]
    /\ late' = IF CloseWasSent THEN [late EXCEPT ![frame.type] = @ + 1] ELSE late

LEMMA StepsDo ==
    ASSUME Typed, NEW t \in Threads, NEW from, NEW s \in State, Steps(t, from, s)
    PROVE  /\ Typed' /\ FramesStay /\ SentStays /\ pc[t] = from
           /\ connection' = s.connection /\ heartbeat' = s.heartbeat /\ pc' = s.pc
<1>1. /\ Now' \in State
      /\ connection' = s.connection /\ heartbeat' = s.heartbeat /\ pc' = s.pc
    BY BecomesState DEF Steps
<1>2. FramesStay /\ SentStays /\ pc[t] = from
    BY DEF Steps, FramesStay, SentStays, queueVars
<1>3. Typed'
    BY <1>1, <1>2 DEF Typed, FramesStay, SentStays
<1>4. QED
    BY <1>1, <1>2, <1>3

LEMMA SendsDo ==
    ASSUME Typed, NEW frame \in [type : Types, nonce : Nat], NEW a \in State, NEW b \in State,
           Sends(frame, a, b)
    PROVE  /\ Typed'
           /\ \/ /\ Queues(frame)
                 /\ connection' = a.connection /\ heartbeat' = a.heartbeat /\ pc' = a.pc
              \/ /\ FramesStay /\ SentStays
                 /\ connection' = b.connection /\ heartbeat' = b.heartbeat /\ pc' = b.pc
<1>1. CASE MayEnqueue
  <2> DEFINE entry == [frame |-> frame, committed |-> FALSE]
  <2>1. Becomes(a) /\ Queues(frame)
      BY <1>1 DEF Sends, Enqueue, Queues
  <2>2. /\ Now' \in State
        /\ connection' = a.connection /\ heartbeat' = a.heartbeat /\ pc' = a.pc
      BY <2>1, BecomesState
  <2>3. entry \in Queued
      BY DEF Queued
  <2> HIDE DEF entry
  <2>4. queue' = Append(queue, entry)
      BY <2>1 DEF Queues, entry
  <2>5. queue' \in Seq(Queued) /\ Len(queue') = Len(queue) + 1
      BY <2>3, <2>4 DEF Typed
  <2>6. Len(queue') <= MaxQueuedFrames
      BY <1>1, <2>5, ConnectionAssumption DEF MayEnqueue, Typed
  <2>7. frame.type \in Types
      OBVIOUS
  <2>8. sent' \in [Types -> Nat] /\ late' \in [Types -> Nat]
      BY <2>1, <2>7 DEF Queues, Typed
  <2>9. failed' \in BOOLEAN
      BY <2>1 DEF Queues, Typed
  <2>10. QED
      BY <2>1, <2>2, <2>5, <2>6, <2>8, <2>9 DEF Typed
<1>2. CASE ~MayEnqueue
  <2>1. Becomes(b) /\ FramesStay /\ SentStays
      BY <1>2 DEF Sends, FramesStay, SentStays, queueVars
  <2>2. /\ Now' \in State
        /\ connection' = b.connection /\ heartbeat' = b.heartbeat /\ pc' = b.pc
      BY <2>1, BecomesState
  <2>3. QED
      BY <2>1, <2>2 DEF Typed, FramesStay, SentStays
<1>3. QED
    BY <1>1, <1>2

\* The same, of a step that ends with a move.
LEMMA GoesDo ==
    ASSUME Typed, NEW t \in Threads, NEW from, NEW place \in Places, NEW r \in State,
           r.pc = pc, Steps(t, from, Goes(r, t, place))
    PROVE  /\ Typed' /\ FramesStay /\ SentStays /\ Moves(t, from, place)
           /\ connection' = r.connection /\ heartbeat' = r.heartbeat
<1> DEFINE s == Goes(r, t, place)
<1>1. s \in State /\ s.connection = r.connection /\ s.heartbeat = r.heartbeat
      /\ s.pc = [pc EXCEPT ![t] = place]
    BY GoesState
<1>2. Steps(t, from, s)
    OBVIOUS
<1> HIDE DEF s
<1>3. QED
    BY <1>1, <1>2, StepsDo DEF Moves

\* fail goes on where its caller does, finishes what was closing, or marks.
LEMMA FailsDo ==
    ASSUME Typed, NEW t \in Threads, NEW then \in {"idle", "refused"}, Fails(t, then)
    PROVE  LET from == IF then = "idle" THEN "failing" ELSE "failingFirst"
               to == IF then = "idle" THEN "failed" ELSE "failedFirst"
           IN  /\ Typed' /\ FramesStay /\ SentStays
               /\ \/ Moves(t, from, then) /\ Ended
                  \/ Moves(t, from, to) /\ Marked /\ ~connection.closeSent
<1> DEFINE from == IF then = "idle" THEN "failing" ELSE "failingFirst"
           to == IF then = "idle" THEN "failed" ELSE "failedFirst"
           marked == [Now EXCEPT !.connection.closeSent = TRUE]
<1>1. Now \in State /\ then \in Places /\ from \in Places /\ to \in Places
    BY DEF Typed, Places
<1>2. Now.connection = connection /\ Now.heartbeat = heartbeat /\ Now.pc = pc
      /\ connection \in ConnectionType
    BY <1>1, NowState
<1>3. Finish(Now) \in State /\ Finish(Now).pc = pc
    BY <1>1, <1>2, FinishState
<1>4. marked \in State /\ marked.pc = pc
    BY <1>1, <1>2, MarkState
<1>5. CASE connection.finished
  <2>1. Steps(t, from, Goes(Now, t, then))
      BY <1>5 DEF Fails
  <2> HIDE DEF from, to
  <2>2. /\ Typed' /\ FramesStay /\ SentStays /\ Moves(t, from, then)
        /\ connection' = Now.connection /\ heartbeat' = Now.heartbeat
      BY <1>1, <1>2, <2>1, GoesDo
  <2>3. Ended
      BY <1>2, <1>5, <2>2 DEF Ended, PhaseStays, ConnectionType
  <2>4. QED
      BY <2>2, <2>3 DEF from, to
<1>6. CASE ~connection.finished /\ connection.closeSent
  <2>1. Steps(t, from, Goes(Finish(Now), t, then))
      BY <1>6 DEF Fails
  <2> HIDE DEF from, to
  <2>2. /\ Typed' /\ FramesStay /\ SentStays /\ Moves(t, from, then)
        /\ connection' = Finish(Now).connection /\ heartbeat' = Finish(Now).heartbeat
      BY <1>1, <1>3, <2>1, GoesDo
  <2>3. Ended
      BY <1>1, <1>2, <2>2, FinishState DEF Ended, PhaseStays
  <2>4. QED
      BY <2>2, <2>3 DEF from, to
<1>7. CASE ~connection.finished /\ ~connection.closeSent
  <2>1. Steps(t, from, Goes(marked, t, to))
      BY <1>7 DEF Fails
  <2> HIDE DEF from, to
  <2>3. /\ marked.connection.closeSent = TRUE
        /\ marked.connection.closeReceived = connection.closeReceived
        /\ marked.connection.finished = connection.finished
        /\ marked.heartbeat = heartbeat
      BY <1>1, <1>2, MarkState
  <2> HIDE DEF marked
  <2>4. /\ Typed' /\ FramesStay /\ SentStays /\ Moves(t, from, to)
        /\ connection' = marked.connection /\ heartbeat' = marked.heartbeat
      BY <1>1, <1>4, <2>1, GoesDo
  <2>5. Marked
      BY <2>3, <2>4 DEF Marked
  <2>6. QED
      BY <1>7, <2>4, <2>5 DEF from, to
<1>8. QED
    BY <1>5, <1>6, <1>7

\* A frame is offered, and the thread moves on either way.
LEMMA OffersDo ==
    ASSUME Typed, NEW frame \in [type : Types, nonce : Nat], NEW t \in Threads,
           NEW a \in Places, NEW b \in Places, pc[t] \in Places,
           Sends(frame, Goes(Now, t, a), Goes(Now, t, b))
    PROVE  /\ Typed' /\ Calm
           /\ \/ Queues(frame) /\ Moves(t, pc[t], a)
              \/ FramesStay /\ SentStays /\ Moves(t, pc[t], b)
<1> DEFINE r == Goes(Now, t, a)
           s == Goes(Now, t, b)
<1>1. Now \in State /\ Now.connection = connection /\ Now.heartbeat = heartbeat /\ Now.pc = pc
    BY NowState DEF Typed
<1>2. /\ r \in State /\ r.connection = connection /\ r.heartbeat = heartbeat
      /\ r.pc = [pc EXCEPT ![t] = a]
    BY <1>1, GoesState
<1>3. /\ s \in State /\ s.connection = connection /\ s.heartbeat = heartbeat
      /\ s.pc = [pc EXCEPT ![t] = b]
    BY <1>1, GoesState
<1>4. Sends(frame, r, s)
    OBVIOUS
<1> HIDE DEF r, s
<1>5. /\ Typed'
      /\ \/ /\ Queues(frame)
            /\ connection' = r.connection /\ heartbeat' = r.heartbeat /\ pc' = r.pc
         \/ /\ FramesStay /\ SentStays
            /\ connection' = s.connection /\ heartbeat' = s.heartbeat /\ pc' = s.pc
    BY <1>2, <1>3, <1>4, SendsDo
<1>6. QED
    BY <1>2, <1>3, <1>5 DEF Moves, Calm, PhaseStays

\* A Close is offered: refused, it finishes the connection.
LEMMA ClosesDo ==
    ASSUME Typed, NEW type \in Types, NEW t \in Threads, NEW a \in Places, NEW b \in Places,
           pc[t] \in Places, Sends(Frame(type), Goes(Now, t, a), Goes(Finish(Now), t, b))
    PROVE  /\ Typed'
           /\ \/ Queues(Frame(type)) /\ Moves(t, pc[t], a) /\ Calm
              \/ FramesStay /\ SentStays /\ Moves(t, pc[t], b) /\ Ended
<1> DEFINE r == Goes(Now, t, a)
           s == Goes(Finish(Now), t, b)
           frame == Frame(type)
<1>1. Now \in State /\ Now.connection = connection /\ Now.heartbeat = heartbeat /\ Now.pc = pc
    BY NowState DEF Typed
<1>2. /\ Finish(Now) \in State
      /\ Finish(Now).connection.finished = TRUE
      /\ Finish(Now).connection.closeSent = connection.closeSent
      /\ Finish(Now).connection.closeReceived = connection.closeReceived
      /\ Finish(Now).heartbeat = heartbeat \/ Stopped(Finish(Now).heartbeat, heartbeat)
      /\ Finish(Now).pc = pc
    BY <1>1, FinishState
<1>3. /\ r \in State /\ r.connection = connection /\ r.heartbeat = heartbeat
      /\ r.pc = [pc EXCEPT ![t] = a]
    BY <1>1, GoesState
<1>4. /\ s \in State /\ s.connection = Finish(Now).connection
      /\ s.heartbeat = Finish(Now).heartbeat
      /\ s.pc = [pc EXCEPT ![t] = b]
    BY <1>2, GoesState
<1>5. Sends(frame, r, s) /\ frame \in [type : Types, nonce : Nat]
    BY DEF Frame
<1> HIDE DEF r, s, frame
<1>6. /\ Typed'
      /\ \/ Queues(frame) /\ connection' = r.connection /\ heartbeat' = r.heartbeat /\ pc' = r.pc
         \/ /\ FramesStay /\ SentStays
            /\ connection' = s.connection /\ heartbeat' = s.heartbeat /\ pc' = s.pc
    BY <1>3, <1>4, <1>5, SendsDo, SMTT(30), ZenonT(60)
<1>7. CASE Queues(frame) /\ connection' = r.connection /\ heartbeat' = r.heartbeat /\ pc' = r.pc
    BY <1>3, <1>6, <1>7 DEF Moves, Calm, PhaseStays, frame
<1>8. CASE /\ FramesStay /\ SentStays
           /\ connection' = s.connection /\ heartbeat' = s.heartbeat /\ pc' = s.pc
  <2>1. Ended
      BY <1>2, <1>4, <1>8 DEF Ended, PhaseStays
  <2>2. QED
      BY <1>4, <1>6, <1>8, <2>1 DEF Moves
<1>9. QED
    BY <1>6, <1>7, <1>8

--------------------------------------------------------------------------------
\* What keeps each part of the invariant

LEMMA RolesKept ==
    ASSUME Typed, Roles, NEW t \in Threads, NEW from, NEW to \in Places, Moves(t, from, to),
           to \in {"sending", "closing", "arming"} => t = "session",
           to \in {"matched", "answering", "answered", "finishing"} => t = "reader",
           to \in {"pinging", "offering", "refused", "failingFirst", "failedFirst"} => t = "pinger"
    PROVE  Roles'
<1>1. pc \in [Threads -> Places]
    BY NowState DEF Typed
<1>2. \A u \in Threads : pc'[u] = IF u = t THEN to ELSE pc[u]
    BY <1>1 DEF Moves
<1>3. QED
    BY <1>2 DEF Roles

\* The same threads answer for the pending ping as before.
PlaceKept(t, place) == pc'[t] = place => pc[t] = place

LEMMA PingsKept ==
    ASSUME Pings, AnsweredDoNotExpire, PlaceKept("reader", "matched"),
           heartbeat' = heartbeat \/ Stopped(heartbeat', heartbeat), Typed
    PROVE  Pings' /\ AnsweredDoNotExpire'
<1>1. heartbeat \in HeartbeatType
    BY NowState DEF Typed
<1>2. CASE heartbeat' = heartbeat
    BY <1>2 DEF Pings, AnsweredDoNotExpire, PlaceKept
<1>3. CASE Stopped(heartbeat', heartbeat)
    BY <1>1, <1>3 DEF Pings, AnsweredDoNotExpire, PlaceKept, Stopped, HeartbeatType
<1>4. QED
    BY <1>2, <1>3

\* Nothing is sent, and who was checked before closeSent still is.
LEMMA LateKept ==
    ASSUME LateAccount, SentStays,
           PlaceKept("session", "sending") \/ SentCloses = 0,
           PlaceKept("pinger", "offering") \/ SentCloses = 0
    PROVE  LateAccount'
BY DEF LateAccount, SentStays, PlaceKept, SentCloses

CloserPlaces == {"closing", "failed", "failedFirst", "answered"}
IsCloser(place) == IF place \in CloserPlaces THEN 1 ELSE 0

LEMMA ClosersOfMove ==
    ASSUME Typed, Typed', NEW t \in Threads, NEW from, NEW to, Moves(t, from, to)
    PROVE  /\ {SentCloses, SentCloses', Closes, Closes'} \subseteq Nat
           /\ IsCloser(from) <= Closes - SentCloses
           /\ Closes' - SentCloses' = Closes - SentCloses - IsCloser(from) + IsCloser(to)
<1>1. pc \in [Threads -> Places] /\ sent \in [Types -> Nat] /\ sent' \in [Types -> Nat]
    BY NowState DEF Typed
<1>2. \A u \in Threads : pc'[u] = IF u = t THEN to ELSE pc[u]
    BY <1>1 DEF Moves
<1>3. \A u \in Threads : Closer(u) \in {0, 1} /\ Closer(u)' \in {0, 1}
    BY DEF Closer
<1>4. \A u \in Threads : u # t => Closer(u)' = Closer(u)
    BY <1>2 DEF Closer
<1>5. Closer(t) = IsCloser(from) /\ Closer(t)' = IsCloser(to)
    BY <1>2 DEF Closer, IsCloser, CloserPlaces, Moves
<1>6. SentCloses \in Nat /\ SentCloses' \in Nat
    BY <1>1 DEF SentCloses, Types
<1> DEFINE C(u) == Closer(u)
           D(u) == Closer(u)'
<1>7. /\ Closes = SentCloses + C("session") + C("reader") + C("pinger")
                           + C("deadline") + C("writer")
      /\ Closes' = SentCloses' + D("session") + D("reader") + D("pinger")
                             + D("deadline") + D("writer")
    BY DEF Closes
<1>8. /\ \A u \in Threads : C(u) \in {0, 1} /\ D(u) \in {0, 1}
      /\ \A u \in Threads : u # t => D(u) = C(u)
      /\ C(t) = IsCloser(from) /\ D(t) = IsCloser(to)
    BY <1>3, <1>4, <1>5
<1> HIDE DEF C, D
<1>9. /\ C("session") \in {0, 1} /\ C("reader") \in {0, 1} /\ C("pinger") \in {0, 1}
      /\ C("deadline") \in {0, 1} /\ C("writer") \in {0, 1}
      /\ D("session") \in {0, 1} /\ D("reader") \in {0, 1} /\ D("pinger") \in {0, 1}
      /\ D("deadline") \in {0, 1} /\ D("writer") \in {0, 1}
    BY <1>8 DEF Threads
<1>10. Closes \in Nat /\ Closes' \in Nat
    BY <1>6, <1>7, <1>9
<1> DEFINE Moved == Closes' - SentCloses' = Closes - SentCloses - C(t) + D(t)
<1>11. C(t) <= Closes - SentCloses /\ Moved
  <2>1. CASE t = "session"
    <3>1. /\ D("reader") = C("reader") /\ D("pinger") = C("pinger")
          /\ D("deadline") = C("deadline") /\ D("writer") = C("writer")
          /\ D("session") \in {0, 1}
        BY <1>8, <2>1 DEF Threads
    <3>2. QED
        BY <1>6, <1>7, <1>9, <2>1, <3>1
  <2>2. CASE t = "reader"
    <3>1. /\ D("session") = C("session") /\ D("pinger") = C("pinger")
          /\ D("deadline") = C("deadline") /\ D("writer") = C("writer")
          /\ D("reader") \in {0, 1}
        BY <1>8, <2>2 DEF Threads
    <3>2. QED
        BY <1>6, <1>7, <1>9, <2>2, <3>1
  <2>3. CASE t = "pinger"
    <3>1. /\ D("session") = C("session") /\ D("reader") = C("reader")
          /\ D("deadline") = C("deadline") /\ D("writer") = C("writer")
          /\ D("pinger") \in {0, 1}
        BY <1>8, <2>3 DEF Threads
    <3>2. QED
        BY <1>6, <1>7, <1>9, <2>3, <3>1
  <2>4. CASE t = "deadline"
    <3>1. /\ D("session") = C("session") /\ D("reader") = C("reader")
          /\ D("pinger") = C("pinger") /\ D("writer") = C("writer")
          /\ D("deadline") \in {0, 1}
        BY <1>8, <2>4 DEF Threads
    <3>2. QED
        BY <1>6, <1>7, <1>9, <2>4, <3>1
  <2>5. CASE t = "writer"
    <3>1. /\ D("session") = C("session") /\ D("reader") = C("reader")
          /\ D("pinger") = C("pinger") /\ D("deadline") = C("deadline")
          /\ D("writer") \in {0, 1}
        BY <1>8, <2>5 DEF Threads
    <3>2. QED
        BY <1>6, <1>7, <1>9, <2>5, <3>1
  <2>6. QED
      BY <2>1, <2>2, <2>3, <2>4, <2>5 DEF Threads
<1>12. QED
    BY <1>6, <1>8, <1>10, <1>11

\* The threads on their way to send a Close, and the Closes sent, stay as many.
LEMMA OneClosesKept ==
    ASSUME OneCloses, Typed, Typed', NEW t \in Threads, NEW from, NEW to, Moves(t, from, to),
           SentStays, connection'.closeSent = connection.closeSent,
           connection'.closeReceived = connection.closeReceived \/ connection'.closeReceived = TRUE,
           PlaceKept("reader", "answering"), IsCloser(to) <= IsCloser(from)
    PROVE  OneCloses'
<1>1. SentCloses' = SentCloses
    BY DEF SentStays, SentCloses
<1>2. IsCloser(to) \in {0, 1} /\ IsCloser(from) \in {0, 1}
    BY DEF IsCloser
<1>3. /\ {SentCloses, SentCloses', Closes, Closes'} \subseteq Nat
      /\ Closes' - SentCloses' = Closes - SentCloses - IsCloser(from) + IsCloser(to)
    BY ClosersOfMove
<1>4. Closes' <= Closes
    BY <1>1, <1>2, <1>3
<1>5. Typed'
    OBVIOUS
<1>6. connection \in ConnectionType /\ connection' \in ConnectionType
    BY <1>5 DEF Typed, State, Now
<1>7. QED
    BY <1>3, <1>4, <1>6 DEF OneCloses, PlaceKept, ConnectionType

\* One Close more, sent or on its way.
LEMMA OneMoreCloses ==
    ASSUME Typed, Typed', NEW t \in Threads, NEW from, NEW to, Moves(t, from, to),
           SentStays, from \notin CloserPlaces, to \in CloserPlaces
    PROVE  Closes \in Nat /\ Closes' = Closes + 1
<1>1. SentCloses' = SentCloses
    BY DEF SentStays, SentCloses
<1>2. IsCloser(to) = 1 /\ IsCloser(from) = 0
    BY DEF IsCloser
<1>3. /\ {SentCloses, SentCloses', Closes, Closes'} \subseteq Nat
      /\ Closes' - SentCloses' = Closes - SentCloses - 0 + 1
    BY <1>2, ClosersOfMove
<1>4. QED
    BY <1>1, <1>3

\* A Close on its way is sent.
LEMMA SentClosesOfQueues ==
    ASSUME Typed, NEW frame, frame.type \in Types, Queues(frame)
    PROVE  /\ SentCloses \in Nat
           /\ SentCloses' = SentCloses + IF frame.type \in {"close", "lastClose"} THEN 1 ELSE 0
<1>1. sent \in [Types -> Nat]
    BY DEF Typed
<1>2. \A u \in Types : sent'[u] = IF u = frame.type THEN sent[u] + 1 ELSE sent[u]
    BY <1>1 DEF Queues
<1>3. /\ sent["close"] \in Nat /\ sent["lastClose"] \in Nat
      /\ sent'["close"] = IF frame.type = "close" THEN sent["close"] + 1 ELSE sent["close"]
      /\ sent'["lastClose"] = IF frame.type = "lastClose" THEN sent["lastClose"] + 1
                              ELSE sent["lastClose"]
    BY <1>1, <1>2 DEF Types
<1>4. QED
    BY <1>3 DEF SentCloses

LEMMA OneClosesSent ==
    ASSUME OneCloses, Typed, Typed', NEW t \in Threads, NEW from, NEW to, Moves(t, from, to),
           NEW frame, frame.type \in Types, Queues(frame), Calm, PlaceKept("reader", "answering"),
           IsCloser(from) = IF frame.type \in {"close", "lastClose"} THEN 1 ELSE 0,
           IsCloser(to) = 0
    PROVE  OneCloses'
<1>1. SentCloses \in Nat /\ SentCloses' = SentCloses + IsCloser(from) /\ IsCloser(from) \in {0, 1}
    BY SentClosesOfQueues DEF IsCloser
<1>2. /\ {SentCloses, SentCloses', Closes, Closes'} \subseteq Nat
      /\ Closes' - SentCloses' = Closes - SentCloses - IsCloser(from) + IsCloser(to)
    BY ClosersOfMove
<1>3. Closes' = Closes
    BY <1>1, <1>2
<1>4. QED
    BY <1>3 DEF OneCloses, PlaceKept, Calm, PhaseStays

\* What was offered late is counted, once for each sender.
LEMMA LateSent ==
    ASSUME LateAccount, Typed, NEW frame, frame.type \in Types, Queues(frame),
           PlaceKept("session", "sending"), PlaceKept("pinger", "offering"),
           frame.type = "data" => pc["session"] = "sending" /\ pc'["session"] # "sending",
           frame.type = "ping" => pc["pinger"] = "offering" /\ pc'["pinger"] # "offering"
    PROVE  LateAccount'
<1>1. sent \in [Types -> Nat] /\ late \in [Types -> Nat]
    BY DEF Typed
<1>2. /\ SentCloses \in Nat
      /\ SentCloses' = SentCloses + IF frame.type \in {"close", "lastClose"} THEN 1 ELSE 0
    BY SentClosesOfQueues
<1>3. CloseWasSent <=> SentCloses > 0
    BY DEF CloseWasSent, SentCloses
<1>4. late' = IF SentCloses > 0 THEN [late EXCEPT ![frame.type] = @ + 1] ELSE late
    BY <1>3 DEF Queues
<1>5. /\ late'["close"] + late'["lastClose"] = late["close"] + late["lastClose"]
            + IF SentCloses > 0 /\ frame.type \in {"close", "lastClose"} THEN 1 ELSE 0
      /\ late'["data"] = late["data"] + IF SentCloses > 0 /\ frame.type = "data" THEN 1 ELSE 0
      /\ late'["ping"] = late["ping"] + IF SentCloses > 0 /\ frame.type = "ping" THEN 1 ELSE 0
    BY <1>1, <1>4 DEF Types
<1>6. late["close"] + late["lastClose"] \in Nat /\ late["data"] \in Nat /\ late["ping"] \in Nat
    BY <1>1 DEF Types
<1>7. late'["close"] + late'["lastClose"] = IF SentCloses' = 0 THEN 0 ELSE SentCloses' - 1
    BY <1>2, <1>5, <1>6 DEF LateAccount
<1>8. SentCloses' = 0 => late'["data"] = 0 /\ late'["ping"] = 0
    BY <1>2, <1>5, <1>6 DEF LateAccount
<1>9. late'["data"] = 0 \/ (late'["data"] = 1 /\ pc'["session"] # "sending")
    BY <1>2, <1>5, <1>6 DEF LateAccount, PlaceKept
<1>10. late'["ping"] = 0 \/ (late'["ping"] = 1 /\ pc'["pinger"] # "offering")
    BY <1>2, <1>5, <1>6 DEF LateAccount, PlaceKept
<1>11. QED
    BY <1>7, <1>8, <1>9, <1>10 DEF LateAccount

\* Every ping in the queue is still there.
FramesKept ==
    \A i \in DOMAIN queue : queue[i].frame.type = "ping" =>
        \E j \in DOMAIN queue' : queue'[j].frame = queue[i].frame

Wakers == {"matched", "failing", "failingFirst", "refused", "pinging", "offering"}

HeartKept ==
    /\ connection'.closeSent = connection.closeSent
    /\ connection'.finished = connection.finished
    /\ heartbeat' = heartbeat

\* A thread that has no part in the heartbeat moves.
LEMMA GoesOnKept ==
    ASSUME HeartbeatGoesOn, Typed, NEW t \in Threads, NEW from, NEW to, Moves(t, from, to),
           from \notin Wakers, HeartKept, failed' = failed, FramesKept
    PROVE  HeartbeatGoesOn'
<1>1. \A u \in Threads : pc[u] \in Wakers => pc'[u] = pc[u]
    BY NowState DEF Moves, Typed
<1>2. PingOnItsWay => PingOnItsWay'
  <2>1. "pinger" \in Threads
      BY DEF Threads
  <2>2. /\ Ping(heartbeat.pendingPing)' = Ping(heartbeat.pendingPing)
        /\ Ping(heartbeat.pendingPing).type = "ping"
      BY DEF HeartKept, Ping
  <2>3. QED
      BY <1>1, <2>1, <2>2 DEF PingOnItsWay, FramesKept, Wakers
<1>3. "reader" \in Threads
    BY DEF Threads
<1>4. QED
    BY <1>1, <1>2, <1>3 DEF HeartbeatGoesOn, HeartKept, Wakers

LEMMA FramesKeptStaying == ASSUME FramesStay PROVE FramesKept
BY DEF FramesStay, FramesKept

LEMMA FramesKeptQueued ==
    ASSUME Typed, NEW frame \in [type : Types, nonce : Nat], Queues(frame)
    PROVE  FramesKept /\ \E j \in DOMAIN queue' : queue'[j].frame = frame
<1> DEFINE entry == [frame |-> frame, committed |-> FALSE]
<1>1. /\ entry \in Queued /\ entry.frame = frame
      /\ queue' = Append(queue, entry) /\ queue \in Seq(Queued)
    BY DEF Queued, Queues, Typed
<1> HIDE DEF entry
<1>2. /\ DOMAIN queue = 1..Len(queue) /\ Len(queue) \in Nat
      /\ DOMAIN queue' = 1..(Len(queue) + 1)
      /\ \A i \in 1..Len(queue) : queue'[i] = queue[i]
      /\ queue'[Len(queue) + 1] = entry
    BY <1>1
<1>3. FramesKept
    BY <1>2 DEF FramesKept
<1>4. QED
    BY <1>1, <1>2, <1>3

--------------------------------------------------------------------------------
\* Steps of a kind

\* Nobody starts to send, to answer, or to schedule a ping.
NobodyStarts ==
    /\ PlaceKept("session", "sending") /\ PlaceKept("pinger", "offering")
    /\ PlaceKept("reader", "matched") /\ PlaceKept("reader", "answering")

LEMMA OtherPlaces ==
    ASSUME Typed, NEW t \in Threads, NEW from, NEW to, Moves(t, from, to),
           to \notin {"sending", "offering", "matched", "answering"} \/ to = from
    PROVE  NobodyStarts
<1>1. pc \in [Threads -> Places]
    BY NowState DEF Typed
<1>2. \A u \in Threads : pc'[u] = IF u = t THEN to ELSE pc[u]
    BY <1>1 DEF Moves
<1>3. {"session", "pinger", "reader"} \subseteq Threads
    BY DEF Threads
<1>4. QED
    BY <1>2, <1>3 DEF NobodyStarts, PlaceKept, Moves

\* Once the connection is closing, nothing is owed to the heartbeat.
LEMMA NothingOwed ==
    ASSUME connection'.finished = TRUE \/ connection'.closeSent = TRUE \/ failed' = TRUE
    PROVE  HeartbeatGoesOn'
BY DEF HeartbeatGoesOn

\* Somebody will close the connection, or tell the heartbeat.
LEMMA SomebodyWakes ==
    ASSUME NEW t \in Threads, pc'[t] \in {"failing", "failingFirst", "refused"}
    PROVE  HeartbeatGoesOn'
BY DEF HeartbeatGoesOn

LEMMA CalmIsQuiet ==
    ASSUME Calm
    PROVE  /\ PhaseStays /\ HeartKept
           /\ heartbeat' = heartbeat \/ Stopped(heartbeat', heartbeat)
BY DEF Calm, PhaseStays, HeartKept

\* A thread goes on, and the heartbeat is left alone.
LEMMA QuietMove ==
    ASSUME ConnectionInv, Typed', Roles', HeartbeatGoesOn', NEW t \in Threads, NEW from, NEW to,
           Moves(t, from, to), SentStays, PhaseStays,
           heartbeat' = heartbeat \/ Stopped(heartbeat', heartbeat),
           NobodyStarts, IsCloser(to) <= IsCloser(from)
    PROVE  ConnectionInv'
<1>1. OneCloses'
    BY OneClosesKept DEF ConnectionInv, PhaseStays, NobodyStarts
<1>2. LateAccount'
    BY LateKept DEF ConnectionInv, NobodyStarts
<1>3. Pings' /\ AnsweredDoNotExpire'
    BY PingsKept DEF ConnectionInv, NobodyStarts
<1>4. QED
    BY <1>1, <1>2, <1>3 DEF ConnectionInv

\* A thread is the first that closes.
LEMMA MarkingMove ==
    ASSUME ConnectionInv, Typed', Roles', NEW t \in Threads, NEW from, NEW to,
           Moves(t, from, to), SentStays, Marked, ~connection.closeSent,
           from \notin CloserPlaces, to \in CloserPlaces
    PROVE  ConnectionInv'
<1>1. Closes = 0 /\ Closes' = 1
    BY OneMoreCloses DEF ConnectionInv, OneCloses
<1>2. NobodyStarts
    BY OtherPlaces DEF ConnectionInv, CloserPlaces
<1>3. pc'["reader"] = "answering" => connection'.closeReceived
    BY <1>2 DEF NobodyStarts, PlaceKept, ConnectionInv, OneCloses, Marked
<1>4. OneCloses'
    BY <1>1, <1>3 DEF OneCloses, Marked
<1>5. LateAccount'
    BY <1>2, LateKept DEF ConnectionInv, NobodyStarts
<1>6. Pings' /\ AnsweredDoNotExpire'
    BY <1>2, PingsKept DEF ConnectionInv, NobodyStarts, Marked
<1>7. HeartbeatGoesOn'
    BY NothingOwed DEF Marked
<1>8. QED
    BY <1>4, <1>5, <1>6, <1>7 DEF ConnectionInv

\* A thread sends a frame, or finds the queue closed.
LEMMA SendingMove ==
    ASSUME ConnectionInv, Typed', Roles', HeartbeatGoesOn', NEW t \in Threads, NEW from, NEW to,
           Moves(t, from, to), NEW frame, frame.type \in Types, Queues(frame), Calm,
           NobodyStarts, IsCloser(to) = 0,
           IsCloser(from) = IF frame.type \in {"close", "lastClose"} THEN 1 ELSE 0,
           frame.type = "data" => t = "session" /\ from = "sending" /\ to # "sending",
           frame.type = "ping" => t = "pinger" /\ from = "offering" /\ to # "offering"
    PROVE  ConnectionInv'
<1>1. OneCloses'
    BY OneClosesSent DEF ConnectionInv, NobodyStarts
<1>2. pc \in [Threads -> Places]
    BY NowState DEF ConnectionInv, Typed
<1>3. pc[t] = from /\ pc'[t] = to
    BY <1>2 DEF Moves
<1>4. LateAccount'
    BY <1>3, LateSent DEF ConnectionInv, NobodyStarts
<1>5. Pings' /\ AnsweredDoNotExpire'
    BY CalmIsQuiet, PingsKept DEF ConnectionInv, NobodyStarts
<1>6. QED
    BY <1>1, <1>4, <1>5 DEF ConnectionInv

--------------------------------------------------------------------------------
\* fail, and the last Close

LEMMA FailsKeeps ==
    ASSUME ConnectionInv, NEW t \in Threads, NEW then \in {"idle", "refused"}, Fails(t, then)
    PROVE  ConnectionInv'
<1> DEFINE from == IF then = "idle" THEN "failing" ELSE "failingFirst"
           to == IF then = "idle" THEN "failed" ELSE "failedFirst"
<1>1. /\ Typed' /\ FramesStay /\ SentStays
      /\ \/ Moves(t, from, then) /\ Ended
         \/ Moves(t, from, to) /\ Marked /\ ~connection.closeSent
    BY FailsDo DEF ConnectionInv
<1>2. /\ from \in Places /\ to \in Places /\ then \in Places
      /\ from \notin CloserPlaces /\ to \in CloserPlaces /\ then \notin CloserPlaces
      /\ then = "refused" => from = "failingFirst" /\ to = "failedFirst"
      /\ to \in {"failed", "failedFirst"} /\ (to = "failedFirst" => from = "failingFirst")
    BY DEF Places, CloserPlaces
<1> HIDE DEF from, to
<1>3. pc[t] = from
    BY <1>1 DEF Moves
<1>4. from = "failingFirst" => t = "pinger"
    BY <1>3 DEF ConnectionInv, Roles
<1>5. CASE Moves(t, from, then) /\ Ended
  <2>1. Roles'
      BY <1>2, <1>4, <1>5, RolesKept DEF ConnectionInv
  <2>2. NobodyStarts
      BY <1>5, OtherPlaces DEF ConnectionInv
  <2>3. HeartbeatGoesOn'
      BY <1>5, NothingOwed DEF Ended
  <2>4. IsCloser(then) <= IsCloser(from)
      BY <1>2 DEF IsCloser
  <2>5. QED
      BY <1>1, <1>5, <2>1, <2>2, <2>3, <2>4, QuietMove DEF Ended
<1>6. CASE Moves(t, from, to) /\ Marked /\ ~connection.closeSent
  <2>1. Roles'
      BY <1>2, <1>4, <1>6, RolesKept DEF ConnectionInv
  <2>2. QED
      BY <1>1, <1>2, <1>6, <2>1, MarkingMove
<1>7. QED
    BY <1>1, <1>5, <1>6

\* Of the last Close, and of the Close that waits for the peer's.
LEMMA ClosesKeep ==
    ASSUME ConnectionInv, NEW type \in {"close", "lastClose"}, NEW t \in Threads,
           NEW a \in {"idle", "refused", "arming"}, NEW b \in {"idle", "refused"},
           pc[t] \in CloserPlaces,
           a = "arming" => t = "session", a = "refused" \/ b = "refused" => t = "pinger",
           connection.closeSent,
           Sends(Frame(type), Goes(Now, t, a), Goes(Finish(Now), t, b))
    PROVE  ConnectionInv'
<1>1. /\ type \in Types /\ a \in Places /\ b \in Places /\ pc[t] \in Places
      /\ IsCloser(a) = 0 /\ IsCloser(b) = 0 /\ IsCloser(pc[t]) = 1
    BY DEF Types, Places, CloserPlaces, IsCloser
<1>2. /\ Typed'
      /\ \/ Queues(Frame(type)) /\ Moves(t, pc[t], a) /\ Calm
         \/ FramesStay /\ SentStays /\ Moves(t, pc[t], b) /\ Ended
    BY <1>1, ClosesDo DEF ConnectionInv
<1>3. CASE Queues(Frame(type)) /\ Moves(t, pc[t], a) /\ Calm
  <2>1. Roles'
      BY <1>1, <1>3, RolesKept DEF ConnectionInv
  <2>2. NobodyStarts
      BY <1>3, OtherPlaces DEF ConnectionInv
  <2>3. HeartbeatGoesOn'
    <3>1. connection'.closeSent = TRUE
        BY <1>3, NowState DEF Calm, PhaseStays, ConnectionInv, Typed, ConnectionType
    <3>2. QED
        BY <3>1, NothingOwed
  <2>4. Frame(type).type = type
      BY DEF Frame
  <2>5. QED
      BY <1>1, <1>2, <1>3, <2>1, <2>2, <2>3, <2>4, SendingMove
<1>4. CASE FramesStay /\ SentStays /\ Moves(t, pc[t], b) /\ Ended
  <2>1. Roles'
      BY <1>1, <1>4, RolesKept DEF ConnectionInv
  <2>2. NobodyStarts
      BY <1>4, OtherPlaces DEF ConnectionInv
  <2>3. HeartbeatGoesOn'
      BY <1>4, NothingOwed DEF Ended
  <2>4. QED
      BY <1>1, <1>2, <1>4, <2>1, <2>2, <2>3, QuietMove DEF Ended
<1>5. QED
    BY <1>2, <1>3, <1>4

\* Who is about to send a Close has set closeSent.
LEMMA CloserHasMarked ==
    ASSUME ConnectionInv, NEW t \in Threads, pc[t] \in CloserPlaces
    PROVE  connection.closeSent
<1>1. pc \in [Threads -> Places] /\ connection \in ConnectionType /\ sent \in [Types -> Nat]
    BY NowState DEF ConnectionInv, Typed
<1>2. Closer(t) = 1 /\ \A u \in Threads : Closer(u) \in {0, 1}
    BY DEF Closer, CloserPlaces
<1>3. SentCloses \in Nat
    BY <1>1 DEF SentCloses, Types
<1> DEFINE C(u) == Closer(u)
<1>4. Closes = SentCloses + C("session") + C("reader") + C("pinger") + C("deadline") + C("writer")
    BY DEF Closes
<1>5. /\ C("session") \in {0, 1} /\ C("reader") \in {0, 1} /\ C("pinger") \in {0, 1}
      /\ C("deadline") \in {0, 1} /\ C("writer") \in {0, 1}
    BY <1>2 DEF Threads
<1>6. \/ C("session") = 1 \/ C("reader") = 1 \/ C("pinger") = 1
      \/ C("deadline") = 1 \/ C("writer") = 1
    BY <1>2 DEF Threads
<1> HIDE DEF C
<1>7. Closes # 0
    BY <1>3, <1>4, <1>5, <1>6
<1>8. QED
    BY <1>1, <1>7 DEF ConnectionInv, OneCloses, ConnectionType

LEMMA LastCloseKeeps ==
    ASSUME ConnectionInv, NEW t \in Threads, NEW from \in CloserPlaces,
           NEW then \in {"idle", "refused"}, then = "refused" => t = "pinger",
           SendsLastClose(t, from, then)
    PROVE  ConnectionInv'
<1>1. pc[t] = from /\ Sends(Frame("lastClose"), Goes(Now, t, then), Goes(Finish(Now), t, then))
    BY DEF SendsLastClose
<1>2. connection.closeSent
    BY <1>1, CloserHasMarked
<1>3. pc[t] \in CloserPlaces
    BY <1>1
<1>4. QED
    BY <1>1, <1>2, <1>3, ClosesKeep

\* A thread moves, and neither sends nor closes.
LEMMA PlainMove ==
    ASSUME ConnectionInv, Typed', Roles', NEW t \in Threads, NEW from, NEW to,
           Moves(t, from, to), FramesStay, SentStays, Calm, NobodyStarts,
           from \notin CloserPlaces, to \notin CloserPlaces,
           from \notin Wakers \/ to \in {"failing", "failingFirst", "refused"}
    PROVE  ConnectionInv'
<1>1. HeartbeatGoesOn'
  <2>1. CASE from \notin Wakers
      BY <2>1, CalmIsQuiet, FramesKeptStaying, GoesOnKept DEF ConnectionInv, FramesStay
  <2>2. CASE to \in {"failing", "failingFirst", "refused"}
    <3>1. pc'[t] = to
        BY NowState DEF Moves, ConnectionInv, Typed
    <3>2. QED
        BY <2>2, <3>1, SomebodyWakes
  <2>3. QED
      BY <2>1, <2>2
<1>2. IsCloser(to) <= IsCloser(from)
    BY DEF IsCloser
<1>3. QED
    BY <1>1, <1>2, CalmIsQuiet, QuietMove

--------------------------------------------------------------------------------
\* The session

LEMMA Parts ==
    ASSUME ConnectionInv
    PROVE  /\ Typed /\ Roles /\ OneCloses /\ LateAccount /\ Pings /\ HeartbeatGoesOn
           /\ AnsweredDoNotExpire
           /\ Now \in State /\ Now.connection = connection /\ Now.heartbeat = heartbeat
           /\ Now.pc = pc /\ pc \in [Threads -> Places]
           /\ connection \in ConnectionType /\ heartbeat \in HeartbeatType
BY NowState DEF ConnectionInv, Typed

\* A step that only moves a thread.
LEMMA MovesOnly ==
    ASSUME ConnectionInv, NEW t \in Threads, NEW from, NEW to \in Places,
           Steps(t, from, Goes(Now, t, to))
    PROVE  Typed' /\ FramesStay /\ SentStays /\ Moves(t, from, to) /\ Calm
<1>1. /\ Typed' /\ FramesStay /\ SentStays /\ Moves(t, from, to)
      /\ connection' = connection /\ heartbeat' = heartbeat
    BY Parts, GoesDo
<1>2. QED
    BY <1>1 DEF Calm, PhaseStays

\* While nobody closed, a sender may pass its check.
LEMMA NothingSentBefore ==
    ASSUME ConnectionInv, ~connection.closeSent
    PROVE  SentCloses = 0
<1>1. sent \in [Types -> Nat] /\ Closes = 0
    BY DEF ConnectionInv, OneCloses, Typed
<1>2. /\ SentCloses \in Nat
      /\ Closer("session") \in {0, 1} /\ Closer("reader") \in {0, 1} /\ Closer("pinger") \in {0, 1}
      /\ Closer("deadline") \in {0, 1} /\ Closer("writer") \in {0, 1}
    BY <1>1 DEF SentCloses, Types, Closer
<1>3. QED
    BY <1>1, <1>2 DEF Closes

LEMMA SessionSendsKeeps == ConnectionInv /\ SessionSends => ConnectionInv'
<1> SUFFICES ASSUME ConnectionInv, SessionSends PROVE ConnectionInv'
    OBVIOUS
<1>1. "session" \in Threads /\ "sending" \in Places /\ IsCloser("idle") = IsCloser("sending")
    BY DEF Threads, Places, IsCloser, CloserPlaces
<1>2. Typed' /\ FramesStay /\ SentStays /\ Moves("session", "idle", "sending") /\ Calm
    BY <1>1, MovesOnly DEF SessionSends
<1>3. Roles'
    BY <1>1, <1>2, Parts, RolesKept
<1>4. \A u \in Threads : pc'[u] = IF u = "session" THEN "sending" ELSE pc[u]
    BY <1>2, Parts DEF Moves
<1>5. /\ PlaceKept("reader", "matched") /\ PlaceKept("reader", "answering")
      /\ PlaceKept("pinger", "offering")
    BY <1>4 DEF PlaceKept, Threads
<1>6. OneCloses'
  <2>1. IsCloser("sending") <= IsCloser("idle")
      BY DEF IsCloser, CloserPlaces
  <2>2. QED
      BY <1>1, <1>2, <1>5, <2>1, Parts, OneClosesKept DEF Calm, PhaseStays
<1>7. LateAccount'
    BY <1>2, <1>5, Parts, LateKept, NothingSentBefore DEF SessionSends
<1>8. Pings' /\ AnsweredDoNotExpire'
    BY <1>2, <1>5, Parts, PingsKept DEF Calm
<1>9. HeartbeatGoesOn'
    BY <1>1, <1>2, Parts, CalmIsQuiet, FramesKeptStaying, GoesOnKept DEF FramesStay, Wakers
<1>10. QED
    BY <1>2, <1>3, <1>6, <1>7, <1>8, <1>9 DEF ConnectionInv

LEMMA InitiateCloseKeeps == ConnectionInv /\ InitiateClose => ConnectionInv'
<1> SUFFICES ASSUME ConnectionInv, InitiateClose PROVE ConnectionInv'
    OBVIOUS
<1> DEFINE marked == [Now EXCEPT !.connection.closeSent = TRUE]
<1>1. /\ "session" \in Threads /\ "closing" \in Places
      /\ "idle" \notin CloserPlaces /\ "closing" \in CloserPlaces
    BY DEF Threads, Places, CloserPlaces
<1>2. /\ marked \in State /\ marked.connection.closeSent = TRUE
      /\ marked.connection.closeReceived = connection.closeReceived
      /\ marked.connection.finished = connection.finished
      /\ marked.heartbeat = heartbeat /\ marked.pc = pc
    BY Parts, MarkState
<1>3. Steps("session", "idle", Goes(marked, "session", "closing")) /\ ~connection.closeSent
    BY DEF InitiateClose
<1> HIDE DEF marked
<1>4. /\ Typed' /\ FramesStay /\ SentStays /\ Moves("session", "idle", "closing")
      /\ connection' = marked.connection /\ heartbeat' = marked.heartbeat
    BY <1>1, <1>2, <1>3, Parts, GoesDo
<1>5. Marked
    BY <1>2, <1>4 DEF Marked
<1>6. Roles'
    BY <1>1, <1>4, Parts, RolesKept
<1>7. QED
    BY <1>1, <1>3, <1>4, <1>5, <1>6, MarkingMove

LEMMA SendsDataKeeps == ConnectionInv /\ SendsData => ConnectionInv'
<1> SUFFICES ASSUME ConnectionInv, SendsData PROVE ConnectionInv'
    OBVIOUS
<1> DEFINE frame == Frame("data")
<1>1. /\ frame \in [type : Types, nonce : Nat] /\ frame.type = "data"
      /\ "session" \in Threads /\ "idle" \in Places /\ "sending" \in Places
      /\ IsCloser("idle") = 0 /\ IsCloser("sending") = 0
      /\ pc["session"] = "sending" /\ "sending" \notin Wakers /\ "sending" \notin CloserPlaces
      /\ "idle" \notin CloserPlaces
    BY DEF Frame, Types, Threads, Places, IsCloser, CloserPlaces, Wakers, SendsData
<1>2. Sends(frame, Goes(Now, "session", "idle"), Goes(Now, "session", "idle"))
    BY DEF SendsData
<1> HIDE DEF frame
<1>3. /\ Typed' /\ Calm
      /\ \/ Queues(frame) /\ Moves("session", "sending", "idle")
         \/ FramesStay /\ SentStays /\ Moves("session", "sending", "idle")
    BY <1>1, <1>2, Parts, OffersDo
<1>4. Roles' /\ NobodyStarts
    BY <1>1, <1>3, Parts, RolesKept, OtherPlaces
<1>5. CASE Queues(frame)
  <2>1. FramesKept /\ failed' = failed
      BY <1>1, <1>5, Parts, FramesKeptQueued DEF Queues
  <2>2. HeartbeatGoesOn'
      BY <1>1, <1>3, <2>1, Parts, CalmIsQuiet, GoesOnKept
  <2>3. "data" \in Types
      BY DEF Types
  <2>4. QED
      BY <1>1, <1>3, <1>4, <1>5, <2>2, <2>3, SendingMove
<1>6. CASE FramesStay /\ SentStays
    BY <1>1, <1>3, <1>4, <1>6, PlainMove
<1>7. QED
    BY <1>3, <1>5, <1>6

LEMMA SendsCloseKeeps == ConnectionInv /\ SendsClose => ConnectionInv'
<1> SUFFICES ASSUME ConnectionInv, SendsClose PROVE ConnectionInv'
    OBVIOUS
<1>1. /\ "session" \in Threads /\ pc["session"] \in CloserPlaces
      /\ Sends(Frame("close"), Goes(Now, "session", "arming"), Goes(Finish(Now), "session", "idle"))
    BY DEF SendsClose, CloserPlaces, Threads
<1>2. connection.closeSent
    BY <1>1, CloserHasMarked
<1>3. QED
    BY <1>1, <1>2, ClosesKeep

LEMMA ArmsCloseTimerKeeps == ConnectionInv /\ ArmsCloseTimer => ConnectionInv'
<1> SUFFICES ASSUME ConnectionInv, ArmsCloseTimer PROVE ConnectionInv'
    OBVIOUS
<1> DEFINE armed == [Now EXCEPT !.connection.closeTimer = TRUE]
<1>1. /\ "session" \in Threads /\ "idle" \in Places /\ "arming" \notin Wakers
      /\ "idle" \notin CloserPlaces /\ "arming" \notin CloserPlaces
    BY DEF Threads, Places, CloserPlaces, Wakers
<1>2. /\ armed \in State /\ armed.connection.closeSent = connection.closeSent
      /\ armed.connection.closeReceived = connection.closeReceived
      /\ armed.connection.finished = connection.finished
      /\ armed.heartbeat = heartbeat /\ armed.pc = pc
    BY Parts DEF State, ConnectionType
<1>3. Steps("session", "arming", Goes(armed, "session", "idle"))
    BY DEF ArmsCloseTimer
<1> HIDE DEF armed
<1>4. /\ Typed' /\ FramesStay /\ SentStays /\ Moves("session", "arming", "idle")
      /\ connection' = armed.connection /\ heartbeat' = armed.heartbeat
    BY <1>1, <1>2, <1>3, Parts, GoesDo
<1>5. Calm
    BY <1>2, <1>4 DEF Calm, PhaseStays
<1>6. Roles' /\ NobodyStarts
    BY <1>1, <1>4, Parts, RolesKept, OtherPlaces
<1>7. QED
    BY <1>1, <1>4, <1>5, <1>6, PlainMove

--------------------------------------------------------------------------------
\* The reader

\* Nobody moves.
LEMMA StandsStill ==
    ASSUME ConnectionInv, pc' = pc
    PROVE  /\ "session" \in Threads /\ Moves("session", pc["session"], pc["session"])
           /\ Roles' /\ NobodyStarts
<1>1. "session" \in Threads
    BY DEF Threads
<1>2. QED
    BY <1>1, Parts DEF Moves, Roles, NobodyStarts, PlaceKept

LEMMA StayingState ==
    ASSUME ConnectionInv, NEW t \in Threads
    PROVE  Goes(Now, t, pc[t]) = Now
BY Parts DEF Goes, State

LEMMA ReadsPingKeeps == ConnectionInv /\ ReadsPing => ConnectionInv'
<1> SUFFICES ASSUME ConnectionInv, ReadsPing PROVE ConnectionInv'
    OBVIOUS
<1> DEFINE frame == Frame("pong")
<1>1. /\ frame \in [type : Types, nonce : Nat] /\ frame.type = "pong" /\ "pong" \in Types
      /\ "reader" \in Threads /\ "idle" \in Places /\ "failing" \in Places
      /\ IsCloser("idle") = 0 /\ IsCloser("failing") = 0
      /\ pc["reader"] = "idle" /\ "idle" \notin Wakers /\ "idle" \notin CloserPlaces
      /\ "failing" \notin CloserPlaces
    BY DEF Frame, Types, Threads, Places, IsCloser, CloserPlaces, Wakers, ReadsPing
<1>2. Goes(Now, "reader", "idle") = Now
    BY <1>1, StayingState
<1>3. Sends(frame, Goes(Now, "reader", "idle"), Goes(Now, "reader", "failing"))
    BY <1>2 DEF ReadsPing
<1> HIDE DEF frame
<1>4. /\ Typed' /\ Calm
      /\ \/ Queues(frame) /\ Moves("reader", "idle", "idle")
         \/ FramesStay /\ SentStays /\ Moves("reader", "idle", "failing")
    BY <1>1, <1>3, Parts, OffersDo
<1>5. CASE Queues(frame) /\ Moves("reader", "idle", "idle")
  <2>1. Roles' /\ NobodyStarts
      BY <1>1, <1>5, Parts, RolesKept, OtherPlaces
  <2>2. FramesKept /\ failed' = failed
      BY <1>1, <1>5, Parts, FramesKeptQueued DEF Queues
  <2>3. HeartbeatGoesOn'
      BY <1>1, <1>4, <1>5, <2>2, Parts, CalmIsQuiet, GoesOnKept
  <2>4. QED
      BY <1>1, <1>4, <1>5, <2>1, <2>3, SendingMove
<1>6. CASE FramesStay /\ SentStays /\ Moves("reader", "idle", "failing")
  <2>1. Roles' /\ NobodyStarts
      BY <1>1, <1>6, Parts, RolesKept, OtherPlaces
  <2>2. QED
      BY <1>1, <1>4, <1>6, <2>1, PlainMove
<1>7. QED
    BY <1>4, <1>5, <1>6

\* The reader goes to fail, or to finish.
LEMMA ReaderMoves ==
    ASSUME ConnectionInv, NEW to \in {"idle", "failing", "finishing"},
           Steps("reader", "idle", Goes(Now, "reader", to))
    PROVE  ConnectionInv'
<1>1. /\ "reader" \in Threads /\ to \in Places /\ "idle" \notin Wakers
      /\ "idle" \notin CloserPlaces /\ to \notin CloserPlaces
    BY DEF Threads, Places, Wakers, CloserPlaces
<1>2. Typed' /\ FramesStay /\ SentStays /\ Moves("reader", "idle", to) /\ Calm
    BY <1>1, MovesOnly
<1>3. Roles' /\ NobodyStarts
    BY <1>1, <1>2, Parts, RolesKept, OtherPlaces
<1>4. QED
    BY <1>1, <1>2, <1>3, PlainMove

\* The pong of the ping that is pending.
LEMMA MatchState ==
    ASSUME NEW s \in State, NEW nonce \in Nat, NEW running \in BOOLEAN
    PROVE  LET q == CancelsPongTimer([s EXCEPT !.heartbeat.pendingPing = 0,
                                               !.heartbeat.answered = nonce], running)
           IN  /\ q \in State /\ q.connection = s.connection /\ q.pc = s.pc
               /\ q.heartbeat.pendingPing = 0 /\ q.heartbeat.answered = nonce
               /\ q.heartbeat.pongTimer = 0
               /\ q.heartbeat.deadlines \subseteq s.heartbeat.deadlines
               /\ q.heartbeat.nonce = s.heartbeat.nonce
               /\ q.heartbeat.expired = s.heartbeat.expired
               /\ q.heartbeat.pingTimer = s.heartbeat.pingTimer
<1> DEFINE g == [s.heartbeat EXCEPT !.pendingPing = 0, !.answered = nonce]
           t == [s EXCEPT !.heartbeat = g]
           left == IF running THEN g.deadlines ELSE g.deadlines \ {g.pongTimer}
           h == [g EXCEPT !.pongTimer = 0, !.deadlines = left]
           r == [t EXCEPT !.heartbeat = h]
<1>1. /\ g \in HeartbeatType
      /\ g.pendingPing = 0 /\ g.answered = nonce /\ g.nonce = s.heartbeat.nonce
      /\ g.expired = s.heartbeat.expired /\ g.pingTimer = s.heartbeat.pingTimer
      /\ g.deadlines = s.heartbeat.deadlines
    BY DEF State, HeartbeatType
<1>2. [s EXCEPT !.heartbeat.pendingPing = 0, !.heartbeat.answered = nonce] = t
    BY DEF State
<1> HIDE DEF g
<1>3. t \in State /\ t.heartbeat = g /\ t.connection = s.connection /\ t.pc = s.pc
    BY <1>1 DEF State
<1> HIDE DEF t
<1>4. left \subseteq g.deadlines /\ left \in SUBSET Nat
    BY <1>1 DEF HeartbeatType
<1>5. CancelsPongTimer(t, running) = r
    BY <1>3 DEF CancelsPongTimer, State
<1> HIDE DEF left
<1>6. /\ h \in HeartbeatType
      /\ h.pendingPing = g.pendingPing /\ h.answered = g.answered /\ h.nonce = g.nonce
      /\ h.expired = g.expired /\ h.pingTimer = g.pingTimer
      /\ h.pongTimer = 0 /\ h.deadlines = left
    BY <1>1, <1>4 DEF HeartbeatType
<1> HIDE DEF h
<1>7. r \in State /\ r.heartbeat = h /\ r.connection = s.connection /\ r.pc = s.pc
    BY <1>3, <1>6 DEF State
<1> HIDE DEF r
<1>8. QED
    BY <1>1, <1>2, <1>4, <1>5, <1>6, <1>7

LEMMA ReadsPongKeeps ==
    ASSUME ConnectionInv, NEW nonce \in 0..heartbeat.nonce, NEW running \in BOOLEAN,
           ReadsPong(nonce, running)
    PROVE  ConnectionInv'
<1>1. heartbeat.nonce \in Nat /\ nonce \in Nat
    BY Parts DEF HeartbeatType
<1>2. CASE heartbeat.pendingPing = 0 \/ heartbeat.pendingPing # nonce
  <2>1. Steps("reader", "idle", Now) /\ pc["reader"] = "idle" /\ "reader" \in Threads
      BY <1>2 DEF ReadsPong, Reads, Steps, Threads
  <2>2. Goes(Now, "reader", "idle") = Now
      BY <2>1, StayingState
  <2>3. QED
      BY <2>1, <2>2, ReaderMoves
<1>3. CASE heartbeat.pendingPing # 0 /\ heartbeat.pendingPing = nonce
  <2> DEFINE r == CancelsPongTimer([Now EXCEPT !.heartbeat.pendingPing = 0,
                                               !.heartbeat.answered = nonce], running)
             h == r.heartbeat
  <2>1. Steps("reader", "idle", Goes(r, "reader", "matched"))
      BY <1>3 DEF ReadsPong, Reads
  <2>2. /\ r \in State /\ r.connection = connection /\ r.pc = pc
        /\ h.pendingPing = 0 /\ h.answered = nonce /\ h.pongTimer = 0
        /\ h.deadlines \subseteq heartbeat.deadlines
        /\ h.nonce = heartbeat.nonce /\ h.expired = heartbeat.expired
        /\ h.pingTimer = heartbeat.pingTimer
    <3>1. Now \in State /\ Now.connection = connection /\ Now.heartbeat = heartbeat /\ Now.pc = pc
        BY Parts
    <3>2. Now \in State /\ nonce \in Nat /\ running \in BOOLEAN
        BY <1>1, <3>1
    <3> DEFINE Matches(s, q) ==
            /\ q \in State /\ q.connection = s.connection /\ q.pc = s.pc
            /\ q.heartbeat.pendingPing = 0 /\ q.heartbeat.answered = nonce
            /\ q.heartbeat.pongTimer = 0
            /\ q.heartbeat.deadlines \subseteq s.heartbeat.deadlines
            /\ q.heartbeat.nonce = s.heartbeat.nonce
            /\ q.heartbeat.expired = s.heartbeat.expired
            /\ q.heartbeat.pingTimer = s.heartbeat.pingTimer
    <3>3. Matches(Now, r)
        BY <3>2, MatchState
    <3> HIDE DEF r
    <3>4. QED
        BY <3>1, <3>3
  <2> HIDE DEF r
  <2>3. "reader" \in Threads /\ "matched" \in Places
      BY DEF Threads, Places
  <2>4. /\ Typed' /\ FramesStay /\ SentStays /\ Moves("reader", "idle", "matched")
        /\ connection' = connection /\ heartbeat' = h
      BY <2>1, <2>2, <2>3, Parts, GoesDo
  <2>5. Roles'
      BY <2>3, <2>4, Parts, RolesKept
  <2>6. \A u \in Threads : pc'[u] = IF u = "reader" THEN "matched" ELSE pc[u]
      BY <2>4, Parts DEF Moves
  <2>7. /\ PlaceKept("session", "sending") /\ PlaceKept("pinger", "offering")
        /\ PlaceKept("reader", "answering") /\ pc'["reader"] = "matched"
      BY <2>6 DEF PlaceKept, Threads
  <2>8. IsCloser("matched") <= IsCloser("idle")
      BY DEF IsCloser, CloserPlaces
  <2>9. OneCloses'
      BY <2>3, <2>4, <2>7, <2>8, Parts, OneClosesKept
  <2>10. LateAccount'
      BY <2>4, <2>7, Parts, LateKept
  <2>11. h \in HeartbeatType /\ heartbeat.expired < nonce /\ ~heartbeat.pingTimer
      BY <1>3, <2>2, Parts DEF Pings, State
  <2>12. Pings'
    <3>1. heartbeat' = h
        BY <2>4
    <3>2. nonce = heartbeat.nonce /\ heartbeat.deadlines \subseteq 1..heartbeat.nonce
          /\ heartbeat.expired <= heartbeat.nonce
        BY <1>3, Parts DEF Pings
    <3>3. QED
        BY <1>1, <2>2, <2>7, <2>11, <3>1, <3>2 DEF Pings, HeartbeatType
  <2>13. AnsweredDoNotExpire'
      BY <1>1, <2>2, <2>4, <2>11, Parts DEF AnsweredDoNotExpire, HeartbeatType
  <2>14. HeartbeatGoesOn'
      BY <2>7 DEF HeartbeatGoesOn
  <2>15. QED
      BY <2>4, <2>5, <2>9, <2>10, <2>12, <2>13, <2>14 DEF ConnectionInv
<1>4. QED
    BY <1>2, <1>3

LEMMA SchedulesNextPingKeeps == ConnectionInv /\ SchedulesNextPing => ConnectionInv'
<1> SUFFICES ASSUME ConnectionInv, SchedulesNextPing PROVE ConnectionInv'
    OBVIOUS
<1> DEFINE free == ~connection.finished /\ heartbeat.pendingPing = 0
           timer == heartbeat.pingTimer \/ free
           h == [heartbeat EXCEPT !.pingTimer = timer]
           r == [Now EXCEPT !.heartbeat = h]
<1>1. "reader" \in Threads /\ "idle" \in Places /\ "matched" \notin CloserPlaces
      /\ "idle" \notin CloserPlaces /\ IsCloser("idle") <= IsCloser("matched")
    BY DEF Threads, Places, CloserPlaces, IsCloser
<1>2. timer \in BOOLEAN
    OBVIOUS
<1>3. Steps("reader", "matched", Goes(r, "reader", "idle"))
  <2>1. Steps("reader", "matched", Goes([Now EXCEPT !.heartbeat.pingTimer = @ \/ free], "reader", "idle"))
      BY DEF SchedulesNextPing
  <2>2. [Now EXCEPT !.heartbeat.pingTimer = @ \/ free] = r
      BY Parts DEF State
  <2>3. QED
      BY <2>1, <2>2
<1>4. pc["reader"] = "matched"
    BY <1>3 DEF Steps
<1>5. ~heartbeat.pingTimer /\ heartbeat.pendingPing = 0
    BY <1>4, Parts DEF Pings
<1>6. connection.finished \/ timer
    BY <1>5
<1> HIDE DEF free
<1>7. /\ h \in HeartbeatType /\ h.pendingPing = 0 /\ h.pingTimer = timer
      /\ h.nonce = heartbeat.nonce /\ h.pongTimer = heartbeat.pongTimer
      /\ h.deadlines = heartbeat.deadlines
      /\ h.answered = heartbeat.answered /\ h.expired = heartbeat.expired
    BY <1>2, <1>5, Parts DEF HeartbeatType
<1> HIDE DEF timer, h
<1>8. r \in State /\ r.connection = connection /\ r.heartbeat = h /\ r.pc = pc
    BY <1>7, Parts DEF State
<1> HIDE DEF r
<1>9. /\ Typed' /\ FramesStay /\ SentStays /\ Moves("reader", "matched", "idle")
      /\ connection' = connection /\ heartbeat' = h
    BY <1>1, <1>3, <1>8, Parts, GoesDo
<1>10. Roles' /\ NobodyStarts
    BY <1>1, <1>9, Parts, RolesKept, OtherPlaces
<1>11. pc'["reader"] = "idle"
    BY <1>1, <1>9, Parts DEF Moves
<1>12. OneCloses'
    BY <1>1, <1>9, <1>10, Parts, OneClosesKept DEF NobodyStarts
<1>13. LateAccount'
    BY <1>9, <1>10, Parts, LateKept DEF NobodyStarts
<1>14. Pings' /\ AnsweredDoNotExpire'
    BY <1>7, <1>9, <1>11, Parts DEF Pings, AnsweredDoNotExpire, HeartbeatType
<1>15. HeartbeatGoesOn'
    BY <1>6, <1>7, <1>9 DEF HeartbeatGoesOn
<1>16. QED
    BY <1>9, <1>10, <1>12, <1>13, <1>14, <1>15 DEF ConnectionInv

LEMMA ReadsCloseKeeps == ConnectionInv /\ ReadsClose => ConnectionInv'
<1> SUFFICES ASSUME ConnectionInv, ReadsClose PROVE ConnectionInv'
    OBVIOUS
<1> DEFINE to == IF connection.closeSent THEN "finishing" ELSE "answering"
           r == [Now EXCEPT !.connection.closeReceived = TRUE]
<1>1. /\ "reader" \in Threads /\ to \in Places /\ "idle" \notin Wakers
      /\ IsCloser(to) <= IsCloser("idle")
      /\ to \in {"finishing", "answering"}
    BY DEF Threads, Places, CloserPlaces, Wakers, IsCloser
<1>2. Steps("reader", "idle", Goes(r, "reader", to))
    BY DEF ReadsClose, Reads
<1>3. /\ r \in State /\ r.connection.closeSent = connection.closeSent
      /\ r.connection.closeReceived = TRUE /\ r.connection.finished = connection.finished
      /\ r.heartbeat = heartbeat /\ r.pc = pc
    BY Parts DEF State, ConnectionType
<1> HIDE DEF r, to
<1>4. /\ Typed' /\ FramesStay /\ SentStays /\ Moves("reader", "idle", to)
      /\ connection' = r.connection /\ heartbeat' = heartbeat
    BY <1>1, <1>2, <1>3, Parts, GoesDo
<1>5. Roles'
    BY <1>1, <1>4, Parts, RolesKept
<1>6. \A u \in Threads : pc'[u] = IF u = "reader" THEN to ELSE pc[u]
    BY <1>4, Parts DEF Moves
<1>7. /\ PlaceKept("session", "sending") /\ PlaceKept("pinger", "offering")
      /\ PlaceKept("reader", "matched") /\ pc'["reader"] = to
    BY <1>1, <1>6 DEF PlaceKept, Threads
<1>8. OneCloses'
  <2>1. /\ SentCloses' = SentCloses
        /\ {SentCloses, SentCloses', Closes, Closes'} \subseteq Nat
        /\ Closes' - SentCloses' = Closes - SentCloses - IsCloser("idle") + IsCloser(to)
      BY <1>1, <1>4, Parts, ClosersOfMove DEF SentStays, SentCloses
  <2>2. IsCloser("idle") = 0 /\ IsCloser(to) = 0
      BY <1>1 DEF IsCloser, CloserPlaces
  <2>3. Closes' = Closes
      BY <2>1, <2>2
  <2>4. connection'.closeSent = connection.closeSent /\ connection'.closeReceived = TRUE
      BY <1>3, <1>4
  <2>5. ~connection.closeSent => Closes = 0
      BY Parts DEF OneCloses
  <2>6. pc'["reader"] = "answering" => Closes = 0
      BY <1>7, <2>5 DEF to
  <2>7. QED
      BY <2>1, <2>3, <2>4, <2>5, <2>6, Parts DEF OneCloses
<1>9. LateAccount'
    BY <1>4, <1>7, Parts, LateKept
<1>10. Pings' /\ AnsweredDoNotExpire'
    BY <1>4, <1>7, Parts, PingsKept
<1>11. HeartbeatGoesOn'
  <2>1. HeartKept /\ failed' = failed
      BY <1>3, <1>4 DEF HeartKept, FramesStay
  <2>2. QED
      BY <1>1, <1>4, <2>1, Parts, FramesKeptStaying, GoesOnKept
<1>12. QED
    BY <1>4, <1>5, <1>8, <1>9, <1>10, <1>11 DEF ConnectionInv

LEMMA AnswersCloseKeeps == ConnectionInv /\ AnswersClose => ConnectionInv'
<1> SUFFICES ASSUME ConnectionInv, AnswersClose PROVE ConnectionInv'
    OBVIOUS
<1> DEFINE marked == [Now EXCEPT !.connection.closeSent = TRUE]
<1>1. /\ "reader" \in Threads /\ "answered" \in Places
      /\ "answering" \notin CloserPlaces /\ "answered" \in CloserPlaces
    BY DEF Threads, Places, CloserPlaces
<1>2. /\ marked \in State /\ marked.connection.closeSent = TRUE
      /\ marked.connection.closeReceived = connection.closeReceived
      /\ marked.connection.finished = connection.finished
      /\ marked.heartbeat = heartbeat /\ marked.pc = pc
    BY Parts, MarkState
<1>3. Steps("reader", "answering", Goes(marked, "reader", "answered"))
    BY DEF AnswersClose
<1> HIDE DEF marked
<1>4. /\ Typed' /\ FramesStay /\ SentStays /\ Moves("reader", "answering", "answered")
      /\ connection' = marked.connection /\ heartbeat' = heartbeat
    BY <1>1, <1>2, <1>3, Parts, GoesDo
<1>5. Roles' /\ NobodyStarts
    BY <1>1, <1>4, Parts, RolesKept, OtherPlaces
<1>6. pc["reader"] = "answering" /\ pc'["reader"] = "answered"
    BY <1>1, <1>4, Parts DEF Moves
<1>7. Closes \in Nat /\ Closes <= 1 /\ connection.closeReceived /\ Closes' = Closes + 1
    BY <1>1, <1>4, <1>6, Parts, OneMoreCloses DEF OneCloses
<1>8. OneCloses'
  <2>1. connection'.closeSent /\ connection'.closeReceived
      BY <1>2, <1>4, <1>7
  <2>2. Closes' <= 1 \/ Closes' = 2
      BY <1>7
  <2>3. QED
      BY <1>6, <2>1, <2>2 DEF OneCloses
<1>9. LateAccount'
    BY <1>4, <1>5, Parts, LateKept DEF NobodyStarts
<1>10. Pings' /\ AnsweredDoNotExpire'
    BY <1>4, <1>5, Parts, PingsKept DEF NobodyStarts
<1>11. HeartbeatGoesOn'
    BY <1>2, <1>4, NothingOwed
<1>12. QED
    BY <1>4, <1>5, <1>8, <1>9, <1>10, <1>11 DEF ConnectionInv

LEMMA ReaderFinishesKeeps == ConnectionInv /\ ReaderFinishes => ConnectionInv'
<1> SUFFICES ASSUME ConnectionInv, ReaderFinishes PROVE ConnectionInv'
    OBVIOUS
<1>1. "reader" \in Threads /\ "idle" \in Places /\ IsCloser("idle") <= IsCloser("finishing")
    BY DEF Threads, Places, IsCloser, CloserPlaces
<1>2. /\ Finish(Now) \in State
      /\ Finish(Now).connection.finished = TRUE
      /\ Finish(Now).connection.closeSent = connection.closeSent
      /\ Finish(Now).connection.closeReceived = connection.closeReceived
      /\ Finish(Now).heartbeat = heartbeat \/ Stopped(Finish(Now).heartbeat, heartbeat)
      /\ Finish(Now).pc = pc
    BY Parts, FinishState
<1>3. /\ Typed' /\ FramesStay /\ SentStays /\ Moves("reader", "finishing", "idle")
      /\ connection' = Finish(Now).connection /\ heartbeat' = Finish(Now).heartbeat
    BY <1>1, <1>2, Parts, GoesDo DEF ReaderFinishes
<1>4. Roles' /\ NobodyStarts
    BY <1>1, <1>3, Parts, RolesKept, OtherPlaces
<1>5. HeartbeatGoesOn'
    BY <1>2, <1>3, NothingOwed
<1>6. PhaseStays /\ (heartbeat' = heartbeat \/ Stopped(heartbeat', heartbeat))
    BY <1>2, <1>3 DEF PhaseStays
<1>7. QED
    BY <1>1, <1>3, <1>4, <1>5, <1>6, QuietMove

LEMMA CloseTimerKeeps == ConnectionInv /\ CloseTimer => ConnectionInv'
<1> SUFFICES ASSUME ConnectionInv, CloseTimer PROVE ConnectionInv'
    OBVIOUS
<1> DEFINE r == [Now EXCEPT !.connection.closeTimer = FALSE]
<1>1. /\ r \in State /\ r.connection.closeSent = connection.closeSent
      /\ r.connection.closeReceived = connection.closeReceived
      /\ r.heartbeat = heartbeat /\ r.pc = pc
    BY Parts DEF State, ConnectionType
<1>2. Becomes(Finish(r)) /\ FramesStay /\ SentStays
    BY DEF CloseTimer, FramesStay, SentStays, queueVars
<1> HIDE DEF r
<1>3. /\ Finish(r) \in State
      /\ Finish(r).connection.finished = TRUE
      /\ Finish(r).connection.closeSent = connection.closeSent
      /\ Finish(r).connection.closeReceived = connection.closeReceived
      /\ Finish(r).heartbeat = heartbeat \/ Stopped(Finish(r).heartbeat, heartbeat)
      /\ Finish(r).pc = pc
    BY <1>1, FinishState
<1>4. /\ Now' \in State /\ connection' = Finish(r).connection
      /\ heartbeat' = Finish(r).heartbeat /\ pc' = pc
    BY <1>2, <1>3, BecomesState
<1>5. Typed'
    BY <1>2, <1>4, Parts DEF Typed, FramesStay, SentStays
<1>6. /\ "session" \in Threads /\ Moves("session", pc["session"], pc["session"])
      /\ Roles' /\ NobodyStarts
    BY <1>4, StandsStill
<1>7. PhaseStays /\ (heartbeat' = heartbeat \/ Stopped(heartbeat', heartbeat)) /\ HeartbeatGoesOn'
    BY <1>3, <1>4, NothingOwed DEF PhaseStays
<1>8. IsCloser(pc["session"]) <= IsCloser(pc["session"])
    BY DEF IsCloser
<1>9. QED
    BY <1>2, <1>5, <1>6, <1>7, <1>8, QuietMove

--------------------------------------------------------------------------------
\* The heartbeat

\* Who else answers for the heartbeat, when the pinger moves.
LEMMA OthersGoOn ==
    ASSUME ConnectionInv, HeartbeatGoesOn, NEW from, NEW to, Moves("pinger", from, to), HeartKept,
           from \notin {"matched", "failing", "failingFirst", "refused"}, failed' = failed,
           ~heartbeat.pingTimer, heartbeat.pendingPing = 0
    PROVE  HeartbeatGoesOn'
<1>1. \A u \in Threads : pc'[u] = IF u = "pinger" THEN to ELSE pc[u]
    BY Parts DEF Moves
<1>2. "reader" \in Threads
    BY DEF Threads
<1>3. pc["pinger"] = from
    BY DEF Moves
<1>4. QED
    BY <1>1, <1>2, <1>3 DEF HeartbeatGoesOn, HeartKept

\* A ping on its way that passes on to the next place.
LEMMA PingPasses ==
    ASSUME ConnectionInv, NEW from, NEW to, Moves("pinger", from, to), HeartKept,
           from \notin {"matched", "failing", "failingFirst", "refused"}, failed' = failed,
           heartbeat.pendingPing # 0 => PingOnItsWay'
    PROVE  HeartbeatGoesOn'
<1>1. CASE heartbeat.pendingPing # 0
    BY <1>1 DEF HeartbeatGoesOn, HeartKept
<1>2. CASE heartbeat.pingTimer
    BY <1>2 DEF HeartbeatGoesOn, HeartKept
<1>3. CASE heartbeat.pendingPing = 0 /\ ~heartbeat.pingTimer
    BY <1>3, Parts, OthersGoOn
<1>4. QED
    BY <1>1, <1>2, <1>3

LEMMA ChecksPingKeeps == ConnectionInv /\ ChecksPing => ConnectionInv'
<1> SUFFICES ASSUME ConnectionInv, ChecksPing PROVE ConnectionInv'
    OBVIOUS
<1> DEFINE to == IF connection.finished \/ connection.closeSent \/ connection.closeReceived
                 THEN "refused" ELSE "offering"
<1>1. /\ "pinger" \in Threads /\ to \in Places /\ to \in {"refused", "offering"}
      /\ "pinging" \notin CloserPlaces /\ to \notin CloserPlaces
      /\ IsCloser(to) <= IsCloser("pinging")
    BY DEF Threads, Places, CloserPlaces, IsCloser
<1>2. Steps("pinger", "pinging", Goes(Now, "pinger", to))
    BY DEF ChecksPing
<1>3. to = "offering" => ~connection.closeSent
    OBVIOUS
<1> HIDE DEF to
<1>4. Typed' /\ FramesStay /\ SentStays /\ Moves("pinger", "pinging", to) /\ Calm
    BY <1>1, <1>2, MovesOnly
<1>5. Roles'
    BY <1>1, <1>4, Parts, RolesKept
<1>6. CASE to = "refused"
  <2>1. NobodyStarts
      BY <1>1, <1>4, <1>6, Parts, OtherPlaces
  <2>2. QED
      BY <1>1, <1>4, <1>5, <1>6, <2>1, PlainMove
<1>7. CASE to = "offering"
  <2>1. \A u \in Threads : pc'[u] = IF u = "pinger" THEN "offering" ELSE pc[u]
      BY <1>4, <1>7, Parts DEF Moves
  <2>2. /\ PlaceKept("reader", "matched") /\ PlaceKept("reader", "answering")
        /\ PlaceKept("session", "sending") /\ pc'["pinger"] = "offering"
      BY <2>1 DEF PlaceKept, Threads
  <2>3. PhaseStays /\ HeartKept /\ failed' = failed
      BY <1>4, CalmIsQuiet DEF FramesStay
  <2>4. OneCloses'
      BY <1>1, <1>4, <2>2, <2>3, Parts, OneClosesKept DEF PhaseStays
  <2>5. LateAccount'
      BY <1>3, <1>4, <1>7, <2>2, Parts, LateKept, NothingSentBefore
  <2>6. Pings' /\ AnsweredDoNotExpire'
      BY <2>2, <2>3, Parts, PingsKept DEF HeartKept
  <2>7. HeartbeatGoesOn'
      BY <1>4, <2>2, <2>3, PingPasses DEF PingOnItsWay
  <2>8. QED
      BY <1>4, <1>5, <2>4, <2>5, <2>6, <2>7 DEF ConnectionInv
<1>8. QED
    BY <1>1, <1>6, <1>7

LEMMA SendsPingKeeps == ConnectionInv /\ SendsPing => ConnectionInv'
<1> SUFFICES ASSUME ConnectionInv, SendsPing PROVE ConnectionInv'
    OBVIOUS
<1> DEFINE frame == Ping(heartbeat.nonce)
<1>1. /\ frame \in [type : Types, nonce : Nat] /\ frame.type = "ping" /\ "ping" \in Types
      /\ "pinger" \in Threads /\ "idle" \in Places /\ "failingFirst" \in Places
      /\ IsCloser("idle") = 0 /\ IsCloser("offering") = 0 /\ "offering" \in Places
      /\ pc["pinger"] = "offering" /\ "offering" \notin CloserPlaces
      /\ "failingFirst" \notin CloserPlaces
    BY Parts DEF Ping, Types, Threads, Places, IsCloser, CloserPlaces, SendsPing, HeartbeatType
<1>2. Sends(frame, Goes(Now, "pinger", "idle"), Goes(Now, "pinger", "failingFirst"))
    BY DEF SendsPing
<1>3. heartbeat.pendingPing # 0 => frame = Ping(heartbeat.pendingPing)
    BY Parts DEF Pings
<1> HIDE DEF frame
<1>4. /\ Typed' /\ Calm
      /\ \/ Queues(frame) /\ Moves("pinger", "offering", "idle")
         \/ FramesStay /\ SentStays /\ Moves("pinger", "offering", "failingFirst")
    BY <1>1, <1>2, Parts, OffersDo
<1>5. CASE Queues(frame) /\ Moves("pinger", "offering", "idle")
  <2>1. Roles' /\ NobodyStarts
      BY <1>1, <1>5, Parts, RolesKept, OtherPlaces
  <2>2. (\E j \in DOMAIN queue' : queue'[j].frame = frame) /\ failed' = failed
      BY <1>1, <1>5, Parts, FramesKeptQueued DEF Queues
  <2>3. HeartKept
      BY <1>4, CalmIsQuiet
  <2>4. heartbeat.pendingPing # 0 => PingOnItsWay'
      BY <1>3, <2>2, <2>3 DEF PingOnItsWay, HeartKept, Ping
  <2>5. HeartbeatGoesOn'
      BY <1>5, <2>2, <2>3, <2>4, PingPasses
  <2>6. QED
      BY <1>1, <1>4, <1>5, <2>1, <2>5, SendingMove
<1>6. CASE FramesStay /\ SentStays /\ Moves("pinger", "offering", "failingFirst")
  <2>1. Roles' /\ NobodyStarts
      BY <1>1, <1>6, Parts, RolesKept, OtherPlaces
  <2>2. QED
      BY <1>1, <1>4, <1>6, <2>1, PlainMove
<1>7. QED
    BY <1>4, <1>5, <1>6

\* A step of the heartbeat: what it owes Pings and HeartbeatGoesOn.
LEMMA HeartMove ==
    ASSUME ConnectionInv, Typed', Roles', NEW t \in Threads, NEW from, NEW to,
           Moves(t, from, to), SentStays, PhaseStays, NobodyStarts, IsCloser(to) <= IsCloser(from),
           Pings', AnsweredDoNotExpire', HeartbeatGoesOn'
    PROVE  ConnectionInv'
<1>1. OneCloses'
    BY Parts, OneClosesKept DEF PhaseStays, NobodyStarts
<1>2. LateAccount'
    BY Parts, LateKept DEF NobodyStarts
<1>3. QED
    BY <1>1, <1>2 DEF ConnectionInv

LEMMA PingTimerKeeps == ConnectionInv /\ PingTimer => ConnectionInv'
<1> SUFFICES ASSUME ConnectionInv, PingTimer PROVE ConnectionInv'
    OBVIOUS
<1> DEFINE next == heartbeat.nonce + 1
           g == [heartbeat EXCEPT !.pingTimer = FALSE]
           fired == [Now EXCEPT !.heartbeat = g]
           h == [g EXCEPT !.nonce = next, !.pendingPing = next]
           r == [fired EXCEPT !.heartbeat = h]
<1>1. /\ "pinger" \in Threads /\ "pinging" \in Places /\ "idle" \in Places
      /\ IsCloser("idle") <= IsCloser("idle") /\ IsCloser("pinging") <= IsCloser("idle")
    BY DEF Threads, Places, IsCloser, CloserPlaces
<1>2. heartbeat.pendingPing = 0 /\ heartbeat.nonce \in Nat /\ next \in Nat \ {0}
    BY Parts DEF PingTimer, Pings, HeartbeatType
<1>3. /\ g \in HeartbeatType /\ g.pingTimer = FALSE /\ g.pendingPing = 0
      /\ g.nonce = heartbeat.nonce /\ g.pongTimer = heartbeat.pongTimer
      /\ g.deadlines = heartbeat.deadlines
      /\ g.answered = heartbeat.answered /\ g.expired = heartbeat.expired
    BY <1>2, Parts DEF HeartbeatType
<1>4. Now \in State /\ [Now EXCEPT !.heartbeat.pingTimer = FALSE] = fired
    BY Parts DEF State
<1>5. Steps("pinger", "idle",
            IF connection.finished \/ heartbeat.pendingPing # 0 THEN fired
            ELSE Goes([fired EXCEPT !.heartbeat.nonce = next, !.heartbeat.pendingPing = next],
                      "pinger", "pinging"))
    BY <1>4 DEF PingTimer
<1> HIDE DEF g
<1>6. fired \in State /\ fired.heartbeat = g /\ fired.connection = connection /\ fired.pc = pc
    BY <1>3, <1>4, Parts DEF State
<1> HIDE DEF fired
<1>7. pc["pinger"] = "idle"
    BY <1>5 DEF Steps
<1>8. CASE connection.finished
  <2>1. Steps("pinger", "idle", fired)
      BY <1>5, <1>8
  <2>2. /\ Typed' /\ FramesStay /\ SentStays
        /\ connection' = connection /\ heartbeat' = g /\ pc' = pc
      BY <1>1, <1>6, <2>1, Parts, StepsDo
  <2>3. /\ "session" \in Threads /\ Moves("session", pc["session"], pc["session"])
        /\ Roles' /\ NobodyStarts
      BY <2>2, StandsStill
  <2>4. Pings' /\ AnsweredDoNotExpire'
      BY <1>3, <2>2, Parts DEF Pings, AnsweredDoNotExpire
  <2>5. HeartbeatGoesOn'
      BY <1>8, <2>2 DEF HeartbeatGoesOn
  <2>6. PhaseStays /\ IsCloser(pc["session"]) <= IsCloser(pc["session"])
      BY <2>2 DEF PhaseStays, IsCloser
  <2>7. QED
      BY <2>2, <2>3, <2>4, <2>5, <2>6, HeartMove
<1>9. CASE ~connection.finished
  <2>1. /\ h \in HeartbeatType /\ h.nonce = next /\ h.pendingPing = next
        /\ h.pingTimer = FALSE /\ h.pongTimer = heartbeat.pongTimer
        /\ h.deadlines = heartbeat.deadlines
        /\ h.answered = heartbeat.answered /\ h.expired = heartbeat.expired
      BY <1>2, <1>3 DEF HeartbeatType
  <2>2. [fired EXCEPT !.heartbeat.nonce = next, !.heartbeat.pendingPing = next] = r
      BY <1>6 DEF State
  <2>3. Steps("pinger", "idle", Goes(r, "pinger", "pinging"))
      BY <1>2, <1>5, <1>9, <2>2
  <2> HIDE DEF h
  <2>4. r \in State /\ r.heartbeat = h /\ r.connection = connection /\ r.pc = pc
      BY <1>6, <2>1 DEF State
  <2> HIDE DEF r
  <2>5. /\ Typed' /\ FramesStay /\ SentStays /\ Moves("pinger", "idle", "pinging")
        /\ connection' = connection /\ heartbeat' = h
      BY <1>1, <2>3, <2>4, Parts, GoesDo
  <2>6. Roles' /\ NobodyStarts
      BY <1>1, <2>5, Parts, RolesKept, OtherPlaces
  <2>7. pc'["pinger"] = "pinging" /\ PlaceKept("reader", "matched")
      BY <1>1, <2>5, <2>6, Parts DEF Moves, NobodyStarts
  <2>8. pc'["reader"] # "matched"
      BY <2>7, Parts DEF PlaceKept, Pings, PingTimer
  <2>9. Pings' /\ AnsweredDoNotExpire'
    <3>1. /\ heartbeat.pongTimer \in Nat /\ heartbeat.answered \in Nat /\ heartbeat.expired \in Nat
          /\ heartbeat.pongTimer <= heartbeat.nonce /\ heartbeat.answered <= heartbeat.nonce
          /\ heartbeat.expired <= heartbeat.nonce /\ heartbeat.deadlines \subseteq 1..heartbeat.nonce
        BY Parts DEF Pings, HeartbeatType
    <3>2. Pings'
        BY <1>2, <2>1, <2>5, <2>8, <3>1 DEF Pings
    <3>3. QED
        BY <2>1, <2>5, <3>2, Parts DEF AnsweredDoNotExpire
  <2>10. HeartbeatGoesOn'
      BY <1>2, <2>1, <2>5, <2>7 DEF HeartbeatGoesOn, PingOnItsWay
  <2>11. PhaseStays
      BY <2>5 DEF PhaseStays
  <2>12. QED
      BY <1>1, <2>5, <2>6, <2>9, <2>10, <2>11, HeartMove
<1>10. QED
    BY <1>8, <1>9

LEMMA PingRefusedKeeps == ConnectionInv /\ PingRefused => ConnectionInv'
<1> SUFFICES ASSUME ConnectionInv, PingRefused PROVE ConnectionInv'
    OBVIOUS
<1> DEFINE to == IF connection.finished THEN "idle" ELSE "failing"
           h == [heartbeat EXCEPT !.pendingPing = 0]
           r == [Now EXCEPT !.heartbeat = h]
<1>1. /\ "pinger" \in Threads /\ to \in Places /\ to \in {"idle", "failing"}
      /\ IsCloser(to) <= IsCloser("refused")
    BY DEF Threads, Places, IsCloser, CloserPlaces
<1>2. (IF heartbeat.pendingPing = heartbeat.nonce THEN 0 ELSE heartbeat.pendingPing) = 0
    BY Parts DEF Pings
<1>3. Steps("pinger", "refused", Goes(r, "pinger", to))
  <2>1. [Now EXCEPT !.heartbeat.pendingPing = IF @ = heartbeat.nonce THEN 0 ELSE @] = r
      BY <1>2, Parts DEF State
  <2>2. QED
      BY <2>1 DEF PingRefused
<1>4. /\ h \in HeartbeatType /\ h.pendingPing = 0 /\ h.pingTimer = heartbeat.pingTimer
      /\ h.nonce = heartbeat.nonce /\ h.pongTimer = heartbeat.pongTimer
      /\ h.deadlines = heartbeat.deadlines
      /\ h.answered = heartbeat.answered /\ h.expired = heartbeat.expired
    BY Parts DEF HeartbeatType
<1>5. connection.finished \/ to = "failing"
    OBVIOUS
<1> HIDE DEF h, to
<1>6. r \in State /\ r.heartbeat = h /\ r.connection = connection /\ r.pc = pc
    BY <1>4, Parts DEF State
<1> HIDE DEF r
<1>7. /\ Typed' /\ FramesStay /\ SentStays /\ Moves("pinger", "refused", to)
      /\ connection' = connection /\ heartbeat' = h
    BY <1>1, <1>3, <1>6, Parts, GoesDo
<1>8. Roles' /\ NobodyStarts
    BY <1>1, <1>7, Parts, RolesKept, OtherPlaces
<1>9. Pings' /\ AnsweredDoNotExpire'
    BY <1>4, <1>7, <1>8, Parts DEF Pings, AnsweredDoNotExpire, NobodyStarts, PlaceKept
<1>10. HeartbeatGoesOn'
  <2>1. pc'["pinger"] = to
      BY <1>1, <1>7, Parts DEF Moves
  <2>2. CASE connection.finished
      BY <1>7, <2>2 DEF HeartbeatGoesOn
  <2>3. CASE to = "failing"
      BY <1>1, <2>1, <2>3, SomebodyWakes
  <2>4. QED
      BY <1>5, <2>2, <2>3
<1>11. PhaseStays
    BY <1>7 DEF PhaseStays
<1>12. QED
    BY <1>1, <1>7, <1>8, <1>9, <1>10, <1>11, HeartMove

LEMMA PongDeadlineKeeps ==
    ASSUME ConnectionInv, NEW nonce \in heartbeat.deadlines, PongDeadline(nonce)
    PROVE  ConnectionInv'
<1> DEFINE left == heartbeat.deadlines \ {nonce}
           g == [heartbeat EXCEPT !.deadlines = left, !.pongTimer = 0]
           run == [Now EXCEPT !.heartbeat = g]
           h == [g EXCEPT !.pendingPing = 0, !.expired = nonce]
           r == [run EXCEPT !.heartbeat = h]
<1>1. /\ "deadline" \in Threads /\ "failing" \in Places
      /\ IsCloser("failing") <= IsCloser("idle")
    BY DEF Threads, Places, IsCloser, CloserPlaces
<1>2. /\ heartbeat.nonce \in Nat /\ heartbeat.deadlines \subseteq 1..heartbeat.nonce
      /\ heartbeat.answered <= heartbeat.nonce /\ heartbeat.expired <= heartbeat.nonce
      /\ heartbeat.answered \in Nat /\ heartbeat.expired \in Nat /\ heartbeat.pendingPing \in Nat
    BY Parts DEF Pings, HeartbeatType
<1>3. nonce \in 1..heartbeat.nonce /\ left \subseteq 1..heartbeat.nonce /\ left \in SUBSET Nat
      /\ nonce \in Nat
    BY <1>2
<1>4. /\ g \in HeartbeatType /\ g.pingTimer = heartbeat.pingTimer
      /\ g.pendingPing = heartbeat.pendingPing
      /\ g.nonce = heartbeat.nonce /\ g.pongTimer = 0 /\ g.deadlines = left
      /\ g.answered = heartbeat.answered /\ g.expired = heartbeat.expired
    BY <1>3, Parts DEF HeartbeatType
<1>5. [Now EXCEPT !.heartbeat.deadlines = @ \ {nonce}, !.heartbeat.pongTimer = 0] = run
    BY Parts DEF State
<1>6. Steps("deadline", "idle",
            IF connection.finished \/ heartbeat.pendingPing # nonce THEN run
            ELSE Goes([run EXCEPT !.heartbeat.pendingPing = 0, !.heartbeat.expired = nonce],
                      "deadline", "failing"))
    BY <1>5 DEF PongDeadline
<1> HIDE DEF g
<1>7. run \in State /\ run.heartbeat = g /\ run.connection = connection /\ run.pc = pc
    BY <1>4, Parts DEF State
<1> HIDE DEF run
<1>8. CASE connection.finished \/ heartbeat.pendingPing # nonce
  <2>1. Steps("deadline", "idle", run)
      BY <1>6, <1>8
  <2>2. /\ Typed' /\ FramesStay /\ SentStays
        /\ connection' = connection /\ heartbeat' = g /\ pc' = pc
      BY <1>1, <1>7, <2>1, Parts, StepsDo
  <2>3. /\ "session" \in Threads /\ Moves("session", pc["session"], pc["session"])
        /\ Roles' /\ NobodyStarts
      BY <2>2, StandsStill
  <2>4. Pings' /\ AnsweredDoNotExpire'
    <3>1. Pings'
        BY <1>2, <1>3, <1>4, <2>2, Parts DEF Pings
    <3>2. QED
        BY <1>4, <2>2, <3>1, Parts DEF AnsweredDoNotExpire
  <2>5. HeartbeatGoesOn'
    <3>1. CASE connection.finished
        BY <2>2, <3>1 DEF HeartbeatGoesOn
    <3>2. CASE heartbeat.pendingPing # nonce
      <4>1. heartbeat.pendingPing \in heartbeat.deadlines => heartbeat.pendingPing \in left
          BY <3>2
      <4>2. PingOnItsWay => PingOnItsWay'
          BY <1>4, <2>2 DEF PingOnItsWay, FramesStay, Ping
      <4>3. QED
          BY <1>4, <2>2, <4>1, <4>2, Parts DEF HeartbeatGoesOn, FramesStay
    <3>3. QED
        BY <1>8, <3>1, <3>2
  <2>6. PhaseStays /\ IsCloser(pc["session"]) <= IsCloser(pc["session"])
      BY <2>2 DEF PhaseStays, IsCloser
  <2>7. QED
      BY <2>2, <2>3, <2>4, <2>5, <2>6, HeartMove
<1>9. CASE ~connection.finished /\ heartbeat.pendingPing = nonce
  <2>1. /\ h \in HeartbeatType /\ h.nonce = heartbeat.nonce /\ h.pendingPing = 0
        /\ h.pingTimer = heartbeat.pingTimer /\ h.pongTimer = 0 /\ h.deadlines = left
        /\ h.answered = heartbeat.answered /\ h.expired = nonce
    <3> HIDE DEF left
    <3>1. QED
        BY <1>3, <1>4 DEF HeartbeatType
  <2>2. [run EXCEPT !.heartbeat.pendingPing = 0, !.heartbeat.expired = nonce] = r
      BY <1>7 DEF State
  <2>3. Steps("deadline", "idle", Goes(r, "deadline", "failing"))
      BY <1>6, <1>9, <2>2
  <2> HIDE DEF h
  <2>4. r \in State /\ r.heartbeat = h /\ r.connection = connection /\ r.pc = pc
      BY <1>7, <2>1 DEF State
  <2> HIDE DEF r
  <2>5. /\ Typed' /\ FramesStay /\ SentStays /\ Moves("deadline", "idle", "failing")
        /\ connection' = connection /\ heartbeat' = h
      BY <1>1, <2>3, <2>4, Parts, GoesDo
  <2>6. Roles' /\ NobodyStarts
      BY <1>1, <2>5, Parts, RolesKept, OtherPlaces
  <2>7. heartbeat.answered < nonce
      BY <1>3, <1>9, Parts DEF Pings
  <2>8. Pings'
      BY <1>2, <1>3, <2>1, <2>5, <2>6, Parts DEF Pings, NobodyStarts, PlaceKept
  <2>9. AnsweredDoNotExpire'
      BY <1>2, <1>3, <2>1, <2>5, <2>7 DEF AnsweredDoNotExpire
  <2>10. HeartbeatGoesOn'
    <3>1. pc'["deadline"] = "failing"
        BY <1>1, <2>5, Parts DEF Moves
    <3>2. QED
        BY <1>1, <3>1, SomebodyWakes
  <2>11. PhaseStays
      BY <2>5 DEF PhaseStays
  <2>12. QED
      BY <1>1, <2>5, <2>6, <2>8, <2>9, <2>10, <2>11, HeartMove
<1>10. QED
    BY <1>8, <1>9

--------------------------------------------------------------------------------
\* The queue

\* The frame that is taken back leaves, and the others stay.
LEMMA RemovedFrame ==
    ASSUME NEW s \in Seq(Queued), NEW i \in 1..Len(s)
    PROVE  /\ RemoveAt(s, i) \in Seq(Queued)
           /\ Len(RemoveAt(s, i)) = Len(s) - 1
           /\ \A j \in 1..Len(s) : j # i =>
                \E k \in DOMAIN RemoveAt(s, i) : RemoveAt(s, i)[k] = s[j]
<1> DEFINE front == SubSeq(s, 1, i - 1)
           back  == SubSeq(s, i + 1, Len(s))
<1>1. /\ front \in Seq(Queued) /\ Len(front) = i - 1
      /\ \A j \in 1..(i - 1) : front[j] = s[j]
    OBVIOUS
<1>2. /\ back \in Seq(Queued) /\ Len(back) = Len(s) - i
      /\ \A j \in 1..(Len(s) - i) : back[j] = s[i + j]
    OBVIOUS
<1>3. RemoveAt(s, i) = front \o back
    BY DEF RemoveAt
<1> HIDE DEF front, back
<1>4. /\ front \o back \in Seq(Queued)
      /\ Len(front \o back) = Len(front) + Len(back)
      /\ \A j \in 1..(Len(front) + Len(back)) :
            (front \o back)[j] = IF j <= Len(front) THEN front[j] ELSE back[j - Len(front)]
    BY <1>1, <1>2, ConcatProperties
<1>5. Len(front \o back) = Len(s) - 1 /\ DOMAIN (front \o back) = 1..(Len(s) - 1)
    BY <1>1, <1>2, <1>4
<1>6. ASSUME NEW j \in 1..Len(s), j # i
      PROVE  \E k \in 1..(Len(s) - 1) : (front \o back)[k] = s[j]
  <2>0. Len(s) \in Nat /\ i \in Nat /\ j \in Nat /\ 1 <= i /\ i <= Len(s) /\ 1 <= j /\ j <= Len(s)
      OBVIOUS
  <2>1. CASE j < i
    <3>1. j \in 1..(i - 1) /\ j \in 1..(Len(s) - 1) /\ j <= Len(front)
        BY <1>1, <2>1
    <3>2. (front \o back)[j] = s[j]
        BY <1>1, <1>2, <1>4, <3>1
    <3>3. QED
        BY <3>1, <3>2
  <2>2. CASE j > i
    <3>1. /\ j - 1 \in 1..(Len(s) - 1) /\ ~(j - 1 <= Len(front))
          /\ j - i \in 1..(Len(s) - i) /\ (j - 1) - Len(front) = j - i /\ i + (j - i) = j
        BY <1>1, <2>0, <2>2
    <3>2. (front \o back)[j - 1] = back[j - i]
        BY <1>1, <1>2, <1>4, <3>1
    <3>3. back[j - i] = s[j]
        BY <1>2, <3>1
    <3>4. QED
        BY <3>1, <3>2, <3>3
  <2>3. j < i \/ j > i
      BY <1>6, <2>0
  <2>4. QED
      BY <2>1, <2>2, <2>3
<1>7. QED
    BY <1>3, <1>4, <1>5, <1>6

\* A step of the queue that the threads learn nothing of.
LEMMA QueueMove ==
    ASSUME ConnectionInv, queue' \in Seq(Queued), Len(queue') <= Len(queue), failed' = failed,
           FramesKept, SentStays, UNCHANGED <<connection, heartbeat, pc>>
    PROVE  ConnectionInv'
<1>1. Typed'
  <2>1. Now' = Now /\ Now \in State
      BY Parts DEF Now
  <2>2. Len(queue') \in Nat /\ Len(queue) \in Nat /\ Len(queue) <= MaxQueuedFrames
      BY Parts DEF Typed
  <2>3. Len(queue') <= MaxQueuedFrames
      BY <2>2, ConnectionAssumption
  <2>4. QED
      BY <2>1, <2>3, Parts DEF Typed, SentStays
<1>2. Calm
    BY DEF Calm, PhaseStays
<1>3. /\ "session" \in Threads /\ Moves("session", pc["session"], pc["session"])
      /\ Roles' /\ NobodyStarts
    BY StandsStill
<1>4. HeartbeatGoesOn'
  <2>1. PingOnItsWay => PingOnItsWay'
    <3>1. Ping(heartbeat.pendingPing).type = "ping" /\ Ping(heartbeat.pendingPing)' = Ping(heartbeat.pendingPing)
        BY DEF Ping
    <3>2. QED
        BY <3>1 DEF PingOnItsWay, FramesKept
  <2>2. QED
      BY <2>1, Parts DEF HeartbeatGoesOn
<1>5. IsCloser(pc["session"]) <= IsCloser(pc["session"])
    BY DEF IsCloser
<1>6. QED
    BY <1>1, <1>2, <1>3, <1>4, <1>5, CalmIsQuiet, QuietMove

LEMMA SessionCancelsKeeps ==
    ASSUME ConnectionInv, NEW i \in DOMAIN queue, SessionCancels(i)
    PROVE  ConnectionInv'
<1>1. /\ queue \in Seq(Queued) /\ i \in 1..Len(queue) /\ queue[i].frame.type = "data"
      /\ queue' = RemoveAt(queue, i) /\ failed' = failed
      /\ SentStays /\ UNCHANGED <<connection, heartbeat, pc>>
    BY Parts DEF SessionCancels, Cancel, SentStays, Typed
<1>2. /\ queue' \in Seq(Queued) /\ Len(queue') = Len(queue) - 1
      /\ \A j \in 1..Len(queue) : j # i => \E k \in DOMAIN queue' : queue'[k] = queue[j]
    BY <1>1, RemovedFrame
<1>3. FramesKept
  <2>1. ASSUME NEW j \in DOMAIN queue, queue[j].frame.type = "ping"
        PROVE  \E k \in DOMAIN queue' : queue'[k].frame = queue[j].frame
    <3>1. j \in 1..Len(queue) /\ j # i
        BY <1>1, <2>1
    <3>2. QED
        BY <1>2, <3>1
  <2>2. QED
      BY <2>1 DEF FramesKept
<1>4. Len(queue') <= Len(queue)
    BY <1>1, <1>2
<1>5. QED
    BY <1>1, <1>2, <1>3, <1>4, QueueMove

LEMMA CommitsKeeps == ConnectionInv /\ Commits => ConnectionInv'
<1> SUFFICES ASSUME ConnectionInv, Commits PROVE ConnectionInv'
    OBVIOUS
<1> DEFINE head == [queue[1] EXCEPT !.committed = TRUE]
<1>1. /\ queue \in Seq(Queued) /\ queue # <<>>
      /\ queue' = [queue EXCEPT ![1].committed = TRUE] /\ failed' = failed
      /\ SentStays /\ UNCHANGED <<connection, heartbeat, pc>>
    BY Parts DEF Commits, Commit, SentStays, Typed
<1>2. 1 \in 1..Len(queue) /\ queue[1] \in Queued
    BY <1>1
<1>3. head \in Queued /\ head.frame = queue[1].frame
    BY <1>2 DEF Queued
<1>4. queue' = [queue EXCEPT ![1] = head]
    BY <1>1
<1> HIDE DEF head
<1>5. /\ queue' \in Seq(Queued) /\ Len(queue') = Len(queue) /\ DOMAIN queue' = DOMAIN queue
      /\ \A i \in 1..Len(queue) : queue'[i] = IF i = 1 THEN head ELSE queue[i]
  <2>1. queue \in Seq(Queued)
      BY <1>1
  <2>2. /\ [queue EXCEPT ![1] = head] \in Seq(Queued)
        /\ Len([queue EXCEPT ![1] = head]) = Len(queue)
        /\ \A i \in 1..Len(queue) :
                [queue EXCEPT ![1] = head][i] = IF i = 1 THEN head ELSE queue[i]
      BY <1>2, <1>3, <2>1, ExceptSeq
  <2>3. QED
      BY <1>4, <2>1, <2>2
<1>6. \A i \in DOMAIN queue : queue'[i].frame = queue[i].frame
    BY <1>1, <1>3, <1>5
<1>7. FramesKept
    BY <1>5, <1>6 DEF FramesKept
<1>8. Len(queue') <= Len(queue)
    BY <1>1, <1>5
<1>9. QED
    BY <1>1, <1>5, <1>7, <1>8, QueueMove

\* onPingWritten arms a deadline, or finds its ping answered.
LEMMA PingWrittenState ==
    ASSUME NEW s \in State, NEW nonce \in Nat,
           ~(s.connection.finished \/ s.heartbeat.pendingPing = 0
             \/ s.heartbeat.pendingPing # nonce)
    PROVE  LET q == PingWritten(s, nonce)
           IN  /\ q \in State /\ q.connection = s.connection /\ q.pc = s.pc
               /\ q.heartbeat.pongTimer = nonce
               /\ nonce \in q.heartbeat.deadlines
               /\ q.heartbeat.deadlines \subseteq s.heartbeat.deadlines \cup {nonce}
               /\ q.heartbeat.pendingPing = s.heartbeat.pendingPing
               /\ q.heartbeat.nonce = s.heartbeat.nonce
               /\ q.heartbeat.answered = s.heartbeat.answered
               /\ q.heartbeat.expired = s.heartbeat.expired
               /\ q.heartbeat.pingTimer = s.heartbeat.pingTimer
<1> DEFINE running == (s.heartbeat.deadlines \ {s.heartbeat.pongTimer}) \cup {nonce}
           h == [s.heartbeat EXCEPT !.pongTimer = nonce, !.deadlines = running]
           q == [s EXCEPT !.heartbeat = h]
<1>1. running \in SUBSET Nat /\ nonce \in running
      /\ running \subseteq s.heartbeat.deadlines \cup {nonce}
    BY DEF State, HeartbeatType
<1>2. PingWritten(s, nonce) = q
    BY DEF PingWritten, State
<1> HIDE DEF running
<1>3. /\ h \in HeartbeatType /\ h.pongTimer = nonce /\ h.deadlines = running
      /\ h.pendingPing = s.heartbeat.pendingPing /\ h.nonce = s.heartbeat.nonce
      /\ h.answered = s.heartbeat.answered /\ h.expired = s.heartbeat.expired
      /\ h.pingTimer = s.heartbeat.pingTimer
    BY <1>1 DEF State, HeartbeatType
<1> HIDE DEF h
<1>4. q \in State /\ q.heartbeat = h /\ q.connection = s.connection /\ q.pc = s.pc
    BY <1>3 DEF State
<1> HIDE DEF q
<1>5. QED
    BY <1>1, <1>2, <1>3, <1>4

LEMMA OnWrittenKeeps == ConnectionInv /\ OnWritten => ConnectionInv'
<1> SUFFICES ASSUME ConnectionInv, OnWritten PROVE ConnectionInv'
    OBVIOUS
<1> DEFINE frame == Head(queue).frame
           s == Written(frame)
<1>1. /\ queue \in Seq(Queued) /\ queue # <<>> /\ queue' = Tail(queue) /\ failed' = failed
      /\ SentStays /\ Becomes(s) /\ ~connection.finished
    BY Parts DEF OnWritten, HeadWritten, HeadIsCommitted, SentStays, Typed
<1>2. /\ Len(queue) \in Nat \ {0} /\ Head(queue) = queue[1] /\ DOMAIN queue = 1..Len(queue)
      /\ queue' \in Seq(Queued) /\ Len(queue') = Len(queue) - 1 /\ DOMAIN queue' = 1..(Len(queue) - 1)
      /\ \A i \in 1..(Len(queue) - 1) : queue'[i] = queue[i + 1]
    BY <1>1
<1>3. frame \in [type : Types, nonce : Nat] /\ frame = queue[1].frame
  <2>1. queue[1] \in Queued
      BY <1>1, <1>2
  <2>2. QED
      BY <1>2, <2>1 DEF Queued
<1>4. \A i \in 1..Len(queue) : i # 1 => \E k \in DOMAIN queue' : queue'[k] = queue[i]
  <2>1. ASSUME NEW i \in 1..Len(queue), i # 1
        PROVE  \E k \in DOMAIN queue' : queue'[k] = queue[i]
    <3>1. i - 1 \in 1..(Len(queue) - 1) /\ (i - 1) + 1 = i
        BY <1>2, <2>1
    <3>2. queue'[i - 1] = queue[i]
        BY <1>2, <3>1
    <3>3. QED
        BY <1>2, <3>1, <3>2
  <2>2. QED
      BY <2>1
<1>5. Len(queue') <= MaxQueuedFrames /\ Len(queue') <= Len(queue)
    BY <1>2, Parts, ConnectionAssumption DEF Typed
<1>6. CASE /\ s = Now
           /\ frame.type = "ping" =>
                 heartbeat.pendingPing = 0 \/ heartbeat.pendingPing # frame.nonce
  <2>1. UNCHANGED <<connection, heartbeat, pc>>
      BY <1>1, <1>6, Parts, BecomesState
  <2>2. CASE frame.type # "ping"
    <3>1. FramesKept
        BY <1>2, <1>3, <1>4, <2>2 DEF FramesKept
    <3>2. QED
        BY <1>1, <1>2, <1>5, <2>1, <3>1, QueueMove
  <2>3. CASE frame.type = "ping"
    <3>1. PingOnItsWay /\ heartbeat.pendingPing # 0 => PingOnItsWay'
      <4>1. SUFFICES ASSUME NEW i \in DOMAIN queue, queue[i].frame = Ping(heartbeat.pendingPing),
                            heartbeat.pendingPing # 0
                     PROVE  PingOnItsWay'
          BY <2>1 DEF PingOnItsWay
      <4>2. i # 1
          BY <1>3, <1>6, <2>3, <4>1 DEF Ping
      <4>3. PICK k \in DOMAIN queue' : queue'[k] = queue[i]
          BY <1>2, <1>4, <4>2
      <4>4. Ping(heartbeat.pendingPing)' = Ping(heartbeat.pendingPing)
          BY <2>1 DEF Ping
      <4>5. QED
          BY <4>1, <4>3, <4>4 DEF PingOnItsWay
    <3>2. HeartbeatGoesOn'
        BY <1>1, <2>1, <3>1, Parts DEF HeartbeatGoesOn
    <3>3. Typed'
      <4>1. Now' = Now
          BY <2>1 DEF Now
      <4>2. QED
          BY <1>1, <1>2, <1>5, <4>1, Parts DEF Typed, SentStays
    <3>4. /\ "session" \in Threads /\ Moves("session", pc["session"], pc["session"])
          /\ Roles' /\ NobodyStarts
        BY <2>1, StandsStill
    <3>5. PhaseStays /\ heartbeat' = heartbeat /\ IsCloser(pc["session"]) <= IsCloser(pc["session"])
        BY <2>1 DEF PhaseStays, IsCloser
    <3>6. QED
        BY <1>1, <3>2, <3>3, <3>4, <3>5, QuietMove
  <2>4. QED
      BY <2>2, <2>3
<1>7. CASE s = Finish(Now)
  <2>1. /\ Now' \in State /\ connection'.finished = TRUE /\ PhaseStays
        /\ heartbeat' = heartbeat \/ Stopped(heartbeat', heartbeat)
        /\ pc' = pc
    <3>1. /\ Finish(Now) \in State
          /\ Finish(Now).connection.finished = TRUE
          /\ Finish(Now).connection.closeSent = connection.closeSent
          /\ Finish(Now).connection.closeReceived = connection.closeReceived
          /\ Finish(Now).heartbeat = heartbeat \/ Stopped(Finish(Now).heartbeat, heartbeat)
          /\ Finish(Now).pc = pc
        BY Parts, FinishState
    <3>2. /\ Now' \in State /\ connection' = Finish(Now).connection
          /\ heartbeat' = Finish(Now).heartbeat /\ pc' = pc
        BY <1>1, <1>7, <3>1, BecomesState
    <3>3. QED
        BY <3>1, <3>2 DEF PhaseStays
  <2>2. Typed'
      BY <1>1, <1>2, <1>5, <2>1, Parts DEF Typed, SentStays
  <2>3. /\ "session" \in Threads /\ Moves("session", pc["session"], pc["session"])
        /\ Roles' /\ NobodyStarts
      BY <2>1, StandsStill
  <2>4. HeartbeatGoesOn'
      BY <2>1, NothingOwed
  <2>5. IsCloser(pc["session"]) <= IsCloser(pc["session"])
      BY DEF IsCloser
  <2>6. QED
      BY <1>1, <2>1, <2>2, <2>3, <2>4, <2>5, QuietMove
<1>8. CASE /\ s = PingWritten(Now, frame.nonce)
           /\ heartbeat.pendingPing # 0 /\ heartbeat.pendingPing = frame.nonce
  <2> DEFINE Arms(r, q, nonce) ==
          /\ q \in State /\ q.connection = r.connection /\ q.pc = r.pc
          /\ q.heartbeat.pongTimer = nonce
          /\ nonce \in q.heartbeat.deadlines
          /\ q.heartbeat.deadlines \subseteq r.heartbeat.deadlines \cup {nonce}
          /\ q.heartbeat.pendingPing = r.heartbeat.pendingPing
          /\ q.heartbeat.nonce = r.heartbeat.nonce
          /\ q.heartbeat.answered = r.heartbeat.answered
          /\ q.heartbeat.expired = r.heartbeat.expired
          /\ q.heartbeat.pingTimer = r.heartbeat.pingTimer
  <2>1. Now \in State /\ frame.nonce \in Nat
        /\ ~(Now.connection.finished \/ Now.heartbeat.pendingPing = 0
             \/ Now.heartbeat.pendingPing # frame.nonce)
      BY <1>1, <1>3, <1>8, Parts
  <2>2. Arms(Now, PingWritten(Now, frame.nonce), frame.nonce)
    <3> HIDE DEF frame
    <3>1. QED
        BY <2>1, PingWrittenState
  <2> HIDE DEF s, frame
  <2>3. /\ Now' \in State /\ connection' = connection /\ pc' = pc
        /\ heartbeat'.pongTimer = frame.nonce
        /\ frame.nonce \in heartbeat'.deadlines
        /\ heartbeat'.deadlines \subseteq heartbeat.deadlines \cup {frame.nonce}
        /\ heartbeat'.pendingPing = heartbeat.pendingPing
        /\ heartbeat'.nonce = heartbeat.nonce
        /\ heartbeat'.answered = heartbeat.answered
        /\ heartbeat'.expired = heartbeat.expired
        /\ heartbeat'.pingTimer = heartbeat.pingTimer
    <3>1. s \in State
        BY <1>8, <2>2
    <3>2. /\ Now' \in State /\ connection' = s.connection /\ heartbeat' = s.heartbeat
          /\ pc' = s.pc
        BY <1>1, <3>1, BecomesState
    <3>3. QED
        BY <1>8, <2>2, <3>2, Parts
  <2>4. Typed'
      BY <1>1, <1>2, <1>5, <2>3, Parts DEF Typed, SentStays
  <2>5. /\ "session" \in Threads /\ Moves("session", pc["session"], pc["session"])
        /\ Roles' /\ NobodyStarts
      BY <2>3, StandsStill
  <2>6. frame.nonce = heartbeat.nonce /\ heartbeat.nonce \in Nat /\ heartbeat.nonce # 0
      BY <1>8, Parts DEF Pings, HeartbeatType
  <2>7. Pings' /\ AnsweredDoNotExpire'
    <3>1. heartbeat'.deadlines \subseteq 1..heartbeat.nonce
        BY <2>3, <2>6, Parts DEF Pings
    <3>2. Pings'
        BY <2>3, <2>6, <3>1, Parts DEF Pings
    <3>3. QED
        BY <2>3, <3>2, Parts DEF AnsweredDoNotExpire
  <2>8. HeartbeatGoesOn'
      BY <1>8, <2>3 DEF HeartbeatGoesOn
  <2>9. PhaseStays /\ IsCloser(pc["session"]) <= IsCloser(pc["session"])
      BY <2>3 DEF PhaseStays, IsCloser
  <2>10. QED
      BY <1>1, <2>4, <2>5, <2>7, <2>8, <2>9, HeartMove
<1>9. \/ /\ s = Now
         /\ frame.type = "ping" =>
               heartbeat.pendingPing = 0 \/ heartbeat.pendingPing # frame.nonce
      \/ s = Finish(Now)
      \/ /\ s = PingWritten(Now, frame.nonce)
         /\ heartbeat.pendingPing # 0 /\ heartbeat.pendingPing = frame.nonce
  <2>1. CASE frame.type = "ping"
      BY <1>1, <2>1, Parts DEF Written, PingWritten
  <2>2. CASE frame.type # "ping"
      BY <2>2 DEF Written
  <2>3. QED
      BY <2>1, <2>2
<1>10. QED
    BY <1>6, <1>7, <1>8, <1>9

LEMMA QueueFailsKeeps == ConnectionInv /\ QueueFails => ConnectionInv'
<1> SUFFICES ASSUME ConnectionInv, QueueFails PROVE ConnectionInv'
    OBVIOUS
<1>1. /\ queue' = <<>> /\ failed' = TRUE /\ SentStays /\ Becomes(Goes(Now, "writer", "failing"))
      /\ "writer" \in Threads /\ "failing" \in Places
      /\ IsCloser("failing") <= IsCloser(pc["writer"])
    BY DEF QueueFails, Fail, SentStays, Threads, Places, IsCloser, CloserPlaces
<1>2. /\ Now' \in State /\ connection' = connection /\ heartbeat' = heartbeat
      /\ pc' = [pc EXCEPT !["writer"] = "failing"]
  <2> DEFINE s == Goes(Now, "writer", "failing")
  <2>1. Now \in State /\ Now.connection = connection /\ Now.heartbeat = heartbeat /\ Now.pc = pc
      BY Parts
  <2>2. /\ s \in State /\ s.connection = Now.connection /\ s.heartbeat = Now.heartbeat
        /\ s.pc = [Now.pc EXCEPT !["writer"] = "failing"]
      BY <1>1, <2>1, GoesState
  <2>3. Becomes(s)
      BY <1>1
  <2> HIDE DEF s
  <2>4. QED
      BY <2>1, <2>2, <2>3, BecomesState
<1>3. Moves("writer", pc["writer"], "failing") /\ PhaseStays
    BY <1>2 DEF Moves, PhaseStays
<1>4. Typed'
  <2>1. queue' \in Seq(Queued) /\ Len(queue') = 0
      BY <1>1
  <2>2. Len(queue') <= MaxQueuedFrames
      BY <2>1, ConnectionAssumption
  <2>3. QED
      BY <1>1, <1>2, <2>1, <2>2, Parts DEF Typed, SentStays
<1>5. Roles' /\ NobodyStarts
    BY <1>1, <1>3, Parts, RolesKept, OtherPlaces
<1>6. HeartbeatGoesOn'
    BY <1>1, NothingOwed
<1>7. QED
    BY <1>1, <1>2, <1>3, <1>4, <1>5, <1>6, QuietMove

--------------------------------------------------------------------------------
\* The specification

LEMMA InitInv == Init => ConnectionInv
<1> SUFFICES ASSUME Init PROVE ConnectionInv
    OBVIOUS
<1>1. /\ queue = <<>> /\ failed = FALSE
      /\ sent = [type \in Types |-> 0] /\ late = sent
      /\ connection = [closeSent |-> FALSE, closeReceived |-> FALSE, finished |-> FALSE,
                       closeTimer |-> FALSE]
      /\ heartbeat = [pendingPing |-> 0, nonce |-> 0, pingTimer |-> TRUE, pongTimer |-> 0,
                      deadlines |-> {}, answered |-> 0, expired |-> 0]
      /\ pc = [t \in Threads |-> "idle"]
    BY DEF Init, QueueInit
<1>2. queue \in Seq(Queued) /\ Len(queue) <= MaxQueuedFrames
    BY <1>1, ConnectionAssumption
<1>3. Now \in State
    BY <1>1 DEF Now, State, ConnectionType, HeartbeatType, Places
<1>4. Typed
    BY <1>1, <1>2, <1>3 DEF Typed
<1>5. Roles
    BY <1>1 DEF Roles
<1>6. Closer("session") = 0 /\ Closer("reader") = 0 /\ Closer("pinger") = 0
      /\ Closer("deadline") = 0 /\ Closer("writer") = 0 /\ SentCloses = 0
    BY <1>1 DEF Closer, SentCloses, Threads, Types
<1>7. OneCloses
    BY <1>1, <1>6 DEF OneCloses, Closes, Threads
<1>8. LateAccount
    BY <1>1, <1>6 DEF LateAccount, Types
<1>9. Pings /\ AnsweredDoNotExpire /\ HeartbeatGoesOn
    BY <1>1 DEF Pings, AnsweredDoNotExpire, HeartbeatGoesOn, Threads
<1>10. QED
    BY <1>4, <1>5, <1>7, <1>8, <1>9 DEF ConnectionInv

LEMMA NextKeeps == ConnectionInv /\ Next => ConnectionInv'
<1> SUFFICES ASSUME ConnectionInv, Next PROVE ConnectionInv'
    OBVIOUS
<1>1. CASE Session
    BY <1>1, SessionSendsKeeps, InitiateCloseKeeps, SessionCancelsKeeps DEF Session
<1>2. CASE SessionGoesOn
    BY <1>2, SendsDataKeeps, SendsCloseKeeps, ArmsCloseTimerKeeps DEF SessionGoesOn
<1>3. CASE Peer
  <2>1. CASE ReadsViolation
      BY <2>1, ReaderMoves DEF ReadsViolation, Reads
  <2>2. CASE ReadsEnd
      BY <2>2, ReaderMoves DEF ReadsEnd, Reads
  <2>3. QED
      BY <1>3, <2>1, <2>2, ReadsPingKeeps, ReadsPongKeeps, ReadsCloseKeeps DEF Peer
<1>4. CASE ReaderGoesOn
  <2>1. CASE SendsLastClose("reader", "answered", "idle")
      BY <2>1, LastCloseKeeps DEF Threads, CloserPlaces
  <2>2. QED
      BY <1>4, <2>1, SchedulesNextPingKeeps, AnswersCloseKeeps, ReaderFinishesKeeps DEF ReaderGoesOn
<1>5. CASE PingerGoesOn
  <2>1. CASE Fails("pinger", "refused")
      BY <2>1, FailsKeeps DEF Threads
  <2>2. CASE SendsLastClose("pinger", "failedFirst", "refused")
      BY <2>2, LastCloseKeeps DEF Threads, CloserPlaces
  <2>3. QED
      BY <1>5, <2>1, <2>2, ChecksPingKeeps, SendsPingKeeps, PingRefusedKeeps DEF PingerGoesOn
<1>6. ASSUME NEW t \in Threads, FailureGoesOn(t)
      PROVE  ConnectionInv'
  <2>1. CASE Fails(t, "idle")
      BY <2>1, FailsKeeps
  <2>2. CASE SendsLastClose(t, "failed", "idle")
      BY <2>2, LastCloseKeeps DEF CloserPlaces
  <2>3. QED
      BY <1>6, <2>1, <2>2 DEF FailureGoesOn
<1>7. CASE Timers
    BY <1>7, PingTimerKeeps, PongDeadlineKeeps DEF Timers
<1>8. QED
    BY <1>1, <1>2, <1>3, <1>4, <1>5, <1>6, <1>7, CloseTimerKeeps, CommitsKeeps,
       OnWrittenKeeps, QueueFailsKeeps DEF Next

LEMMA StutterKeeps == ConnectionInv /\ UNCHANGED vars => ConnectionInv'
<1> SUFFICES ASSUME ConnectionInv, UNCHANGED vars PROVE ConnectionInv'
    OBVIOUS
<1>1. queue' = queue /\ failed' = failed /\ SentStays /\ UNCHANGED <<connection, heartbeat, pc>>
    BY DEF vars, queueVars, SentStays
<1>2. FramesKept
    BY <1>1 DEF FramesKept
<1>3. queue' \in Seq(Queued) /\ Len(queue') <= Len(queue)
    BY <1>1, Parts DEF Typed
<1>4. QED
    BY <1>1, <1>2, <1>3, QueueMove

LEMMA ConnectionInvAlways == Spec => []ConnectionInv
<1>1. ConnectionInv /\ [Next]_vars => ConnectionInv'
    BY NextKeeps, StutterKeeps
<1>2. QED
    BY <1>1, InitInv, PTL DEF Spec

--------------------------------------------------------------------------------
\* What ends a ping

\* A ping is refused, and forgotten without an end of its own, only once the
\* connection closes.
Settled == EndedByItsOwn /\ (pc["pinger"] = "refused" => Closing)

LEMMA ClosingSettles ==
    ASSUME connection'.finished = TRUE \/ connection'.closeSent = TRUE
           \/ connection'.closeReceived = TRUE
    PROVE  Settled'
BY DEF Settled, EndedByItsOwn, Closing

\* The heartbeat keeps the end of its last ping.
EndKept ==
    /\ heartbeat'.nonce = heartbeat.nonce /\ heartbeat'.pendingPing = heartbeat.pendingPing
    /\ heartbeat'.answered = heartbeat.answered /\ heartbeat'.expired = heartbeat.expired

PhasesStay == PhaseStays /\ connection'.finished = connection.finished

LEMMA CalmSettles ==
    ASSUME Settled, PhasesStay, EndKept, PlaceKept("pinger", "refused") \/ Closing
    PROVE  Settled'
<1>1. Closing' = Closing
    BY DEF Closing, PhasesStay, PhaseStays
<1>2. EndedByItsOwn'
    BY <1>1 DEF Settled, EndedByItsOwn, EndKept
<1>3. pc'["pinger"] = "refused" => Closing'
    BY <1>1 DEF Settled, PlaceKept
<1>4. QED
    BY <1>2, <1>3 DEF Settled

LEMMA CalmKeepsEnd == ASSUME Calm PROVE PhasesStay /\ EndKept
BY DEF Calm, PhasesStay, EndKept

LEMMA RefusedKept ==
    ASSUME ConnectionInv, NEW t \in Threads, NEW from, NEW to, Moves(t, from, to),
           t # "pinger" \/ to # "refused"
    PROVE  PlaceKept("pinger", "refused")
<1>1. \A u \in Threads : pc'[u] = IF u = t THEN to ELSE pc[u]
    BY Parts DEF Moves
<1>2. "pinger" \in Threads
    BY DEF Threads
<1>3. QED
    BY <1>1, <1>2 DEF PlaceKept

\* A thread moves, and nothing else: it is not the pinger, or it is not refused.
LEMMA MoveSettles ==
    ASSUME ConnectionInv, Settled, NEW t \in Threads, NEW from, NEW to \in Places,
           t # "pinger" \/ to # "refused" \/ Closing, Steps(t, from, Goes(Now, t, to))
    PROVE  Settled'
<1>1. Moves(t, from, to) /\ Calm
    BY MovesOnly
<1>2. PlaceKept("pinger", "refused") \/ Closing
    BY <1>1, RefusedKept
<1>3. QED
    BY <1>1, <1>2, CalmKeepsEnd, CalmSettles

\* A frame is offered that is not a Close.
LEMMA OfferSettles ==
    ASSUME ConnectionInv, Settled, NEW frame \in [type : Types, nonce : Nat], NEW t \in Threads,
           NEW a \in Places \ {"refused"}, NEW b \in Places \ {"refused"},
           Sends(frame, Goes(Now, t, a), Goes(Now, t, b))
    PROVE  Settled'
<1>1. a \in Places /\ b \in Places /\ pc[t] \in Places /\ a # "refused" /\ b # "refused"
    BY Parts
<1>2. /\ Calm
      /\ \/ Queues(frame) /\ Moves(t, pc[t], a)
         \/ FramesStay /\ SentStays /\ Moves(t, pc[t], b)
    BY <1>1, Parts, OffersDo
<1>3. PlaceKept("pinger", "refused")
    BY <1>1, <1>2, RefusedKept
<1>4. QED
    BY <1>2, <1>3, CalmKeepsEnd, CalmSettles

\* A Close is offered, by a thread that marked it.
LEMMA CloseSettles ==
    ASSUME ConnectionInv, NEW type \in Types, NEW t \in Threads, NEW a \in Places,
           NEW b \in Places, pc[t] \in CloserPlaces,
           Sends(Frame(type), Goes(Now, t, a), Goes(Finish(Now), t, b))
    PROVE  Settled'
<1>1. pc[t] \in Places
    BY Parts
<1>2. /\ Typed'
      /\ \/ Queues(Frame(type)) /\ Moves(t, pc[t], a) /\ Calm
         \/ FramesStay /\ SentStays /\ Moves(t, pc[t], b) /\ Ended
    BY <1>1, Parts, ClosesDo
<1>3. connection.closeSent
    BY CloserHasMarked
<1>4. connection'.finished = TRUE \/ connection'.closeSent
    BY <1>2, <1>3 DEF Calm, PhaseStays, Ended
<1>5. connection'.finished = TRUE \/ connection'.closeSent = TRUE
    BY <1>2, <1>4, NowState DEF Typed, ConnectionType
<1>6. QED
    BY <1>5, ClosingSettles

LEMMA LastCloseSettles ==
    ASSUME ConnectionInv, NEW t \in Threads, NEW from \in CloserPlaces,
           NEW then \in {"idle", "refused"}, SendsLastClose(t, from, then)
    PROVE  Settled'
<1>1. /\ pc[t] \in CloserPlaces /\ "lastClose" \in Types /\ then \in Places
      /\ Sends(Frame("lastClose"), Goes(Now, t, then), Goes(Finish(Now), t, then))
    BY DEF SendsLastClose, Types, Places
<1>2. QED
    BY <1>1, CloseSettles

LEMMA FailsSettles ==
    ASSUME ConnectionInv, NEW t \in Threads, NEW then \in {"idle", "refused"}, Fails(t, then)
    PROVE  Settled'
<1>1. Ended \/ Marked
    BY Parts, FailsDo
<1>2. QED
    BY <1>1, ClosingSettles DEF Ended, Marked

\* A thread moves, and the record it leaves has closed.
LEMMA RecordSettles ==
    ASSUME ConnectionInv, NEW t \in Threads, NEW from, NEW place \in Places, NEW r \in State,
           Steps(t, from, Goes(r, t, place)),
           r.connection.finished = TRUE \/ r.connection.closeSent = TRUE
           \/ r.connection.closeReceived = TRUE
    PROVE  Settled'
<1> DEFINE s == Goes(r, t, place)
<1>1. s \in State /\ s.connection = r.connection
    BY GoesState
<1>2. Steps(t, from, s)
    OBVIOUS
<1> HIDE DEF s
<1>3. connection' = s.connection
    BY <1>1, <1>2, Parts, StepsDo
<1>4. QED
    BY <1>1, <1>3, ClosingSettles

LEMMA SessionSettles ==
    ASSUME ConnectionInv, Settled, Session \/ SessionGoesOn
    PROVE  Settled'
<1>0. "session" \in Threads
    BY DEF Threads
<1>1. CASE SessionSends
  <2>1. "sending" \in Places
      BY DEF Places
  <2>2. QED
      BY <1>0, <1>1, <2>1, MoveSettles DEF SessionSends
<1>2. CASE InitiateClose
  <2> DEFINE marked == [Now EXCEPT !.connection.closeSent = TRUE]
  <2>1. marked \in State /\ marked.connection.closeSent = TRUE
      BY Parts, MarkState
  <2>2. "closing" \in Places /\ Steps("session", "idle", Goes(marked, "session", "closing"))
      BY <1>2 DEF InitiateClose, Places
  <2> HIDE DEF marked
  <2>3. QED
      BY <1>0, <2>1, <2>2, RecordSettles
<1>3. ASSUME NEW i \in DOMAIN queue, SessionCancels(i)
      PROVE  Settled'
    BY <1>3, CalmSettles DEF SessionCancels, PhasesStay, PhaseStays, EndKept, PlaceKept
<1>4. CASE SendsData
  <2>1. /\ Frame("data") \in [type : Types, nonce : Nat] /\ "idle" \in Places \ {"refused"}
        /\ Sends(Frame("data"), Goes(Now, "session", "idle"), Goes(Now, "session", "idle"))
      BY <1>4 DEF SendsData, Frame, Types, Places
  <2>2. QED
      BY <1>0, <2>1, OfferSettles
<1>5. CASE SendsClose
  <2>1. /\ pc["session"] \in CloserPlaces /\ "close" \in Types
        /\ "arming" \in Places /\ "idle" \in Places
        /\ Sends(Frame("close"), Goes(Now, "session", "arming"),
                 Goes(Finish(Now), "session", "idle"))
      BY <1>5 DEF SendsClose, CloserPlaces, Types, Places
  <2>2. QED
      BY <1>0, <2>1, CloseSettles
<1>6. CASE ArmsCloseTimer
  <2> DEFINE armed == [Now EXCEPT !.connection.closeTimer = TRUE]
  <2>1. /\ armed \in State /\ armed.connection.closeSent = connection.closeSent
        /\ armed.connection.closeReceived = connection.closeReceived
        /\ armed.connection.finished = connection.finished
        /\ armed.heartbeat = heartbeat /\ armed.pc = pc
      BY Parts DEF State, ConnectionType
  <2>2. "idle" \in Places /\ Steps("session", "arming", Goes(armed, "session", "idle"))
      BY <1>6 DEF ArmsCloseTimer, Places
  <2> HIDE DEF armed
  <2>3. /\ Moves("session", "arming", "idle")
        /\ connection' = armed.connection /\ heartbeat' = armed.heartbeat
      BY <1>0, <2>1, <2>2, Parts, GoesDo
  <2>4. PhasesStay /\ EndKept
      BY <2>1, <2>3 DEF PhasesStay, PhaseStays, EndKept
  <2>5. QED
      BY <1>0, <2>3, <2>4, RefusedKept, CalmSettles
<1>7. QED
    BY <1>1, <1>2, <1>3, <1>4, <1>5, <1>6 DEF Session, SessionGoesOn

\* A pong that is not the pending ping's changes nothing, and the one that is ends it.
LEMMA ReadsPongSettles ==
    ASSUME ConnectionInv, Settled, NEW nonce \in 0..heartbeat.nonce, NEW running \in BOOLEAN,
           ReadsPong(nonce, running)
    PROVE  Settled'
<1>1. /\ heartbeat.nonce \in Nat /\ nonce \in Nat /\ "reader" \in Threads
      /\ Now \in State /\ Now.connection = connection /\ Now.heartbeat = heartbeat /\ Now.pc = pc
    BY Parts DEF HeartbeatType, Threads
<1>2. CASE heartbeat.pendingPing = 0 \/ heartbeat.pendingPing # nonce
  <2>1. Steps("reader", "idle", Now)
      BY <1>2 DEF ReadsPong, Reads
  <2>2. connection' = connection /\ heartbeat' = heartbeat /\ pc' = pc
      BY <1>1, <2>1, Parts, StepsDo
  <2>3. QED
      BY <2>2, CalmSettles DEF PhasesStay, PhaseStays, EndKept, PlaceKept
<1>3. CASE heartbeat.pendingPing # 0 /\ heartbeat.pendingPing = nonce
  <2> DEFINE r == CancelsPongTimer([Now EXCEPT !.heartbeat.pendingPing = 0,
                                               !.heartbeat.answered = nonce], running)
             Matches(s, q) ==
                /\ q \in State /\ q.connection = s.connection /\ q.pc = s.pc
                /\ q.heartbeat.pendingPing = 0 /\ q.heartbeat.answered = nonce
                /\ q.heartbeat.pongTimer = 0
                /\ q.heartbeat.deadlines \subseteq s.heartbeat.deadlines
                /\ q.heartbeat.nonce = s.heartbeat.nonce
                /\ q.heartbeat.expired = s.heartbeat.expired
                /\ q.heartbeat.pingTimer = s.heartbeat.pingTimer
  <2>1. Steps("reader", "idle", Goes(r, "reader", "matched")) /\ "matched" \in Places
      BY <1>3 DEF ReadsPong, Reads, Places
  <2>2. Matches(Now, r)
    <3>1. Now \in State /\ nonce \in Nat /\ running \in BOOLEAN
        BY <1>1
    <3>2. QED
        BY <3>1, MatchState, SMTT(30), ZenonT(60)
  <2> HIDE DEF r
  <2>3. r \in State /\ r.pc = pc /\ r.connection = connection
        /\ r.heartbeat.answered = nonce /\ r.heartbeat.nonce = heartbeat.nonce
      BY <1>1, <2>2
  <2> HIDE DEF Matches
  <2>4. /\ Moves("reader", "idle", "matched")
        /\ connection' = connection /\ heartbeat' = r.heartbeat
      BY <1>1, <2>1, <2>3, Parts, GoesDo
  <2>5. nonce = heartbeat.nonce
      BY <1>3, Parts DEF Pings
  <2>6. EndedByItsOwn'
      BY <2>3, <2>4, <2>5 DEF EndedByItsOwn
  <2>7. pc'["pinger"] = "refused" => Closing'
      BY <1>1, <2>4, RefusedKept DEF PlaceKept, Settled, Closing
  <2>8. QED
      BY <2>6, <2>7 DEF Settled
<1>4. QED
    BY <1>2, <1>3

LEMMA ReaderSettles ==
    ASSUME ConnectionInv, Settled, Peer \/ ReaderGoesOn
    PROVE  Settled'
<1>0. /\ "reader" \in Threads
      /\ {"idle", "failing", "finishing", "answering", "answered"} \subseteq Places
      /\ Now \in State
    BY Parts DEF Threads, Places
<1>1. CASE ReadsPing
  <2>1. /\ Frame("pong") \in [type : Types, nonce : Nat]
        /\ "idle" \in Places \ {"refused"} /\ "failing" \in Places \ {"refused"}
        /\ Sends(Frame("pong"), Now, Goes(Now, "reader", "failing"))
        /\ pc["reader"] = "idle"
      BY <1>1 DEF ReadsPing, Frame, Types, Places
  <2>2. Goes(Now, "reader", "idle") = Now
      BY <1>0, <2>1, StayingState
  <2>3. Sends(Frame("pong"), Goes(Now, "reader", "idle"), Goes(Now, "reader", "failing"))
      BY <2>1, <2>2
  <2>4. QED
      BY <1>0, <2>1, <2>3, OfferSettles
<1>2. CASE ReadsClose
  <2> DEFINE to == IF connection.closeSent THEN "finishing" ELSE "answering"
             r == [Now EXCEPT !.connection.closeReceived = TRUE]
  <2>1. Steps("reader", "idle", Goes(r, "reader", to)) /\ to \in Places
      BY <1>0, <1>2 DEF ReadsClose, Reads
  <2>2. r \in State /\ r.connection.closeReceived = TRUE
      BY Parts DEF State, ConnectionType
  <2> HIDE DEF to, r
  <2>3. QED
      BY <1>0, <2>1, <2>2, RecordSettles
<1>3. CASE ReadsViolation \/ ReadsEnd
  <2>1. \/ Steps("reader", "idle", Goes(Now, "reader", "failing"))
        \/ Steps("reader", "idle", Goes(Now, "reader", "finishing"))
      BY <1>3 DEF ReadsViolation, ReadsEnd, Reads
  <2>2. QED
      BY <1>0, <2>1, MoveSettles
<1>4. CASE SchedulesNextPing
  <2> DEFINE free == ~connection.finished /\ heartbeat.pendingPing = 0
             r == [Now EXCEPT !.heartbeat.pingTimer = @ \/ free]
  <2>1. Steps("reader", "matched", Goes(r, "reader", "idle"))
      BY <1>4 DEF SchedulesNextPing
  <2>2. free \in BOOLEAN
      BY DEF ConnectionType
  <2> HIDE DEF free
  <2>3. /\ r \in State /\ r.connection = connection /\ r.pc = pc
        /\ r.heartbeat.nonce = heartbeat.nonce
        /\ r.heartbeat.pendingPing = heartbeat.pendingPing
        /\ r.heartbeat.answered = heartbeat.answered /\ r.heartbeat.expired = heartbeat.expired
      BY <2>2, Parts DEF State, HeartbeatType
  <2> HIDE DEF r
  <2>4. /\ Moves("reader", "matched", "idle")
        /\ connection' = connection /\ heartbeat' = r.heartbeat
      BY <1>0, <2>1, <2>3, Parts, GoesDo
  <2>5. PhasesStay /\ EndKept
      BY <2>3, <2>4 DEF PhasesStay, PhaseStays, EndKept
  <2>6. QED
      BY <1>0, <2>4, <2>5, RefusedKept, CalmSettles
<1>5. CASE AnswersClose
  <2> DEFINE marked == [Now EXCEPT !.connection.closeSent = TRUE]
  <2>1. marked \in State /\ marked.connection.closeSent = TRUE
      BY Parts, MarkState
  <2>2. "answered" \in Places /\ Steps("reader", "answering", Goes(marked, "reader", "answered"))
      BY <1>0, <1>5 DEF AnswersClose
  <2> HIDE DEF marked
  <2>3. QED
      BY <1>0, <2>1, <2>2, RecordSettles
<1>6. CASE SendsLastClose("reader", "answered", "idle")
    BY <1>0, <1>6, LastCloseSettles DEF CloserPlaces
<1>7. CASE ReaderFinishes
  <2>1. Finish(Now) \in State /\ Finish(Now).connection.finished = TRUE
      BY <1>0, FinishState
  <2>2. "idle" \in Places /\ Steps("reader", "finishing", Goes(Finish(Now), "reader", "idle"))
      BY <1>0, <1>7 DEF ReaderFinishes
  <2>3. QED
      BY <1>0, <2>1, <2>2, RecordSettles
<1>8. QED
    BY <1>1, <1>2, <1>3, <1>4, <1>5, <1>6, <1>7, ReadsPongSettles DEF Peer, ReaderGoesOn

LEMMA PingerSettles ==
    ASSUME ConnectionInv, Settled, PingerGoesOn
    PROVE  Settled'
<1>0. "pinger" \in Threads /\ Now \in State
    BY Parts DEF Threads
<1>1. CASE ChecksPing
  <2> DEFINE to == IF connection.finished \/ connection.closeSent \/ connection.closeReceived
                   THEN "refused" ELSE "offering"
  <2>1. /\ Steps("pinger", "pinging", Goes(Now, "pinger", to))
        /\ to \in Places /\ (to # "refused" \/ Closing)
      BY <1>1 DEF ChecksPing, Places, Closing
  <2> HIDE DEF to
  <2>2. QED
      BY <1>0, <2>1, MoveSettles
<1>2. CASE SendsPing
  <2>1. /\ Ping(heartbeat.nonce) \in [type : Types, nonce : Nat]
        /\ "idle" \in Places \ {"refused"} /\ "failingFirst" \in Places \ {"refused"}
        /\ Sends(Ping(heartbeat.nonce), Goes(Now, "pinger", "idle"),
                 Goes(Now, "pinger", "failingFirst"))
      BY <1>2, Parts DEF SendsPing, Ping, Types, Places, HeartbeatType
  <2>2. QED
      BY <1>0, <2>1, OfferSettles
<1>3. CASE Fails("pinger", "refused")
    BY <1>0, <1>3, FailsSettles
<1>4. CASE SendsLastClose("pinger", "failedFirst", "refused")
    BY <1>0, <1>4, LastCloseSettles DEF CloserPlaces
<1>5. CASE PingRefused
  <2> DEFINE to == IF connection.finished THEN "idle" ELSE "failing"
             forgotten == IF heartbeat.pendingPing = heartbeat.nonce THEN 0
                          ELSE heartbeat.pendingPing
             h == [heartbeat EXCEPT !.pendingPing = forgotten]
             r == [Now EXCEPT !.heartbeat = h]
  <2>1. Steps("pinger", "refused", Goes(r, "pinger", to))
    <3>1. [Now EXCEPT !.heartbeat.pendingPing = IF @ = heartbeat.nonce THEN 0 ELSE @] = r
        BY Parts DEF State
    <3>2. QED
        BY <1>5, <3>1 DEF PingRefused
  <2>2. forgotten \in Nat
      BY Parts DEF HeartbeatType
  <2>3. to \in Places
      BY DEF Places
  <2> HIDE DEF forgotten, to
  <2>4. h \in HeartbeatType
      BY <2>2, Parts DEF HeartbeatType
  <2> HIDE DEF h
  <2>5. r \in State /\ r.connection = connection /\ r.pc = pc
      BY <2>4, Parts DEF State
  <2> HIDE DEF r
  <2>6. Moves("pinger", "refused", to) /\ connection' = connection
      BY <1>0, <2>1, <2>3, <2>5, Parts, GoesDo
  <2>7. Closing
      BY <2>6 DEF Moves, Settled
  <2>8. QED
      BY <2>6, <2>7 DEF Settled, EndedByItsOwn, Closing
<1>6. QED
    BY <1>1, <1>2, <1>3, <1>4, <1>5 DEF PingerGoesOn

LEMMA TimersSettle ==
    ASSUME ConnectionInv, Settled, Timers \/ CloseTimer
    PROVE  Settled'
<1>0. {"pinger", "deadline"} \subseteq Threads /\ {"pinging", "failing"} \subseteq Places
    BY DEF Threads, Places
<1>1. CASE PingTimer
  <2> DEFINE next == heartbeat.nonce + 1
             g == [heartbeat EXCEPT !.pingTimer = FALSE]
             fired == [Now EXCEPT !.heartbeat = g]
             h == [g EXCEPT !.nonce = next, !.pendingPing = next]
             r == [fired EXCEPT !.heartbeat = h]
  <2>1. next \in Nat
      BY Parts DEF HeartbeatType
  <2>2. /\ g \in HeartbeatType /\ g.nonce = heartbeat.nonce
        /\ g.pendingPing = heartbeat.pendingPing
        /\ g.answered = heartbeat.answered /\ g.expired = heartbeat.expired
      BY Parts DEF HeartbeatType
  <2>3. Steps("pinger", "idle",
              IF connection.finished \/ heartbeat.pendingPing # 0 THEN fired
              ELSE Goes([fired EXCEPT !.heartbeat.nonce = next, !.heartbeat.pendingPing = next],
                        "pinger", "pinging"))
    <3>1. [Now EXCEPT !.heartbeat.pingTimer = FALSE] = fired
        BY Parts DEF State
    <3>2. QED
        BY <1>1, <3>1 DEF PingTimer
  <2> HIDE DEF g
  <2>4. fired \in State /\ fired.heartbeat = g /\ fired.connection = connection /\ fired.pc = pc
      BY <2>2, Parts DEF State
  <2> HIDE DEF fired
  <2>5. CASE connection.finished \/ heartbeat.pendingPing # 0
    <3>1. Steps("pinger", "idle", fired)
        BY <2>3, <2>5
    <3>2. connection' = connection /\ heartbeat' = g /\ pc' = pc
        BY <1>0, <2>4, <3>1, Parts, StepsDo
    <3>3. QED
        BY <2>2, <3>2, CalmSettles DEF PhasesStay, PhaseStays, EndKept, PlaceKept
  <2>6. CASE ~(connection.finished \/ heartbeat.pendingPing # 0)
    <3>1. h \in HeartbeatType /\ h.nonce = next /\ h.pendingPing = next
        BY <2>1, <2>2 DEF HeartbeatType
    <3>2. [fired EXCEPT !.heartbeat.nonce = next, !.heartbeat.pendingPing = next] = r
        BY <2>4 DEF State
    <3>3. Steps("pinger", "idle", Goes(r, "pinger", "pinging"))
        BY <2>3, <2>6, <3>2
    <3> HIDE DEF h
    <3>4. r \in State /\ r.heartbeat = h /\ r.connection = connection /\ r.pc = pc
        BY <2>4, <3>1 DEF State
    <3> HIDE DEF r
    <3>5. /\ Moves("pinger", "idle", "pinging")
          /\ connection' = connection /\ heartbeat' = h
        BY <1>0, <3>3, <3>4, Parts, GoesDo
    <3>6. EndedByItsOwn'
        BY <3>1, <3>5 DEF EndedByItsOwn
    <3>7. pc'["pinger"] = "refused" => Closing'
        BY <1>0, <3>5, RefusedKept DEF PlaceKept, Settled, Closing
    <3>8. QED
        BY <3>6, <3>7 DEF Settled
  <2>7. QED
      BY <2>5, <2>6
<1>2. ASSUME NEW nonce \in heartbeat.deadlines, PongDeadline(nonce)
      PROVE  Settled'
  <2> DEFINE left == heartbeat.deadlines \ {nonce}
             g == [heartbeat EXCEPT !.deadlines = left, !.pongTimer = 0]
             run == [Now EXCEPT !.heartbeat = g]
             h == [g EXCEPT !.pendingPing = 0, !.expired = nonce]
             r == [run EXCEPT !.heartbeat = h]
  <2>1. nonce \in Nat /\ left \in SUBSET Nat
      BY Parts DEF HeartbeatType
  <2>2. Steps("deadline", "idle",
              IF connection.finished \/ heartbeat.pendingPing # nonce THEN run
              ELSE Goes([run EXCEPT !.heartbeat.pendingPing = 0, !.heartbeat.expired = nonce],
                        "deadline", "failing"))
    <3>1. [Now EXCEPT !.heartbeat.deadlines = @ \ {nonce}, !.heartbeat.pongTimer = 0] = run
        BY Parts DEF State
    <3>2. QED
        BY <1>2, <3>1 DEF PongDeadline
  <2> HIDE DEF left
  <2>3. /\ g \in HeartbeatType /\ g.nonce = heartbeat.nonce
        /\ g.pendingPing = heartbeat.pendingPing
        /\ g.answered = heartbeat.answered /\ g.expired = heartbeat.expired
      BY <2>1, Parts DEF HeartbeatType
  <2> HIDE DEF g
  <2>4. run \in State /\ run.heartbeat = g /\ run.connection = connection /\ run.pc = pc
      BY <2>3, Parts DEF State
  <2> HIDE DEF run
  <2>5. CASE connection.finished \/ heartbeat.pendingPing # nonce
    <3>1. Steps("deadline", "idle", run)
        BY <2>2, <2>5
    <3>2. connection' = connection /\ heartbeat' = g /\ pc' = pc
        BY <1>0, <2>4, <3>1, Parts, StepsDo
    <3>3. QED
        BY <2>3, <3>2, CalmSettles DEF PhasesStay, PhaseStays, EndKept, PlaceKept
  <2>6. CASE ~(connection.finished \/ heartbeat.pendingPing # nonce)
    <3>1. h \in HeartbeatType /\ h.nonce = heartbeat.nonce /\ h.expired = nonce
        BY <2>1, <2>3 DEF HeartbeatType
    <3>2. [run EXCEPT !.heartbeat.pendingPing = 0, !.heartbeat.expired = nonce] = r
        BY <2>4 DEF State
    <3>3. Steps("deadline", "idle", Goes(r, "deadline", "failing"))
        BY <2>2, <2>6, <3>2
    <3> HIDE DEF h
    <3>4. r \in State /\ r.heartbeat = h /\ r.connection = connection /\ r.pc = pc
        BY <2>4, <3>1 DEF State
    <3> HIDE DEF r
    <3>5. /\ Moves("deadline", "idle", "failing")
          /\ connection' = connection /\ heartbeat' = h
        BY <1>0, <3>3, <3>4, Parts, GoesDo
    <3>6. nonce = heartbeat.nonce
        BY <2>6, Parts DEF Pings, HeartbeatType
    <3>7. EndedByItsOwn'
        BY <3>1, <3>5, <3>6 DEF EndedByItsOwn
    <3>8. pc'["pinger"] = "refused" => Closing'
        BY <1>0, <3>5, RefusedKept DEF PlaceKept, Settled, Closing
    <3>9. QED
        BY <3>7, <3>8 DEF Settled
  <2>7. QED
      BY <2>5, <2>6
<1>3. CASE CloseTimer
  <2> DEFINE r == [Now EXCEPT !.connection.closeTimer = FALSE]
  <2>1. r \in State
      BY Parts DEF State, ConnectionType
  <2>2. Becomes(Finish(r))
      BY <1>3 DEF CloseTimer
  <2> HIDE DEF r
  <2>3. Finish(r) \in State /\ Finish(r).connection.finished = TRUE
      BY <2>1, FinishState
  <2>4. connection' = Finish(r).connection
      BY <2>2, <2>3, BecomesState
  <2>5. QED
      BY <2>3, <2>4, ClosingSettles
<1>4. QED
    BY <1>1, <1>2, <1>3 DEF Timers

LEMMA QueueSettles ==
    ASSUME ConnectionInv, Settled, Commits \/ OnWritten \/ QueueFails
    PROVE  Settled'
<1>0. "writer" \in Threads /\ "failing" \in Places /\ Now \in State
      /\ Now.connection = connection /\ Now.heartbeat = heartbeat /\ Now.pc = pc
    BY Parts DEF Threads, Places
<1>1. CASE Commits
    BY <1>1, CalmSettles DEF Commits, PhasesStay, PhaseStays, EndKept, PlaceKept
<1>2. CASE OnWritten
  <2> DEFINE frame == Head(queue).frame
             s == Written(frame)
             Keeps(q) ==
                /\ q \in State /\ q.connection = connection /\ q.pc = pc
                /\ q.heartbeat.nonce = heartbeat.nonce
                /\ q.heartbeat.pendingPing = heartbeat.pendingPing
                /\ q.heartbeat.answered = heartbeat.answered
                /\ q.heartbeat.expired = heartbeat.expired
  <2>1. /\ queue \in Seq(Queued) /\ queue # <<>> /\ Becomes(s)
      BY <1>2, Parts DEF OnWritten, HeadWritten, HeadIsCommitted, Typed
  <2>2. frame.nonce \in Nat
    <3>1. Head(queue) \in Queued
        BY <2>1
    <3>2. QED
        BY <3>1 DEF Queued
  <2>3. s = Now \/ s = Finish(Now) \/ s = PingWritten(Now, frame.nonce)
      BY DEF Written
  <2> HIDE DEF s, frame
  <2>4. CASE s = Finish(Now)
    <3>1. Finish(Now) \in State /\ Finish(Now).connection.finished = TRUE
        BY <1>0, FinishState
    <3>2. connection' = s.connection
        BY <2>1, <2>4, <3>1, BecomesState
    <3>3. QED
        BY <2>4, <3>1, <3>2, ClosingSettles
  <2>5. Keeps(Now)
      BY <1>0
  <2>6. Keeps(PingWritten(Now, frame.nonce))
    <3>1. CASE Now.connection.finished \/ Now.heartbeat.pendingPing = 0
               \/ Now.heartbeat.pendingPing # frame.nonce
      <4>1. PingWritten(Now, frame.nonce) = Now
          BY <3>1 DEF PingWritten
      <4>2. QED
          BY <2>5, <4>1
    <3>2. CASE ~(Now.connection.finished \/ Now.heartbeat.pendingPing = 0
                 \/ Now.heartbeat.pendingPing # frame.nonce)
        BY <1>0, <2>2, <3>2, PingWrittenState
    <3>3. QED
        BY <3>1, <3>2
  <2>7. CASE s = Now \/ s = PingWritten(Now, frame.nonce)
    <3>1. Keeps(s)
        BY <2>5, <2>6, <2>7
    <3>2. connection' = s.connection /\ heartbeat' = s.heartbeat /\ pc' = s.pc
        BY <2>1, <3>1, BecomesState
    <3>3. QED
        BY <3>1, <3>2, CalmSettles DEF PhasesStay, PhaseStays, EndKept, PlaceKept
  <2>8. QED
      BY <2>3, <2>4, <2>7
<1>3. CASE QueueFails
  <2> DEFINE s == Goes(Now, "writer", "failing")
  <2>1. /\ s \in State /\ s.connection = connection /\ s.heartbeat = heartbeat
        /\ s.pc = [pc EXCEPT !["writer"] = "failing"]
      BY <1>0, GoesState
  <2>2. Becomes(s)
      BY <1>3 DEF QueueFails
  <2> HIDE DEF s
  <2>3. connection' = connection /\ heartbeat' = heartbeat
        /\ pc' = [pc EXCEPT !["writer"] = "failing"]
      BY <2>1, <2>2, BecomesState
  <2>4. PlaceKept("pinger", "refused")
      BY <2>3, Parts DEF PlaceKept, Threads
  <2>5. QED
      BY <2>3, <2>4, CalmSettles DEF PhasesStay, PhaseStays, EndKept
<1>4. QED
    BY <1>1, <1>2, <1>3

LEMMA NextSettles == ConnectionInv /\ Settled /\ Next => Settled'
<1> SUFFICES ASSUME ConnectionInv, Settled, Next PROVE Settled'
    OBVIOUS
<1>1. ASSUME NEW t \in Threads, FailureGoesOn(t)
      PROVE  Settled'
  <2>1. CASE Fails(t, "idle")
      BY <2>1, FailsSettles
  <2>2. CASE SendsLastClose(t, "failed", "idle")
      BY <2>2, LastCloseSettles DEF CloserPlaces
  <2>3. QED
      BY <1>1, <2>1, <2>2 DEF FailureGoesOn
<1>2. QED
    BY <1>1, SessionSettles, ReaderSettles, PingerSettles, TimersSettle, QueueSettles DEF Next

LEMMA SettledAlways == Spec => []Settled
<1>1. Init => Settled
    BY DEF Init, Settled, EndedByItsOwn, Threads
<1>2. ConnectionInv /\ Settled /\ [Next]_vars => Settled'
  <2>1. CASE UNCHANGED vars
      BY <2>1 DEF vars, Settled, EndedByItsOwn, Closing
  <2>2. QED
      BY <2>1, NextSettles
<1>3. QED
    BY <1>1, <1>2, ConnectionInvAlways, PTL DEF Spec

--------------------------------------------------------------------------------
\* What was to be proved

\* The connection, its heartbeat and its counters keep their types, the queue its
\* bound, and no ping is scheduled while one is pending: WebSocketConnection and
\* WebSocketHeartbeat, whatever the threads do in whatever order.
THEOREM TypeOKAlways == Spec => []TypeOK
<1>1. ConnectionInv => TypeOK
  <2> SUFFICES ASSUME ConnectionInv PROVE TypeOK
      OBVIOUS
  <2>1. \A i \in DOMAIN queue : queue[i].frame.type \in Types
    <3>1. ASSUME NEW i \in DOMAIN queue
          PROVE  queue[i].frame.type \in Types
      <4>1. queue[i] \in Queued
          BY <3>1, Parts DEF Typed
      <4>2. QED
          BY <4>1 DEF Queued
    <3>2. QED
        BY <3>1
  <2>2. {heartbeat.pendingPing, heartbeat.pongTimer} \subseteq 0..heartbeat.nonce
      BY Parts DEF Pings, HeartbeatType
  <2>3. QED
      BY <2>1, <2>2, Parts DEF TypeOK, Typed, Pings, ConnectionType
<1>2. QED
    BY <1>1, ConnectionInvAlways, PTL

\* After a Close frame the peer gets pongs, and besides them at most one message,
\* one ping and the answer to its own Close: the check of closeSent and the frame
\* offered after it are two steps of sendTextTracked, sendPing and initiateClose.
THEOREM LateFramesOnlyAlways == Spec => []LateFramesOnly
<1>1. ConnectionInv => LateFramesOnly
  <2> SUFFICES ASSUME ConnectionInv PROVE LateFramesOnly
      OBVIOUS
  <2>1. late["data"] <= 1 /\ late["ping"] <= 1
      BY Parts DEF LateAccount
  <2>2. SentCloses \in Nat /\ SentCloses <= Closes /\ Closes \in Nat
    <3>1. sent \in [Types -> Nat]
        BY Parts DEF Typed
    <3>2. /\ Closer("session") \in {0, 1} /\ Closer("reader") \in {0, 1}
          /\ Closer("pinger") \in {0, 1} /\ Closer("deadline") \in {0, 1}
          /\ Closer("writer") \in {0, 1} /\ SentCloses \in Nat
        BY <3>1 DEF Closer, SentCloses, Types
    <3>3. QED
        BY <3>2 DEF Closes
  <2>3. late["close"] + late["lastClose"] = IF SentCloses = 0 THEN 0 ELSE SentCloses - 1
      BY Parts DEF LateAccount
  <2>4. Closes <= 1 \/ (Closes = 2 /\ connection.closeReceived)
      BY Parts DEF OneCloses
  <2>5. late["close"] + late["lastClose"] <= IF connection.closeReceived THEN 1 ELSE 0
      BY <2>2, <2>3, <2>4
  <2>6. QED
      BY <2>1, <2>5 DEF LateFramesOnly
<1>2. QED
    BY <1>1, ConnectionInvAlways, PTL

\* No pong and no deadline of an earlier ping ends a later one, and a ping whose pong
\* came does not expire, although its deadline was running: onPong and
\* onPongDeadline of WebSocketHeartbeat, for any number of pings.
THEOREM PingsEndByTheirOwnAlways == Spec => []PingsEndByTheirOwn
<1>1. ConnectionInv /\ Settled => PingsEndByTheirOwn
    BY DEF ConnectionInv, Settled, PingsEndByTheirOwn
<1>2. QED
    BY <1>1, ConnectionInvAlways, SettledAlways, PTL

\* A peer that went silent is noticed: while the connection is open there is a
\* ping timer, a ping on its way, a deadline, or somebody who closes already.
THEOREM HeartbeatGoesOnAlways == Spec => []HeartbeatGoesOn
<1>1. ConnectionInv => HeartbeatGoesOn
    BY DEF ConnectionInv
<1>2. QED
    BY <1>1, ConnectionInvAlways, PTL

================================================================================
