------------------------- MODULE LupaSessionFlowProofs -------------------------
(***************************************************************************)
(* What flows between LupaSession and its client: that a plan never waits  *)
(* for nothing, that the wire carries what ViewStream promises, that what  *)
(* is reserved for a tile has an end, that a tile the client holds is      *)
(* still reserved, and that no field leaves its type.                      *)
(*                                                                         *)
(* The invariant of LupaSessionProofs says where the token of each stage   *)
(* of the active plan is.  Wakes adds what it cannot see: a plan with no   *)
(* stage under way, which waits for a turn or for credit.  Flows relates   *)
(* the frames that wait to those the wire carried, AllEnd a delivery to    *)
(* what carries its end, and AllPlaced a tile to the one place where it    *)
(* is: no confirmation of it is on its way while the client holds it.      *)
(* Used bounds the epochs of the queues by those the client used, and      *)
(* keeps the tiles it asked for again in the past of the wire.  All are    *)
(* relative to that invariant, and have one lemma for each method and each *)
(* action.                                                                 *)
(***************************************************************************)
EXTENDS LupaSessionProofs

--------------------------------------------------------------------------------
\* The wait of a plan

\* A turn, a read or its result, of any plan: each ends in the pump.
Coming(s) ==
    \/ s.turn = "queued"
    \/ \E i \in 1..Len(s.tasks) : s.tasks[i].kind \in {"PERMIT", "TILE_READ"}
    \/ \E r \in s.reads : r.kind = "TILE"

\* A delivery has to be confirmed first.
LacksRoom(s) ==
    /\ DOMAIN s.deliveries # {}
    /\ LacksCredit(s) \/ Cardinality(DOMAIN s.deliveries) = MaxInFlight

\* Some stage of the plan is under way, or its next one waits.
Wakes(s) ==
    \/ s.closed
    \/ s.activePlan = NoPlan
    \/ ~s.activePlan.planCommitted
    \/ s.activePlan.busy
    \/ s.activePlan.doneQueued
    \/ s.activePlan.readWait
    \/ Coming(s)
    \/ LacksRoom(s)

\* A turn in use is a task or a read to come.
TurnComes(s) == s.turn = "held" => Coming(s)

LEMMA TurnHolderComes ==
    ASSUME NEW s, Turn(s)
    PROVE  TurnComes(s)
BY DEF Turn, TurnComes, NoTurn, Absent, None, Coming, PermitTasks, OpenReads

\* Where the token of a stage is, there is a wakeup.
LEMMA WakesIsWakeup ==
    ASSUME SessionInv(session), Wakes(session)
    PROVE  PlanHasAWakeup
<1> DEFINE s == session
           plan == session.activePlan
           g == session.activePlan.generation
<1>1. SUFFICES ASSUME ~s.closed, plan # NoPlan PROVE PlanWakeups \/ WaitsForCredit
  BY DEF PlanHasAWakeup
<1>2. /\ s \in SessionType /\ s.tasks \in Seq(Task) /\ s.frames \in Seq(Frame)
      /\ Stage(s) /\ FramesHold(s)
  BY <1>1 DEF SessionInv, Stages, SessionType, Queues
<1>3. /\ \A i \in 1..Len(s.tasks) : s.tasks[i] \in ToSet(s.tasks)
      /\ \A i \in 1..Len(s.frames) : s.frames[i] \in ToSet(s.frames)
  BY <1>2 DEF ToSet
<1>4. \A i \in 1..Len(Waiting(s)) : Waiting(s)[i] \in ToSet(s.frames)
  BY <1>2, <1>3, TailFacts DEF Waiting, FramesHold
<1>5. CASE ~plan.planCommitted
  <2>1. ~PlanAbsent(s, g)
    BY <1>1, <1>2, <1>5 DEF Stage, PlanStage
  <2> QED
    BY <2>1, <1>3, <1>4 DEF PlanAbsent, Absent, None, PlanTasks, PlanFrames, PlanWakeups
<1>6. CASE plan.busy
  <2>1. ~TileAbsent(s, g)
    BY <1>1, <1>2, <1>6 DEF Stage, TileStage
  <2> QED
    BY <2>1, <1>3 DEF TileAbsent, Absent, None, TileTasks, TileFrames, TileReadsOf, PlanWakeups, TileReads
<1>7. CASE plan.doneQueued
  <2>1. ~DoneAbsent(s, g)
    BY <1>1, <1>2, <1>7 DEF Stage, DoneStage
  <2> QED
    BY <2>1, <1>3, <1>4 DEF DoneAbsent, Absent, None, DoneTasks, DoneFrames, PlanWakeups
<1>8. CASE plan.readWait
  <2>1. s.turn = "queued" \/ ~None(s.tasks, PermitTasksOf(g))
    BY <1>1, <1>2, <1>8 DEF Stage, TurnStage
  <2> QED
    BY <2>1, <1>3 DEF None, PermitTasksOf, PlanWakeups
<1>9. CASE Coming(s)
  BY <1>9, <1>3 DEF Coming, PlanWakeups, TileReads
<1>10. CASE LacksRoom(s)
  BY <1>10 DEF LacksRoom, WaitsForCredit
<1> QED
  BY <1>1, <1>5, <1>6, <1>7, <1>8, <1>9, <1>10 DEF Wakes

\* What leaves the plan and the credit alone, and brings what was to come.
LEMMA KeptWakes ==
    ASSUME NEW s, Wakes(s), NEW t,
           t.activePlan = s.activePlan, s.closed => t.closed,
           DOMAIN t.deliveries = DOMAIN s.deliveries, t.freeWindowBytes = s.freeWindowBytes,
           Coming(s) => Coming(t)
    PROVE  Wakes(t)
BY DEF Wakes, LacksRoom, LacksCredit

LEMMA FramesWakes ==
    ASSUME NEW s, Wakes(s), NEW t, OnlyFrames(s, t), s.closed => t.closed
    PROVE  Wakes(t)
<1>1. /\ t.activePlan = s.activePlan /\ t.deliveries = s.deliveries
      /\ t.freeWindowBytes = s.freeWindowBytes /\ t.tasks = s.tasks
      /\ t.turn = s.turn /\ t.reads = s.reads
  BY DEF OnlyFrames, SamePlan, SameCredit, SameTurn
<1> QED
  BY <1>1, KeptWakes DEF Coming

LEMMA ClosedWakes ==
    ASSUME NEW s \in SessionType
    PROVE  Wakes(Closing(s))
BY ClosingEffect DEF Wakes

LEMMA SendErrorWakes ==
    ASSUME NEW s \in SessionType, Wakes(s), NEW epoch \in Nat
    PROVE  Wakes(SendError(s, epoch))
<1> DEFINE t == SendError(s, epoch)
<1>1. t = SendError(s, epoch)
  OBVIOUS
<1> HIDE DEF t
<1>2. /\ OnlyFrames(s, t)
      /\ t.closed \/ ~s.closed
  BY <1>1, SendErrorEffect
<1>3. Wakes(t)
  BY <1>2, FramesWakes
<1> QED
  BY <1>1, <1>3

\* The head of the tasks runs; it was not a turn nor a result.
LEMMA RanWakes ==
    ASSUME NEW s \in SessionType, Wakes(s), s.tasks # <<>>,
           Head(s.tasks).kind \notin {"PERMIT", "TILE_READ"}
    PROVE  Wakes(Ran(s))
<1> DEFINE t == Ran(s)
<1>1. t = Ran(s)
  OBVIOUS
<1> HIDE DEF t
<1>2. /\ t.activePlan = s.activePlan /\ t.deliveries = s.deliveries
      /\ t.freeWindowBytes = s.freeWindowBytes /\ t.tasks = Tail(s.tasks)
      /\ t.turn = s.turn /\ t.reads = s.reads /\ t.closed = s.closed
  BY <1>1, RanEffect DEF SamePlan, SameCredit, SameTurn
<1>3. /\ Len(s.tasks) \in Nat \ {0} /\ Len(t.tasks) = Len(s.tasks) - 1
      /\ s.tasks[1].kind \notin {"PERMIT", "TILE_READ"}
      /\ \A i \in 1..Len(t.tasks) : t.tasks[i] = s.tasks[i + 1]
  BY <1>2, TailFacts DEF SessionType
<1>4. \A i \in 1..Len(s.tasks) : i = 1 \/ (i - 1 \in 1..Len(t.tasks) /\ t.tasks[i - 1] = s.tasks[i])
  BY <1>3
<1>5. Coming(s) => Coming(t)
  BY <1>2, <1>3, <1>4 DEF Coming
<1> QED
  BY <1>1, <1>2, <1>5, KeptWakes

\* A task is queued, or could not be.
LEMMA AddedWakes ==
    ASSUME NEW s \in SessionType, NEW t \in SessionType, Wakes(s), NEW new \in Task,
           SamePlan(s, t), SameTurn(s, t), SameCredit(s, t), s.closed => t.closed,
           t.tasks = Append(s.tasks, new) \/ t.tasks = s.tasks
    PROVE  Wakes(t)
<1>1. /\ t.activePlan = s.activePlan /\ t.deliveries = s.deliveries
      /\ t.freeWindowBytes = s.freeWindowBytes
      /\ t.turn = s.turn /\ t.reads = s.reads
  BY DEF SamePlan, SameCredit, SameTurn
<1>2. \A i \in 1..Len(s.tasks) : i \in 1..Len(t.tasks) /\ t.tasks[i] = s.tasks[i]
  <2>1. s.tasks \in Seq(Task)
    BY DEF SessionType
  <2>2. /\ Len(s.tasks) \in Nat /\ Len(Append(s.tasks, new)) = Len(s.tasks) + 1
        /\ \A i \in 1..Len(s.tasks) : Append(s.tasks, new)[i] = s.tasks[i]
    BY <2>1, AppendFacts
  <2>3. \A i \in 1..Len(s.tasks) : i \in 1..Len(Append(s.tasks, new))
    BY <2>2
  <2>4. CASE t.tasks = Append(s.tasks, new)
    BY <2>2, <2>3, <2>4
  <2>5. CASE t.tasks = s.tasks
    BY <2>5
  <2> QED
    BY <2>4, <2>5
<1>3. Coming(s) => Coming(t)
  BY <1>1, <1>2 DEF Coming
<1> QED
  BY <1>1, <1>3, KeptWakes

--------------------------------------------------------------------------------
\* The pump leaves nothing waiting for nothing

LEMMA FailPlanWakes ==
    ASSUME NEW s \in SessionType, s.activePlan # NoPlan
    PROVE  Wakes(FailPlan(s))
BY FailPlanEffect DEF PlanEnds, Wakes

\* A tile is not sent by a closed session, or its frame is refused, or it waits.
LEMMA SendTileOutcome ==
    ASSUME NEW s \in SessionType, s.activePlan # NoPlan,
           s.nextDeliveryId - 1 \in DOMAIN s.deliveries, NEW after, after = SendTile(s)
    PROVE  \/ after = s /\ s.closed
           \/ after.closed /\ SameView(s, after) /\ after.tasks = s.tasks
           \/ OnlyFrames(s, after)
BY SendTileEffect, ZenonT(30)

\* The tile is under way, or the session is closed.
LEMMA SendTileWakes ==
    ASSUME NEW s \in SessionType, Account(s), s.activePlan # NoPlan
    PROVE  Wakes(SendTile(Reserve(s)))
<1> DEFINE r == Reserve(s)
           after == SendTile(r)
<1>1. r = Reserve(s) /\ after = SendTile(r)
  OBVIOUS
<1> HIDE DEF r, after
<1>2. s.nextDeliveryId \notin DOMAIN s.deliveries /\ s.nextDeliveryId \in Nat
  BY DEF Account, SessionType
<1>3. /\ r \in SessionType /\ r.activePlan = [s.activePlan EXCEPT !.pendingTile = 0, !.busy = TRUE]
      /\ r.activePlan \in ActivePlan
      /\ r.nextDeliveryId = s.nextDeliveryId + 1
      /\ DOMAIN r.deliveries = DOMAIN s.deliveries \cup {s.nextDeliveryId}
  BY <1>1, <1>2, ReserveEffect DEF Adds
<1>4. r.activePlan # NoPlan /\ r.activePlan.busy
  BY <1>3, PlanFields DEF ActivePlan, NoPlan
<1>5. r.nextDeliveryId - 1 \in DOMAIN r.deliveries
  BY <1>2, <1>3
<1>6. \/ after.closed
      \/ after.activePlan = r.activePlan
  BY <1>1, <1>3, <1>4, <1>5, SendTileOutcome DEF OnlyFrames, SamePlan
<1> QED
  BY <1>1, <1>4, <1>6 DEF Wakes

LEMMA TrySendPendingWakes ==
    ASSUME NEW s \in SessionType, Account(s), s.activePlan # NoPlan, NEW answer
    PROVE  Wakes(TrySendPending(s, answer))
<1> DEFINE plan == s.activePlan
<1>1. /\ Cardinality(DOMAIN s.deliveries) <= MaxInFlight
      /\ IsFiniteSet(DOMAIN s.deliveries)
      /\ CreditHolds(s)
      /\ plan.pendingTile \in Nat /\ plan.epoch \in Nat
      /\ s.freeWindowBytes \in Int /\ s.negotiatedWindowBytes \in Nat
  BY PlanFields DEF Account, Gone, SessionType, Ledgers
<1>2. MaxInFlight \in Nat \ {0} /\ Cardinality(DOMAIN s.deliveries) \in Nat
  BY <1>1, ConstantsAssumption, FS_CardinalityType
<1>3. CASE Cardinality(DOMAIN s.deliveries) >= MaxInFlight
  <2>1. DOMAIN s.deliveries # {} /\ Cardinality(DOMAIN s.deliveries) = MaxInFlight
    BY <1>1, <1>2, <1>3, FS_EmptySet
  <2>2. TrySendPending(s, answer) = s
    BY <1>3 DEF TrySendPending
  <2> QED
    BY <2>1, <2>2 DEF Wakes, LacksRoom
<1>4. CASE s.nextDeliveryId > MaxDeliveryId /\ ~(Cardinality(DOMAIN s.deliveries) >= MaxInFlight)
  <2>1. SendError(s, plan.epoch) \in SessionType
    BY <1>1, SendErrorEffect
  <2>2. TrySendPending(s, answer) = Closing(SendError(s, plan.epoch))
    BY <1>4 DEF TrySendPending
  <2> QED
    BY <2>1, <2>2, ClosedWakes
<1>5. CASE TrySendPending(s, answer) = FailPlan(s)
  BY <1>5, FailPlanWakes
<1>6. CASE LacksCredit(s) /\ TrySendPending(s, answer) = s /\ ~(plan.pendingTile > s.negotiatedWindowBytes)
  <2>1. DOMAIN s.deliveries # {}
    <3>1. SUFFICES ASSUME DOMAIN s.deliveries = {} PROVE FALSE
      OBVIOUS
    <3>2. Bytes(s.deliveries) = {}
      BY <3>1 DEF Bytes
    <3>3. ReservedBytes(s.deliveries) = 0
      BY <3>2, FS_EmptySet DEF ReservedBytes
    <3> QED
      BY <1>1, <1>6, <3>3 DEF CreditHolds, LacksCredit
  <2> QED
    BY <1>6, <2>1 DEF Wakes, LacksRoom
<1>7. CASE TrySendPending(s, answer) = SendTile(Reserve(s))
  BY <1>7, SendTileWakes
<1> QED
  BY <1>3, <1>4, <1>5, <1>6, <1>7 DEF TrySendPending

LEMMA StartTileReadWakes ==
    ASSUME NEW s \in SessionType, s.activePlan # NoPlan, NEW answer
    PROVE  Wakes(StartTileRead(s, answer))
<1> DEFINE after == StartTileRead(s, answer)
<1>1. after = StartTileRead(s, answer)
  OBVIOUS
<1> HIDE DEF after
<1>2. CASE (s.closed \/ s.activePlan.busy) /\ after = [s EXCEPT !.turn = "none"]
  BY <1>1, <1>2 DEF Wakes, SessionType
<1>3. CASE \E t \in SessionType : ReadFails(s, t) /\ after = FailPlan(t)
  <2>1. PICK t \in SessionType : ReadFails(s, t) /\ after = FailPlan(t)
    BY <1>3
  <2>2. t.activePlan # NoPlan
    BY <2>1 DEF ReadFails, ActivePlan, NoPlan
  <2> QED
    BY <1>1, <2>1, <2>2, FailPlanWakes
<1>4. CASE ReadStarts(s, after)
  <2>1. after.activePlan = [s.activePlan EXCEPT !.next = @ + 1, !.busy = TRUE]
    BY <1>4 DEF ReadStarts
  <2>2. after.activePlan.busy
    BY <2>1, PlanFields DEF ActivePlan
  <2> QED
    BY <1>1, <2>2 DEF Wakes
<1> QED
  BY <1>1, <1>2, <1>3, <1>4, StartTileReadCases

LEMMA PumpWakes ==
    ASSUME NEW s \in SessionType, Account(s), TurnComes(s), NEW answer
    PROVE  Wakes(Pump(s, answer))
<1> DEFINE plan == s.activePlan
<1>1. CASE s.closed \/ plan = NoPlan \/ plan.busy \/ ~plan.planCommitted
  BY <1>1 DEF Pump, Wakes
<1> SUFFICES ASSUME ~(s.closed \/ plan = NoPlan \/ plan.busy \/ ~plan.planCommitted)
             PROVE  Wakes(Pump(s, answer))
  BY <1>1
<1>2. CASE plan.pendingTile > 0
  BY <1>2, TrySendPendingWakes DEF Pump
<1>3. CASE plan.next = plan.tiles /\ ~(plan.pendingTile > 0) /\ plan.doneQueued
  BY <1>3 DEF Pump, Wakes
<1>4. CASE plan.next = plan.tiles /\ ~(plan.pendingTile > 0) /\ ~plan.doneQueued
  <2> DEFINE after == SendDone(s)
  <2>1. after = SendDone(s)
    OBVIOUS
  <2> HIDE DEF after
  <2>2. after.closed \/ after.activePlan = [plan EXCEPT !.doneQueued = TRUE]
    BY <2>1, SendDoneEffect
  <2>3. after.closed \/ after.activePlan.doneQueued
    BY <2>2, PlanFields DEF ActivePlan
  <2> QED
    BY <1>4, <2>1, <2>3 DEF Pump, Wakes
<1> SUFFICES ASSUME ~(plan.pendingTile > 0), plan.next # plan.tiles
             PROVE  Wakes(Pump(s, answer))
  BY <1>2, <1>3, <1>4
<1>5. CASE Cardinality(DOMAIN s.deliveries) >= MaxInFlight
  <2>1. /\ IsFiniteSet(DOMAIN s.deliveries) /\ MaxInFlight \in Nat \ {0}
        /\ Cardinality(DOMAIN s.deliveries) <= MaxInFlight
    BY ConstantsAssumption DEF Account, SessionType, Ledgers
  <2>2. DOMAIN s.deliveries # {} /\ Cardinality(DOMAIN s.deliveries) = MaxInFlight
    BY <1>5, <2>1, FS_EmptySet, FS_CardinalityType
  <2> QED
    BY <1>5, <2>2 DEF Pump, Wakes, LacksRoom
<1>6. CASE plan.readWait
  BY <1>6 DEF Pump, Wakes
<1> SUFFICES ASSUME ~(Cardinality(DOMAIN s.deliveries) >= MaxInFlight), ~plan.readWait
             PROVE  Wakes(RequestTileRead(s, answer))
  BY <1>5, <1>6 DEF Pump
<1>7. CASE s.turn # "none"
  <2>1. Coming(s)
    BY <1>7 DEF TurnComes, Coming, SessionType
  <2> QED
    BY <1>7, <2>1 DEF RequestTileRead, Wakes
<1>8. CASE s.turn = "none" /\ answer = "turnsFull"
  BY <1>8, FailPlanWakes DEF RequestTileRead
<1>9. CASE s.turn = "none" /\ answer = "queued"
  <2>1. RequestTileRead(s, answer) = [s EXCEPT !.turn = "queued", !.activePlan.readWait = TRUE]
    BY <1>9 DEF RequestTileRead
  <2>2. RequestTileRead(s, answer).turn = "queued"
    BY <2>1 DEF SessionType
  <2> QED
    BY <2>2 DEF Wakes, Coming
<1>10. CASE s.turn = "none" /\ answer # "turnsFull" /\ answer # "queued"
  BY <1>10, StartTileReadWakes DEF RequestTileRead
<1> QED
  BY <1>7, <1>8, <1>9, <1>10

--------------------------------------------------------------------------------
\* The handlers of the client's controls and of the timers

LEMMA TaskRunsWakes ==
    ASSUME SessionInv(session), Wakes(session), NEW kind, kind \notin {"PERMIT", "TILE_READ"},
           Running(kind)
    PROVE  Wakes(Ran(session)) /\ Ran(session) \in SessionType
<1>1. session \in SessionType /\ session.tasks # <<>> /\ Head(session.tasks).kind = kind
  BY DEF SessionInv, Running
<1> QED
  BY <1>1, RanWakes, RanEffect

LEMMA RevisesWakes ==
    ASSUME NEW s \in SessionType, Wakes(s), NEW t, NEW id, NEW state, NEW retrying, NEW timer,
           Revises(s, t, id, state, retrying, timer)
    PROVE  t \in SessionType /\ Wakes(t)
<1>1. PICK d : /\ Revised(s.deliveries[id], d, state, retrying, timer)
               /\ t = [s EXCEPT !.deliveries[id] = d]
  BY DEF Revises
<1>2. id \in DOMAIN s.deliveries /\ d \in Delivery /\ d.reservedBytes = s.deliveries[id].reservedBytes
  BY <1>1 DEF Revises, Revised
<1>3. /\ t \in SessionType /\ t.activePlan = s.activePlan /\ t.freeWindowBytes = s.freeWindowBytes
      /\ DOMAIN t.deliveries = DOMAIN s.deliveries
      /\ t.tasks = s.tasks /\ t.turn = s.turn /\ t.reads = s.reads /\ t.closed = s.closed
  BY <1>1, <1>2, DeliveryEffect DEF SamePlan, SameTurn
<1> QED
  BY <1>3, KeptWakes DEF Coming

LEMMA PumpLive ==
    ASSUME NEW s, SessionInv(s), NEW answer
    PROVE  Wakes(Pump(s, answer))
BY PumpWakes, TurnHolderComes DEF SessionInv

LEMMA HandleHelloWakes ==
    ASSUME SessionInv(session), Wakes(session), NEW answer, HandleHello(answer)
    PROVE  Wakes(session')
<1> DEFINE s == Ran(session)
           greeted == [s EXCEPT !.helloTimer = FALSE, !.state = "LISTA",
                                !.negotiatedWindowBytes = Window, !.freeWindowBytes = Window]
           welcome == Control("WELCOME", 0, NoImage)
<1>1. Wakes(s) /\ SessionInv(s) /\ s \in SessionType
  BY TaskRuns, TaskRunsWakes DEF HandleHello, GenerationKinds
<1>2. \/ session' = s
      \/ session' = Closing(s)
      \/ session' = SendError(s, 0)
      \/ session' = Closing(SendError(s, 0))
      \/ ~s.closed /\ s.state = "ESPERA_HELLO" /\ session' = Send(greeted, welcome)
  BY DEF HandleHello, Becomes
<1> HIDE DEF s
<1>3. SendError(s, 0) \in SessionType
  BY <1>1, SendErrorEffect
<1>4. CASE ~s.closed /\ s.state = "ESPERA_HELLO" /\ session' = Send(greeted, welcome)
  <2>1. s.activePlan = NoPlan
    BY <1>1, <1>4 DEF SessionInv, Account
  <2>2. greeted \in SessionType /\ greeted.activePlan = NoPlan
    <3>1. SessionInv(greeted)
      BY <1>1, <1>4, GreetedHolds
    <3>2. greeted.activePlan = s.activePlan
      BY <1>1 DEF SessionType
    <3> QED
      BY <2>1, <3>1, <3>2 DEF SessionInv
  <2>3. welcome \in Frame
    BY ControlIsFrame DEF PlainKinds, SomeImage
  <2> HIDE DEF greeted, welcome
  <2>4. session'.activePlan = NoPlan
    BY <1>4, <2>2, <2>3, SendEffect DEF OnlyFrames, SamePlan
  <2> QED
    BY <2>4 DEF Wakes
<1> QED
  BY <1>1, <1>2, <1>3, <1>4, ClosedWakes, SendErrorWakes

LEMMA HandleOpenWakes ==
    ASSUME SessionInv(session), Wakes(session), NEW answer, HandleOpen(answer)
    PROVE  Wakes(session')
<1> DEFINE s == Ran(session)
<1>1. Wakes(s) /\ s \in SessionType /\ task.epoch \in Nat
  BY TaskRuns, TaskFields, TaskRunsWakes DEF HandleOpen
<1>2. session' = s \/ session' = Closing(s) \/ session' = SendError(s, task.epoch)
  BY DEF HandleOpen
<1> HIDE DEF s
<1> QED
  BY <1>1, <1>2, ClosedWakes, SendErrorWakes

LEMMA OnOpenResolvedWakes ==
    ASSUME SessionInv(session), Wakes(session), OnOpenResolved
    PROVE  Wakes(session')
<1> DEFINE s == Ran(session)
           ended == InvalidatePlan(s)
           opened == [ended EXCEPT
                         !.opened = task.image, !.thumbnailCommittedForOpen = FALSE,
                         !.currentEpoch = task.epoch, !.state = "IMAGEN_ABIERTA"]
           manifest == Control("MANIFEST", task.epoch, task.image)
<1>1. Wakes(s) /\ s \in SessionType /\ task.epoch \in Nat /\ task.image \in SomeImage
  BY TaskRuns, TaskFields, TaskRunsWakes DEF OnOpenResolved
<1>2. \/ session' = s
      \/ session' = SendError(s, task.epoch)
      \/ ~s.closed /\ session' = Send(opened, manifest)
  BY DEF OnOpenResolved, Becomes
<1> HIDE DEF s
<1>3. CASE ~s.closed /\ session' = Send(opened, manifest)
  <2>1. ended \in SessionType /\ ended.activePlan = NoPlan
    BY <1>1, InvalidatePlanEffect DEF PlanEnds
  <2>2. session' = Send(opened, manifest)
    BY <1>3
  <2> HIDE DEF ended
  <2>3. opened \in SessionType /\ opened.activePlan = NoPlan
    BY <1>1, <2>1 DEF SessionType, States
  <2>4. manifest \in Frame
    BY <1>1, ControlIsFrame DEF PlainKinds
  <2> HIDE DEF opened, manifest
  <2>5. session'.activePlan = NoPlan
    BY <2>2, <2>3, <2>4, SendEffect DEF OnlyFrames, SamePlan
  <2> QED
    BY <2>5 DEF Wakes
<1> QED
  BY <1>1, <1>2, <1>3, SendErrorWakes

LEMMA HandleViewWakes ==
    ASSUME SessionInv(session), Wakes(session), NEW answer, HandleView(answer)
    PROVE  Wakes(session')
<1> DEFINE s == Ran(session)
<1>1. Wakes(s) /\ s \in SessionType /\ task.epoch \in Nat
  BY TaskRuns, TaskFields, TaskRunsWakes DEF HandleView
<1>2. \/ session' = s
      \/ session' = Closing(s)
      \/ session' = SendError(s, task.epoch)
      \/ session' = AcceptView(s, task.epoch)
  BY DEF HandleView, Becomes
<1> HIDE DEF s
<1>3. CASE session' = AcceptView(s, task.epoch)
  <2>1. \E rest \in Seq(Frame) : Announced(s, session', rest, task.epoch)
    BY <1>1, <1>3, AcceptViewEffect
  <2> QED
    BY <2>1 DEF Announced, Fresh, Wakes
<1> QED
  BY <1>1, <1>2, <1>3, ClosedWakes, SendErrorWakes

LEMMA HandleReleaseWakes ==
    ASSUME SessionInv(session), Wakes(session), NEW answer, HandleRelease(answer)
    PROVE  Wakes(session')
<1> DEFINE s == Ran(session)
<1>1. Wakes(s) /\ SessionInv(s) /\ s \in SessionType
  BY TaskRuns, TaskRunsWakes DEF HandleRelease, GenerationKinds
<1>2. \/ session' = s
      \/ session' = Closing(s)
      \/ ~s.closed /\ s.state # "ESPERA_HELLO" /\ session' = Pump(Acknowledge(s, {task.id}), answer)
  BY DEF HandleRelease, Becomes
<1> HIDE DEF s
<1>3. ~s.closed /\ s.state # "ESPERA_HELLO" => SessionInv(Acknowledge(s, {task.id}))
  BY <1>1, AcknowledgeHolds
<1>4. SessionInv(Acknowledge(s, {task.id})) => Wakes(Pump(Acknowledge(s, {task.id}), answer))
  BY PumpLive
<1> QED
  BY <1>1, <1>2, <1>3, <1>4, ClosedWakes

LEMMA HandleAckStateWakes ==
    ASSUME SessionInv(session), Wakes(session), NEW answer, HandleAckState(answer)
    PROVE  Wakes(session')
<1> DEFINE s == Ran(session)
<1>1. Wakes(s) /\ SessionInv(s) /\ s \in SessionType /\ task.epoch \in Nat
  BY TaskRuns, TaskFields, TaskRunsWakes DEF HandleAckState, GenerationKinds
<1>2. \/ session' = s
      \/ session' = Closing(s)
      \/ /\ ~s.closed /\ s.state # "ESPERA_HELLO"
         /\ \E received : session' = Pump(RequestSelectiveRetransmit(Acknowledge(s, received),
                                              task.epoch, task.missing, answer), answer)
  BY DEF HandleAckState, Becomes
<1> HIDE DEF s
<1>3. ASSUME ~s.closed, s.state # "ESPERA_HELLO", NEW received,
             session' = Pump(RequestSelectiveRetransmit(Acknowledge(s, received),
                                 task.epoch, task.missing, answer), answer)
      PROVE  Wakes(session')
  <2> DEFINE acknowledged == Acknowledge(s, received)
             asked == RequestSelectiveRetransmit(acknowledged, task.epoch, task.missing, answer)
  <2>1. SessionInv(acknowledged) /\ ~acknowledged.closed /\ acknowledged.state # "ESPERA_HELLO"
    BY <1>1, <1>3, AcknowledgeHolds
  <2> HIDE DEF acknowledged
  <2>2. SessionInv(asked)
    BY <1>1, <2>1, RetransmitHolds
  <2>3. session' = Pump(asked, answer)
    BY <1>3 DEF acknowledged
  <2> HIDE DEF asked
  <2> QED
    BY <2>2, <2>3, PumpLive
<1> QED
  BY <1>1, <1>2, <1>3, ClosedWakes

LEMMA OnSelectiveTileReadWakes ==
    ASSUME SessionInv(session), Wakes(session), NEW answer, OnSelectiveTileRead(answer)
    PROVE  Wakes(session')
<1> DEFINE s == Ran(session)
           id == task.id
<1>1. Wakes(s) /\ s \in SessionType
  BY TaskRunsWakes DEF OnSelectiveTileRead
<1>2. \/ session' = s
      \/ id \in DOMAIN s.deliveries /\ session' = RecoveryFailed(s, id)
      \/ id \in DOMAIN s.deliveries /\ session' = SendAgain(s, id)
  BY DEF OnSelectiveTileRead, Becomes
<1> HIDE DEF s
<1>3. CASE id \in DOMAIN s.deliveries /\ session' = RecoveryFailed(s, id)
  <2>1. PICK t : /\ Revises(s, t, id, s.deliveries[id].state, FALSE, TRUE)
                 /\ session' = SendError(t, s.deliveries[id].epoch)
    BY <1>1, <1>3, RecoveryFailedEffect
  <2>3. s.deliveries[id].epoch \in Nat
    BY <1>1, <1>3, DeliveryField DEF Delivery
  <2>4. t \in SessionType /\ Wakes(t)
    BY <1>1, <2>1, RevisesWakes
  <2> QED
    BY <2>1, <2>3, <2>4, SendErrorWakes
<1>4. CASE id \in DOMAIN s.deliveries /\ session' = SendAgain(s, id)
  <2> DEFINE frame == TileFrame("RETRY", s.deliveries[id].epoch, 0, id, NoImage)
  <2>1. \/ \E t : /\ Revises(s, t, id, s.deliveries[id].state, FALSE, s.deliveries[id].releaseTimer)
                  /\ session' = Closing(t)
        \/ frame \in Frame /\ session' = Queued(s, frame)
    BY <1>1, <1>4, SendAgainEffect
  <2> HIDE DEF frame
  <2>2. ASSUME NEW t, Revises(s, t, id, s.deliveries[id].state, FALSE, s.deliveries[id].releaseTimer),
               session' = Closing(t)
        PROVE  Wakes(session')
    <3>1. t \in SessionType
      BY <1>1, <2>2, RevisesWakes
    <3> QED
      BY <2>2, <3>1, ClosedWakes
  <2>3. CASE frame \in Frame /\ session' = Queued(s, frame)
    BY <1>1, <2>3, QueuedEffect, FramesWakes
  <2> QED
    BY <2>1, <2>2, <2>3
<1> QED
  BY <1>1, <1>2, <1>3, <1>4

LEMMA OnSelectiveTileWrittenWakes ==
    ASSUME SessionInv(session), Wakes(session), OnSelectiveTileWritten
    PROVE  Wakes(session')
<1> DEFINE s == Ran(session)
           id == task.id
           d == [s.deliveries[id] EXCEPT !.retryInProgress = FALSE, !.releaseTimer = TRUE,
                                         !.state = "WRITTEN_AWAITING_RELEASE"]
<1>1. Wakes(s) /\ s \in SessionType
  BY TaskRunsWakes DEF OnSelectiveTileWritten
<1>2. CASE id \notin DOMAIN s.deliveries
  BY <1>1, <1>2 DEF OnSelectiveTileWritten, Becomes
<1>3. CASE id \in DOMAIN s.deliveries
  <2>1. session' = [s EXCEPT !.deliveries[id] =
                       [@ EXCEPT !.retryInProgress = FALSE, !.releaseTimer = TRUE,
                                 !.state = "WRITTEN_AWAITING_RELEASE"]]
    BY <1>3 DEF OnSelectiveTileWritten, Becomes
  <2> HIDE DEF s
  <2>2. s.deliveries[id] \in Delivery
    BY <1>1, <1>3, DeliveryField
  <2>3. session' = [s EXCEPT !.deliveries[id] = d]
    BY <1>1, <2>1, <2>2 DEF SessionType
  <2>4. Revised(s.deliveries[id], d, "WRITTEN_AWAITING_RELEASE", FALSE, TRUE)
    BY <2>2 DEF Revised, Delivery
  <2> HIDE DEF d
  <2>5. Revises(s, session', id, "WRITTEN_AWAITING_RELEASE", FALSE, TRUE)
    BY <1>3, <2>3, <2>4, Zenon DEF Revises
  <2> QED
    BY <1>1, <2>5, RevisesWakes
<1> QED
  BY <1>2, <1>3

LEMMA OnTileCommittedWakes ==
    ASSUME SessionInv(session), Wakes(session), OnTileCommitted
    PROVE  Wakes(session')
<1> DEFINE s == Ran(session)
           id == task.id
           d == [s.deliveries[id] EXCEPT !.state = "COMMITTED"]
           u == [s EXCEPT !.deliveries[id] = d]
           committed == s.thumbnailCommittedForOpen \/ s.deliveries[id].openingThumbnail
<1>1. Wakes(s) /\ s \in SessionType
  BY TaskRunsWakes DEF OnTileCommitted
<1>2. CASE id \notin DOMAIN s.deliveries \/ s.deliveries[id].state # "RESERVED_QUEUED"
  BY <1>1, <1>2 DEF OnTileCommitted, Becomes
<1>3. CASE ~(id \notin DOMAIN s.deliveries \/ s.deliveries[id].state # "RESERVED_QUEUED")
  <2>1. session' = [s EXCEPT !.deliveries[id].state = "COMMITTED",
                             !.thumbnailCommittedForOpen = @ \/ s.deliveries[id].openingThumbnail]
    BY <1>3 DEF OnTileCommitted, Becomes
  <2> HIDE DEF s
  <2>2. s.deliveries[id] \in Delivery /\ id \in DOMAIN s.deliveries
    BY <1>1, <1>3, DeliveryField
  <2>3. Revised(s.deliveries[id], d, "COMMITTED", s.deliveries[id].retryInProgress,
                s.deliveries[id].releaseTimer)
    BY <2>2 DEF Revised, Delivery
  <2>4. session' = [u EXCEPT !.thumbnailCommittedForOpen = committed]
    BY <1>1, <2>1, <2>2 DEF SessionType
  <2> HIDE DEF d, committed
  <2>5. Revises(s, u, id, "COMMITTED", s.deliveries[id].retryInProgress, s.deliveries[id].releaseTimer)
    BY <2>2, <2>3, Zenon DEF Revises
  <2>6. u \in SessionType /\ Wakes(u)
    BY <1>1, <2>5, RevisesWakes
  <2> HIDE DEF u
  <2>7. /\ session'.activePlan = u.activePlan /\ session'.closed = u.closed
        /\ session'.deliveries = u.deliveries /\ session'.freeWindowBytes = u.freeWindowBytes
        /\ session'.tasks = u.tasks /\ session'.turn = u.turn /\ session'.reads = u.reads
    BY <2>4, <2>6 DEF SessionType
  <2> QED
    BY <2>6, <2>7, KeptWakes DEF Coming
<1> QED
  BY <1>2, <1>3

LEMMA TimeoutsWake ==
    ASSUME SessionInv(session), Wakes(session), OnReleaseTimeout \/ OnHelloTimeout \/ Cleanup
    PROVE  Wakes(session')
<1> DEFINE s == Ran(session)
<1>1. Wakes(s) /\ s \in SessionType
  BY TaskRunsWakes DEF OnReleaseTimeout, OnHelloTimeout, Cleanup
<1>2. session' = s \/ session' = Dismantle(s)
  BY DEF OnReleaseTimeout, OnHelloTimeout, Cleanup, Becomes
<1> HIDE DEF s
<1>3. Dismantle(s).closed
  BY <1>1, DismantleEffect
<1> QED
  BY <1>1, <1>2, <1>3 DEF Wakes

--------------------------------------------------------------------------------
\* The callbacks of a plan

LEMMA OnPlanCommittedWakes ==
    ASSUME SessionInv(session), Wakes(session), NEW answer, OnPlanCommitted(answer)
    PROVE  Wakes(session')
<1> DEFINE s == session
           plan == [s.activePlan EXCEPT !.planCommitted = TRUE]
           t == [Ran(s) EXCEPT !.activePlan = plan]
<1>1. Running("PLAN_COMMITTED") /\ s.tasks # <<>> /\ task = Head(s.tasks) /\ task.kind = "PLAN_COMMITTED"
  BY TaskRuns DEF OnPlanCommitted, task
<1>2. /\ Wakes(Ran(s)) /\ Ran(s) \in SessionType /\ Ran(s).activePlan = s.activePlan
      /\ s.activePlan.generation = task.generation => s.activePlan # NoPlan
  BY <1>1, TaskRunsWakes, CallbackRuns
<1>3. CASE s.activePlan.generation # task.generation
  BY <1>2, <1>3 DEF OnPlanCommitted, Becomes
<1>4. CASE s.activePlan.generation = task.generation
  <2>1. s.activePlan # NoPlan /\ s.activePlan \in ActivePlan
    BY <1>2, <1>4, PlanFields DEF SessionInv
  <2>2. session' = Pump(t, answer)
    <3>1. session' = Pump([Ran(s) EXCEPT !.activePlan.planCommitted = TRUE], answer)
      BY <1>2, <1>4 DEF OnPlanCommitted, Becomes
    <3>2. t = [Ran(s) EXCEPT !.activePlan.planCommitted = TRUE]
      BY <1>2, <2>1 DEF SessionType
    <3> HIDE DEF t
    <3> QED
      BY <3>1, <3>2, Zenon
  <2>3. plan \in ActivePlan /\ plan.readWait = s.activePlan.readWait
    BY <2>1 DEF ActivePlan
  <2>4. t = [Ran(s) EXCEPT !.activePlan = plan]
    OBVIOUS
  <2> HIDE DEF t, plan
  <2>5. s.turn = "queued" => plan.readWait
    BY <2>3 DEF SessionInv, Turn
  <2>6. Progresses(s, t, plan)
    BY <1>1, <2>1, <2>3, <2>4, <2>5, PlanChanges
  <2>7. t \in SessionType /\ Account(t) /\ TurnComes(t)
    BY <1>1, <2>6, TurnHolderComes DEF Progresses
  <2> QED
    BY <2>2, <2>7, PumpWakes
<1> QED
  BY <1>3, <1>4

LEMMA OnDoneCommittedWakes ==
    ASSUME SessionInv(session), Wakes(session), OnDoneCommitted
    PROVE  Wakes(session')
<1> DEFINE s == Ran(session)
<1>1. Wakes(s) /\ s \in SessionType
  BY TaskRunsWakes DEF OnDoneCommitted
<1>2. session' = s \/ session' = [s EXCEPT !.activePlan = NoPlan]
  BY DEF OnDoneCommitted, Becomes
<1> HIDE DEF s
<1>3. [s EXCEPT !.activePlan = NoPlan].activePlan = NoPlan
  BY <1>1 DEF SessionType
<1> QED
  BY <1>1, <1>2, <1>3 DEF Wakes

LEMMA OnTileReadWakes ==
    ASSUME SessionInv(session), NEW answer, OnTileRead(answer)
    PROVE  Wakes(session')
<1> DEFINE s == session
           r == Ran(s)
           idle == [s.activePlan EXCEPT !.busy = FALSE]
           t == [r EXCEPT !.activePlan = idle]
           plan == [s.activePlan EXCEPT !.busy = FALSE, !.pendingTile = task.bytes]
           u == [r EXCEPT !.activePlan = plan]
<1>1. /\ task.kind = "TILE_READ" /\ task \in Task /\ s \in SessionType
      /\ s.tasks # <<>> /\ task = Head(s.tasks) /\ task.bytes \in Nat /\ task \notin PermitTasks
  BY TaskRuns, TaskFields DEF OnTileRead, task, SessionInv, PermitTasks
<1>2. /\ r \in SessionType /\ r.activePlan = s.activePlan
      /\ Account(r) /\ TurnComes(r)
  BY <1>1, RanFacts, TurnHolderComes DEF SamePlan
<1>3. CASE ~BelongsToPlan(r, task.generation)
  <2>1. session' = Pump(r, answer)
    BY <1>3 DEF OnTileRead, Becomes, StaleResult
  <2> QED
    BY <1>2, <2>1, PumpWakes
<1>4. CASE BelongsToPlan(r, task.generation)
  <2>1. s.activePlan # NoPlan /\ s.activePlan \in ActivePlan
    BY <1>1, <1>2, <1>4, PlanFields DEF BelongsToPlan
  <2>2. \/ task.bytes = 0 /\ session' = FailPlan(t)
        \/ task.bytes # 0 /\ session' = IF u.closed THEN u ELSE TrySendPending(u, answer)
    <3>1. t = [r EXCEPT !.activePlan.busy = FALSE]
      BY <1>2, <2>1 DEF SessionType
    <3>2. u = [t EXCEPT !.activePlan.pendingTile = task.bytes]
      BY <1>2, <2>1 DEF SessionType, ActivePlan
    <3> DEFINE v == [r EXCEPT !.activePlan.busy = FALSE]
               w == [v EXCEPT !.activePlan.pendingTile = task.bytes]
    <3>3. \/ task.bytes = 0 /\ session' = FailPlan(v)
          \/ task.bytes # 0 /\ session' = IF w.closed THEN w ELSE TrySendPending(w, answer)
      BY <1>4 DEF OnTileRead, Becomes
    <3>4. t = v
      BY <3>1
    <3> HIDE DEF t, v
    <3>5. u = w
      BY <3>2, <3>4
    <3> HIDE DEF u, w
    <3> QED
      BY <3>3, <3>4, <3>5
  <2>3. /\ idle \in ActivePlan /\ idle.readWait = s.activePlan.readWait /\ idle # NoPlan
        /\ plan \in ActivePlan /\ plan.readWait = s.activePlan.readWait /\ plan # NoPlan
    BY <1>1, <2>1 DEF ActivePlan, NoPlan
  <2>4. t = [Ran(s) EXCEPT !.activePlan = idle] /\ u = [Ran(s) EXCEPT !.activePlan = plan]
    OBVIOUS
  <2> HIDE DEF t, u, idle, plan
  <2>5. s.turn = "queued" => s.activePlan.readWait
    BY DEF SessionInv, Turn
  <2>6. CASE task.bytes = 0 /\ session' = FailPlan(t)
    <3>1. Progresses(s, t, idle)
      BY <1>1, <2>1, <2>3, <2>4, <2>5, PlanChanges
    <3>2. t \in SessionType /\ t.activePlan # NoPlan
      BY <2>3, <3>1 DEF Progresses
    <3> QED
      BY <2>6, <3>2, FailPlanWakes
  <2>7. CASE task.bytes # 0 /\ session' = IF u.closed THEN u ELSE TrySendPending(u, answer)
    <3>1. Progresses(s, u, plan)
      BY <1>1, <2>1, <2>3, <2>4, <2>5, PlanChanges
    <3>2. u \in SessionType /\ Account(u) /\ u.activePlan # NoPlan
      BY <2>3, <3>1 DEF Progresses
    <3>3. u.closed => Wakes(u)
      BY DEF Wakes
    <3>4. Wakes(TrySendPending(u, answer))
      BY <3>2, TrySendPendingWakes
    <3> QED
      BY <2>7, <3>3, <3>4
  <2> QED
    BY <2>2, <2>6, <2>7
<1> QED
  BY <1>3, <1>4

LEMMA OnReadPermitGrantedWakes ==
    ASSUME SessionInv(session), NEW answer, OnReadPermitGranted(answer)
    PROVE  Wakes(session')
<1> DEFINE s == session
           r == Ran(s)
           returned == [r EXCEPT !.turn = "none"]
           plan == [s.activePlan EXCEPT !.readWait = FALSE]
           t == [r EXCEPT !.activePlan = plan]
<1>1. s \in SessionType /\ s.tasks # <<>>
  BY TaskRuns DEF OnReadPermitGranted, SessionInv
<1>2. /\ r \in SessionType /\ Account(r) /\ r.activePlan = s.activePlan
  BY <1>1, RanFacts DEF SamePlan
<1>3. CASE r.closed \/ ~BelongsToPlan(r, task.generation)
  <2>1. session' = Pump(returned, answer)
    BY <1>3 DEF OnReadPermitGranted, Becomes, PermitReturned
  <2>2. returned = [r EXCEPT !.turn = "none"]
    OBVIOUS
  <2> HIDE DEF returned, r
  <2>3. /\ returned \in SessionType /\ returned.turn = "none"
        /\ SamePlan(r, returned) /\ SameCredit(r, returned)
        /\ returned.closed = r.closed /\ returned.state = r.state
    BY <1>2, <2>2 DEF SessionType, SamePlan, SameCredit
  <2>4. Account(returned)
    BY <1>2, <2>3, AccountSame
  <2>5. TurnComes(returned)
    BY <2>3 DEF TurnComes
  <2> QED
    BY <2>1, <2>3, <2>4, <2>5, PumpWakes
<1>4. CASE ~(r.closed \/ ~BelongsToPlan(r, task.generation))
  <2>1. s.activePlan # NoPlan /\ s.activePlan \in ActivePlan
    BY <1>1, <1>2, <1>4, PlanFields DEF BelongsToPlan
  <2>2. plan \in ActivePlan /\ plan # NoPlan
    BY <2>1 DEF ActivePlan, NoPlan
  <2>3. session' = StartTileRead(t, answer)
    <3>1. t = [r EXCEPT !.activePlan.readWait = FALSE]
      BY <1>2, <2>1 DEF SessionType
    <3>2. session' = StartTileRead([r EXCEPT !.activePlan.readWait = FALSE], answer)
      BY <1>4 DEF OnReadPermitGranted, Becomes
    <3> HIDE DEF t
    <3> QED
      BY <3>1, <3>2, Zenon
  <2>4. t = [r EXCEPT !.activePlan = plan]
    OBVIOUS
  <2> HIDE DEF r, plan
  <2>5. t \in SessionType /\ t.activePlan = plan
    BY <1>2, <2>2, <2>4, PlanEffect
  <2> QED
    BY <2>2, <2>3, <2>5, StartTileReadWakes
<1> QED
  BY <1>3, <1>4

LEMMA OnTileWrittenWakes ==
    ASSUME SessionInv(session), Wakes(session), NEW answer, OnTileWritten(answer)
    PROVE  Wakes(session')
<1> DEFINE s == Written(session, task.id)
           r == Written(Ran(session), task.id)
           plan == [s.activePlan EXCEPT !.busy = FALSE, !.sentTiles = s.activePlan.sentTiles + 1]
           t == [r EXCEPT !.activePlan = plan]
<1>1. /\ task.kind = "TILE_WRITTEN" /\ task \in Task
      /\ session.tasks # <<>> /\ task = Head(session.tasks)
  BY TaskRuns DEF OnTileWritten, task
<1>2. SessionInv(s) /\ Wakes(s)
  <2>1. s = Written(session, task.id)
    OBVIOUS
  <2> HIDE DEF s
  <2>2. session \in SessionType
    BY DEF SessionInv
  <2>3. \/ s = session
        \/ Revises(session, s, task.id, "WRITTEN_AWAITING_RELEASE",
                   session.deliveries[task.id].retryInProgress, TRUE)
    BY <2>1, <2>2, WrittenEffect
  <2>4. Wakes(s)
    BY <2>2, <2>3, RevisesWakes
  <2> QED
    BY <2>1, <2>4, WrittenHolds
<1>3. r = Ran(s) /\ s.tasks = session.tasks
  BY <1>1, WrittenRan DEF SessionInv
<1>4. \/ ~BelongsToPlan(r, task.generation) /\ session' = r
      \/ /\ BelongsToPlan(r, task.generation)
         /\ session' = Pump([r EXCEPT !.activePlan.busy = FALSE,
                                      !.activePlan.sentTiles = @ + 1], answer)
  BY DEF OnTileWritten, Becomes
<1> HIDE DEF s, r
<1>5. /\ s.tasks # <<>> /\ task = Head(s.tasks) /\ s \in SessionType
      /\ r \in SessionType /\ r.activePlan = s.activePlan
  BY <1>1, <1>2, <1>3, RanEffect DEF SessionInv, SamePlan
<1>6. CASE ~BelongsToPlan(r, task.generation)
  BY <1>1, <1>2, <1>3, <1>4, <1>5, <1>6, RanWakes
<1>7. CASE BelongsToPlan(r, task.generation)
  <2>1. s.activePlan # NoPlan /\ s.activePlan \in ActivePlan
    BY <1>5, <1>7, PlanFields DEF BelongsToPlan
  <2>2. session' = Pump(t, answer)
    <3>1. [r EXCEPT !.activePlan.busy = FALSE, !.activePlan.sentTiles = @ + 1] = t
      BY <1>5, <2>1 DEF SessionType, ActivePlan
    <3>2. session' = Pump([r EXCEPT !.activePlan.busy = FALSE,
                                    !.activePlan.sentTiles = @ + 1], answer)
      BY <1>4, <1>7
    <3> QED
      BY <3>1, <3>2, Zenon
  <2>3. plan \in ActivePlan /\ plan.readWait = s.activePlan.readWait
    <3>1. s.activePlan.sentTiles + 1 \in Nat
      BY <2>1 DEF ActivePlan
    <3> QED
      BY <2>1, <3>1 DEF ActivePlan
  <2>4. t = [Ran(s) EXCEPT !.activePlan = plan]
    BY <1>3
  <2> HIDE DEF t, plan
  <2>5. s.turn = "queued" => plan.readWait
    BY <1>2, <2>3 DEF SessionInv, Turn
  <2>6. Progresses(s, t, plan)
    BY <1>2, <1>5, <2>1, <2>3, <2>4, <2>5, PlanChanges
  <2>7. t \in SessionType /\ Account(t) /\ TurnComes(t)
    BY <1>1, <1>5, <2>6, TurnHolderComes DEF Progresses
  <2> QED
    BY <2>2, <2>7, PumpWakes
<1> QED
  BY <1>6, <1>7

--------------------------------------------------------------------------------
\* The other threads

\* A task is submitted: a turn, a read or a result under way stays so.
LEMMA SubmitWakes ==
    ASSUME NEW s \in SessionType, Wakes(s), NEW new \in Task
    PROVE  Wakes(Submit(s, new)) /\ Wakes(Enqueue(s, new))
<1> DEFINE t == Submit(s, new)
           u == Enqueue(s, new)
<1>1. t = Submit(s, new) /\ u = Enqueue(s, new)
  OBVIOUS
<1> HIDE DEF t, u
<1>2. /\ t \in SessionType /\ SamePlan(s, t) /\ SameTurn(s, t) /\ SameCredit(s, t)
      /\ Ends(s, t) /\ (t.tasks = Append(s.tasks, new) \/ t.tasks = s.tasks)
  BY <1>1, SubmitEffect
<1>3. /\ u \in SessionType /\ SamePlan(s, u) /\ SameTurn(s, u) /\ SameCredit(s, u)
      /\ Ends(s, u) /\ (u.tasks = Append(s.tasks, new) \/ u.tasks = s.tasks)
  BY <1>1, EnqueueEffect
<1>4. Wakes(t)
  BY <1>2, AddedWakes DEF Ends
<1>5. Wakes(u)
  BY <1>3, AddedWakes DEF Ends
<1> QED
  BY <1>1, <1>4, <1>5

LEMMA SubmitAnyWakes ==
    ASSUME NEW s \in SessionType, Wakes(s), NEW tasks \in SUBSET Task,
           tasks = {} \/ \E new : tasks = {new}
    PROVE  Wakes(SubmitAny(s, tasks))
<1>1. CASE tasks = {}
  BY <1>1 DEF SubmitAny
<1>2. CASE tasks # {}
  <2>1. PICK new : tasks = {new}
    BY <1>2
  <2>2. new \in Task /\ SubmitAny(s, tasks) = Submit(s, new)
    BY <1>2, <2>1 DEF SubmitAny
  <2> QED
    BY <2>2, SubmitWakes
<1> QED
  BY <1>1, <1>2

LEMMA CommitHeadWakes ==
    ASSUME SessionInv(session), Wakes(session), CommitHead
    PROVE  Wakes(session')
<1> DEFINE s == session
           u == [s EXCEPT !.writing = TRUE]
           tasks == CommitTask(Head(s.frames))
<1>1. s.frames # <<>> /\ session' = SubmitAny(u, tasks)
  BY DEF CommitHead
<1>2. s \in SessionType /\ Head(s.frames) \in Frame
  BY <1>1, TailFacts DEF SessionInv, SessionType
<1>3. /\ u \in SessionType /\ u.activePlan = s.activePlan /\ u.closed = s.closed
      /\ u.deliveries = s.deliveries /\ u.freeWindowBytes = s.freeWindowBytes
      /\ u.tasks = s.tasks /\ u.turn = s.turn /\ u.reads = s.reads
  BY <1>2 DEF SessionType
<1>4. tasks \in SUBSET Task /\ (tasks = {} \/ \E new : tasks = {new})
  BY <1>2, CallbackTasks
<1> HIDE DEF u, tasks
<1>5. Wakes(u)
  BY <1>3, KeptWakes DEF Coming
<1> QED
  BY <1>1, <1>3, <1>4, <1>5, SubmitAnyWakes

LEMMA WriteDoneWakes ==
    ASSUME SessionInv(session), Wakes(session), WriteDone
    PROVE  Wakes(session')
<1> DEFINE s == session
           u == [s EXCEPT !.frames = Tail(s.frames), !.writing = FALSE]
           tasks == WrittenTask(Head(s.frames))
<1>1. s \in SessionType /\ s.writing /\ s.frames # <<>>
  BY DEF SessionInv, WriteDone, Queues, FramesHold
<1>2. session' = SubmitAny(u, tasks)
  BY <1>1 DEF WriteDone, SessionType
<1>3. Head(s.frames) \in Frame /\ Tail(s.frames) \in Seq(Frame)
  BY <1>1, TailFacts DEF SessionType
<1>4. /\ u \in SessionType /\ u.activePlan = s.activePlan /\ u.closed = s.closed
      /\ u.deliveries = s.deliveries /\ u.freeWindowBytes = s.freeWindowBytes
      /\ u.tasks = s.tasks /\ u.turn = s.turn /\ u.reads = s.reads
  BY <1>1, <1>3 DEF SessionType
<1>5. tasks \in SUBSET Task /\ (tasks = {} \/ \E new : tasks = {new})
  BY <1>3, CallbackTasks
<1> HIDE DEF u, tasks
<1>6. Wakes(u)
  BY <1>4, KeptWakes DEF Coming
<1> QED
  BY <1>2, <1>4, <1>5, <1>6, SubmitAnyWakes

\* The permit takes the place of the waiter, or the session is closed.
LEMMA GrantTurnWakes ==
    ASSUME SessionInv(session), Wakes(session), GrantTurn
    PROVE  Wakes(session')
<1> DEFINE s == session
           t == session'
           permit == [kind |-> "PERMIT", generation |-> s.activePlan.generation]
           v == Submit(s, permit)
<1>1. /\ s \in SessionType /\ s.tasks \in Seq(Task) /\ Len(s.tasks) \in Nat
      /\ s.turn = "queued" /\ t = [v EXCEPT !.turn = IF s.closed \/ Len(s.tasks) >= TaskCapacity
                                                     THEN "none" ELSE "held"]
  BY DEF GrantTurn, SessionInv, SessionType
<1>2. s.activePlan # NoPlan /\ s.activePlan.generation \in Nat \ {0}
  <2>1. s.activePlan.readWait
    BY <1>1 DEF SessionInv, Turn
  <2>2. s.activePlan # NoPlan
    BY <2>1 DEF NoPlan
  <2> QED
    BY <1>1, <2>2, PlanFields
<1>3. permit \in Task /\ permit.kind = "PERMIT"
  BY <1>2 DEF Task
<1>4. v = Submit(s, permit)
  OBVIOUS
<1> HIDE DEF permit, v
<1>5. /\ v \in SessionType
      /\ \/ v.tasks = Append(s.tasks, permit)
         \/ v.closed
  BY <1>1, <1>3, <1>4, SubmitEffect
<1>6. t.tasks = v.tasks /\ t.closed = v.closed
  BY <1>1, <1>5 DEF SessionType
<1>7. CASE v.tasks = Append(s.tasks, permit)
  <2>1. /\ Len(s.tasks) + 1 \in 1..Len(t.tasks)
        /\ t.tasks[Len(s.tasks) + 1] = permit
    BY <1>1, <1>3, <1>6, <1>7, AppendFacts
  <2> QED
    BY <1>3, <2>1 DEF Wakes, Coming
<1> QED
  BY <1>5, <1>6, <1>7 DEF Wakes

\* The read that ended is still there: its result is to come.
LEMMA TileReadEndsWakes ==
    ASSUME SessionInv(session), NEW read \in session.reads, NEW bytes, TileReadEnds(read, bytes)
    PROVE  Wakes(session')
<1> DEFINE s == session
           ended == [read EXCEPT !.bytes = bytes, !.complete = TRUE]
<1>1. s \in SessionType /\ read \in Read /\ read.kind = "TILE"
  BY DEF SessionInv, SessionType, TileReadEnds
<1>2. session' = [s EXCEPT !.reads = (s.reads \ {read}) \cup {ended}, !.turn = "none"]
  BY <1>1 DEF TileReadEnds, SessionType
<1>3. ended.kind = "TILE"
  BY <1>1 DEF Read
<1> HIDE DEF ended
<1>4. ended \in session'.reads
  BY <1>1, <1>2 DEF SessionType
<1> QED
  BY <1>3, <1>4 DEF Wakes, Coming

\* The read gives way to its result, or the session is closed.
LEMMA TileResultWakes ==
    ASSUME SessionInv(session), NEW read \in session.reads, TileResult(read)
    PROVE  Wakes(session')
<1> DEFINE s == session
           u == [s EXCEPT !.reads = s.reads \ {read}]
           new == [kind |-> "TILE_READ", generation |-> read.generation, bytes |-> read.bytes]
<1>1. s \in SessionType /\ read \in Read /\ read.kind = "TILE"
  BY DEF SessionInv, SessionType, TileResult
<1>2. session' = Enqueue(u, new)
  BY <1>1 DEF TileResult, SessionType
<1>3. new \in Task /\ new.kind = "TILE_READ"
  BY <1>1, ReadFields DEF Task
<1>4. u \in SessionType /\ u.tasks = s.tasks
  BY <1>1 DEF SessionType
<1> HIDE DEF u, new
<1>5. u.tasks \in Seq(Task) /\ Len(u.tasks) \in Nat
  BY <1>4 DEF SessionType
<1>6. \/ session'.tasks = Append(u.tasks, new)
      \/ session'.closed
  BY <1>2, <1>3, <1>4, EnqueueEffect
<1>7. CASE session'.tasks = Append(u.tasks, new)
  <2>1. /\ Len(u.tasks) + 1 \in 1..Len(session'.tasks)
        /\ session'.tasks[Len(u.tasks) + 1] = new
    BY <1>3, <1>5, <1>7, AppendFacts
  <2> QED
    BY <1>3, <2>1 DEF Wakes, Coming
<1> QED
  BY <1>6, <1>7 DEF Wakes

LEMMA RecoveryResultWakes ==
    ASSUME SessionInv(session), Wakes(session), NEW read \in session.reads, NEW ok \in BOOLEAN,
           RecoveryResult(read, ok)
    PROVE  Wakes(session')
<1> DEFINE s == session
           u == [s EXCEPT !.reads = s.reads \ {read}]
           new == [kind |-> "RETRY_READ", id |-> read.id, ok |-> ok]
<1>1. s \in SessionType /\ read \in Read /\ read.kind = "RETRY"
  BY DEF SessionInv, SessionType, RecoveryResult
<1>2. session' = Enqueue(u, new)
  BY <1>1 DEF RecoveryResult, SessionType
<1>3. new \in Task
  BY <1>1, ReadFields DEF Task
<1>4. /\ u \in SessionType /\ u.activePlan = s.activePlan /\ u.closed = s.closed
      /\ u.deliveries = s.deliveries /\ u.freeWindowBytes = s.freeWindowBytes
      /\ u.tasks = s.tasks /\ u.turn = s.turn /\ u.reads = s.reads \ {read}
  BY <1>1 DEF SessionType
<1> HIDE DEF u, new
<1>5. \A r \in s.reads : r.kind = "TILE" => r \in u.reads
  BY <1>1, <1>4
<1>6. Wakes(u)
  BY <1>4, <1>5, KeptWakes DEF Coming
<1> QED
  BY <1>2, <1>3, <1>4, <1>6, SubmitWakes

LEMMA TimersWake ==
    ASSUME SessionInv(session), Wakes(session),
           HelloTimer \/ \E id \in DOMAIN session.deliveries : ReleaseTimer(id)
    PROVE  Wakes(session')
<1>1. CASE HelloTimer
  <2> DEFINE s == session
             new == [kind |-> "HELLO_TIMEOUT"]
             t == [s EXCEPT !.helloTimer = FALSE]
  <2>1. new \in Task /\ session' = Submit(t, new)
    BY <1>1 DEF Task, HelloTimer
  <2>2. /\ t \in SessionType /\ t.activePlan = s.activePlan /\ t.closed = s.closed
        /\ t.deliveries = s.deliveries /\ t.freeWindowBytes = s.freeWindowBytes
        /\ t.tasks = s.tasks /\ t.turn = s.turn /\ t.reads = s.reads
    BY DEF SessionInv, SessionType
  <2> HIDE DEF t, new
  <2>3. Wakes(t)
    BY <2>2, KeptWakes DEF Coming
  <2> QED
    BY <2>1, <2>2, <2>3, SubmitWakes
<1>2. ASSUME NEW id \in DOMAIN session.deliveries, ReleaseTimer(id) PROVE Wakes(session')
  <2> DEFINE new == [kind |-> "RELEASE_TIMEOUT", id |-> id]
             s == session
             d == [s.deliveries[id] EXCEPT !.releaseTimer = FALSE]
             t == [s EXCEPT !.deliveries[id] = d]
  <2>1. s \in SessionType /\ s.deliveries[id] \in Delivery /\ id \in Nat
    BY DeliveryField DEF SessionInv
  <2>2. new \in Task
    BY <2>1 DEF Task
  <2>3. Revised(s.deliveries[id], d, s.deliveries[id].state, s.deliveries[id].retryInProgress, FALSE)
    BY <2>1 DEF Revised, Delivery
  <2>4. session' = Submit(t, new)
    <3>1. [s EXCEPT !.deliveries[id].releaseTimer = FALSE] = t
      BY <2>1 DEF SessionType
    <3>2. session' = Submit([s EXCEPT !.deliveries[id].releaseTimer = FALSE], new)
      BY <1>2 DEF ReleaseTimer
    <3> HIDE DEF t, new
    <3> QED
      BY <3>1, <3>2, Zenon
  <2> HIDE DEF new, d
  <2>5. Revises(s, t, id, s.deliveries[id].state, s.deliveries[id].retryInProgress, FALSE)
    BY <2>3, Zenon DEF Revises
  <2> HIDE DEF t
  <2>6. t \in SessionType /\ Wakes(t)
    BY <2>1, <2>5, RevisesWakes
  <2> QED
    BY <2>2, <2>4, <2>6, SubmitWakes
<1> QED
  BY <1>1, <1>2

\* A closed session waits for nothing.
LEMMA TransportClosesWakes ==
    ASSUME SessionInv(session), TransportCloses
    PROVE  Wakes(session')
<1> DEFINE s == [Closing(session) EXCEPT
                    !.helloTimer = FALSE,
                    !.deliveries = [id \in DOMAIN @ |-> [@[id] EXCEPT !.releaseTimer = FALSE]],
                    !.frames = <<>>, !.writing = FALSE]
<1>1. session \in SessionType
  BY DEF SessionInv
<1>2. session' = Enqueue(s, [kind |-> "CLEANUP"])
  BY DEF TransportCloses
<1>3. Closing(session).closed /\ Closing(session) \in SessionType
  BY <1>1, ClosingEffect
<1>4. s.closed /\ s.closed = s.closed
  BY <1>3 DEF SessionType
<1>5. s = [s EXCEPT !.closed = TRUE] /\ DOMAIN s = DOMAIN Closing(session) /\ "closed" \in DOMAIN s
  BY <1>3 DEF SessionType
<1> HIDE DEF s
<1>6. session'.closed
  BY <1>2, <1>4, <1>5 DEF Enqueue, Closing
<1> QED
  BY <1>6 DEF Wakes

--------------------------------------------------------------------------------
\* Every step

LEMMA HandlersWake ==
    ASSUME SessionInv(session), Wakes(session), Handlers
    PROVE  Wakes(session')
BY HandleHelloWakes, HandleOpenWakes, HandleViewWakes, HandleReleaseWakes, HandleAckStateWakes,
   OnSelectiveTileReadWakes, OnPlanCommittedWakes, OnTileWrittenWakes, OnReadPermitGrantedWakes,
   OnTileReadWakes, OnOpenResolvedWakes, OnSelectiveTileWrittenWakes, OnDoneCommittedWakes,
   OnTileCommittedWakes, TimeoutsWake
   DEF Handlers

\* The controls of the client and the openings are tasks.
LEMMA ControlIsTask ==
    ASSUME Inv,
           \/ \E open \in opens, ok \in BOOLEAN : OpenResolves(open, ok)
           \/ \E ok \in BOOLEAN : ClientHello(ok)
           \/ \E image \in Images : ClientOpen(image)
           \/ ClientView
           \/ \E tile \in client.held : ClientConfirms(tile) \/ ClientAsks(tile)
    PROVE  \E new \in Task : session' = Submit(session, new)
<1>1. /\ client.epoch \in Nat /\ client.image \in SomeImage
      /\ client.held \subseteq ClientTile /\ opens \subseteq Opening
  BY DEF Inv, SessionInv, ClientType
<1>2. ASSUME NEW open \in opens, NEW ok \in BOOLEAN, OpenResolves(open, ok)
      PROVE  \E new \in Task : session' = Submit(session, new)
  <2>1. [kind |-> "OPENED", epoch |-> open.epoch, image |-> open.image, ok |-> ok] \in Task
    BY <1>1 DEF Task, Opening
  <2> QED
    BY <1>2, <2>1, Zenon DEF OpenResolves
<1>3. ASSUME NEW ok \in BOOLEAN, ClientHello(ok)
      PROVE  \E new \in Task : session' = Submit(session, new)
  <2>1. [kind |-> "HELLO", ok |-> ok] \in Task
    BY DEF Task
  <2> QED
    BY <1>3, <2>1, Zenon DEF ClientHello, Says
<1>4. ASSUME NEW image \in Images, ClientOpen(image)
      PROVE  \E new \in Task : session' = Submit(session, new)
  <2>1. [kind |-> "OPEN", epoch |-> client.epoch + 1, image |-> image] \in Task
    BY <1>1 DEF Task, SomeImage
  <2> QED
    BY <1>4, <2>1, Zenon DEF ClientOpen, Says
<1>5. ASSUME ClientView
      PROVE  \E new \in Task : session' = Submit(session, new)
  <2>1. [kind |-> "VIEW", epoch |-> client.epoch + 1, image |-> client.image] \in Task
    BY <1>1 DEF Task
  <2> QED
    BY <1>5, <2>1, Zenon DEF ClientView, Says
<1>6. ASSUME NEW tile \in client.held, ClientConfirms(tile) \/ ClientAsks(tile)
      PROVE  \E new \in Task : session' = Submit(session, new)
  <2>1. tile.id \in Nat /\ tile.epoch \in Nat
    BY <1>1 DEF ClientTile
  <2>2. /\ [kind |-> "RELEASE", id |-> tile.id] \in Task
        /\ [kind |-> "ACK_STATE", epoch |-> tile.epoch, received |-> {tile.id}, missing |-> 0] \in Task
        /\ [kind |-> "ACK_STATE", epoch |-> tile.epoch, received |-> {}, missing |-> tile.id] \in Task
    BY <2>1 DEF Task
  <2> QED
    BY <1>6, <2>2, Zenon DEF ClientConfirms, ClientAsks, Says
<1> QED
  BY <1>2, <1>3, <1>4, <1>5, <1>6

LEMMA ControlsWake ==
    ASSUME Inv, Wakes(session),
           \/ \E open \in opens, ok \in BOOLEAN : OpenResolves(open, ok)
           \/ \E ok \in BOOLEAN : ClientHello(ok)
           \/ \E image \in Images : ClientOpen(image)
           \/ ClientView
           \/ \E tile \in client.held : ClientConfirms(tile) \/ ClientAsks(tile)
    PROVE  Wakes(session')
BY ControlIsTask, SubmitWakes DEF Inv, SessionInv

\* A step keeps the plan from waiting for nothing.
LEMMA WakesStep == Inv /\ Wakes(session) /\ [Next]_vars => Wakes(session)'
<1> SUFFICES ASSUME Inv, Wakes(session), [Next]_vars PROVE Wakes(session')
  OBVIOUS
<1>1. SessionInv(session)
  BY DEF Inv
<1>2. CASE Handlers
  BY <1>1, <1>2, HandlersWake
<1>3. CASE CommitHead \/ WriteDone \/ TransportCloses \/ GrantTurn
  BY <1>1, <1>3, CommitHeadWakes, WriteDoneWakes, TransportClosesWakes, GrantTurnWakes
<1>4. CASE Reads
  BY <1>1, <1>4, TileReadEndsWakes, TileResultWakes, RecoveryResultWakes DEF Reads
<1>5. CASE HelloTimer \/ \E id \in DOMAIN session.deliveries : ReleaseTimer(id)
  BY <1>1, <1>5, TimersWake
<1>6. CASE UNCHANGED vars
  BY <1>6 DEF vars
<1> QED
  BY <1>2, <1>3, <1>4, <1>5, <1>6, ControlsWake DEF Next

\* The active plan of an open session is never left without what will run its
\* pump again, or a delivery whose confirmation will: for every window, size of
\* tiles and plans, capacities of the queues and answers of the executors.
THEOREM PlanHasAWakeupAlways == Spec => []PlanHasAWakeup
<1>1. Init => Wakes(session)
  BY DEF Init, Wakes
<1>2. Inv /\ Wakes(session) => PlanHasAWakeup
  BY WakesIsWakeup DEF Inv
<1>3. Inv /\ Inv' /\ Wakes(session) /\ [Next]_vars => Wakes(session)'
  BY WakesStep
<1> QED
  BY <1>1, <1>2, <1>3, InvAlways, PTL DEF Spec

--------------------------------------------------------------------------------
\* What the wire carried, and what waits for it

Wire ==
    [epoch : Nat, size : Nat, sent : Nat, streaming : BOOLEAN, lastId : Nat,
     last : [kind : PlainKinds \cup PlanKinds \cup {"NONE"}, epoch : Nat, count : Nat]]

Announces == {"MANIFEST", "PLAN"}

OfStream == {"TILE", "DONE"}

\* A frame can be the next one of the stream, after announcements perhaps.
Follows(w, frame) ==
    /\ frame.kind \in Announces => frame.epoch > w.epoch
    /\ frame.kind = "PLAN" => frame.count > 0
    /\ frame.kind \in OfStream => w.streaming /\ frame.epoch = w.epoch
    /\ frame.kind = "TILE" => w.sent < w.size /\ frame.id > w.lastId
    /\ frame.kind = "DONE" => w.sent = w.size /\ frame.count = w.size
    /\ frame.kind = "RETRY" => frame.epoch \in 1..w.epoch /\ w.lastId > 0

\* Announcements are in the order of their epochs.  Of the stream one frame
\* waits at most, before any announcement.
InOrder(first, second) ==
    /\ first.kind \in Announces /\ second.kind \in Announces => first.epoch < second.epoch
    /\ second.kind \notin OfStream \/ first.kind \notin OfStream \cup Announces

Continues(w, waiting) ==
    /\ \A i \in 1..Len(waiting) : Follows(w, waiting[i])
    /\ \A i, j \in 1..Len(waiting) : i < j => InOrder(waiting[i], waiting[j])

\* What was sent is known: deliveries, callbacks and confirmations are of tiles
\* the wire carried, of epochs it announced.
SentTask(t, lastId) ==
    /\ t.kind \in {"TILE_COMMITTED", "TILE_WRITTEN", "RETRY_WRITTEN", "RELEASE"} => t.id <= lastId
    /\ t.kind = "ACK_STATE" => \A id \in t.received : id <= lastId

TasksSent(tasks, lastId) == \A i \in 1..Len(tasks) : SentTask(tasks[i], lastId)

FramesSent(frames, writing, lastId) ==
    /\ \A i \in 1..Len(frames) : frames[i].kind = "RETRY" => frames[i].id <= lastId
    /\ writing /\ Head(frames).kind = "TILE" => Head(frames).id <= lastId

DeliveriesSent(deliveries, w) ==
    \A id \in DOMAIN deliveries :
        /\ deliveries[id].epoch \in 1..w.epoch
        /\ deliveries[id].state # "RESERVED_QUEUED" => id <= w.lastId

HeldSent(held, lastId) == \A tile \in held : tile.id <= lastId

\* The wire counts a tile that the plan does not count yet.
WrittenTasks(g) == {t \in Task : t.kind = "TILE_WRITTEN" /\ t.generation = g}

Uncounted(s, g) ==
    \/ ~None(s.tasks, WrittenTasks(g))
    \/ s.writing /\ Head(s.frames) \in TileFrames(g)

\* A plan whose PLAN was sent, and the stream it announced.
Streams(s, w) ==
    LET plan == s.activePlan
        g == plan.generation IN
    /\ \A i \in 1..Len(Waiting(s)) : Waiting(s)[i].kind \notin Announces
    /\ w.epoch = plan.epoch
    /\ w.size = plan.tiles
    /\ w.streaming <=> (plan.doneQueued => ~None(Waiting(s), DoneFrames(g)))
    /\ w.sent = plan.sentTiles + (IF Uncounted(s, g) THEN 1 ELSE 0)

\* A frame that waits is of the active plan, or of none.
Belongs(s, frame) ==
    /\ frame.generation = s.activePlan.generation
    /\ frame.kind = "TILE" => frame.id \in DOMAIN s.deliveries
    /\ frame.kind = "PLAN" => frame.epoch = s.activePlan.epoch /\ frame.count = s.activePlan.tiles

Coupled(s, w) ==
    /\ \A i \in 1..Len(Waiting(s)) : Waiting(s)[i].kind \in PlanKinds => Belongs(s, Waiting(s)[i])
    /\ \A i, j \in 1..Len(Waiting(s)) :
          i < j /\ Waiting(s)[i].kind = "PLAN" => Waiting(s)[j].kind \notin Announces
    /\ s.activePlan # NoPlan =>
          /\ s.activePlan.epoch \in 1..s.currentEpoch
          /\ None(Waiting(s), PlanFrames(s.activePlan.generation)) => Streams(s, w)

Flows(s, w, held) ==
    /\ w \in Wire
    /\ Continues(w, Waiting(s))
    /\ w.epoch <= s.currentEpoch /\ w.lastId < s.nextDeliveryId
    /\ \A i \in 1..Len(s.frames) : s.frames[i].kind \in Announces => s.frames[i].epoch <= s.currentEpoch
    /\ TasksSent(s.tasks, w.lastId)
    /\ FramesSent(s.frames, s.writing, w.lastId)
    /\ DeliveriesSent(s.deliveries, w)
    /\ HeldSent(held, w.lastId)
    /\ s.closed \/ Coupled(s, w)

--------------------------------------------------------------------------------
\* What waits, when a frame is added, cancelled or sent

LEMMA ContinuesAppend ==
    ASSUME NEW w, NEW waiting \in Seq(Frame), NEW frame \in Frame, Continues(w, waiting),
           Follows(w, frame), \A i \in 1..Len(waiting) : InOrder(waiting[i], frame)
    PROVE  Continues(w, Append(waiting, frame))
<1> DEFINE more == Append(waiting, frame)
<1>1. /\ Len(waiting) \in Nat /\ Len(more) = Len(waiting) + 1
      /\ more[Len(waiting) + 1] = frame
      /\ \A i \in 1..Len(waiting) : more[i] = waiting[i]
      /\ \A i \in 1..Len(more) : i = Len(waiting) + 1 \/ i \in 1..Len(waiting)
  BY AppendFacts
<1> HIDE DEF more
<1>2. \A i \in 1..Len(more) : Follows(w, more[i])
  BY <1>1, Zenon DEF Continues
<1>3. ASSUME NEW i \in 1..Len(more), NEW j \in 1..Len(more), i < j
      PROVE  InOrder(more[i], more[j])
  <2>1. i \in 1..Len(waiting) /\ more[i] = waiting[i]
    BY <1>1, <1>3
  <2>2. CASE j \in 1..Len(waiting)
    BY <1>1, <1>3, <2>1, <2>2, Zenon DEF Continues
  <2>3. CASE j = Len(waiting) + 1
    BY <1>1, <2>1, <2>3, Zenon
  <2> QED
    BY <1>1, <2>2, <2>3
<1> QED
  BY <1>2, <1>3, Zenon DEF Continues, more

\* A frame outside any plan is in order wherever it is.
LEMMA PlainContinues ==
    ASSUME NEW w, NEW waiting \in Seq(Frame), NEW frame \in Frame, Continues(w, waiting),
           frame.kind \in {"WELCOME", "ERROR", "RETRY"},
           frame.kind = "RETRY" => frame.epoch \in 1..w.epoch /\ w.lastId > 0
    PROVE  Continues(w, Append(waiting, frame))
<1>1. Follows(w, frame)
  BY DEF Follows, Announces, OfStream
<1>2. \A i \in 1..Len(waiting) : InOrder(waiting[i], frame)
  BY DEF InOrder, Announces, OfStream
<1> QED
  BY <1>1, <1>2, ContinuesAppend

\* Some frames of a sequence, in their order.
Part(rest, seq, cancelled) ==
    \E place \in [1..Len(rest) -> 1..Len(seq)] :
        /\ \A i \in 1..Len(rest) : rest[i] = seq[place[i]] /\ rest[i] \notin cancelled
        /\ \A i, j \in 1..Len(rest) : i < j => place[i] < place[j]

LEMMA PartContinues ==
    ASSUME NEW w, NEW waiting, NEW rest, NEW cancelled, Continues(w, waiting),
           Part(rest, waiting, cancelled)
    PROVE  Continues(w, rest)
<1>1. PICK place \in [1..Len(rest) -> 1..Len(waiting)] :
          /\ \A i \in 1..Len(rest) : rest[i] = waiting[place[i]]
          /\ \A i, j \in 1..Len(rest) : i < j => place[i] < place[j]
  BY DEF Part
<1>2. \A i \in 1..Len(rest) : place[i] \in 1..Len(waiting)
  BY <1>1
<1>3. \A i \in 1..Len(rest) : Follows(w, rest[i])
  BY <1>1, <1>2, Zenon DEF Continues
<1>4. \A i, j \in 1..Len(rest) : i < j => InOrder(rest[i], rest[j])
  BY <1>1, <1>2, Zenon DEF Continues
<1> QED
  BY <1>3, <1>4, Zenon DEF Continues

\* What is not cancelled waits on, in its order.
LEMMA WaitingRemains ==
    ASSUME NEW s \in SessionType, NEW t \in SessionType, FramesHold(s),
           Remains(t.frames, s.frames, Withdrawn(s), Len(s.frames)), t.writing = s.writing
    PROVE  Part(Waiting(t), Waiting(s), Withdrawn(s)) /\ (s.writing => Head(t.frames) = Head(s.frames))
<1>1. s.frames \in Seq(Frame) /\ t.frames \in Seq(Frame)
  BY DEF SessionType
<1>2. PICK place \in [1..Len(t.frames) -> 1..Len(s.frames)] :
          /\ \A i \in 1..Len(t.frames) : t.frames[i] = s.frames[place[i]] /\ t.frames[i] \notin Withdrawn(s)
          /\ \A i, j \in 1..Len(t.frames) : i < j => place[i] < place[j]
  BY DEF Remains
<1>3. CASE ~s.writing
  BY <1>2, <1>3 DEF Waiting, Part
<1>4. CASE s.writing
  <2>1. s.frames # <<>> /\ s.frames[1] \notin Withdrawn(s)
    BY <1>4, HeadIsNotWithdrawn
  <2>2. t.frames # <<>> /\ t.frames[1] = s.frames[1]
    BY <1>1, <2>1, RemainsHead
  <2>3. /\ Waiting(s) = Tail(s.frames) /\ Waiting(t) = Tail(t.frames)
        /\ Head(s.frames) = s.frames[1] /\ Head(t.frames) = t.frames[1]
    BY <1>1, <1>4, <2>1, <2>2, TailFacts DEF Waiting
  <2> DEFINE rest == Tail(t.frames)
             seq == Tail(s.frames)
             before == [i \in 1..Len(rest) |-> place[i + 1] - 1]
  <2>4. /\ Len(rest) = Len(t.frames) - 1 /\ Len(t.frames) \in Nat \ {0}
        /\ Len(seq) = Len(s.frames) - 1 /\ Len(s.frames) \in Nat \ {0}
        /\ \A i \in 1..Len(rest) : i + 1 \in 2..Len(t.frames) /\ rest[i] = t.frames[i + 1]
        /\ \A i \in 1..Len(seq) : i + 1 \in 2..Len(s.frames) /\ seq[i] = s.frames[i + 1]
    BY <1>1, <2>1, <2>2, TailFacts
  <2> HIDE DEF rest, seq
  <2>5. ASSUME NEW i \in 1..Len(rest)
        PROVE  /\ i + 1 \in 1..Len(t.frames) /\ place[i + 1] \in 2..Len(s.frames)
               /\ place[i + 1] - 1 \in 1..Len(seq)
               /\ rest[i] = seq[place[i + 1] - 1]
               /\ rest[i] \notin Withdrawn(s)
    <3>1. i + 1 \in 1..Len(t.frames) /\ 1 \in 1..Len(t.frames) /\ 1 < i + 1
      BY <2>4
    <3>2. place[1] < place[i + 1] /\ place[1] \in 1..Len(s.frames) /\ place[i + 1] \in 1..Len(s.frames)
      BY <1>2, <3>1
    <3>3. place[i + 1] \in 2..Len(s.frames) /\ place[i + 1] - 1 \in 1..Len(seq)
          /\ (place[i + 1] - 1) + 1 = place[i + 1]
      BY <2>4, <3>2
    <3>4. rest[i] = t.frames[i + 1] /\ t.frames[i + 1] = s.frames[place[i + 1]]
          /\ t.frames[i + 1] \notin Withdrawn(s)
      BY <1>2, <2>4, <3>1
    <3>5. seq[place[i + 1] - 1] = s.frames[place[i + 1]]
      BY <2>4, <3>3
    <3> QED
      BY <3>1, <3>3, <3>4, <3>5
  <2>6. before \in [1..Len(rest) -> 1..Len(seq)] /\ \A i \in 1..Len(rest) : before[i] = place[i + 1] - 1
    BY <2>5
  <2> HIDE DEF before
  <2>7. \A i \in 1..Len(rest) : rest[i] = seq[before[i]] /\ rest[i] \notin Withdrawn(s)
    BY <2>5, <2>6
  <2>8. ASSUME NEW i \in 1..Len(rest), NEW j \in 1..Len(rest), i < j PROVE before[i] < before[j]
    <3>1. i + 1 \in 1..Len(t.frames) /\ j + 1 \in 1..Len(t.frames) /\ i + 1 < j + 1
      BY <2>4, <2>5, <2>8
    <3>2. place[i + 1] < place[j + 1]
      BY <1>2, <3>1
    <3> QED
      BY <2>5, <2>6, <3>2
  <2>9. Part(rest, seq, Withdrawn(s))
    BY <2>6, <2>7, <2>8 DEF Part
  <2> QED
    BY <2>2, <2>3, <2>9 DEF rest, seq
<1> QED
  BY <1>3, <1>4

--------------------------------------------------------------------------------
\* Steps that leave the queue of frames alone, or add a frame of no plan

\* What the stream knows of a plan.
SameLine(p, q) ==
    /\ q.generation = p.generation /\ q.epoch = p.epoch /\ q.tiles = p.tiles
    /\ q.doneQueued = p.doneQueued /\ q.sentTiles = p.sentTiles
    /\ q = NoPlan <=> p = NoPlan

SameCount(s, t) ==
    Uncounted(t, s.activePlan.generation) <=> Uncounted(s, s.activePlan.generation)

\* Deliveries go on, are written, or were confirmed.
Advances(s, t, lastId) ==
    /\ \A id \in DOMAIN t.deliveries :
          /\ id \in DOMAIN s.deliveries
          /\ t.deliveries[id].epoch = s.deliveries[id].epoch
          /\ t.deliveries[id].state = s.deliveries[id].state \/ id <= lastId
    /\ \A id \in DOMAIN s.deliveries : id \in DOMAIN t.deliveries \/ id <= lastId

LEMMA FlowsKept ==
    ASSUME NEW s \in SessionType, NEW t \in SessionType, NEW w, NEW held, Flows(s, w, held),
           FramesHold(s), SameFrames(s, t), t.currentEpoch = s.currentEpoch,
           t.nextDeliveryId = s.nextDeliveryId, s.closed => t.closed,
           t.closed \/ (SameLine(s.activePlan, t.activePlan) /\ SameCount(s, t)),
           TasksSent(t.tasks, w.lastId), Advances(s, t, w.lastId)
    PROVE  Flows(t, w, held)
<1> DEFINE waiting == Waiting(s)
           g == s.activePlan.generation
<1>1. Waiting(t) = waiting /\ waiting \in Seq(Frame)
  BY WaitingFacts DEF Waiting, SameFrames
<1>2. w \in Wire /\ w.lastId \in Nat /\ Continues(w, waiting)
  BY DEF Flows, Wire
<1>3. ASSUME NEW i \in 1..Len(waiting), waiting[i].kind = "TILE", waiting[i].id \in DOMAIN s.deliveries
      PROVE  waiting[i].id \in DOMAIN t.deliveries
  <2>1. waiting[i] \in Frame /\ waiting[i].id \in Nat
    BY <1>1, FrameFields
  <2>2. waiting[i].id > w.lastId
    BY <1>2, <1>3, Zenon DEF Continues, Follows
  <2>3. ~(waiting[i].id <= w.lastId)
    BY <1>2, <2>1, <2>2
  <2> QED
    BY <1>3, <2>3 DEF Advances
<1> HIDE DEF waiting
<1>4. ASSUME ~t.closed PROVE Coupled(t, w)
  <2>1. Coupled(s, w) /\ SameLine(s.activePlan, t.activePlan) /\ SameCount(s, t)
    BY <1>4 DEF Flows
  <2>2. \A i \in 1..Len(waiting) : waiting[i].kind \in PlanKinds => Belongs(t, waiting[i])
    BY <1>3, <2>1 DEF Coupled, Belongs, SameLine, waiting
  <2>3. \A i, j \in 1..Len(waiting) :
            i < j /\ waiting[i].kind = "PLAN" => waiting[j].kind \notin Announces
    BY <2>1 DEF Coupled, waiting
  <2>4. ASSUME t.activePlan # NoPlan
        PROVE  /\ t.activePlan.epoch \in 1..t.currentEpoch
               /\ None(waiting, PlanFrames(t.activePlan.generation)) => Streams(t, w)
    <3>1. /\ s.activePlan # NoPlan /\ s.activePlan.epoch \in 1..s.currentEpoch
          /\ None(waiting, PlanFrames(g)) => Streams(s, w)
      BY <2>1, <2>4 DEF Coupled, SameLine, waiting
    <3>2. Streams(s, w) => Streams(t, w)
      BY <1>1, <2>1 DEF Streams, SameLine, SameCount, waiting
    <3> QED
      BY <2>1, <3>1, <3>2 DEF SameLine
  <2> QED
    BY <1>1, <2>2, <2>3, <2>4 DEF Coupled
<1>5. DeliveriesSent(t.deliveries, w)
  BY DEF Flows, DeliveriesSent, Advances
<1> QED
  BY <1>1, <1>4, <1>5 DEF Flows, SameFrames, waiting

LEMMA AdvancesSame ==
    ASSUME NEW s, NEW t, NEW lastId, t.deliveries = s.deliveries
    PROVE  Advances(s, t, lastId)
BY DEF Advances

LEMMA TasksSentTail ==
    ASSUME NEW tasks \in Seq(Task), tasks # <<>>, NEW lastId, TasksSent(tasks, lastId)
    PROVE  TasksSent(Tail(tasks), lastId) /\ SentTask(Head(tasks), lastId)
<1>1. /\ Len(tasks) \in Nat \ {0} /\ Head(tasks) = tasks[1]
      /\ \A i \in 1..Len(Tail(tasks)) : i + 1 \in 1..Len(tasks) /\ Tail(tasks)[i] = tasks[i + 1]
  BY TailFacts
<1> QED
  BY <1>1 DEF TasksSent

LEMMA TasksSentAppend ==
    ASSUME NEW tasks \in Seq(Task), NEW new \in Task, NEW lastId, TasksSent(tasks, lastId),
           SentTask(new, lastId)
    PROVE  TasksSent(Append(tasks, new), lastId)
BY AppendFacts DEF TasksSent

\* The same tasks and the same head: the same count.
LEMMA CountSame ==
    ASSUME NEW s, NEW t, SameFrames(s, t),
           Alike(s.tasks, t.tasks, WrittenTasks(s.activePlan.generation))
    PROVE  SameCount(s, t)
BY DEF SameCount, Uncounted, SameFrames, Alike

LEMMA OnlyEndsFlows ==
    ASSUME NEW s \in SessionType, NEW t \in SessionType, NEW w, NEW held, Flows(s, w, held),
           FramesHold(s), OnlyEnds(s, t), s.closed => t.closed
    PROVE  Flows(t, w, held)
<1>1. /\ t.activePlan = s.activePlan /\ t.tasks = s.tasks /\ SameFrames(s, t)
      /\ t.deliveries = s.deliveries /\ t.nextDeliveryId = s.nextDeliveryId
      /\ t.currentEpoch = s.currentEpoch
  BY DEF OnlyEnds, SamePlan, SameCredit, SameView
<1>2. SameLine(s.activePlan, t.activePlan) /\ SameCount(s, t)
  BY <1>1, CountSame DEF SameLine, Alike
<1>3. TasksSent(t.tasks, w.lastId)
  BY <1>1 DEF Flows
<1> QED
  BY <1>1, <1>2, <1>3, AdvancesSame, FlowsKept

LEMMA ClosingFlows ==
    ASSUME NEW s \in SessionType, NEW w, NEW held, Flows(s, w, held), FramesHold(s)
    PROVE  Flows(Closing(s), w, held)
BY ClosingEffect, OnlyEndsFlows

\* A frame of no plan is queued, or the session is closed.
LEMMA FrameAddedFlows ==
    ASSUME NEW s \in SessionType, NEW t \in SessionType, NEW w, NEW held, Flows(s, w, held),
           FramesHold(s), NEW frame \in Frame, frame.kind \in {"WELCOME", "ERROR", "RETRY"},
           frame.kind = "RETRY" => frame.epoch \in 1..w.epoch /\ w.lastId > 0 /\ frame.id <= w.lastId,
           OnlyFrames(s, t), t.frames = Append(s.frames, frame), s.closed => t.closed
    PROVE  Flows(t, w, held)
<1> DEFINE waiting == Waiting(s)
           more == Append(waiting, frame)
           g == s.activePlan.generation
<1>1. Waiting(t) = more /\ waiting \in Seq(Frame)
  BY WaitingGrows, WaitingFacts DEF OnlyFrames
<1>2. w \in Wire /\ w.lastId \in Nat /\ Continues(w, waiting)
  BY DEF Flows, Wire
<1>3. Continues(w, more)
  BY <1>1, <1>2, PlainContinues
<1>4. /\ Len(waiting) \in Nat /\ Len(more) = Len(waiting) + 1
      /\ more[Len(waiting) + 1] = frame
      /\ \A i \in 1..Len(waiting) : more[i] = waiting[i]
      /\ \A i \in 1..Len(more) : i = Len(waiting) + 1 \/ i \in 1..Len(waiting)
  BY <1>1, AppendFacts
<1>5. frame.kind \notin PlanKinds /\ frame.kind \notin Announces
  BY DEF PlanKinds, Announces
<1>6. \A k : Alike(waiting, more, PlanFrames(k)) /\ Alike(waiting, more, DoneFrames(k))
  <2> SUFFICES ASSUME NEW k PROVE Alike(waiting, more, PlanFrames(k)) /\ Alike(waiting, more, DoneFrames(k))
    OBVIOUS
  <2>1. frame \notin PlanFrames(k) /\ frame \notin DoneFrames(k)
    BY DEF PlanFrames, DoneFrames
  <2> HIDE DEF waiting
  <2> QED
    BY <1>1, <2>1, AlikeAppend
<1>7. /\ t.activePlan = s.activePlan /\ t.tasks = s.tasks /\ t.writing = s.writing
      /\ t.deliveries = s.deliveries /\ t.nextDeliveryId = s.nextDeliveryId
      /\ t.currentEpoch = s.currentEpoch
  BY DEF OnlyFrames, SamePlan, SameCredit, SameView
<1>8. /\ s.frames \in Seq(Frame)
      /\ s.writing => s.frames # <<>>
      /\ Len(s.frames) \in Nat /\ Len(t.frames) = Len(s.frames) + 1
      /\ t.frames[Len(s.frames) + 1] = frame
      /\ \A i \in 1..Len(s.frames) : t.frames[i] = s.frames[i]
      /\ \A i \in 1..Len(t.frames) : i = Len(s.frames) + 1 \/ i \in 1..Len(s.frames)
      /\ t.frames \in Seq(Frame) /\ t.frames # <<>>
  <2>1. s.frames \in Seq(Frame)
    BY DEF SessionType
  <2> QED
    BY <2>1, AppendFacts DEF FramesHold
<1>9. s.writing => Head(t.frames) = Head(s.frames)
  <2> SUFFICES ASSUME s.writing PROVE Head(t.frames) = Head(s.frames)
    OBVIOUS
  <2>1. Head(s.frames) = s.frames[1] /\ 1 \in 1..Len(s.frames) /\ Head(t.frames) = t.frames[1]
    BY <1>8, TailFacts
  <2> QED
    BY <1>8, <2>1
<1> HIDE DEF more, waiting
<1>10. ASSUME ~t.closed PROVE Coupled(t, w)
  <2>1. Coupled(s, w)
    BY <1>10 DEF Flows
  <2>2. \A i \in 1..Len(more) : more[i].kind \in PlanKinds => Belongs(t, more[i])
    BY <1>4, <1>5, <1>7, <2>1 DEF Coupled, Belongs, waiting
  <2>3. ASSUME NEW i \in 1..Len(more), NEW j \in 1..Len(more), i < j, more[i].kind = "PLAN"
        PROVE  more[j].kind \notin Announces
    <3>1. i \in 1..Len(waiting) /\ more[i] = waiting[i]
      BY <1>4, <2>3
    <3>2. CASE j \in 1..Len(waiting)
      BY <1>4, <2>1, <2>3, <3>1, <3>2 DEF Coupled, waiting
    <3>3. CASE j = Len(waiting) + 1
      BY <1>4, <1>5, <3>3
    <3> QED
      BY <1>4, <3>2, <3>3
  <2>4. ASSUME s.activePlan # NoPlan, None(more, PlanFrames(g)) PROVE Streams(t, w)
    <3>1. Streams(s, w)
      BY <1>6, <2>1, <2>4 DEF Coupled, Alike, waiting
    <3>2. \A i \in 1..Len(more) : more[i].kind \notin Announces
      BY <1>4, <1>5, <3>1 DEF Streams, waiting
    <3>3. None(more, DoneFrames(g)) <=> None(waiting, DoneFrames(g))
      BY <1>6 DEF Alike
    <3>4. Uncounted(t, g) <=> Uncounted(s, g)
      BY <1>7, <1>9 DEF Uncounted
    <3> HIDE DEF g
    <3> QED
      BY <1>1, <1>7, <3>1, <3>2, <3>3, <3>4 DEF Streams, waiting, g
  <2> QED
    BY <1>1, <1>7, <2>1, <2>2, <2>3, <2>4 DEF Coupled
<1>11. FramesSent(t.frames, t.writing, w.lastId)
  BY <1>7, <1>8, <1>9 DEF Flows, FramesSent
<1>12. \A i \in 1..Len(t.frames) : t.frames[i].kind \in Announces => t.frames[i].epoch <= t.currentEpoch
  BY <1>5, <1>7, <1>8 DEF Flows
<1> QED
  BY <1>1, <1>3, <1>7, <1>10, <1>11, <1>12 DEF Flows

\* sendJson of a control of no plan.
LEMMA SendFlows ==
    ASSUME NEW s \in SessionType, NEW w, NEW held, Flows(s, w, held), FramesHold(s),
           NEW frame \in Frame, frame.kind \in {"WELCOME", "ERROR"}
    PROVE  Flows(Send(s, frame), w, held)
<1> DEFINE t == Send(s, frame)
<1>1. t = Send(s, frame)
  OBVIOUS
<1> HIDE DEF t
<1>2. /\ t \in SessionType /\ OnlyFrames(s, t)
      /\ \/ t.frames = Append(s.frames, frame) /\ ~s.closed
         \/ t.frames = s.frames /\ t.closed
  BY <1>1, SendEffect
<1>3. CASE t.frames = Append(s.frames, frame) /\ ~s.closed
  BY <1>1, <1>2, <1>3, FrameAddedFlows
<1>4. CASE t.frames = s.frames /\ t.closed
  BY <1>1, <1>2, <1>4, OnlyEndsFlows DEF OnlyFrames, OnlyEnds, SameFrames
<1> QED
  BY <1>2, <1>3, <1>4

LEMMA SendErrorFlows ==
    ASSUME NEW s \in SessionType, NEW w, NEW held, Flows(s, w, held), FramesHold(s), NEW epoch \in Nat
    PROVE  Flows(SendError(s, epoch), w, held)
<1> DEFINE error == Control("ERROR", epoch, NoImage)
<1>1. error \in Frame /\ error.kind = "ERROR"
  BY ControlIsFrame DEF PlainKinds, SomeImage
<1>2. SendError(s, epoch) = Send(s, error)
  BY DEF SendError
<1> HIDE DEF error
<1> QED
  BY <1>1, <1>2, SendFlows

--------------------------------------------------------------------------------
\* The end of a plan

\* A session that is closed: nothing of a plan counts any more.
LEMMA ClosedFlows ==
    ASSUME NEW s \in SessionType, NEW t \in SessionType, NEW w, NEW held, Flows(s, w, held),
           FramesHold(s), SameFrames(s, t), t.tasks = s.tasks, t.closed,
           t.currentEpoch >= s.currentEpoch, t.nextDeliveryId >= s.nextDeliveryId,
           \A id \in DOMAIN t.deliveries :
              id \in DOMAIN s.deliveries /\ t.deliveries[id] = s.deliveries[id]
    PROVE  Flows(t, w, held)
<1>1. Waiting(t) = Waiting(s)
  BY DEF Waiting, SameFrames
<1>2. /\ w.epoch \in Nat /\ w.lastId \in Nat
      /\ s.currentEpoch \in Nat /\ t.currentEpoch \in Nat
      /\ s.nextDeliveryId \in Nat /\ t.nextDeliveryId \in Nat
  BY DEF Flows, Wire, SessionType
<1>3. w.epoch <= t.currentEpoch /\ w.lastId < t.nextDeliveryId
  BY <1>2 DEF Flows
<1>4. ASSUME NEW i \in 1..Len(t.frames), t.frames[i].kind \in Announces
      PROVE  t.frames[i].epoch <= t.currentEpoch
  <2>1. i \in 1..Len(s.frames) /\ t.frames[i] = s.frames[i] /\ s.frames[i] \in Frame
    BY DEF SameFrames, SessionType
  <2>2. s.frames[i].epoch \in Nat /\ s.frames[i].epoch <= s.currentEpoch
    BY <1>4, <2>1, FrameFields DEF Flows
  <2> QED
    BY <1>2, <2>1, <2>2
<1>5. DeliveriesSent(t.deliveries, w)
  BY DEF Flows, DeliveriesSent
<1> QED
  BY <1>1, <1>3, <1>4, <1>5 DEF Flows, SameFrames

\* What waits of a plan goes with it: it is cancelled, and the frames of an
\* earlier plan went with theirs.
LEMMA PlanEndsFlows ==
    ASSUME NEW s \in SessionType, NEW t \in SessionType, NEW w, NEW held, Flows(s, w, held),
           FramesHold(s), PlanEnds(s, t),
           Remains(t.frames, s.frames, Withdrawn(s), Len(s.frames))
    PROVE  Flows(t, w, held)
<1> DEFINE waiting == Waiting(s)
           rest == Waiting(t)
<1>1. /\ t.activePlan = NoPlan /\ t.writing = s.writing /\ t.tasks = s.tasks
      /\ t.currentEpoch = s.currentEpoch /\ t.nextDeliveryId = s.nextDeliveryId
      /\ s.closed => t.closed
      /\ Loses(s.deliveries, t.deliveries, WithdrawnTiles(s))
  BY DEF PlanEnds, SameView, Ends
<1>2. Part(rest, waiting, Withdrawn(s)) /\ (s.writing => Head(t.frames) = Head(s.frames))
  BY <1>1, WaitingRemains
<1>3. waiting \in Seq(Frame) /\ Continues(w, waiting)
  BY WaitingFacts DEF Flows
<1>4. Continues(w, rest)
  <2> HIDE DEF waiting, rest
  <2> QED
    BY <1>2, <1>3, PartContinues
<1>5. \A i \in 1..Len(t.frames) : \E j \in 1..Len(s.frames) : t.frames[i] = s.frames[j]
  BY DEF Remains
<1>6. ASSUME ~t.closed, NEW i \in 1..Len(rest) PROVE rest[i].kind \notin PlanKinds
  <2> SUFFICES ASSUME rest[i].kind \in PlanKinds PROVE FALSE
    OBVIOUS
  <2>1. Coupled(s, w)
    BY <1>1, <1>6 DEF Flows
  <2>2. PICK j \in 1..Len(waiting) : rest[i] = waiting[j] /\ rest[i] \notin Withdrawn(s)
    BY <1>2 DEF Part
  <2> DEFINE f == waiting[j]
  <2>3. f \in Frame /\ f.kind \in PlanKinds /\ Belongs(s, f) /\ f \notin Withdrawn(s)
    BY <1>3, <2>1, <2>2 DEF Coupled
  <2>4. f.generation > 0 /\ s.activePlan # NoPlan
    BY <2>3, FrameFields DEF Belongs, NoPlan
  <2>5. Cancellable(s, f) /\ f \in ToSet(s.frames)
    <3>1. s.frames \in Seq(Frame) /\ (s.writing => s.frames # <<>>)
      BY DEF SessionType, FramesHold
    <3>2. CASE s.writing
      <4>1. j + 1 \in 2..Len(s.frames) /\ f = s.frames[j + 1] /\ Len(s.frames) \in Nat
        BY <3>1, <3>2, TailFacts DEF Waiting
      <4>2. j + 1 \in 1..Len(s.frames)
        BY <4>1
      <4> HIDE DEF f
      <4> QED
        BY <3>2, <4>1, <4>2 DEF Cancellable, ToSet
    <3>3. CASE ~s.writing
      BY <3>3 DEF Cancellable, ToSet, Waiting
    <3> QED
      BY <3>2, <3>3
  <2> HIDE DEF f
  <2>6. f \in Uncommitted(s, s.activePlan.generation)
    BY <2>3, <2>5 DEF Uncommitted, Belongs, PlanKinds
  <2> QED
    BY <2>3, <2>4, <2>6 DEF Withdrawn
<1>7. ASSUME ~t.closed PROVE Coupled(t, w)
  BY <1>1, <1>6, <1>7 DEF Coupled, PlanKinds
<1>8. FramesSent(t.frames, t.writing, w.lastId)
  <2>1. FramesSent(s.frames, s.writing, w.lastId)
    BY DEF Flows
  <2> QED
    BY <1>1, <1>2, <1>5, <2>1 DEF FramesSent
<1>9. DeliveriesSent(t.deliveries, w)
  BY <1>1 DEF Flows, DeliveriesSent, Loses
<1>10. \A i \in 1..Len(t.frames) : t.frames[i].kind \in Announces => t.frames[i].epoch <= t.currentEpoch
  BY <1>1, <1>5 DEF Flows
<1> QED
  BY <1>1, <1>4, <1>7, <1>8, <1>9, <1>10 DEF Flows

LEMMA InvalidatePlanFlows ==
    ASSUME NEW s \in SessionType, NEW w, NEW held, Flows(s, w, held), FramesHold(s),
           NEW t, t = InvalidatePlan(s)
    PROVE  t \in SessionType /\ FramesHold(t) /\ Flows(t, w, held) /\ t.activePlan = NoPlan
<1>1. /\ t \in SessionType /\ PlanEnds(s, t)
      /\ Remains(t.frames, s.frames, Withdrawn(s), Len(s.frames))
  BY InvalidatePlanEffect
<1>2. /\ t.writing = s.writing /\ t.nextDeliveryId = s.nextDeliveryId /\ t.activePlan = NoPlan
      /\ t.planGeneration >= s.planGeneration
  BY <1>1 DEF PlanEnds, SessionType
<1> QED
  BY <1>1, <1>2, FramesRemain, PlanEndsFlows

LEMMA FailPlanFlows ==
    ASSUME NEW s \in SessionType, NEW w, NEW held, Flows(s, w, held), FramesHold(s)
    PROVE  Flows(FailPlan(s), w, held)
<1> DEFINE t == InvalidatePlan(s)
<1>1. s.activePlan.epoch \in Nat
  BY DEF SessionType, ActivePlan, NoPlan
<1>2. t \in SessionType /\ FramesHold(t) /\ Flows(t, w, held)
  BY InvalidatePlanFlows
<1> HIDE DEF t
<1>3. Flows(SendError(t, s.activePlan.epoch), w, held)
  BY <1>1, <1>2, SendErrorFlows
<1> QED
  BY <1>3 DEF FailPlan, t

LEMMA DismantleFlows ==
    ASSUME NEW s \in SessionType, NEW w, NEW held, Flows(s, w, held), FramesHold(s)
    PROVE  Flows(Dismantle(s), w, held)
<1> DEFINE t == Dismantle(s)
<1>1. t = Dismantle(s)
  OBVIOUS
<1> HIDE DEF t
<1>2. /\ t \in SessionType /\ t.closed /\ SameFrames(s, t) /\ t.tasks = s.tasks
      /\ t.currentEpoch = s.currentEpoch /\ t.nextDeliveryId = s.nextDeliveryId
      /\ DOMAIN t.deliveries = {}
  BY <1>1, DismantleEffect, EmptyLedger DEF SameView
<1>3. s.currentEpoch \in Nat /\ s.nextDeliveryId \in Nat
  BY DEF SessionType
<1> QED
  BY <1>1, <1>2, <1>3, ClosedFlows

--------------------------------------------------------------------------------
\* The pump continues the stream

\* A plan whose PLAN was sent, with no tile under way and its DONE to come: the
\* wire stands where the plan does, and the next frame may be of the stream.
Ready(s, w) ==
    LET plan == s.activePlan IN
    /\ w.streaming /\ w.epoch = plan.epoch /\ w.size = plan.tiles /\ w.sent = plan.sentTiles
    /\ w.epoch > 0
    /\ ~Uncounted(s, plan.generation)
    /\ \A i \in 1..Len(Waiting(s)) : Waiting(s)[i].kind \notin OfStream \cup Announces

\* Without a tile under way, the plan counted all that the wire did.
LEMMA NothingUncounted ==
    ASSUME NEW s \in SessionType, FramesHold(s), NEW g, TileAbsent(s, g)
    PROVE  ~Uncounted(s, g)
<1>1. None(s.tasks, TileTasks(g)) /\ None(s.frames, TileFrames(g))
  BY DEF TileAbsent, Absent
<1>2. None(s.tasks, WrittenTasks(g))
  BY <1>1 DEF None, TileTasks, WrittenTasks
<1>3. s.writing => Head(s.frames) \notin TileFrames(g)
  <2>1. s.writing => Head(s.frames) = s.frames[1] /\ 1 \in 1..Len(s.frames)
    BY TailFacts DEF FramesHold, SessionType
  <2> QED
    BY <1>1, <2>1 DEF None
<1> QED
  BY <1>2, <1>3 DEF Uncounted

LEMMA IdleIsReady ==
    ASSUME NEW s, SessionInv(s), NEW w, NEW held, Flows(s, w, held), Idle(s), ~s.activePlan.doneQueued
    PROVE  Ready(s, w)
<1> DEFINE plan == s.activePlan
           g == s.activePlan.generation
<1>1. /\ s \in SessionType /\ Stage(s) /\ Coupled(s, w) /\ w \in Wire /\ FramesHold(s)
      /\ plan.sentTiles \in Nat /\ plan.planCommitted /\ ~plan.busy /\ plan # NoPlan
  BY PlanFields DEF SessionInv, Stages, Flows, Idle, Queues
<1>2. PlanAbsent(s, g) /\ DoneAbsent(s, g) /\ TileAbsent(s, g)
  BY <1>1 DEF Stage, PlanStage, DoneStage, TileStage
<1>3. None(Waiting(s), PlanFrames(g))
  BY <1>2 DEF PlanAbsent, Absent
<1>4. Streams(s, w) /\ plan.epoch \in 1..s.currentEpoch
  BY <1>1, <1>3 DEF Coupled
<1>5. ~Uncounted(s, g)
  BY <1>1, <1>2, NothingUncounted
<1>6. ASSUME NEW i \in 1..Len(Waiting(s)) PROVE Waiting(s)[i].kind \notin OfStream
  <2> DEFINE f == Waiting(s)[i]
  <2>1. f \in Frame /\ f.kind \in PlanKinds => f.generation = g
    BY <1>1, WaitingFacts DEF Coupled, Belongs
  <2>2. None(Waiting(s), TileFrames(g)) /\ None(Waiting(s), DoneFrames(g))
    BY <1>1, <1>2, WaitingFacts DEF TileAbsent, DoneAbsent, Absent
  <2>3. f \in Frame /\ f \notin TileFrames(g) /\ f \notin DoneFrames(g)
    BY <1>1, <2>2, WaitingFacts DEF None
  <2> HIDE DEF f
  <2> QED
    BY <2>1, <2>3 DEF OfStream, PlanKinds, TileFrames, DoneFrames, f
<1>7. w.sent = plan.sentTiles /\ w.streaming
  BY <1>1, <1>4, <1>5 DEF Streams, Wire
<1> QED
  BY <1>4, <1>5, <1>6, <1>7 DEF Ready, Streams

\* A tile of the plan, or its DONE, is queued.
LEMMA StreamGrows ==
    ASSUME NEW s, SessionInv(s), NEW w, NEW held, Flows(s, w, held), Idle(s), ~s.activePlan.doneQueued,
           NEW frame \in Frame, frame.kind \in OfStream, Follows(w, frame),
           frame.generation = s.activePlan.generation,
           NEW t \in SessionType, t.frames = Append(s.frames, frame), t.writing = s.writing,
           t.tasks = s.tasks, t.currentEpoch = s.currentEpoch, ~t.closed,
           t.nextDeliveryId >= s.nextDeliveryId,
           t.activePlan # NoPlan, t.activePlan.generation = s.activePlan.generation,
           t.activePlan.epoch = s.activePlan.epoch, t.activePlan.tiles = s.activePlan.tiles,
           t.activePlan.sentTiles = s.activePlan.sentTiles,
           t.activePlan.doneQueued <=> frame.kind = "DONE",
           frame.kind = "TILE" => frame.id \in DOMAIN t.deliveries,
           DeliveriesSent(t.deliveries, w)
    PROVE  Flows(t, w, held)
<1> DEFINE waiting == Waiting(s)
           more == Append(waiting, frame)
           g == s.activePlan.generation
<1>1. /\ s \in SessionType /\ FramesHold(s) /\ Coupled(s, w) /\ Ready(s, w) /\ ~s.closed
      /\ s.nextDeliveryId \in Nat /\ t.nextDeliveryId \in Nat /\ w \in Wire /\ w.lastId \in Nat
      /\ Continues(w, waiting) /\ w.lastId < s.nextDeliveryId /\ s.activePlan # NoPlan
  BY IdleIsReady DEF SessionInv, Queues, Flows, Idle, SessionType, Wire
<1>2. Waiting(t) = more /\ waiting \in Seq(Frame)
  BY <1>1, WaitingGrows, WaitingFacts
<1>3. /\ Len(waiting) \in Nat /\ Len(more) = Len(waiting) + 1
      /\ more[Len(waiting) + 1] = frame
      /\ \A i \in 1..Len(waiting) : more[i] = waiting[i]
      /\ \A i \in 1..Len(more) : i = Len(waiting) + 1 \/ i \in 1..Len(waiting)
  BY <1>2, AppendFacts
<1>4. /\ \A i \in 1..Len(waiting) : waiting[i].kind \notin OfStream \cup Announces
      /\ frame.kind \notin Announces
  BY <1>1 DEF Ready, OfStream, Announces
<1>5. /\ s.frames \in Seq(Frame)
      /\ s.writing => s.frames # <<>>
      /\ Len(s.frames) \in Nat /\ Len(t.frames) = Len(s.frames) + 1
      /\ t.frames[Len(s.frames) + 1] = frame
      /\ \A i \in 1..Len(s.frames) : t.frames[i] = s.frames[i]
      /\ \A i \in 1..Len(t.frames) : i = Len(s.frames) + 1 \/ i \in 1..Len(s.frames)
      /\ t.frames \in Seq(Frame) /\ t.frames # <<>>
  <2>1. s.frames \in Seq(Frame)
    BY <1>1 DEF SessionType
  <2> QED
    BY <1>1, <2>1, AppendFacts DEF FramesHold
<1>6. s.writing => Head(t.frames) = Head(s.frames)
  <2> SUFFICES ASSUME s.writing PROVE Head(t.frames) = Head(s.frames)
    OBVIOUS
  <2>1. Head(s.frames) = s.frames[1] /\ 1 \in 1..Len(s.frames) /\ Head(t.frames) = t.frames[1]
    BY <1>5, TailFacts
  <2> QED
    BY <1>5, <2>1
<1> HIDE DEF waiting
<1>7. Continues(w, more)
  <2>1. \A i \in 1..Len(waiting) : InOrder(waiting[i], frame)
    BY <1>4 DEF InOrder
  <2> QED
    BY <1>1, <1>2, <2>1, ContinuesAppend
<1> HIDE DEF more
<1>8. \A i \in 1..Len(more) : more[i].kind \in PlanKinds => Belongs(t, more[i])
  <2>1. Belongs(t, frame)
    BY DEF Belongs, OfStream
  <2>2. ASSUME NEW i \in 1..Len(waiting) PROVE waiting[i].kind \notin PlanKinds
    <3>1. waiting[i] \in Frame /\ waiting[i].kind \notin OfStream \cup Announces
      BY <1>2, <1>4
    <3> QED
      BY <3>1 DEF PlanKinds, OfStream, Announces
  <2> QED
    BY <1>3, <2>1, <2>2
<1>9. \A i \in 1..Len(more) : more[i].kind \notin Announces
  BY <1>3, <1>4
<1>10. ~Uncounted(t, g)
  BY <1>1, <1>6 DEF Ready, Uncounted
<1>11. Streams(t, w)
  <2>1. frame.kind = "DONE" => ~None(more, DoneFrames(g))
    <3>1. Len(waiting) + 1 \in 1..Len(more)
      BY <1>3
    <3> QED
      BY <1>3, <3>1 DEF None, DoneFrames
  <2>2. w.streaming /\ w.epoch = t.activePlan.epoch /\ w.size = t.activePlan.tiles
        /\ w.sent = t.activePlan.sentTiles /\ w.sent \in Nat
    BY <1>1 DEF Ready, Wire
  <2> HIDE DEF g
  <2> QED
    BY <1>2, <1>9, <1>10, <2>1, <2>2 DEF Streams, g
<1>12. Coupled(t, w)
  <2>1. s.activePlan.epoch \in 1..s.currentEpoch
    BY <1>1 DEF Coupled
  <2>2. \A i, j \in 1..Len(more) : i < j /\ more[i].kind = "PLAN" => more[j].kind \notin Announces
    BY <1>9
  <2> QED
    BY <1>2, <1>8, <1>11, <2>1, <2>2 DEF Coupled
<1>13. FramesSent(t.frames, t.writing, w.lastId)
  <2>1. FramesSent(s.frames, s.writing, w.lastId)
    BY DEF Flows
  <2> QED
    BY <1>5, <1>6, <2>1 DEF FramesSent, OfStream
<1>14. \A i \in 1..Len(t.frames) : t.frames[i].kind \in Announces => t.frames[i].epoch <= t.currentEpoch
  BY <1>4, <1>5 DEF Flows
<1>15. w.lastId < t.nextDeliveryId
  BY <1>1
<1> QED
  BY <1>2, <1>7, <1>12, <1>13, <1>14, <1>15 DEF Flows

\* The tile is queued under a new id, or its reservation goes and the session closes.
LEMMA SendTileFlows ==
    ASSUME NEW s, SessionInv(s), NEW w, NEW held, Flows(s, w, held), ~s.closed,
           s.activePlan # NoPlan, ~s.activePlan.busy, s.activePlan.pendingTile > 0,
           ~LacksCredit(s), s.nextDeliveryId <= MaxDeliveryId,
           Cardinality(DOMAIN s.deliveries) < MaxInFlight
    PROVE  Flows(SendTile(Reserve(s)), w, held)
<1> DEFINE r == Reserve(s)
           t == SendTile(r)
           plan == s.activePlan
           fresh == s.nextDeliveryId
<1>1. r = Reserve(s) /\ t = SendTile(r)
  OBVIOUS
<1> HIDE DEF r, t
<1>2. /\ s \in SessionType /\ Account(s) /\ FramesHold(s) /\ Stage(s)
      /\ fresh \in Nat /\ fresh \notin DOMAIN s.deliveries
      /\ s.currentEpoch \in Nat /\ w \in Wire /\ w.lastId < fresh /\ w.lastId \in Nat
  BY DEF SessionInv, Account, Queues, Stages, SessionType, Flows, Wire
<1>3. /\ plan \in ActivePlan /\ plan.sentTiles \in Nat /\ plan.next \in Nat /\ plan.tiles \in Nat
      /\ plan.pendingTile \in Nat /\ plan.epoch \in Nat /\ plan.planCommitted \in BOOLEAN
  BY <1>2, PlanFields
<1>4. /\ plan.planCommitted /\ ~plan.doneQueued /\ plan.sentTiles < plan.tiles
  BY <1>2, <1>3 DEF Stage, Progress, Underway
<1>5. Idle(s) /\ Ready(s, w)
  BY <1>4, IdleIsReady DEF Idle
<1>6. /\ r \in SessionType /\ r.activePlan = [plan EXCEPT !.pendingTile = 0, !.busy = TRUE]
      /\ r.activePlan \in ActivePlan
      /\ SameView(s, r) /\ SameFrames(s, r) /\ r.tasks = s.tasks
      /\ r.nextDeliveryId = fresh + 1
      /\ DOMAIN r.deliveries = DOMAIN s.deliveries \cup {fresh}
      /\ \A other \in DOMAIN s.deliveries : r.deliveries[other] = s.deliveries[other]
      /\ r.deliveries[fresh] = Reserved(s)
      /\ r.closed = s.closed
  <2>1. r \in SessionType /\ r.activePlan = [plan EXCEPT !.pendingTile = 0, !.busy = TRUE]
    BY <1>1, <1>2, ReserveEffect
  <2>2. /\ r.activePlan \in ActivePlan
        /\ SameView(s, r) /\ SameFrames(s, r) /\ r.tasks = s.tasks
        /\ r.nextDeliveryId = fresh + 1
    BY <1>1, <1>2, ReserveEffect
  <2>3. /\ DOMAIN r.deliveries = DOMAIN s.deliveries \cup {fresh}
        /\ \A other \in DOMAIN s.deliveries : r.deliveries[other] = s.deliveries[other]
        /\ r.deliveries[fresh] = Reserved(s)
    <3>1. Adds(s.deliveries, r.deliveries, fresh, Reserved(s))
      BY <1>1, <1>2, ReserveEffect
    <3> QED
      BY <3>1 DEF Adds
  <2>4. r.closed = s.closed
    BY <1>1, <1>2, <2>1, AccountReserves
  <2> QED
    BY <2>1, <2>2, <2>3, <2>4
<1>7. /\ r.activePlan # NoPlan /\ r.activePlan.generation = plan.generation
      /\ r.activePlan.epoch = plan.epoch /\ r.activePlan.tiles = plan.tiles
      /\ r.activePlan.sentTiles = plan.sentTiles /\ r.activePlan.doneQueued = plan.doneQueued
  BY <1>3, <1>6 DEF ActivePlan, NoPlan
<1>8. r.nextDeliveryId - 1 = fresh /\ r.nextDeliveryId - 1 \in DOMAIN r.deliveries
  BY <1>2, <1>6
<1>9. CASE t.closed /\ SameFrames(r, t) /\ SameView(r, t) /\ t.tasks = r.tasks
           /\ t.nextDeliveryId = r.nextDeliveryId
           /\ Loses(r.deliveries, t.deliveries, {r.nextDeliveryId - 1}) /\ t \in SessionType
  <2>1. \A other \in DOMAIN t.deliveries :
            other \in DOMAIN s.deliveries /\ t.deliveries[other] = s.deliveries[other]
    BY <1>6, <1>8, <1>9 DEF Loses
  <2>2. /\ SameFrames(s, t) /\ t.tasks = s.tasks
        /\ t.currentEpoch >= s.currentEpoch /\ t.nextDeliveryId >= s.nextDeliveryId
    BY <1>2, <1>6, <1>9 DEF SameFrames, SameView
  <2> QED
    BY <1>1, <1>2, <1>9, <2>1, <2>2, ClosedFlows
<1>10. ASSUME NEW frame \in Frame, NEW image,
              frame = TileFrame("TILE", r.activePlan.epoch, r.activePlan.generation,
                                r.nextDeliveryId - 1, image),
              t \in SessionType, ~t.closed, OnlyFrames(r, t), t.frames = Append(r.frames, frame)
       PROVE  Flows(t, w, held)
  <2>1. /\ frame.kind = "TILE" /\ frame.epoch = plan.epoch /\ frame.generation = plan.generation
        /\ frame.id = fresh
    BY <1>7, <1>8, <1>10 DEF TileFrame
  <2>2. /\ t.activePlan = r.activePlan /\ t.deliveries = r.deliveries
        /\ t.nextDeliveryId = r.nextDeliveryId /\ t.tasks = s.tasks
        /\ t.frames = Append(s.frames, frame) /\ t.writing = s.writing
        /\ t.currentEpoch = s.currentEpoch
    BY <1>6, <1>10 DEF OnlyFrames, SamePlan, SameCredit, SameView, SameFrames
  <2>3. Follows(w, frame)
    <3>1. w.streaming /\ w.epoch = plan.epoch /\ w.sent < w.size
      BY <1>4, <1>5 DEF Ready
    <3>2. frame.id > w.lastId
      BY <1>2, <2>1
    <3> QED
      BY <2>1, <3>1, <3>2 DEF Follows, Announces, OfStream
  <2>4. DeliveriesSent(t.deliveries, w)
    <3>1. r.deliveries[fresh].epoch = plan.epoch /\ r.deliveries[fresh].state = "RESERVED_QUEUED"
      BY <1>6 DEF Reserved
    <3>2. plan.epoch \in 1..w.epoch
      BY <1>3, <1>5 DEF Ready
    <3>3. DeliveriesSent(s.deliveries, w)
      BY DEF Flows
    <3> QED
      BY <1>6, <2>2, <3>1, <3>2, <3>3 DEF DeliveriesSent
  <2>5. t.nextDeliveryId >= s.nextDeliveryId /\ frame.id \in DOMAIN t.deliveries
    BY <1>2, <1>6, <2>1, <2>2
  <2>6. frame.kind \in OfStream /\ frame.kind # "DONE"
    BY <2>1 DEF OfStream
  <2> QED
    BY <1>4, <1>5, <1>7, <1>10, <2>1, <2>2, <2>3, <2>4, <2>5, <2>6, StreamGrows
<1>11. CASE r.closed
  BY <1>6, <1>11
<1>12. \/ r.closed
       \/ /\ t \in SessionType /\ t.closed /\ SameFrames(r, t) /\ SameView(r, t) /\ t.tasks = r.tasks
          /\ t.nextDeliveryId = r.nextDeliveryId
          /\ Loses(r.deliveries, t.deliveries, {r.nextDeliveryId - 1})
       \/ /\ t \in SessionType /\ ~t.closed /\ OnlyFrames(r, t)
          /\ \E image \in SomeImage :
                LET frame == TileFrame("TILE", r.activePlan.epoch, r.activePlan.generation,
                                       r.nextDeliveryId - 1, image)
                IN frame \in Frame /\ t.frames = Append(r.frames, frame)
  <2>1. r \in SessionType /\ r.activePlan # NoPlan /\ t = SendTile(r)
    BY <1>1, <1>6, <1>7
  <2> HIDE DEF plan, fresh
  <2> QED
    BY <1>8, <2>1, SendTileEffect
<1> QED
  BY <1>1, <1>9, <1>10, <1>11, <1>12

\* The DONE counts the tiles sent, which are all.
LEMMA SendDoneFlows ==
    ASSUME NEW s, SessionInv(s), NEW w, NEW held, Flows(s, w, held), Idle(s),
           s.activePlan.pendingTile = 0, ~s.activePlan.doneQueued,
           s.activePlan.next = s.activePlan.tiles
    PROVE  Flows(SendDone(s), w, held)
<1> DEFINE t == SendDone(s)
           plan == s.activePlan
           frame == PlanControl("DONE", plan, plan.sentTiles)
<1>1. t = SendDone(s)
  OBVIOUS
<1> HIDE DEF t
<1>2. /\ s \in SessionType /\ FramesHold(s) /\ Stage(s) /\ plan # NoPlan
      /\ s.currentEpoch \in Nat /\ s.nextDeliveryId \in Nat
  BY DEF SessionInv, Queues, Stages, SessionType, Idle
<1>3. /\ plan \in ActivePlan /\ plan.sentTiles \in Nat /\ plan.tiles \in Nat /\ plan.next \in Nat
  BY <1>2, PlanFields
<1>4. plan.sentTiles = plan.tiles
  BY <1>2, <1>3 DEF Stage, Progress, Underway, Idle
<1>5. Ready(s, w)
  BY IdleIsReady
<1>6. /\ t \in SessionType /\ SameView(s, t) /\ SameCredit(s, t)
      /\ t.tasks = s.tasks /\ t.writing = s.writing
      /\ \/ t.closed /\ t.frames = s.frames
         \/ /\ ~t.closed /\ t.activePlan = [plan EXCEPT !.doneQueued = TRUE] /\ t.activePlan \in ActivePlan
            /\ frame \in Frame /\ t.frames = Append(s.frames, frame)
  BY <1>1, <1>2, SendDoneEffect
<1>7. /\ t.currentEpoch = s.currentEpoch /\ t.nextDeliveryId = s.nextDeliveryId
      /\ t.deliveries = s.deliveries
  BY <1>6 DEF SameView, SameCredit
<1>8. CASE t.closed /\ t.frames = s.frames
  BY <1>1, <1>2, <1>6, <1>7, <1>8, ClosedFlows DEF SameFrames
<1>9. CASE /\ ~t.closed /\ t.activePlan = [plan EXCEPT !.doneQueued = TRUE] /\ t.activePlan \in ActivePlan
           /\ frame \in Frame /\ t.frames = Append(s.frames, frame)
  <2>1. /\ frame.kind = "DONE" /\ frame.epoch = plan.epoch /\ frame.generation = plan.generation
        /\ frame.count = plan.sentTiles
    BY DEF PlanControl
  <2> HIDE DEF frame
  <2>2. Follows(w, frame)
    BY <1>4, <1>5, <2>1 DEF Ready, Follows, Announces, OfStream
  <2>3. /\ t.activePlan # NoPlan /\ t.activePlan.generation = plan.generation
        /\ t.activePlan.epoch = plan.epoch /\ t.activePlan.tiles = plan.tiles
        /\ t.activePlan.sentTiles = plan.sentTiles /\ t.activePlan.doneQueued = TRUE
    BY <1>3, <1>9 DEF ActivePlan, NoPlan
  <2>4. DeliveriesSent(t.deliveries, w)
    BY <1>7 DEF Flows
  <2>5. frame.kind \in OfStream /\ frame.kind # "TILE" /\ t.nextDeliveryId >= s.nextDeliveryId
    BY <1>2, <1>7, <2>1 DEF OfStream
  <2> QED
    BY <1>1, <1>6, <1>7, <1>9, <2>1, <2>2, <2>3, <2>4, <2>5, StreamGrows
<1> QED
  BY <1>6, <1>8, <1>9

LEMMA TrySendPendingFlows ==
    ASSUME NEW s, SessionInv(s), NEW w, NEW held, Flows(s, w, held), ~s.closed,
           s.activePlan # NoPlan, ~s.activePlan.busy, s.activePlan.pendingTile > 0, NEW answer
    PROVE  Flows(TrySendPending(s, answer), w, held)
<1> DEFINE plan == s.activePlan
           e == SendError(s, plan.epoch)
<1>1. /\ s \in SessionType /\ FramesHold(s) /\ IsFiniteSet(DOMAIN s.deliveries)
      /\ plan.epoch \in Nat /\ s.nextDeliveryId \in Nat
  BY PlanFields, LedgerElim DEF SessionInv, Queues, SessionType
<1>2. MaxInFlight \in Nat /\ MaxDeliveryId \in Nat /\ Cardinality(DOMAIN s.deliveries) \in Nat
  BY <1>1, ConstantsAssumption, FS_CardinalityType
<1>3. CASE TrySendPending(s, answer) = s
  BY <1>3
<1>4. CASE TrySendPending(s, answer) = Closing(e)
  <2>1. e \in SessionType /\ SessionInv(e) /\ Flows(e, w, held)
    BY <1>1, SendErrorHolds, SendErrorFlows DEF SessionInv
  <2> HIDE DEF e
  <2>2. FramesHold(e)
    BY <2>1 DEF SessionInv, Queues
  <2> QED
    BY <1>4, <2>1, <2>2, ClosingFlows
<1>5. CASE TrySendPending(s, answer) = FailPlan(s)
  BY <1>1, <1>5, FailPlanFlows
<1>6. CASE /\ TrySendPending(s, answer) = SendTile(Reserve(s)) /\ ~LacksCredit(s)
           /\ ~(s.nextDeliveryId > MaxDeliveryId)
           /\ ~(Cardinality(DOMAIN s.deliveries) >= MaxInFlight)
  <2>1. s.nextDeliveryId <= MaxDeliveryId /\ Cardinality(DOMAIN s.deliveries) < MaxInFlight
    BY <1>1, <1>2, <1>6
  <2> QED
    BY <1>6, <2>1, SendTileFlows
<1> QED
  BY <1>3, <1>4, <1>5, <1>6 DEF TrySendPending

\* The plan goes on with its turns and its reads: the stream does not see it.
LEMMA SameLineFlows ==
    ASSUME NEW s \in SessionType, NEW t \in SessionType, NEW w, NEW held, Flows(s, w, held),
           FramesHold(s), SameFrames(s, t), SameView(s, t), SameCredit(s, t), t.tasks = s.tasks,
           s.closed => t.closed, SameLine(s.activePlan, t.activePlan)
    PROVE  Flows(t, w, held)
<1>1. /\ t.currentEpoch = s.currentEpoch /\ t.nextDeliveryId = s.nextDeliveryId
      /\ t.deliveries = s.deliveries
  BY DEF SameView, SameCredit
<1>2. SameCount(s, t)
  BY CountSame DEF Alike
<1>3. TasksSent(t.tasks, w.lastId)
  BY DEF Flows
<1> QED
  BY <1>1, <1>2, <1>3, AdvancesSame, FlowsKept

LEMMA StartTileReadFlows ==
    ASSUME NEW s \in SessionType, NEW w, NEW held, Flows(s, w, held), FramesHold(s),
           s.activePlan # NoPlan, NEW answer
    PROVE  Flows(StartTileRead(s, answer), w, held)
<1> DEFINE after == StartTileRead(s, answer)
<1>1. after = StartTileRead(s, answer)
  OBVIOUS
<1> HIDE DEF after
<1>2. s.activePlan \in ActivePlan
  BY PlanFields
<1>3. CASE after = [s EXCEPT !.turn = "none"]
  <2>1. /\ after \in SessionType /\ SamePlan(s, after) /\ SameCredit(s, after) /\ SameView(s, after)
        /\ SameFrames(s, after) /\ after.tasks = s.tasks /\ after.closed = s.closed
    BY <1>3, TurnEffect
  <2>2. SameLine(s.activePlan, after.activePlan)
    BY <2>1 DEF SamePlan, SameLine
  <2> QED
    BY <1>1, <2>1, <2>2, SameLineFlows
<1>4. CASE \E t \in SessionType : ReadFails(s, t) /\ after = FailPlan(t)
  <2>1. PICK t \in SessionType : ReadFails(s, t) /\ after = FailPlan(t)
    BY <1>4
  <2>2. /\ t.activePlan = [s.activePlan EXCEPT !.next = @ + 1] /\ t.activePlan \in ActivePlan
        /\ SameCredit(s, t) /\ SameView(s, t) /\ SameFrames(s, t)
        /\ t.tasks = s.tasks /\ t.closed = s.closed /\ t.planGeneration = s.planGeneration
    BY <2>1 DEF ReadFails
  <2>3. SameLine(s.activePlan, t.activePlan)
    BY <1>2, <2>2 DEF SameLine, ActivePlan, NoPlan
  <2>4. Flows(t, w, held)
    BY <2>2, <2>3, SameLineFlows
  <2>5. FramesHold(t)
    BY <2>2 DEF FramesHold, SameFrames, SameCredit
  <2> QED
    BY <1>1, <2>1, <2>4, <2>5, FailPlanFlows
<1>5. CASE after \in SessionType /\ ReadStarts(s, after)
  <2>1. /\ after.activePlan = [s.activePlan EXCEPT !.next = @ + 1, !.busy = TRUE]
        /\ after.activePlan \in ActivePlan
        /\ SameCredit(s, after) /\ SameView(s, after) /\ SameFrames(s, after)
        /\ after.tasks = s.tasks /\ after.closed = s.closed
    BY <1>5 DEF ReadStarts
  <2>2. SameLine(s.activePlan, after.activePlan)
    BY <1>2, <2>1 DEF SameLine, ActivePlan, NoPlan
  <2> QED
    BY <1>1, <1>5, <2>1, <2>2, SameLineFlows
<1> QED
  BY <1>1, <1>3, <1>4, <1>5, StartTileReadCases

LEMMA PumpFlows ==
    ASSUME NEW s, SessionInv(s), NEW w, NEW held, Flows(s, w, held), NEW answer
    PROVE  Flows(Pump(s, answer), w, held)
<1> DEFINE plan == s.activePlan
<1>1. s \in SessionType /\ FramesHold(s)
  BY DEF SessionInv, Queues
<1>2. CASE s.closed \/ plan = NoPlan \/ plan.busy \/ ~plan.planCommitted
  BY <1>2 DEF Pump
<1> SUFFICES ASSUME ~(s.closed \/ plan = NoPlan \/ plan.busy \/ ~plan.planCommitted)
             PROVE  Flows(Pump(s, answer), w, held)
  BY <1>2
<1>3. Idle(s) /\ plan.pendingTile \in Nat
  BY <1>1, PlanFields DEF Idle
<1>4. CASE plan.pendingTile > 0
  BY <1>4, TrySendPendingFlows DEF Pump
<1>5. CASE plan.next = plan.tiles /\ ~(plan.pendingTile > 0) /\ ~plan.doneQueued
  <2>1. plan.pendingTile = 0
    BY <1>3, <1>5
  <2>2. Pump(s, answer) = SendDone(s)
    BY <1>5 DEF Pump
  <2> QED
    BY <1>3, <1>5, <2>1, <2>2, SendDoneFlows
<1>6. CASE Pump(s, answer) = s
  BY <1>6
<1>7. CASE Pump(s, answer) = FailPlan(s)
  BY <1>1, <1>7, FailPlanFlows
<1>8. CASE Pump(s, answer) = StartTileRead(s, answer)
  BY <1>1, <1>8, StartTileReadFlows
<1>9. CASE Pump(s, answer) = [s EXCEPT !.turn = "queued", !.activePlan.readWait = TRUE]
  <2> DEFINE t == Pump(s, answer)
  <2>1. t = [s EXCEPT !.turn = "queued", !.activePlan.readWait = TRUE]
    BY <1>9
  <2> HIDE DEF t
  <2>2. /\ t \in SessionType
        /\ t.activePlan = [s.activePlan EXCEPT !.readWait = TRUE] /\ t.activePlan \in ActivePlan
        /\ SameCredit(s, t) /\ SameView(s, t) /\ SameFrames(s, t)
        /\ t.tasks = s.tasks /\ t.closed = s.closed
    BY <1>1, <2>1, TurnQueuedEffect
  <2>3. SameLine(s.activePlan, t.activePlan)
    BY <1>1, <2>2, PlanFields DEF SameLine, ActivePlan, NoPlan
  <2>4. Flows(t, w, held)
    BY <1>1, <2>2, <2>3, SameLineFlows
  <2> QED
    BY <2>4 DEF t
<1> QED
  BY <1>4, <1>5, <1>6, <1>7, <1>8, <1>9 DEF Pump, RequestTileRead

--------------------------------------------------------------------------------
\* Confirmations and recoveries are of tiles that were sent

LEMMA AcknowledgeFlows ==
    ASSUME NEW s \in SessionType, NEW w, NEW held, Flows(s, w, held), FramesHold(s),
           NEW ids, \A id \in ids : id <= w.lastId,
           NEW t, t = Acknowledge(s, ids)
    PROVE  t \in SessionType /\ FramesHold(t) /\ Flows(t, w, held)
<1>1. t \in SessionType /\ OnlyCredit(s, t) /\ Loses(s.deliveries, t.deliveries, ids)
  BY AcknowledgeEffect
<1>2. /\ SameFrames(s, t) /\ t.tasks = s.tasks /\ t.currentEpoch = s.currentEpoch
      /\ t.nextDeliveryId = s.nextDeliveryId /\ t.activePlan = s.activePlan
      /\ t.planGeneration = s.planGeneration
      /\ s.closed => t.closed
  BY <1>1 DEF OnlyCredit, SamePlan, SameView, Ends
<1>3. SameLine(s.activePlan, t.activePlan) /\ SameCount(s, t)
  BY <1>2, CountSame DEF SameLine, Alike
<1>4. Advances(s, t, w.lastId)
  BY <1>1 DEF Loses, Advances
<1>5. TasksSent(t.tasks, w.lastId)
  BY <1>2 DEF Flows
<1>6. FramesHold(t)
  <2>1. t.planGeneration >= s.planGeneration /\ t.nextDeliveryId >= s.nextDeliveryId
    BY <1>2 DEF SessionType
  <2> QED
    BY <1>1, <1>2, <2>1, FramesSame
<1>7. Flows(t, w, held)
  BY <1>1, <1>2, <1>3, <1>4, <1>5, FlowsKept
<1> QED
  BY <1>1, <1>6, <1>7

LEMMA RevisesFlows ==
    ASSUME NEW s \in SessionType, NEW w, NEW held, Flows(s, w, held), FramesHold(s),
           NEW t, NEW id, NEW state, NEW retrying, NEW timer,
           Revises(s, t, id, state, retrying, timer),
           state = s.deliveries[id].state \/ id <= w.lastId
    PROVE  /\ t \in SessionType /\ FramesHold(t) /\ Flows(t, w, held)
           /\ SamePlan(s, t) /\ SameFrames(s, t) /\ t.tasks = s.tasks
<1>1. PICK d : Revised(s.deliveries[id], d, state, retrying, timer) /\ t = [s EXCEPT !.deliveries[id] = d]
  BY DEF Revises
<1>2. /\ id \in DOMAIN s.deliveries /\ d \in Delivery
      /\ d.reservedBytes = s.deliveries[id].reservedBytes
      /\ d.epoch = s.deliveries[id].epoch /\ d.state = state
  BY <1>1 DEF Revises, Revised
<1>3. /\ t \in SessionType
      /\ SamePlan(s, t) /\ SameView(s, t) /\ SameFrames(s, t)
      /\ t.tasks = s.tasks /\ t.closed = s.closed /\ t.nextDeliveryId = s.nextDeliveryId
      /\ DOMAIN t.deliveries = DOMAIN s.deliveries /\ t.deliveries[id] = d
      /\ \A other \in DOMAIN s.deliveries : other # id => t.deliveries[other] = s.deliveries[other]
  BY <1>1, <1>2, DeliveryEffect
<1>4. /\ t.currentEpoch = s.currentEpoch /\ t.activePlan = s.activePlan
      /\ t.planGeneration = s.planGeneration
  BY <1>3 DEF SamePlan, SameView
<1>5. SameLine(s.activePlan, t.activePlan) /\ SameCount(s, t)
  BY <1>3, <1>4, CountSame DEF SameLine, Alike
<1>6. Advances(s, t, w.lastId)
  BY <1>2, <1>3 DEF Advances
<1>7. TasksSent(t.tasks, w.lastId)
  BY <1>3 DEF Flows
<1>8. FramesHold(t)
  BY <1>3, <1>4 DEF FramesHold, SameFrames
<1> QED
  BY <1>3, <1>4, <1>5, <1>6, <1>7, <1>8, FlowsKept

LEMMA RetransmitFlows ==
    ASSUME NEW s \in SessionType, NEW w, NEW held, Flows(s, w, held), FramesHold(s),
           NEW epoch \in Nat, NEW id, NEW answer
    PROVE  Flows(RequestSelectiveRetransmit(s, epoch, id, answer), w, held)
<1> DEFINE after == RequestSelectiveRetransmit(s, epoch, id, answer)
           acked == Acknowledge(s, {id})
<1>1. after = RequestSelectiveRetransmit(s, epoch, id, answer)
  OBVIOUS
<1> HIDE DEF after
<1>2. CASE after = s
  BY <1>1, <1>2
<1> SUFFICES ASSUME Retriable(s, id)
             PROVE  Flows(RequestSelectiveRetransmit(s, epoch, id, answer), w, held)
  BY <1>1, <1>2, RetransmitCases
<1>3. id <= w.lastId /\ s.deliveries[id].state = "WRITTEN_AWAITING_RELEASE"
  BY DEF Retriable, Flows, DeliveriesSent
<1>4. acked \in SessionType /\ FramesHold(acked) /\ Flows(acked, w, held)
  BY <1>3, AcknowledgeFlows
<1> HIDE DEF acked
<1>5. CASE after = SendError(acked, epoch)
  BY <1>1, <1>4, <1>5, SendErrorFlows
<1>6. CASE after = acked
  BY <1>1, <1>4, <1>6
<1>7. CASE \E t : /\ Revises(s, t, id, "WRITTEN_AWAITING_RELEASE", FALSE, TRUE)
                  /\ after = SendError(t, epoch)
  <2>1. PICK t : /\ Revises(s, t, id, "WRITTEN_AWAITING_RELEASE", FALSE, TRUE)
                 /\ after = SendError(t, epoch)
    BY <1>7
  <2>2. t \in SessionType /\ FramesHold(t) /\ Flows(t, w, held)
    BY <1>3, <2>1, RevisesFlows
  <2> QED
    BY <1>1, <2>1, <2>2, SendErrorFlows
<1>8. CASE \E t : /\ Revises(s, t, id, "WRITTEN_AWAITING_RELEASE", TRUE, FALSE)
                  /\ Rereads(t, after, id)
  <2>1. PICK t : /\ Revises(s, t, id, "WRITTEN_AWAITING_RELEASE", TRUE, FALSE)
                 /\ Rereads(t, after, id)
    BY <1>8
  <2>2. t \in SessionType /\ FramesHold(t) /\ Flows(t, w, held)
    BY <1>3, <2>1, RevisesFlows
  <2>3. /\ after \in SessionType /\ SamePlan(t, after) /\ SameCredit(t, after) /\ SameView(t, after)
        /\ SameFrames(t, after) /\ after.tasks = t.tasks /\ after.closed = t.closed
    BY <2>1, <2>2, ReadsEffect DEF Rereads
  <2>4. SameLine(t.activePlan, after.activePlan)
    BY <2>3 DEF SamePlan, SameLine
  <2> QED
    BY <1>1, <2>2, <2>3, <2>4, SameLineFlows
<1> QED
  BY <1>1, <1>2, <1>5, <1>6, <1>7, <1>8, RetransmitCases DEF acked

LEMMA RecoveryFailedFlows ==
    ASSUME NEW s \in SessionType, NEW w, NEW held, Flows(s, w, held), FramesHold(s),
           NEW id \in DOMAIN s.deliveries
    PROVE  Flows(RecoveryFailed(s, id), w, held)
<1> DEFINE after == RecoveryFailed(s, id)
           state == s.deliveries[id].state
<1>1. after = RecoveryFailed(s, id) /\ state = s.deliveries[id].state
  OBVIOUS
<1>2. PICK t : /\ Revises(s, t, id, state, FALSE, TRUE)
               /\ after = SendError(t, s.deliveries[id].epoch)
  BY <1>1, RecoveryFailedEffect
<1> HIDE DEF after, state
<1>3. t \in SessionType /\ FramesHold(t) /\ Flows(t, w, held)
  <2> DEFINE retrying == FALSE
             timer == TRUE
  <2>1. Revises(s, t, id, state, retrying, timer)
    BY <1>2
  <2>2. state = s.deliveries[id].state
    BY <1>1
  <2> HIDE DEF retrying, timer
  <2> QED
    BY <2>1, <2>2, RevisesFlows
<1>4. s.deliveries[id].epoch \in Nat
  BY DeliveryField DEF Delivery
<1> QED
  BY <1>1, <1>2, <1>3, <1>4, SendErrorFlows

LEMMA SendAgainFlows ==
    ASSUME NEW s \in SessionType, NEW w, NEW held, Flows(s, w, held), FramesHold(s), Account(s),
           NEW id \in DOMAIN s.deliveries, s.deliveries[id].state = "WRITTEN_AWAITING_RELEASE"
    PROVE  Flows(SendAgain(s, id), w, held)
<1> DEFINE after == SendAgain(s, id)
           frame == TileFrame("RETRY", s.deliveries[id].epoch, 0, id, NoImage)
<1>1. after = SendAgain(s, id)
  OBVIOUS
<1> HIDE DEF after
<1>2. CASE \E t : /\ Revises(s, t, id, s.deliveries[id].state, FALSE, s.deliveries[id].releaseTimer)
                  /\ after = Closing(t)
  <2> DEFINE state == s.deliveries[id].state
             timer == s.deliveries[id].releaseTimer
  <2>1. PICK t : Revises(s, t, id, state, FALSE, timer) /\ after = Closing(t)
    BY <1>2
  <2>3. state = s.deliveries[id].state
    OBVIOUS
  <2> HIDE DEF state, timer
  <2>2. t \in SessionType /\ FramesHold(t) /\ Flows(t, w, held)
    BY <2>1, <2>3, RevisesFlows
  <2> QED
    BY <1>1, <2>1, <2>2, ClosingFlows
<1>3. CASE ~s.closed /\ frame \in Frame /\ after = Queued(s, frame)
  <2>1. frame.kind = "RETRY" /\ frame.epoch = s.deliveries[id].epoch /\ frame.id = id
    BY DEF TileFrame
  <2>2. frame.epoch \in 1..w.epoch /\ frame.id <= w.lastId
    BY <2>1 DEF Flows, DeliveriesSent
  <2>3. w.lastId > 0
    <3>1. id \in Nat /\ 0 < id /\ w.lastId \in Nat
      BY DeliveryField DEF Account, Flows, Wire
    <3> QED
      BY <2>1, <2>2, <3>1
  <2> HIDE DEF frame
  <2>4. /\ after \in SessionType /\ OnlyFrames(s, after)
        /\ after.frames = Append(s.frames, frame) /\ after.closed = s.closed
    BY <1>3, QueuedEffect
  <2> QED
    BY <1>1, <1>3, <2>1, <2>2, <2>3, <2>4, FrameAddedFlows
<1> QED
  BY <1>1, <1>2, <1>3, SendAgainEffect

LEMMA WrittenFlows ==
    ASSUME NEW s \in SessionType, NEW w, NEW held, Flows(s, w, held), FramesHold(s),
           NEW id, id <= w.lastId
    PROVE  Flows(Written(s, id), w, held)
<1>1. CASE Written(s, id) = s
  BY <1>1
<1>2. CASE Revises(s, Written(s, id), id, "WRITTEN_AWAITING_RELEASE", s.deliveries[id].retryInProgress, TRUE)
  BY <1>2, RevisesFlows
<1> QED
  BY <1>1, <1>2, WrittenEffect

--------------------------------------------------------------------------------
\* A newer image, and a newer view, are announced

LEMMA AnnounceFlows ==
    ASSUME NEW s \in SessionType, NEW w, NEW held, Flows(s, w, held), FramesHold(s),
           ~s.closed, s.activePlan = NoPlan,
           NEW frame \in Frame, frame.kind \in Announces, frame.epoch > s.currentEpoch,
           NEW t \in SessionType, t.frames = Append(s.frames, frame), t.writing = s.writing,
           t.tasks = s.tasks, t.deliveries = s.deliveries, t.nextDeliveryId = s.nextDeliveryId,
           t.currentEpoch = frame.epoch, ~t.closed,
           frame.kind = "MANIFEST" => t.activePlan = NoPlan,
           frame.kind = "PLAN" =>
              Fresh(t.activePlan, frame.generation, frame.epoch) /\ frame.count = t.activePlan.tiles
    PROVE  Flows(t, w, held)
<1> DEFINE waiting == Waiting(s)
           more == Append(waiting, frame)
<1>1. /\ Coupled(s, w) /\ w \in Wire /\ w.epoch \in Nat /\ w.lastId \in Nat
      /\ Continues(w, waiting) /\ w.epoch <= s.currentEpoch /\ s.currentEpoch \in Nat
      /\ frame.epoch \in Nat /\ frame.count \in Nat
  BY FrameFields DEF Flows, Wire, SessionType
<1>2. Waiting(t) = more /\ waiting \in Seq(Frame)
  BY <1>1, WaitingGrows, WaitingFacts
<1>3. /\ Len(waiting) \in Nat /\ Len(more) = Len(waiting) + 1
      /\ more[Len(waiting) + 1] = frame
      /\ \A i \in 1..Len(waiting) : more[i] = waiting[i]
      /\ \A i \in 1..Len(more) : i = Len(waiting) + 1 \/ i \in 1..Len(waiting)
  BY <1>2, AppendFacts
<1>4. /\ s.frames \in Seq(Frame)
      /\ s.writing => s.frames # <<>>
      /\ Len(s.frames) \in Nat /\ Len(t.frames) = Len(s.frames) + 1
      /\ t.frames[Len(s.frames) + 1] = frame
      /\ \A i \in 1..Len(s.frames) : t.frames[i] = s.frames[i]
      /\ \A i \in 1..Len(t.frames) : i = Len(s.frames) + 1 \/ i \in 1..Len(s.frames)
      /\ t.frames \in Seq(Frame) /\ t.frames # <<>>
  <2>1. s.frames \in Seq(Frame)
    BY DEF SessionType
  <2> QED
    BY <2>1, AppendFacts DEF FramesHold
<1>5. s.writing => Head(t.frames) = Head(s.frames)
  <2> SUFFICES ASSUME s.writing PROVE Head(t.frames) = Head(s.frames)
    OBVIOUS
  <2>1. Head(s.frames) = s.frames[1] /\ 1 \in 1..Len(s.frames) /\ Head(t.frames) = t.frames[1]
    BY <1>4, TailFacts
  <2> QED
    BY <1>4, <2>1
<1>6. \A i \in 1..Len(s.frames) :
          s.frames[i].epoch \in Nat
          /\ (s.frames[i].kind \in Announces => s.frames[i].epoch <= s.currentEpoch)
  BY <1>4, FrameFields DEF Flows
<1>7. \A i \in 1..Len(waiting) : \E j \in 1..Len(s.frames) : waiting[i] = s.frames[j]
  BY WaitingFacts
<1>8. \A i \in 1..Len(waiting) : waiting[i].kind \notin PlanKinds
  <2> SUFFICES ASSUME NEW i \in 1..Len(waiting), waiting[i].kind \in PlanKinds PROVE FALSE
    OBVIOUS
  <2>1. waiting[i] \in Frame /\ waiting[i].generation = NoPlan.generation
    BY <1>1, <1>2 DEF Coupled, Belongs
  <2> QED
    BY <2>1, FrameFields DEF NoPlan
<1> HIDE DEF waiting
<1>9. Continues(w, more)
  <2>1. ASSUME NEW i \in 1..Len(waiting) PROVE InOrder(waiting[i], frame)
    <3>1. /\ waiting[i].epoch \in Nat
          /\ waiting[i].kind \in Announces => waiting[i].epoch <= s.currentEpoch
      BY <1>6, <1>7
    <3>2. waiting[i].kind \in Announces => waiting[i].epoch < frame.epoch
      BY <1>1, <3>1
    <3>3. frame.kind \notin OfStream
      BY DEF Announces, OfStream
    <3> QED
      BY <3>2, <3>3 DEF InOrder
  <2>2. frame.epoch > w.epoch
    BY <1>1
  <2>3. frame.kind = "PLAN" => frame.count > 0
    BY <1>1 DEF Fresh
  <2>4. Follows(w, frame)
    BY <2>2, <2>3 DEF Follows, Announces, OfStream
  <2> QED
    BY <1>1, <1>2, <2>1, <2>4, ContinuesAppend
<1> HIDE DEF more
<1>10. Coupled(t, w)
  <2>1. \A i \in 1..Len(more) :
            more[i].kind \in PlanKinds => i = Len(waiting) + 1 /\ frame.kind = "PLAN"
    BY <1>3, <1>8 DEF Announces, PlanKinds
  <2>2. frame.kind = "PLAN" => Belongs(t, frame)
    BY DEF Belongs, Fresh
  <2>3. \A i \in 1..Len(more) : more[i].kind \in PlanKinds => Belongs(t, more[i])
    BY <1>3, <2>1, <2>2
  <2>4. ASSUME NEW i \in 1..Len(more), NEW j \in 1..Len(more), i < j PROVE more[i].kind # "PLAN"
    BY <1>3, <2>1, <2>4 DEF PlanKinds
  <2>5. ASSUME t.activePlan # NoPlan
        PROVE  /\ t.activePlan.epoch \in 1..t.currentEpoch
               /\ ~None(more, PlanFrames(t.activePlan.generation))
    <3>1. frame.kind = "PLAN" /\ Fresh(t.activePlan, frame.generation, frame.epoch)
      BY <2>5 DEF Announces
    <3>2. frame \in PlanFrames(t.activePlan.generation)
      BY <3>1 DEF PlanFrames, Fresh
    <3>3. Len(waiting) + 1 \in 1..Len(more)
      BY <1>3
    <3>4. ~None(more, PlanFrames(t.activePlan.generation))
      BY <1>3, <3>2, <3>3 DEF None
    <3> QED
      BY <1>1, <3>1, <3>4 DEF Fresh
  <2> QED
    BY <1>2, <2>3, <2>4, <2>5 DEF Coupled
<1>11. FramesSent(t.frames, t.writing, w.lastId)
  <2>1. FramesSent(s.frames, s.writing, w.lastId)
    BY DEF Flows
  <2> QED
    BY <1>4, <1>5, <2>1 DEF FramesSent, Announces
<1>12. \A i \in 1..Len(t.frames) : t.frames[i].kind \in Announces => t.frames[i].epoch <= t.currentEpoch
  BY <1>1, <1>4, <1>6
<1>13. w.epoch <= t.currentEpoch
  BY <1>1
<1> QED
  BY <1>2, <1>9, <1>10, <1>11, <1>12, <1>13 DEF Flows

LEMMA AcceptViewFlows ==
    ASSUME NEW s \in SessionType, NEW w, NEW held, Flows(s, w, held), FramesHold(s),
           NEW epoch \in Nat, epoch > s.currentEpoch
    PROVE  Flows(AcceptView(s, epoch), w, held)
<1> DEFINE after == AcceptView(s, epoch)
           ended == InvalidatePlan(s)
           generation == ended.planGeneration + 1
           t == [ended EXCEPT !.currentEpoch = epoch, !.planGeneration = generation]
           plan == NewPlan(t, epoch)
           u == [t EXCEPT !.activePlan = plan]
           frame == PlanControl("PLAN", plan, plan.tiles)
<1>1. /\ ended \in SessionType /\ FramesHold(ended) /\ Flows(ended, w, held)
      /\ ended.activePlan = NoPlan
  BY InvalidatePlanFlows
<1>2. ended.currentEpoch = s.currentEpoch /\ s.currentEpoch \in Nat /\ ended.planGeneration \in Nat
  BY <1>1, InvalidatePlanEffect DEF PlanEnds, SameView, SessionType
<1>3. after = SendPlan(u)
  BY <1>1 DEF AcceptView, SessionType
<1> HIDE DEF after, ended
<1>4. generation \in Nat /\ generation > 0
  BY <1>2
<1> HIDE DEF generation
<1>5. /\ t \in SessionType
      /\ t.planGeneration = generation /\ t.currentEpoch = epoch
      /\ SameFrames(ended, t) /\ SameCredit(ended, t)
      /\ t.tasks = ended.tasks /\ t.closed = ended.closed
  BY <1>1, <1>4 DEF SessionType, SameFrames, SameCredit
<1> HIDE DEF t
<1>6. Fresh(plan, generation, epoch)
  BY <1>4, <1>5, NewPlanIsFresh
<1>7. plan \in ActivePlan
  BY <1>6 DEF Fresh
<1> HIDE DEF plan
<1>8. /\ u \in SessionType /\ u.activePlan = plan
      /\ SameCredit(t, u) /\ SameView(t, u) /\ SameFrames(t, u)
      /\ u.tasks = t.tasks /\ u.closed = t.closed
  BY <1>5, <1>7, PlanEffect
<1> HIDE DEF u
<1>9. /\ u.currentEpoch = epoch /\ u.tasks = ended.tasks /\ SameFrames(ended, u)
      /\ u.closed = ended.closed /\ u.deliveries = ended.deliveries
      /\ u.nextDeliveryId = ended.nextDeliveryId
  BY <1>5, <1>8 DEF SameView, SameCredit, SameFrames
<1>10. CASE Refuses(u)
  <2> DEFINE none == [u EXCEPT !.activePlan = NoPlan]
  <2>1. after = Closing(none)
    BY <1>3, <1>10 DEF SendPlan
  <2>2. /\ none \in SessionType /\ SameCredit(u, none) /\ SameView(u, none) /\ SameFrames(u, none)
        /\ none.tasks = u.tasks
    BY <1>8, PlanEffect
  <2> HIDE DEF none
  <2>3. after \in SessionType /\ OnlyEnds(none, after) /\ after.closed
    BY <2>1, <2>2, ClosingEffect
  <2>4. /\ SameFrames(ended, after) /\ after.tasks = ended.tasks
        /\ after.currentEpoch = epoch /\ after.nextDeliveryId = ended.nextDeliveryId
        /\ after.deliveries = ended.deliveries
    BY <1>9, <2>2, <2>3 DEF OnlyEnds, SameView, SameCredit, SameFrames
  <2>5. after.currentEpoch >= ended.currentEpoch /\ after.nextDeliveryId >= ended.nextDeliveryId
    BY <1>1, <1>2, <2>4 DEF SessionType
  <2>6. Flows(after, w, held)
    BY <1>1, <2>3, <2>4, <2>5, ClosedFlows
  <2> QED
    BY <2>6 DEF after
<1>11. CASE ~Refuses(u)
  <2>1. frame \in Frame
    BY <1>6, <1>7, PlanControlIsFrame DEF Fresh, PlanKinds
  <2>2. after = Queued(u, frame) /\ ~u.closed
    BY <1>3, <1>8, <1>11 DEF SendPlan, Refuses
  <2>3. /\ frame.kind = "PLAN" /\ frame.epoch = epoch /\ frame.generation = generation
        /\ frame.count = plan.tiles
    BY <1>6 DEF PlanControl, Fresh
  <2> HIDE DEF frame
  <2>4. /\ after \in SessionType /\ OnlyFrames(u, after)
        /\ after.frames = Append(u.frames, frame) /\ after.closed = u.closed
    BY <1>8, <2>1, <2>2, QueuedEffect
  <2>5. /\ after.frames = Append(ended.frames, frame) /\ after.writing = ended.writing
        /\ after.tasks = ended.tasks /\ after.deliveries = ended.deliveries
        /\ after.nextDeliveryId = ended.nextDeliveryId
        /\ after.currentEpoch = epoch /\ after.activePlan = plan /\ ~after.closed /\ ~ended.closed
    BY <1>8, <1>9, <2>2, <2>4 DEF OnlyFrames, SamePlan, SameView, SameCredit, SameFrames
  <2>6. frame.kind \in Announces /\ frame.epoch > ended.currentEpoch /\ frame.kind # "MANIFEST"
    BY <1>2, <2>3 DEF Announces
  <2>7. Flows(after, w, held)
    BY <1>1, <1>6, <2>1, <2>3, <2>4, <2>5, <2>6, AnnounceFlows
  <2> QED
    BY <2>7 DEF after
<1> QED
  BY <1>10, <1>11

--------------------------------------------------------------------------------
\* The handlers keep the stream

\* The head of the tasks runs; it did not count a tile of the plan.
LEMMA RanFlows ==
    ASSUME NEW s \in SessionType, NEW w, NEW held, Flows(s, w, held), FramesHold(s), s.tasks # <<>>,
           NEW t, t = Ran(s)
    PROVE  /\ SentTask(Head(s.tasks), w.lastId)
           /\ Head(s.tasks) \notin WrittenTasks(s.activePlan.generation) => Flows(t, w, held)
           /\ t \in SessionType /\ FramesHold(t) /\ TasksSent(t.tasks, w.lastId)
<1>1. /\ t \in SessionType
      /\ SamePlan(s, t) /\ SameCredit(s, t) /\ SameView(s, t)
      /\ SameFrames(s, t) /\ t.closed = s.closed
      /\ t.tasks = Tail(s.tasks)
  BY RanEffect
<1>2. /\ t.currentEpoch = s.currentEpoch /\ t.nextDeliveryId = s.nextDeliveryId
      /\ t.deliveries = s.deliveries /\ t.activePlan = s.activePlan
      /\ t.planGeneration = s.planGeneration
  BY <1>1 DEF SamePlan, SameCredit, SameView
<1>3. s.tasks \in Seq(Task) /\ TasksSent(s.tasks, w.lastId)
  BY DEF SessionType, Flows
<1>4. TasksSent(t.tasks, w.lastId) /\ SentTask(Head(s.tasks), w.lastId)
  BY <1>1, <1>3, TasksSentTail
<1>5. FramesHold(t)
  BY <1>1, <1>2 DEF FramesHold, SameFrames
<1>6. ASSUME Head(s.tasks) \notin WrittenTasks(s.activePlan.generation) PROVE Flows(t, w, held)
  <2>1. SameCount(s, t)
    BY <1>1, <1>3, <1>6, AlikeTail, CountSame
  <2>2. SameLine(s.activePlan, t.activePlan)
    BY <1>2 DEF SameLine
  <2> QED
    BY <1>1, <1>2, <1>4, <2>1, <2>2, AdvancesSame, FlowsKept
<1> QED
  BY <1>1, <1>4, <1>5, <1>6

LEMMA TaskRunsFlows ==
    ASSUME SessionInv(session), NEW w, NEW held, Flows(session, w, held),
           NEW kind, kind # "TILE_WRITTEN", Running(kind), NEW s, s = Ran(session)
    PROVE  /\ s \in SessionType /\ FramesHold(s) /\ Flows(s, w, held)
           /\ task \in Task /\ task.kind = kind /\ SentTask(task, w.lastId)
           /\ kind \notin GenerationKinds => SessionInv(s)
<1>1. /\ session \in SessionType /\ FramesHold(session) /\ session.tasks # <<>>
      /\ task = Head(session.tasks) /\ task.kind = kind /\ task \in Task
      /\ kind \notin GenerationKinds => SessionInv(s)
  BY TaskRuns DEF SessionInv, Queues, task
<1>2. task \notin WrittenTasks(session.activePlan.generation)
  BY <1>1 DEF WrittenTasks
<1> QED
  BY <1>1, <1>2, RanFlows

LEMMA HandleHelloFlows ==
    ASSUME SessionInv(session), NEW w, NEW held, Flows(session, w, held),
           NEW answer, HandleHello(answer)
    PROVE  Flows(session', w, held)
<1> DEFINE s == Ran(session)
           greeted == [s EXCEPT !.helloTimer = FALSE, !.state = "LISTA",
                                !.negotiatedWindowBytes = Window, !.freeWindowBytes = Window]
           welcome == Control("WELCOME", 0, NoImage)
           error == SendError(s, 0)
<1>1. SessionInv(s) /\ s \in SessionType /\ FramesHold(s) /\ Flows(s, w, held)
  BY TaskRunsFlows DEF HandleHello, GenerationKinds
<1>2. \/ session' = s
      \/ session' = Closing(s)
      \/ session' = error
      \/ session' = Closing(error)
      \/ ~s.closed /\ s.state = "ESPERA_HELLO" /\ session' = Send(greeted, welcome)
  BY DEF HandleHello, Becomes
<1> HIDE DEF s
<1>3. SessionInv(error) /\ error \in SessionType /\ FramesHold(error) /\ Flows(error, w, held)
  BY <1>1, SendErrorHolds, SendErrorFlows DEF SessionInv, Queues
<1> HIDE DEF error
<1>4. CASE ~s.closed /\ s.state = "ESPERA_HELLO" /\ session' = Send(greeted, welcome)
  <2>1. SessionInv(greeted)
    BY <1>1, <1>4, GreetedHolds
  <2>2. /\ SamePlan(s, greeted) /\ SameFrames(s, greeted) /\ greeted.tasks = s.tasks
        /\ greeted.deliveries = s.deliveries /\ greeted.nextDeliveryId = s.nextDeliveryId
        /\ greeted.currentEpoch = s.currentEpoch /\ greeted.closed = s.closed
    BY <1>1 DEF SessionType, SamePlan, SameFrames
  <2>3. welcome \in Frame /\ welcome.kind = "WELCOME"
    BY ControlIsFrame DEF PlainKinds, SomeImage
  <2> HIDE DEF greeted, welcome
  <2>4. greeted \in SessionType /\ FramesHold(greeted)
    BY <2>1 DEF SessionInv, Queues
  <2>5. Flows(greeted, w, held)
    <3>1. SameLine(s.activePlan, greeted.activePlan) /\ SameCount(s, greeted)
      BY <2>2, CountSame DEF SameLine, SamePlan, Alike
    <3>2. TasksSent(greeted.tasks, w.lastId)
      BY <1>1, <2>2 DEF Flows
    <3> QED
      BY <1>1, <2>2, <2>4, <3>1, <3>2, AdvancesSame, FlowsKept
  <2> QED
    BY <1>4, <2>3, <2>4, <2>5, SendFlows
<1> QED
  BY <1>1, <1>2, <1>3, <1>4, ClosingFlows

LEMMA HandleOpenFlows ==
    ASSUME SessionInv(session), NEW w, NEW held, Flows(session, w, held),
           NEW answer, HandleOpen(answer)
    PROVE  Flows(session', w, held)
<1> DEFINE s == Ran(session)
<1>1. s \in SessionType /\ FramesHold(s) /\ Flows(s, w, held) /\ task.epoch \in Nat
  BY TaskRunsFlows, TaskFields DEF HandleOpen
<1>2. session' = s \/ session' = Closing(s) \/ session' = SendError(s, task.epoch)
  BY DEF HandleOpen
<1> HIDE DEF s
<1> QED
  BY <1>1, <1>2, ClosingFlows, SendErrorFlows

LEMMA OnOpenResolvedFlows ==
    ASSUME SessionInv(session), NEW w, NEW held, Flows(session, w, held), OnOpenResolved
    PROVE  Flows(session', w, held)
<1> DEFINE s == Ran(session)
           ended == InvalidatePlan(s)
           opened == [ended EXCEPT
                         !.opened = task.image, !.thumbnailCommittedForOpen = FALSE,
                         !.currentEpoch = task.epoch, !.state = "IMAGEN_ABIERTA"]
           manifest == Control("MANIFEST", task.epoch, task.image)
           t == session'
<1>1. /\ s \in SessionType /\ FramesHold(s) /\ Flows(s, w, held) /\ SessionInv(s)
      /\ task.epoch \in Nat /\ task.image \in SomeImage
  BY TaskRunsFlows, TaskFields DEF OnOpenResolved, GenerationKinds
<1>2. \/ t = s
      \/ t = SendError(s, task.epoch)
      \/ /\ ~s.closed /\ task.epoch > s.currentEpoch
         /\ t = Send(opened, manifest)
  BY DEF OnOpenResolved, Becomes, OpenIsRelevant
<1> HIDE DEF s, t
<1>3. CASE /\ ~s.closed /\ task.epoch > s.currentEpoch
           /\ t = Send(opened, manifest)
  <2>1. /\ ended \in SessionType /\ FramesHold(ended) /\ Flows(ended, w, held)
        /\ ended.activePlan = NoPlan
    BY <1>1, InvalidatePlanFlows
  <2>2. ended.currentEpoch = s.currentEpoch
    BY <1>1, InvalidatePlanEffect DEF PlanEnds, SameView
  <2>3. t = Send(opened, manifest)
    BY <1>3
  <2>4. manifest \in Frame /\ manifest.kind = "MANIFEST" /\ manifest.epoch = task.epoch
    BY <1>1, ControlIsFrame DEF PlainKinds
  <2> HIDE DEF ended, manifest
  <2>5. /\ opened \in SessionType /\ opened.currentEpoch = task.epoch
        /\ SamePlan(ended, opened) /\ SameCredit(ended, opened) /\ SameFrames(ended, opened)
        /\ opened.tasks = ended.tasks /\ opened.closed = ended.closed
    BY <1>1, <2>1 DEF SessionType, States, SamePlan, SameCredit, SameFrames
  <2> HIDE DEF opened
  <2>6. /\ t \in SessionType /\ OnlyFrames(opened, t)
        /\ \/ t.frames = Append(opened.frames, manifest) /\ ~opened.closed /\ ~t.closed
           \/ t.frames = opened.frames /\ t.closed
    BY <2>3, <2>4, <2>5, SendEffect
  <2>7. /\ t.writing = ended.writing /\ t.tasks = ended.tasks /\ t.deliveries = ended.deliveries
        /\ t.nextDeliveryId = ended.nextDeliveryId /\ t.currentEpoch = task.epoch
        /\ t.activePlan = NoPlan
        /\ opened.frames = ended.frames /\ opened.closed = ended.closed
    BY <2>1, <2>5, <2>6 DEF OnlyFrames, SamePlan, SameView, SameCredit, SameFrames
  <2>8. /\ s.currentEpoch \in Nat /\ manifest.epoch > ended.currentEpoch
        /\ t.currentEpoch >= ended.currentEpoch /\ t.nextDeliveryId >= ended.nextDeliveryId
    BY <1>1, <1>3, <2>1, <2>2, <2>4, <2>7 DEF SessionType
  <2>9. CASE t.frames = Append(opened.frames, manifest) /\ ~opened.closed /\ ~t.closed
    <3>1. /\ manifest.kind \in Announces /\ manifest.kind # "PLAN"
          /\ t.frames = Append(ended.frames, manifest) /\ ~ended.closed /\ ~t.closed
      BY <2>4, <2>7, <2>9 DEF Announces
    <3>2. Flows(t, w, held)
      BY <2>1, <2>4, <2>6, <2>7, <2>8, <3>1, AnnounceFlows
    <3> QED
      BY <3>2 DEF t
  <2>10. CASE t.frames = opened.frames /\ t.closed
    <3>1. SameFrames(ended, t) /\ t.closed
      BY <2>7, <2>10 DEF SameFrames
    <3>2. Flows(t, w, held)
      BY <2>1, <2>6, <2>7, <2>8, <3>1, ClosedFlows
    <3> QED
      BY <3>2 DEF t
  <2> QED
    BY <2>6, <2>9, <2>10
<1>4. t = s \/ t = SendError(s, task.epoch) => Flows(t, w, held)
  BY <1>1, SendErrorFlows
<1> QED
  BY <1>2, <1>3, <1>4 DEF t

LEMMA HandleViewFlows ==
    ASSUME SessionInv(session), NEW w, NEW held, Flows(session, w, held),
           NEW answer, HandleView(answer)
    PROVE  Flows(session', w, held)
<1> DEFINE s == Ran(session)
<1>1. /\ s \in SessionType /\ FramesHold(s) /\ Flows(s, w, held)
      /\ task.epoch \in Nat /\ s.currentEpoch \in Nat
  BY TaskRunsFlows, TaskFields DEF HandleView, SessionType
<1>2. \/ session' = s
      \/ session' = Closing(s)
      \/ session' = SendError(s, task.epoch)
      \/ ~(task.epoch <= s.currentEpoch) /\ session' = AcceptView(s, task.epoch)
  BY DEF HandleView, Becomes
<1> HIDE DEF s
<1>3. ~(task.epoch <= s.currentEpoch) => task.epoch > s.currentEpoch
  BY <1>1
<1> QED
  BY <1>1, <1>2, <1>3, ClosingFlows, SendErrorFlows, AcceptViewFlows

LEMMA HandleReleaseFlows ==
    ASSUME SessionInv(session), NEW w, NEW held, Flows(session, w, held),
           NEW answer, HandleRelease(answer)
    PROVE  Flows(session', w, held)
<1> DEFINE s == Ran(session)
           ids == {task.id}
           acknowledged == Acknowledge(s, ids)
<1>1. SessionInv(s) /\ s \in SessionType /\ FramesHold(s) /\ Flows(s, w, held)
  BY TaskRunsFlows DEF HandleRelease, GenerationKinds
<1>2. task.id <= w.lastId
  <2>1. SentTask(task, w.lastId) /\ task.kind = "RELEASE"
    BY TaskRunsFlows DEF HandleRelease
  <2> QED
    BY <2>1 DEF SentTask
<1>3. \/ session' = s
      \/ session' = Closing(s)
      \/ ~s.closed /\ s.state # "ESPERA_HELLO" /\ session' = Pump(acknowledged, answer)
  BY DEF HandleRelease, Becomes
<1> HIDE DEF s
<1>4. \A id \in ids : id <= w.lastId
  BY <1>2
<1> HIDE DEF ids
<1>5. ~s.closed /\ s.state # "ESPERA_HELLO" => SessionInv(acknowledged)
  BY <1>1, AcknowledgeHolds
<1>6. Flows(acknowledged, w, held)
  BY <1>1, <1>4, AcknowledgeFlows
<1> HIDE DEF acknowledged
<1> QED
  BY <1>1, <1>3, <1>5, <1>6, ClosingFlows, PumpFlows

LEMMA HandleAckStateFlows ==
    ASSUME SessionInv(session), NEW w, NEW held, Flows(session, w, held),
           NEW answer, HandleAckState(answer)
    PROVE  Flows(session', w, held)
<1> DEFINE s == Ran(session)
<1>1. SessionInv(s) /\ s \in SessionType /\ FramesHold(s) /\ Flows(s, w, held) /\ task.epoch \in Nat
  BY TaskRunsFlows, TaskFields DEF HandleAckState, GenerationKinds
<1>2. \A id \in task.received : id <= w.lastId
  <2>1. SentTask(task, w.lastId) /\ task.kind = "ACK_STATE"
    BY TaskRunsFlows DEF HandleAckState
  <2> QED
    BY <2>1 DEF SentTask
<1>3. \/ session' = s
      \/ session' = Closing(s)
      \/ /\ ~s.closed /\ s.state # "ESPERA_HELLO"
         /\ \E received \in SUBSET task.received :
               session' = Pump(RequestSelectiveRetransmit(Acknowledge(s, received),
                                   task.epoch, task.missing, answer), answer)
  BY DEF HandleAckState, Becomes
<1> HIDE DEF s
<1>4. ASSUME ~s.closed, s.state # "ESPERA_HELLO", NEW received \in SUBSET task.received,
             session' = Pump(RequestSelectiveRetransmit(Acknowledge(s, received),
                                 task.epoch, task.missing, answer), answer)
      PROVE  Flows(session', w, held)
  <2> DEFINE acknowledged == Acknowledge(s, received)
             asked == RequestSelectiveRetransmit(acknowledged, task.epoch, task.missing, answer)
  <2>1. SessionInv(acknowledged) /\ ~acknowledged.closed /\ acknowledged.state # "ESPERA_HELLO"
    BY <1>1, <1>4, AcknowledgeHolds
  <2>2. /\ acknowledged \in SessionType /\ FramesHold(acknowledged)
        /\ Flows(acknowledged, w, held)
    BY <1>1, <1>2, AcknowledgeFlows
  <2> HIDE DEF acknowledged
  <2>3. SessionInv(asked)
    BY <1>1, <2>1, RetransmitHolds
  <2>4. Flows(asked, w, held)
    BY <1>1, <2>2, RetransmitFlows
  <2>5. session' = Pump(asked, answer)
    BY <1>4 DEF acknowledged
  <2> HIDE DEF asked
  <2> QED
    BY <2>3, <2>4, <2>5, PumpFlows
<1> QED
  BY <1>1, <1>3, <1>4, ClosingFlows

LEMMA OnSelectiveTileReadFlows ==
    ASSUME SessionInv(session), NEW w, NEW held, Flows(session, w, held),
           NEW answer, OnSelectiveTileRead(answer)
    PROVE  Flows(session', w, held)
<1> DEFINE s == Ran(session)
           id == task.id
<1>1. SessionInv(s) /\ s \in SessionType /\ FramesHold(s) /\ Flows(s, w, held) /\ Account(s)
  BY TaskRunsFlows DEF OnSelectiveTileRead, GenerationKinds, SessionInv
<1>2. \/ session' = s
      \/ id \in DOMAIN s.deliveries /\ session' = RecoveryFailed(s, id)
      \/ /\ id \in DOMAIN s.deliveries /\ s.deliveries[id].state = "WRITTEN_AWAITING_RELEASE"
         /\ session' = SendAgain(s, id)
  BY DEF OnSelectiveTileRead, Becomes
<1> HIDE DEF s, id
<1> QED
  BY <1>1, <1>2, RecoveryFailedFlows, SendAgainFlows

LEMMA OnSelectiveTileWrittenFlows ==
    ASSUME SessionInv(session), NEW w, NEW held, Flows(session, w, held), OnSelectiveTileWritten
    PROVE  Flows(session', w, held)
<1> DEFINE s == Ran(session)
           id == task.id
           d == [s.deliveries[id] EXCEPT !.retryInProgress = FALSE, !.releaseTimer = TRUE,
                                         !.state = "WRITTEN_AWAITING_RELEASE"]
           state == "WRITTEN_AWAITING_RELEASE"
           retrying == FALSE
           timer == TRUE
           t == session'
<1>1. s \in SessionType /\ FramesHold(s) /\ Flows(s, w, held)
  BY TaskRunsFlows DEF OnSelectiveTileWritten
<1>2. id <= w.lastId
  <2>1. SentTask(task, w.lastId) /\ task.kind = "RETRY_WRITTEN"
    BY TaskRunsFlows DEF OnSelectiveTileWritten
  <2> QED
    BY <2>1 DEF SentTask
<1>3. CASE id \notin DOMAIN s.deliveries
  BY <1>1, <1>3 DEF OnSelectiveTileWritten, Becomes
<1>4. CASE id \in DOMAIN s.deliveries
  <2>1. t = [s EXCEPT !.deliveries[id] =
                 [@ EXCEPT !.retryInProgress = FALSE, !.releaseTimer = TRUE,
                           !.state = "WRITTEN_AWAITING_RELEASE"]]
    BY <1>4 DEF OnSelectiveTileWritten, Becomes
  <2> HIDE DEF s, t
  <2>2. s.deliveries[id] \in Delivery
    BY <1>1, <1>4, DeliveryField
  <2>3. t = [s EXCEPT !.deliveries[id] = d]
    BY <1>1, <2>1, <2>2 DEF SessionType
  <2>4. Revised(s.deliveries[id], d, state, retrying, timer)
    BY <2>2 DEF Revised, Delivery
  <2> HIDE DEF d, state, retrying, timer, id
  <2>5. Revises(s, t, id, state, retrying, timer)
    BY <1>4, <2>3, <2>4, Zenon DEF Revises
  <2>6. Flows(t, w, held)
    BY <1>1, <1>2, <2>5, RevisesFlows
  <2> QED
    BY <2>6 DEF t
<1> QED
  BY <1>3, <1>4

LEMMA OnTileCommittedFlows ==
    ASSUME SessionInv(session), NEW w, NEW held, Flows(session, w, held), OnTileCommitted
    PROVE  Flows(session', w, held)
<1> DEFINE s == Ran(session)
           id == task.id
           d == [s.deliveries[id] EXCEPT !.state = "COMMITTED"]
           u == [s EXCEPT !.deliveries[id] = d]
           committed == s.thumbnailCommittedForOpen \/ s.deliveries[id].openingThumbnail
           state == "COMMITTED"
           retrying == s.deliveries[id].retryInProgress
           timer == s.deliveries[id].releaseTimer
           t == session'
<1>1. s \in SessionType /\ FramesHold(s) /\ Flows(s, w, held)
  BY TaskRunsFlows DEF OnTileCommitted
<1>2. id <= w.lastId
  <2>1. SentTask(task, w.lastId) /\ task.kind = "TILE_COMMITTED"
    BY TaskRunsFlows DEF OnTileCommitted
  <2> QED
    BY <2>1 DEF SentTask
<1>3. CASE id \notin DOMAIN s.deliveries \/ s.deliveries[id].state # "RESERVED_QUEUED"
  BY <1>1, <1>3 DEF OnTileCommitted, Becomes
<1>4. CASE ~(id \notin DOMAIN s.deliveries \/ s.deliveries[id].state # "RESERVED_QUEUED")
  <2>1. t = [s EXCEPT !.deliveries[id].state = "COMMITTED",
                      !.thumbnailCommittedForOpen = @ \/ s.deliveries[id].openingThumbnail]
    BY <1>4 DEF OnTileCommitted, Becomes
  <2> HIDE DEF s, t
  <2>2. s.deliveries[id] \in Delivery /\ id \in DOMAIN s.deliveries
    BY <1>1, <1>4, DeliveryField
  <2>3. Revised(s.deliveries[id], d, state, retrying, timer)
    BY <2>2 DEF Revised, Delivery
  <2>4. t = [u EXCEPT !.thumbnailCommittedForOpen = committed] /\ committed \in BOOLEAN
    BY <1>1, <2>1, <2>2 DEF SessionType, Delivery
  <2> HIDE DEF d, committed, state, retrying, timer, id
  <2>5. Revises(s, u, id, state, retrying, timer)
    BY <2>2, <2>3, Zenon DEF Revises
  <2> HIDE DEF u
  <2>6. u \in SessionType /\ FramesHold(u) /\ Flows(u, w, held)
    BY <1>1, <1>2, <2>5, RevisesFlows
  <2>7. /\ t \in SessionType
        /\ SamePlan(u, t) /\ SameFrames(u, t) /\ SameCredit(u, t)
        /\ t.currentEpoch = u.currentEpoch /\ t.tasks = u.tasks /\ t.closed = u.closed
    BY <2>4, <2>6 DEF SessionType, SamePlan, SameFrames, SameCredit
  <2>8. SameLine(u.activePlan, t.activePlan) /\ SameCount(u, t)
    BY <2>7, CountSame DEF SameLine, SamePlan, Alike
  <2>9. TasksSent(t.tasks, w.lastId)
    BY <2>6, <2>7 DEF Flows
  <2>10. Flows(t, w, held)
    BY <2>6, <2>7, <2>8, <2>9, AdvancesSame, FlowsKept DEF SameCredit
  <2> QED
    BY <2>10 DEF t
<1> QED
  BY <1>3, <1>4

LEMMA TimeoutsFlow ==
    ASSUME SessionInv(session), NEW w, NEW held, Flows(session, w, held),
           OnReleaseTimeout \/ OnHelloTimeout \/ Cleanup
    PROVE  Flows(session', w, held)
<1> DEFINE s == Ran(session)
<1>1. s \in SessionType /\ FramesHold(s) /\ Flows(s, w, held)
  BY TaskRunsFlows DEF OnReleaseTimeout, OnHelloTimeout, Cleanup
<1>2. session' = s \/ session' = Dismantle(s)
  BY DEF OnReleaseTimeout, OnHelloTimeout, Cleanup, Becomes
<1> HIDE DEF s
<1> QED
  BY <1>1, <1>2, DismantleFlows

--------------------------------------------------------------------------------
\* The callbacks of a plan

\* A task leaves the queue and the plan moves on, but for the tiles it counts.
LEMMA PlanStepFlows ==
    ASSUME NEW s, SessionInv(s), NEW w, NEW held, Flows(s, w, held), s.tasks # <<>>,
           Head(s.tasks).kind # "TILE_WRITTEN",
           NEW plan \in ActivePlan, SameLine(s.activePlan, plan),
           NEW t, t = [Ran(s) EXCEPT !.activePlan = plan]
    PROVE  t \in SessionType /\ FramesHold(t) /\ Flows(t, w, held) /\ t.activePlan = plan
<1> DEFINE r == Ran(s)
<1>1. s \in SessionType /\ FramesHold(s) /\ Head(s.tasks) \notin WrittenTasks(s.activePlan.generation)
  BY DEF SessionInv, Queues, WrittenTasks
<1>2. r \in SessionType /\ FramesHold(r) /\ Flows(r, w, held)
  BY <1>1, RanFlows
<1>3. r.activePlan = s.activePlan
  BY <1>1, RanEffect DEF SamePlan
<1>4. t = [r EXCEPT !.activePlan = plan]
  OBVIOUS
<1> HIDE DEF r
<1>5. /\ t \in SessionType /\ t.activePlan = plan /\ t.planGeneration = r.planGeneration
      /\ SameCredit(r, t) /\ SameView(r, t) /\ SameFrames(r, t)
      /\ t.tasks = r.tasks /\ t.closed = r.closed
  BY <1>2, <1>4 DEF SessionType, SameCredit, SameView, SameFrames
<1>6. FramesHold(t)
  BY <1>2, <1>5 DEF FramesHold, SameFrames, SameCredit
<1>7. Flows(t, w, held)
  BY <1>2, <1>3, <1>5, SameLineFlows
<1> QED
  BY <1>5, <1>6, <1>7

LEMMA OnPlanCommittedFlows ==
    ASSUME SessionInv(session), NEW w, NEW held, Flows(session, w, held),
           NEW answer, OnPlanCommitted(answer)
    PROVE  Flows(session', w, held)
<1> DEFINE s == session
           plan == [s.activePlan EXCEPT !.planCommitted = TRUE]
           t == [Ran(s) EXCEPT !.activePlan = plan]
<1>1. Running("PLAN_COMMITTED") /\ s.tasks # <<>> /\ Head(s.tasks).kind = "PLAN_COMMITTED"
  BY TaskRuns DEF OnPlanCommitted, task
<1>2. /\ Flows(Ran(s), w, held) /\ Ran(s) \in SessionType /\ Ran(s).activePlan = s.activePlan
      /\ s.activePlan.generation = task.generation => s.activePlan # NoPlan
  BY <1>1, TaskRunsFlows, CallbackRuns
<1>3. CASE s.activePlan.generation # task.generation
  BY <1>2, <1>3 DEF OnPlanCommitted, Becomes
<1>4. CASE s.activePlan.generation = task.generation
  <2>1. s.activePlan # NoPlan /\ s.activePlan \in ActivePlan
    BY <1>2, <1>4, PlanFields DEF SessionInv
  <2>2. session' = Pump(t, answer)
    <3>1. session' = Pump([Ran(s) EXCEPT !.activePlan.planCommitted = TRUE], answer)
      BY <1>2, <1>4 DEF OnPlanCommitted, Becomes
    <3>2. t = [Ran(s) EXCEPT !.activePlan.planCommitted = TRUE]
      BY <1>2, <2>1 DEF SessionType
    <3> HIDE DEF t
    <3> QED
      BY <3>1, <3>2, Zenon
  <2>3. SessionInv(t)
    BY <1>1, <1>4, PlanCommittedHolds
  <2>4. plan \in ActivePlan /\ plan # NoPlan /\ SameLine(s.activePlan, plan)
    BY <2>1 DEF ActivePlan, NoPlan, SameLine
  <2>5. t = [Ran(s) EXCEPT !.activePlan = plan]
    OBVIOUS
  <2> HIDE DEF t, plan
  <2>6. Flows(t, w, held)
    BY <1>1, <2>4, <2>5, PlanStepFlows
  <2> QED
    BY <2>2, <2>3, <2>6, PumpFlows
<1> QED
  BY <1>3, <1>4

\* The DONE of the plan was sent: nothing of it waits.
LEMMA OnDoneCommittedFlows ==
    ASSUME SessionInv(session), NEW w, NEW held, Flows(session, w, held), OnDoneCommitted
    PROVE  Flows(session', w, held)
<1> DEFINE s == session
           r == Ran(s)
           g == s.activePlan.generation
           t == session'
<1>1. /\ Running("DONE_COMMITTED") /\ task.kind = "DONE_COMMITTED" /\ task \in Task
      /\ s.tasks # <<>> /\ task = Head(s.tasks)
  BY TaskRuns DEF OnDoneCommitted, task
<1>2. /\ r \in SessionType /\ FramesHold(r) /\ Flows(r, w, held)
      /\ s \in SessionType /\ FramesHold(s)
  BY <1>1, TaskRunsFlows DEF SessionInv, Queues
<1>3. SamePlan(s, r) /\ SameFrames(s, r) /\ r.closed = s.closed
  BY <1>1, <1>2, RanEffect
<1>4. CASE g # task.generation
  BY <1>2, <1>3, <1>4 DEF OnDoneCommitted, Becomes, SamePlan
<1>5. CASE g = task.generation
  <2>1. s.activePlan # NoPlan /\ Stage(s)
    BY <1>1, <1>5, CallbackRuns
  <2>2. t = [r EXCEPT !.activePlan = NoPlan]
    BY <1>3, <1>5 DEF OnDoneCommitted, Becomes, SamePlan
  <2> HIDE DEF t, r
  <2>3. Head(s.tasks) \in DoneTasks(g)
    BY <1>1, <1>5 DEF DoneTasks
  <2>4. ~None(s.tasks, DoneTasks(g))
    BY <1>1, <1>2, <2>3, TailFacts DEF None, SessionType
  <2>5. s.activePlan.doneQueued /\ None(Waiting(s), DoneFrames(g))
    BY <2>1, <2>4 DEF Stage, DoneStage, DoneAbsent, Absent, AtMostOne
  <2>6. s.activePlan.planCommitted /\ ~s.activePlan.busy
    BY <1>2, <2>1, <2>5, PlanFields DEF Stage, Progress, Underway
  <2>7. None(Waiting(s), PlanFrames(g)) /\ None(s.frames, TileFrames(g))
    BY <2>1, <2>6 DEF Stage, PlanStage, PlanAbsent, TileStage, TileAbsent, Absent
  <2>8. None(Waiting(s), TileFrames(g))
    BY <1>2, <2>7, WaitingFacts
  <2>9. Waiting(r) = Waiting(s) /\ r.activePlan = s.activePlan
    BY <1>3 DEF Waiting, SameFrames, SamePlan
  <2>10. ASSUME ~r.closed, NEW i \in 1..Len(Waiting(r)) PROVE Waiting(r)[i].kind \notin PlanKinds
    <3> DEFINE f == Waiting(s)[i]
    <3>1. f = Waiting(r)[i] /\ f \in Frame
      BY <1>2, <2>9, <2>10, WaitingFacts
    <3>2. f \notin PlanFrames(g) /\ f \notin DoneFrames(g) /\ f \notin TileFrames(g)
      BY <2>5, <2>7, <2>8, <2>9, <2>10 DEF None
    <3>3. f.kind \in PlanKinds => f.generation = g
      BY <1>2, <2>9, <2>10 DEF Flows, Coupled, Belongs
    <3> HIDE DEF f
    <3> QED
      BY <3>1, <3>2, <3>3 DEF PlanKinds, PlanFrames, DoneFrames, TileFrames
  <2>11. /\ t \in SessionType /\ t.activePlan = NoPlan
         /\ SameCredit(r, t) /\ SameView(r, t) /\ SameFrames(r, t)
         /\ t.tasks = r.tasks /\ t.closed = r.closed
    BY <1>2, <2>2, PlanEffect
  <2>12. Waiting(t) = Waiting(r)
    BY <2>11 DEF Waiting, SameFrames
  <2>13. ~t.closed => Coupled(t, w)
    <3> SUFFICES ASSUME ~t.closed PROVE Coupled(t, w)
      OBVIOUS
    <3>1. Coupled(r, w)
      BY <1>2, <2>11 DEF Flows
    <3> QED
      BY <2>10, <2>11, <2>12, <3>1 DEF Coupled
  <2>14. Flows(t, w, held)
    BY <1>2, <2>11, <2>12, <2>13 DEF Flows, SameCredit, SameView, SameFrames
  <2> QED
    BY <2>14 DEF t
<1> QED
  BY <1>4, <1>5

LEMMA OnTileReadFlows ==
    ASSUME SessionInv(session), NEW w, NEW held, Flows(session, w, held),
           NEW answer, OnTileRead(answer)
    PROVE  Flows(session', w, held)
<1> DEFINE s == session
           r == Ran(s)
           idle == [s.activePlan EXCEPT !.busy = FALSE]
           t == [r EXCEPT !.activePlan = idle]
           plan == [s.activePlan EXCEPT !.busy = FALSE, !.pendingTile = task.bytes]
           u == [r EXCEPT !.activePlan = plan]
<1>1. /\ Running("TILE_READ") /\ task.kind = "TILE_READ" /\ task \in Task /\ s \in SessionType
      /\ s.tasks # <<>> /\ task = Head(s.tasks) /\ task.bytes \in Nat /\ task.generation \in Nat \ {0}
  BY TaskRuns, TaskFields DEF OnTileRead, task, SessionInv, GenerationKinds
<1>2. /\ r \in SessionType /\ Flows(r, w, held) /\ r.activePlan = s.activePlan
  BY <1>1, TaskRunsFlows, RanEffect DEF SamePlan
<1>3. CASE ~BelongsToPlan(r, task.generation)
  <2>1. task \notin PermitTasks /\ ~ForPlan(s)
    BY <1>1, <1>2, <1>3 DEF PermitTasks, ForPlan, PlanTasks, DoneTasks, TileTasks, BelongsToPlan
  <2>2. SessionInv(r)
    BY <1>1, <2>1, RanHolds
  <2>3. session' = Pump(r, answer)
    BY <1>3 DEF OnTileRead, Becomes, StaleResult
  <2> QED
    BY <1>2, <2>2, <2>3, PumpFlows
<1>4. CASE BelongsToPlan(r, task.generation)
  <2>1. /\ s.activePlan # NoPlan /\ s.activePlan \in ActivePlan
        /\ s.activePlan.generation = task.generation
    BY <1>1, <1>2, <1>4, PlanFields DEF BelongsToPlan
  <2>2. \/ task.bytes = 0 /\ session' = FailPlan(t)
        \/ task.bytes # 0 /\ session' = IF u.closed THEN u ELSE TrySendPending(u, answer)
    <3>1. t = [r EXCEPT !.activePlan.busy = FALSE]
      BY <1>2, <2>1 DEF SessionType
    <3>2. u = [t EXCEPT !.activePlan.pendingTile = task.bytes]
      BY <1>2, <2>1 DEF SessionType, ActivePlan
    <3> DEFINE v == [r EXCEPT !.activePlan.busy = FALSE]
               z == [v EXCEPT !.activePlan.pendingTile = task.bytes]
    <3>3. \/ task.bytes = 0 /\ session' = FailPlan(v)
          \/ task.bytes # 0 /\ session' = IF z.closed THEN z ELSE TrySendPending(z, answer)
      BY <1>4 DEF OnTileRead, Becomes
    <3>4. t = v
      BY <3>1
    <3> HIDE DEF t, v
    <3>5. u = z
      BY <3>2, <3>4
    <3> HIDE DEF u, z
    <3> QED
      BY <3>3, <3>4, <3>5
  <2>3. idle \in ActivePlan /\ idle # NoPlan /\ SameLine(s.activePlan, idle)
    BY <2>1 DEF ActivePlan, NoPlan, SameLine
  <2>4. /\ plan \in ActivePlan /\ plan # NoPlan /\ SameLine(s.activePlan, plan)
        /\ ~plan.busy /\ plan.pendingTile = task.bytes
    BY <1>1, <2>1 DEF ActivePlan, NoPlan, SameLine
  <2>5. t = [Ran(s) EXCEPT !.activePlan = idle] /\ u = [Ran(s) EXCEPT !.activePlan = plan]
    OBVIOUS
  <2>6. CASE task.bytes = 0
    <3> HIDE DEF t, idle
    <3>1. t \in SessionType /\ FramesHold(t) /\ Flows(t, w, held)
      BY <1>1, <2>3, <2>5, PlanStepFlows
    <3> QED
      BY <2>2, <2>6, <3>1, FailPlanFlows
  <2>7. CASE task.bytes # 0
    <3> HIDE DEF u
    <3>1. SessionInv(u)
      BY <1>1, <2>1, <2>5, <2>7, TileKeptHolds
    <3> HIDE DEF plan
    <3>2. Flows(u, w, held) /\ u.activePlan = plan
      BY <1>1, <2>4, <2>5, PlanStepFlows
    <3>3. u.activePlan # NoPlan /\ ~u.activePlan.busy /\ u.activePlan.pendingTile > 0
      BY <1>1, <2>4, <2>7, <3>2
    <3>4. ~u.closed => Flows(TrySendPending(u, answer), w, held)
      BY <3>1, <3>2, <3>3, TrySendPendingFlows
    <3> QED
      BY <2>2, <2>7, <3>2, <3>4
  <2> QED
    BY <2>6, <2>7
<1> QED
  BY <1>3, <1>4

LEMMA OnReadPermitGrantedFlows ==
    ASSUME SessionInv(session), NEW w, NEW held, Flows(session, w, held),
           NEW answer, OnReadPermitGranted(answer)
    PROVE  Flows(session', w, held)
<1> DEFINE s == session
           r == Ran(s)
           returned == [r EXCEPT !.turn = "none"]
           plan == [s.activePlan EXCEPT !.readWait = FALSE]
           t == [r EXCEPT !.activePlan = plan]
<1>1. /\ Running("PERMIT") /\ s \in SessionType /\ s.tasks # <<>> /\ Head(s.tasks).kind = "PERMIT"
  BY TaskRuns DEF OnReadPermitGranted, SessionInv, task
<1>2. /\ r \in SessionType /\ FramesHold(r) /\ Flows(r, w, held)
      /\ r.activePlan = s.activePlan /\ r.closed = s.closed
  BY <1>1, TaskRunsFlows, RanEffect DEF SamePlan
<1>3. CASE r.closed \/ ~BelongsToPlan(r, task.generation)
  <2>1. session' = Pump(returned, answer)
    BY <1>3 DEF OnReadPermitGranted, Becomes, PermitReturned
  <2>2. s.closed \/ ~BelongsToPlan(Ran(s), task.generation)
    BY <1>2, <1>3
  <2>3. returned = [r EXCEPT !.turn = "none"]
    OBVIOUS
  <2> HIDE DEF returned
  <2>4. SessionInv(returned)
    BY <1>1, <2>2, <2>3, PermitReturnedHolds
  <2> HIDE DEF r
  <2>5. /\ returned \in SessionType
        /\ SameFrames(r, returned) /\ SameView(r, returned) /\ SameCredit(r, returned)
        /\ returned.tasks = r.tasks /\ returned.closed = r.closed
        /\ returned.activePlan = r.activePlan
    BY <1>2, <2>3 DEF SessionType, SameFrames, SameView, SameCredit
  <2>6. SameLine(r.activePlan, returned.activePlan)
    BY <2>5 DEF SameLine
  <2>7. Flows(returned, w, held)
    BY <1>2, <2>5, <2>6, SameLineFlows
  <2> QED
    BY <2>1, <2>4, <2>7, PumpFlows
<1>4. CASE ~(r.closed \/ ~BelongsToPlan(r, task.generation))
  <2>1. s.activePlan # NoPlan /\ s.activePlan \in ActivePlan
    BY <1>1, <1>2, <1>4, PlanFields DEF BelongsToPlan
  <2>2. plan \in ActivePlan /\ plan # NoPlan /\ SameLine(s.activePlan, plan)
    BY <2>1 DEF ActivePlan, NoPlan, SameLine
  <2>3. session' = StartTileRead(t, answer)
    <3>1. t = [r EXCEPT !.activePlan.readWait = FALSE]
      BY <1>2, <2>1 DEF SessionType
    <3>2. session' = StartTileRead([r EXCEPT !.activePlan.readWait = FALSE], answer)
      BY <1>4 DEF OnReadPermitGranted, Becomes
    <3> HIDE DEF t
    <3> QED
      BY <3>1, <3>2, Zenon
  <2>4. t = [Ran(s) EXCEPT !.activePlan = plan]
    OBVIOUS
  <2> HIDE DEF t, plan
  <2>5. t \in SessionType /\ FramesHold(t) /\ Flows(t, w, held) /\ t.activePlan # NoPlan
    BY <1>1, <2>2, <2>4, PlanStepFlows
  <2> QED
    BY <2>3, <2>5, StartTileReadFlows
<1> QED
  BY <1>3, <1>4

\* The tile that the wire counted is counted by the plan.
LEMMA TileSentFlows ==
    ASSUME NEW s, SessionInv(s), NEW w, NEW held, Flows(s, w, held), s.activePlan # NoPlan,
           s.tasks # <<>>, Head(s.tasks) \in Task,
           Head(s.tasks).kind = "TILE_WRITTEN", Head(s.tasks).generation = s.activePlan.generation,
           NEW t, t = [Ran(s) EXCEPT
                          !.activePlan = [s.activePlan EXCEPT !.busy = FALSE,
                                             !.sentTiles = s.activePlan.sentTiles + 1]]
    PROVE  SessionInv(t) /\ Flows(t, w, held)
<1> DEFINE r == Ran(s)
           g == s.activePlan.generation
           plan == [s.activePlan EXCEPT !.busy = FALSE, !.sentTiles = s.activePlan.sentTiles + 1]
           waiting == Waiting(s)
<1>1. SessionInv(t)
  BY TileSentHolds
<1>2. s \in SessionType /\ FramesHold(s) /\ t \in SessionType /\ FramesHold(t)
  BY <1>1 DEF SessionInv, Queues
<1>3. /\ r \in SessionType /\ TasksSent(r.tasks, w.lastId)
      /\ SameCredit(s, r) /\ SameView(s, r) /\ SameFrames(s, r) /\ r.closed = s.closed
  BY <1>2, RanFlows, RanEffect
<1>4. s.activePlan \in ActivePlan /\ s.activePlan.sentTiles \in Nat
  BY <1>2, PlanFields
<1>5. t = [r EXCEPT !.activePlan = plan]
  OBVIOUS
<1>6. /\ plan.generation = g /\ plan.epoch = s.activePlan.epoch /\ plan.tiles = s.activePlan.tiles
      /\ plan.doneQueued = s.activePlan.doneQueued /\ ~plan.busy
      /\ plan.sentTiles = s.activePlan.sentTiles + 1
      /\ plan \in ActivePlan /\ plan # NoPlan
  <2>1. s.activePlan.sentTiles + 1 \in Nat
    BY <1>4
  <2> QED
    BY <1>4, <2>1 DEF ActivePlan, NoPlan
<1> HIDE DEF r, plan
<1>7. /\ t.activePlan = plan /\ t.tasks = r.tasks /\ t.closed = r.closed
      /\ SameCredit(r, t) /\ SameView(r, t) /\ SameFrames(r, t)
  BY <1>3, <1>5, <1>6 DEF SessionType, SameCredit, SameView, SameFrames
<1>8. /\ t.closed = s.closed /\ SameFrames(s, t) /\ Waiting(t) = waiting
      /\ t.deliveries = s.deliveries /\ t.nextDeliveryId = s.nextDeliveryId
      /\ t.currentEpoch = s.currentEpoch
  BY <1>3, <1>7 DEF SameCredit, SameView, SameFrames, Waiting
<1>9. Uncounted(s, g)
  <2>1. Head(s.tasks) = s.tasks[1] /\ 1 \in 1..Len(s.tasks)
    BY <1>2, TailFacts DEF SessionType
  <2>2. Head(s.tasks) \in WrittenTasks(g)
    BY DEF WrittenTasks
  <2> QED
    BY <2>1, <2>2 DEF Uncounted, None
<1>10. ~Uncounted(t, g)
  <2>1. TileAbsent(t, g)
    BY <1>1, <1>6, <1>7 DEF SessionInv, Stages, Stage, TileStage
  <2> QED
    BY <1>2, <2>1, NothingUncounted
<1> HIDE DEF g, waiting
<1>11. ASSUME ~t.closed PROVE Coupled(t, w)
  <2>1. Coupled(s, w)
    BY <1>8, <1>11 DEF Flows
  <2>2. \A i \in 1..Len(waiting) : waiting[i].kind \in PlanKinds => Belongs(t, waiting[i])
    BY <1>6, <1>7, <1>8, <2>1 DEF Coupled, Belongs, waiting, g
  <2>3. ASSUME None(waiting, PlanFrames(g)) PROVE Streams(t, w)
    <3>1. Streams(s, w)
      BY <2>1, <2>3 DEF Coupled, waiting, g
    <3>2. w.sent = plan.sentTiles
      BY <1>4, <1>6, <1>9, <3>1 DEF Streams, g
    <3> QED
      BY <1>6, <1>7, <1>8, <1>10, <3>1, <3>2 DEF Streams, waiting, g, ActivePlan
  <2> QED
    BY <1>6, <1>7, <1>8, <2>1, <2>2, <2>3 DEF Coupled, waiting, g
<1>12. TasksSent(t.tasks, w.lastId)
  BY <1>3, <1>7
<1>13. Flows(t, w, held)
  BY <1>8, <1>11, <1>12 DEF Flows, waiting, SameFrames
<1> QED
  BY <1>1, <1>13

LEMMA OnTileWrittenFlows ==
    ASSUME SessionInv(session), NEW w, NEW held, Flows(session, w, held),
           NEW answer, OnTileWritten(answer)
    PROVE  Flows(session', w, held)
<1> DEFINE s == Written(session, task.id)
           r == Written(Ran(session), task.id)
           plan == [s.activePlan EXCEPT !.busy = FALSE, !.sentTiles = s.activePlan.sentTiles + 1]
           t == [r EXCEPT !.activePlan = plan]
<1>1. /\ task.kind = "TILE_WRITTEN" /\ task \in Task /\ task.generation \in Nat \ {0}
      /\ session.tasks # <<>> /\ task = Head(session.tasks)
      /\ session \in SessionType /\ FramesHold(session)
  BY TaskRuns, TaskFields DEF OnTileWritten, task, GenerationKinds, SessionInv, Queues
<1>2. SessionInv(s) /\ SamePlan(session, s) /\ Flows(s, w, held)
  <2>1. SentTask(task, w.lastId)
    BY <1>1, RanFlows
  <2>2. task.id <= w.lastId
    BY <1>1, <2>1 DEF SentTask
  <2> QED
    BY <1>1, <2>2, WrittenHolds, WrittenFlows
<1>3. r = Ran(s) /\ s.tasks = session.tasks
  BY <1>1, WrittenRan
<1>4. \/ ~BelongsToPlan(r, task.generation) /\ session' = r
      \/ /\ BelongsToPlan(r, task.generation)
         /\ session' = Pump([r EXCEPT !.activePlan.busy = FALSE,
                                      !.activePlan.sentTiles = @ + 1], answer)
  BY DEF OnTileWritten, Becomes
<1> HIDE DEF s, r
<1>5. /\ s.tasks # <<>> /\ task = Head(s.tasks) /\ s \in SessionType /\ FramesHold(s)
      /\ r \in SessionType /\ r.activePlan = s.activePlan
  BY <1>1, <1>2, <1>3, RanEffect DEF SessionInv, SamePlan, Queues
<1>6. CASE ~BelongsToPlan(r, task.generation)
  <2>1. task \notin WrittenTasks(s.activePlan.generation)
    <3>1. NoPlan.generation = 0
      BY DEF NoPlan
    <3> QED
      BY <1>1, <1>5, <1>6, <3>1 DEF WrittenTasks, BelongsToPlan
  <2> QED
    BY <1>2, <1>3, <1>4, <1>5, <1>6, <2>1, RanFlows
<1>7. CASE BelongsToPlan(r, task.generation)
  <2>1. s.activePlan # NoPlan /\ s.activePlan.generation = task.generation
    BY <1>5, <1>7 DEF BelongsToPlan
  <2>2. s.activePlan \in ActivePlan
    BY <1>5, <2>1, PlanFields
  <2>3. session' = Pump(t, answer)
    <3>1. [r EXCEPT !.activePlan.busy = FALSE, !.activePlan.sentTiles = @ + 1] = t
      BY <1>5, <2>2 DEF SessionType, ActivePlan
    <3>2. session' = Pump([r EXCEPT !.activePlan.busy = FALSE,
                                    !.activePlan.sentTiles = @ + 1], answer)
      BY <1>4, <1>7
    <3> QED
      BY <3>1, <3>2, Zenon
  <2>4. t = [Ran(s) EXCEPT !.activePlan = plan]
    BY <1>3
  <2> HIDE DEF t
  <2>5. SessionInv(t) /\ Flows(t, w, held)
    BY <1>1, <1>2, <1>5, <2>1, <2>4, TileSentFlows
  <2> QED
    BY <2>3, <2>5, PumpFlows
<1> QED
  BY <1>6, <1>7

--------------------------------------------------------------------------------
\* The stream and the other threads

\* Nothing the stream depends on changed.
LEMMA UntouchedFlows ==
    ASSUME NEW s \in SessionType, FramesHold(s), NEW w, NEW held, Flows(s, w, held),
           NEW t \in SessionType, t.activePlan = s.activePlan, t.tasks = s.tasks, SameFrames(s, t),
           t.deliveries = s.deliveries, t.nextDeliveryId = s.nextDeliveryId,
           t.currentEpoch = s.currentEpoch, t.closed = s.closed, t.planGeneration = s.planGeneration
    PROVE  Flows(t, w, held) /\ FramesHold(t)
<1>1. SameLine(s.activePlan, t.activePlan) /\ SameCount(s, t)
  BY CountSame DEF SameLine, Alike
<1>2. TasksSent(t.tasks, w.lastId)
  BY DEF Flows
<1>3. FramesHold(t)
  BY DEF FramesHold, SameFrames
<1> QED
  BY <1>1, <1>2, <1>3, FlowsKept, AdvancesSame

\* A task is submitted, that is not the callback of a tile.
LEMMA SubmitFlows ==
    ASSUME NEW s \in SessionType, FramesHold(s), NEW w, NEW held, Flows(s, w, held),
           NEW new \in Task, new.kind # "TILE_WRITTEN", SentTask(new, w.lastId)
    PROVE  Flows(Submit(s, new), w, held) /\ Flows(Enqueue(s, new), w, held)
<1>1. ASSUME NEW t \in SessionType, SamePlan(s, t), SameCredit(s, t), SameView(s, t),
             SameFrames(s, t), Ends(s, t), t.tasks = Append(s.tasks, new) \/ t.tasks = s.tasks
      PROVE  Flows(t, w, held)
  <2>1. s.tasks \in Seq(Task) /\ TasksSent(s.tasks, w.lastId)
    BY DEF SessionType, Flows
  <2>2. TasksSent(t.tasks, w.lastId)
    BY <1>1, <2>1, TasksSentAppend
  <2>3. new \notin WrittenTasks(s.activePlan.generation)
    BY DEF WrittenTasks
  <2>4. Alike(s.tasks, t.tasks, WrittenTasks(s.activePlan.generation))
    <3>1. CASE t.tasks = s.tasks
      BY <3>1 DEF Alike
    <3>2. CASE t.tasks = Append(s.tasks, new)
      BY <2>1, <2>3, <3>2, AlikeAppend
    <3> QED
      BY <1>1, <3>1, <3>2
  <2>5. SameLine(s.activePlan, t.activePlan) /\ SameCount(s, t)
    BY <1>1, <2>4, CountSame DEF SameLine, SamePlan
  <2>6. /\ t.deliveries = s.deliveries /\ t.nextDeliveryId = s.nextDeliveryId
        /\ t.currentEpoch = s.currentEpoch /\ (s.closed => t.closed)
    BY <1>1 DEF SameCredit, SameView, Ends
  <2> QED
    BY <1>1, <2>2, <2>5, <2>6, FlowsKept, AdvancesSame
<1> DEFINE t == Submit(s, new)
           u == Enqueue(s, new)
<1>2. t = Submit(s, new) /\ u = Enqueue(s, new)
  OBVIOUS
<1> HIDE DEF t, u
<1>3. /\ t \in SessionType /\ SamePlan(s, t) /\ SameCredit(s, t) /\ SameView(s, t)
      /\ SameFrames(s, t) /\ Ends(s, t) /\ (t.tasks = Append(s.tasks, new) \/ t.tasks = s.tasks)
  BY <1>2, SubmitEffect
<1>4. /\ u \in SessionType /\ SamePlan(s, u) /\ SameCredit(s, u) /\ SameView(s, u)
      /\ SameFrames(s, u) /\ Ends(s, u) /\ (u.tasks = Append(s.tasks, new) \/ u.tasks = s.tasks)
  BY <1>2, EnqueueEffect
<1> QED
  BY <1>1, <1>2, <1>3, <1>4

LEMMA ReadsFlow ==
    ASSUME SessionInv(session), NEW w, NEW held, Flows(session, w, held), Reads
    PROVE  Flows(session', w, held)
<1> DEFINE s == session
<1>1. s \in SessionType /\ FramesHold(s)
  BY DEF SessionInv, Queues
<1>2. ASSUME NEW read \in s.reads, NEW bytes \in TileSizes \cup {0}, TileReadEnds(read, bytes)
      PROVE  Flows(session', w, held)
  <2> DEFINE t == session'
  <2>0. bytes \in Nat
    BY ConstantsAssumption
  <2>1. t \in SessionType
    BY <1>2, <2>0, TileReadEndsHolds DEF SessionInv
  <2>2. /\ t.activePlan = s.activePlan /\ t.tasks = s.tasks /\ SameFrames(s, t)
        /\ t.deliveries = s.deliveries /\ t.nextDeliveryId = s.nextDeliveryId
        /\ t.currentEpoch = s.currentEpoch /\ t.closed = s.closed
        /\ t.planGeneration = s.planGeneration
    BY <1>1, <1>2 DEF TileReadEnds, SessionType, SameFrames
  <2> QED
    BY <1>1, <2>1, <2>2, UntouchedFlows
<1>3. ASSUME NEW read \in s.reads, NEW new \in Task, new.kind \in {"TILE_READ", "RETRY_READ"},
             session' = Enqueue([s EXCEPT !.reads = @ \ {read}], new)
      PROVE  Flows(session', w, held)
  <2> DEFINE u == [s EXCEPT !.reads = s.reads \ {read}]
  <2>1. /\ u \in SessionType /\ u.activePlan = s.activePlan /\ u.tasks = s.tasks
        /\ SameFrames(s, u) /\ u.deliveries = s.deliveries /\ u.nextDeliveryId = s.nextDeliveryId
        /\ u.currentEpoch = s.currentEpoch /\ u.closed = s.closed
        /\ u.planGeneration = s.planGeneration
    BY <1>1 DEF SessionType, SameFrames
  <2>2. session' = Enqueue(u, new)
    BY <1>1, <1>3 DEF SessionType
  <2> HIDE DEF u
  <2>3. Flows(u, w, held) /\ FramesHold(u)
    BY <1>1, <2>1, UntouchedFlows
  <2>4. SentTask(new, w.lastId)
    BY <1>3 DEF SentTask
  <2> QED
    BY <1>3, <2>1, <2>2, <2>3, <2>4, SubmitFlows
<1>4. ASSUME NEW read \in s.reads, TileResult(read) PROVE Flows(session', w, held)
  <2> DEFINE new == [kind |-> "TILE_READ", generation |-> read.generation, bytes |-> read.bytes]
  <2>1. read \in Read /\ read.kind = "TILE"
    BY <1>1, <1>4 DEF SessionType, TileResult
  <2>2. new \in Task /\ new.kind = "TILE_READ"
    BY <2>1, ReadFields DEF Task
  <2>3. session' = Enqueue([s EXCEPT !.reads = @ \ {read}], new)
    BY <1>4 DEF TileResult
  <2> HIDE DEF new
  <2> QED
    BY <1>3, <2>2, <2>3
<1>5. ASSUME NEW read \in s.reads, NEW ok \in BOOLEAN, RecoveryResult(read, ok)
      PROVE  Flows(session', w, held)
  <2> DEFINE new == [kind |-> "RETRY_READ", id |-> read.id, ok |-> ok]
  <2>1. read \in Read /\ read.kind = "RETRY"
    BY <1>1, <1>5 DEF SessionType, RecoveryResult
  <2>2. new \in Task /\ new.kind = "RETRY_READ"
    BY <2>1, ReadFields DEF Task
  <2>3. session' = Enqueue([s EXCEPT !.reads = @ \ {read}], new)
    BY <1>5 DEF RecoveryResult
  <2> HIDE DEF new
  <2> QED
    BY <1>3, <2>2, <2>3
<1> QED
  BY <1>2, <1>4, <1>5 DEF Reads

LEMMA GrantTurnFlows ==
    ASSUME SessionInv(session), NEW w, NEW held, Flows(session, w, held), GrantTurn
    PROVE  Flows(session', w, held)
<1> DEFINE s == session
           t == session'
           permit == [kind |-> "PERMIT", generation |-> s.activePlan.generation]
           v == Submit(s, permit)
<1>1. /\ s \in SessionType /\ FramesHold(s)
      /\ s.turn = "queued" /\ t = [v EXCEPT !.turn = IF s.closed \/ Len(s.tasks) >= TaskCapacity
                                                     THEN "none" ELSE "held"]
  BY DEF GrantTurn, SessionInv, Queues
<1>2. s.activePlan # NoPlan /\ s.activePlan.generation \in Nat \ {0}
  <2>1. s.activePlan.readWait
    BY <1>1 DEF SessionInv, Turn
  <2>2. s.activePlan # NoPlan
    BY <2>1 DEF NoPlan
  <2> QED
    BY <1>1, <2>2, PlanFields
<1>3. permit \in Task /\ permit.kind = "PERMIT" /\ SentTask(permit, w.lastId)
  BY <1>2 DEF Task, SentTask
<1>4. v = Submit(s, permit)
  OBVIOUS
<1> HIDE DEF permit, v
<1>5. v \in SessionType /\ Flows(v, w, held)
  BY <1>1, <1>3, <1>4, SubmitEffect, SubmitFlows
<1>6. FramesHold(v)
  <2>1. SamePlan(s, v) /\ SameCredit(s, v) /\ SameFrames(s, v)
    BY <1>1, <1>3, <1>4, SubmitEffect
  <2> QED
    BY <1>1, <2>1 DEF FramesHold, SamePlan, SameCredit, SameFrames
<1>7. t \in SessionType
  BY GrantTurnHolds DEF SessionInv
<1>8. /\ t.activePlan = v.activePlan /\ t.tasks = v.tasks /\ SameFrames(v, t)
      /\ t.deliveries = v.deliveries /\ t.nextDeliveryId = v.nextDeliveryId
      /\ t.currentEpoch = v.currentEpoch /\ t.closed = v.closed
      /\ t.planGeneration = v.planGeneration
  BY <1>1, <1>5 DEF SessionType, SameFrames
<1> QED
  BY <1>5, <1>6, <1>7, <1>8, UntouchedFlows

LEMMA TimersFlows ==
    ASSUME SessionInv(session), NEW w, NEW held, Flows(session, w, held),
           HelloTimer \/ \E id \in DOMAIN session.deliveries : ReleaseTimer(id)
    PROVE  Flows(session', w, held)
<1> DEFINE s == session
<1>0. s \in SessionType /\ FramesHold(s)
  BY DEF SessionInv, Queues
<1>1. CASE HelloTimer
  <2> DEFINE new == [kind |-> "HELLO_TIMEOUT"]
             u == [s EXCEPT !.helloTimer = FALSE]
  <2>1. new \in Task /\ new.kind = "HELLO_TIMEOUT" /\ session' = Submit(u, new)
    BY <1>1 DEF Task, HelloTimer
  <2>2. /\ u \in SessionType /\ u.activePlan = s.activePlan /\ u.tasks = s.tasks
        /\ SameFrames(s, u) /\ u.deliveries = s.deliveries /\ u.nextDeliveryId = s.nextDeliveryId
        /\ u.currentEpoch = s.currentEpoch /\ u.closed = s.closed
        /\ u.planGeneration = s.planGeneration
    BY <1>0 DEF SessionType, SameFrames
  <2> HIDE DEF u, new
  <2>3. Flows(u, w, held) /\ FramesHold(u)
    BY <1>0, <2>2, UntouchedFlows
  <2>4. SentTask(new, w.lastId)
    BY <2>1 DEF SentTask
  <2> QED
    BY <2>1, <2>2, <2>3, <2>4, SubmitFlows
<1>2. ASSUME NEW id \in DOMAIN s.deliveries, ReleaseTimer(id) PROVE Flows(session', w, held)
  <2> DEFINE new == [kind |-> "RELEASE_TIMEOUT", id |-> id]
             d == [s.deliveries[id] EXCEPT !.releaseTimer = FALSE]
             u == [s EXCEPT !.deliveries[id] = d]
             state == s.deliveries[id].state
             retrying == s.deliveries[id].retryInProgress
             timer == FALSE
  <2>1. s.deliveries[id] \in Delivery /\ id \in Nat
    BY <1>0, DeliveryField
  <2>2. new \in Task /\ new.kind = "RELEASE_TIMEOUT" /\ SentTask(new, w.lastId)
    BY <2>1 DEF Task, SentTask
  <2>3. Revised(s.deliveries[id], d, state, retrying, timer)
    BY <2>1 DEF Revised, Delivery
  <2>4. session' = Submit(u, new)
    <3>1. [s EXCEPT !.deliveries[id].releaseTimer = FALSE] = u
      BY <1>0 DEF SessionType
    <3>2. session' = Submit([s EXCEPT !.deliveries[id].releaseTimer = FALSE], new)
      BY <1>2 DEF ReleaseTimer
    <3> HIDE DEF u, new
    <3> QED
      BY <3>1, <3>2, Zenon
  <2> HIDE DEF new, d
  <2>5. Revises(s, u, id, state, retrying, timer) /\ state = s.deliveries[id].state
    BY <2>3, Zenon DEF Revises
  <2> HIDE DEF u, state, retrying, timer
  <2>6. u \in SessionType /\ FramesHold(u) /\ Flows(u, w, held)
    BY <1>0, <2>5, RevisesFlows
  <2> QED
    BY <2>2, <2>4, <2>6, SubmitFlows
<1> QED
  BY <1>1, <1>2

\* The client lets go of some tiles.
LEMMA HeldShrinksFlows ==
    ASSUME NEW s, NEW w, NEW held, Flows(s, w, held), NEW fewer \in SUBSET held
    PROVE  Flows(s, w, fewer)
BY DEF Flows, HeldSent

\* One task more, that confirms at most what the client held.
OneTaskMore ==
    /\ \E new \in Task : /\ session' = Submit(session, new)
                         /\ new.kind # "TILE_WRITTEN" /\ SentTask(new, wire.lastId)
    /\ client'.held \in SUBSET client.held
    /\ wire' = wire

\* The controls of the client are tasks, and confirm tiles that it holds.
LEMMA ControlsFlow ==
    ASSUME Inv, Flows(session, wire, client.held),
           \/ \E open \in opens, ok \in BOOLEAN : OpenResolves(open, ok)
           \/ \E ok \in BOOLEAN : ClientHello(ok)
           \/ \E image \in Images : ClientOpen(image)
           \/ ClientView
           \/ \E tile \in client.held : ClientConfirms(tile) \/ ClientAsks(tile)
    PROVE  Flows(session', wire, client'.held) /\ wire' = wire
<1>1. /\ session \in SessionType /\ FramesHold(session)
      /\ client \in ClientType /\ client.epoch \in Nat /\ client.image \in SomeImage
      /\ client.held \subseteq ClientTile /\ opens \subseteq Opening
  BY DEF Inv, SessionInv, Queues, ClientType
<1> SUFFICES OneTaskMore
  <2>1. Flows(session', wire, client.held)
    BY <1>1, SubmitFlows DEF OneTaskMore
  <2> QED
    BY <2>1, HeldShrinksFlows DEF OneTaskMore
<1>2. ASSUME NEW new \in Task, session' = Submit(session, new),
             new.kind \in {"OPENED", "HELLO", "OPEN", "VIEW"}, wire' = wire, client'.held = client.held
      PROVE  OneTaskMore
  <2>1. SentTask(new, wire.lastId) /\ new.kind # "TILE_WRITTEN"
    BY <1>2 DEF SentTask
  <2> QED
    BY <1>2, <2>1 DEF OneTaskMore
<1>3. ASSUME NEW open \in opens, NEW ok \in BOOLEAN, OpenResolves(open, ok) PROVE OneTaskMore
  <2> DEFINE new == [kind |-> "OPENED", epoch |-> open.epoch, image |-> open.image, ok |-> ok]
  <2>1. new \in Task /\ new.kind = "OPENED"
    BY <1>1 DEF Task, Opening
  <2>2. session' = Submit(session, new) /\ wire' = wire /\ client'.held = client.held
    BY <1>3 DEF OpenResolves
  <2> HIDE DEF new
  <2> QED
    BY <1>2, <2>1, <2>2
<1>4. ASSUME NEW ok \in BOOLEAN, ClientHello(ok) PROVE OneTaskMore
  <2> DEFINE new == [kind |-> "HELLO", ok |-> ok]
  <2>1. new \in Task /\ new.kind = "HELLO"
    BY DEF Task
  <2>2. session' = Submit(session, new) /\ wire' = wire /\ client'.held = client.held
    BY <1>1, <1>4 DEF ClientHello, Says, ClientType
  <2> HIDE DEF new
  <2> QED
    BY <1>2, <2>1, <2>2
<1>5. ASSUME NEW image \in Images, ClientOpen(image) PROVE OneTaskMore
  <2> DEFINE new == [kind |-> "OPEN", epoch |-> client.epoch + 1, image |-> image]
  <2>1. new \in Task /\ new.kind = "OPEN"
    BY <1>1 DEF Task, SomeImage
  <2>2. session' = Submit(session, new) /\ wire' = wire /\ client'.held = client.held
    BY <1>1, <1>5 DEF ClientOpen, Says, ClientType
  <2> HIDE DEF new
  <2> QED
    BY <1>2, <2>1, <2>2
<1>6. ASSUME ClientView PROVE OneTaskMore
  <2> DEFINE new == [kind |-> "VIEW", epoch |-> client.epoch + 1, image |-> client.image]
  <2>1. new \in Task /\ new.kind = "VIEW"
    BY <1>1 DEF Task
  <2>2. session' = Submit(session, new) /\ wire' = wire /\ client'.held = client.held
    BY <1>1, <1>6 DEF ClientView, Says, ClientType
  <2> HIDE DEF new
  <2> QED
    BY <1>2, <2>1, <2>2
<1>7. ASSUME NEW tile \in client.held, ClientConfirms(tile) \/ ClientAsks(tile) PROVE OneTaskMore
  <2> DEFINE release == [kind |-> "RELEASE", id |-> tile.id]
             ack == [kind |-> "ACK_STATE", epoch |-> tile.epoch, received |-> {tile.id}, missing |-> 0]
             ask == [kind |-> "ACK_STATE", epoch |-> tile.epoch, received |-> {}, missing |-> tile.id]
  <2>1. tile.id \in Nat /\ tile.epoch \in Nat /\ tile.id <= wire.lastId
    BY <1>1 DEF ClientTile, Flows, HeldSent
  <2>2. /\ release \in Task /\ release.kind # "TILE_WRITTEN" /\ SentTask(release, wire.lastId)
        /\ ack \in Task /\ ack.kind # "TILE_WRITTEN" /\ SentTask(ack, wire.lastId)
        /\ ask \in Task /\ ask.kind # "TILE_WRITTEN" /\ SentTask(ask, wire.lastId)
    BY <2>1 DEF Task, SentTask
  <2>3. /\ \E new \in {release, ack, ask} : session' = Submit(session, new)
        /\ wire' = wire
    BY <1>7 DEF ClientConfirms, ClientAsks, Says
  <2>4. client'.held = client.held \ {tile}
    BY <1>1, <1>7 DEF ClientConfirms, ClientAsks, ClientType
  <2> HIDE DEF release, ack, ask
  <2> QED
    BY <2>2, <2>3, <2>4 DEF OneTaskMore
<1> QED
  BY <1>3, <1>4, <1>5, <1>6, <1>7

\* What was to be sent is forgotten, and the session is closed.
LEMMA TransportClosesFlows ==
    ASSUME SessionInv(session), NEW w, NEW held, Flows(session, w, held), TransportCloses
    PROVE  Flows(session', w, held)
<1> DEFINE new == [kind |-> "CLEANUP"]
           s == session
           ledger == [id \in DOMAIN s.deliveries |-> [s.deliveries[id] EXCEPT !.releaseTimer = FALSE]]
           u == [s EXCEPT !.closed = TRUE, !.state = "CERRADA", !.helloTimer = FALSE,
                          !.deliveries = ledger, !.frames = <<>>, !.writing = FALSE]
<1>1. new \in Task /\ new.kind = "CLEANUP" /\ SentTask(new, w.lastId)
  BY DEF Task, SentTask
<1>2. s \in SessionType /\ s.deliveries \in Ledgers
  BY DEF SessionInv, SessionType
<1>3. session' = Enqueue(u, new)
  BY <1>2 DEF TransportCloses, Closing, SessionType
<1>4. s.deliveries \in [DOMAIN s.deliveries -> Delivery]
  BY <1>2, LedgerElim
<1>5. /\ ledger \in [DOMAIN s.deliveries -> Delivery]
      /\ \A id \in DOMAIN s.deliveries :
            /\ ledger[id].reservedBytes = s.deliveries[id].reservedBytes
            /\ ledger[id].epoch = s.deliveries[id].epoch
            /\ ledger[id].state = s.deliveries[id].state
  BY <1>4 DEF Delivery
<1> HIDE DEF new, ledger
<1>6. ledger \in Ledgers /\ DOMAIN ledger = DOMAIN s.deliveries
  BY <1>2, <1>5, LedgerSameBytes
<1>7. <<>> \in Seq(Frame) /\ Len(<<>>) = 0
  BY EmptySeq
<1>8. /\ u \in SessionType /\ u.closed /\ u.deliveries = ledger /\ u.frames = <<>> /\ ~u.writing
      /\ u.tasks = s.tasks /\ u.currentEpoch = s.currentEpoch /\ u.nextDeliveryId = s.nextDeliveryId
  BY <1>2, <1>6, <1>7 DEF SessionType, States
<1> HIDE DEF u
<1>9. FramesHold(u)
  BY <1>7, <1>8, ConstantsAssumption DEF FramesHold
<1>10. Flows(u, w, held)
  <2>1. Waiting(u) = <<>>
    BY <1>8 DEF Waiting
  <2>2. Continues(w, <<>>)
    BY <1>7 DEF Continues
  <2>3. DeliveriesSent(u.deliveries, w)
    BY <1>5, <1>6, <1>8 DEF Flows, DeliveriesSent
  <2>4. FramesSent(u.frames, u.writing, w.lastId)
    BY <1>7, <1>8 DEF FramesSent
  <2> QED
    BY <1>7, <1>8, <2>1, <2>2, <2>3, <2>4 DEF Flows
<1> QED
  BY <1>1, <1>3, <1>8, <1>9, <1>10, SubmitFlows

\* The callbacks of a frame speak of its tile.
LEMMA CallbacksSent ==
    ASSUME NEW frame \in Frame, NEW lastId, frame.kind \in {"TILE", "RETRY"} => frame.id <= lastId
    PROVE  /\ \A new \in CommitTask(frame) : new.kind # "TILE_WRITTEN" /\ SentTask(new, lastId)
           /\ \A new \in WrittenTask(frame) :
                 /\ SentTask(new, lastId)
                 /\ \A g : new \in WrittenTasks(g) <=> frame \in TileFrames(g)
           /\ WrittenTask(frame) = {} => \A g : frame \notin TileFrames(g)
<1>1. CASE frame.kind = "TILE"
  <2> DEFINE c == [kind |-> "TILE_COMMITTED", id |-> frame.id]
             n == [kind |-> "TILE_WRITTEN", generation |-> frame.generation, id |-> frame.id]
  <2>1. CommitTask(frame) = {c} /\ WrittenTask(frame) = {n}
    BY <1>1 DEF CommitTask, WrittenTask
  <2>2. c.kind # "TILE_WRITTEN" /\ SentTask(c, lastId) /\ SentTask(n, lastId)
    BY <1>1 DEF SentTask
  <2>3. n \in Task
    <3>1. frame.generation \in Nat \ {0} /\ frame.id \in Nat
      BY <1>1, FrameFields DEF PlanKinds
    <3> QED
      BY <3>1 DEF Task
  <2>4. \A g : n \in WrittenTasks(g) <=> frame \in TileFrames(g)
    BY <1>1, <2>3 DEF WrittenTasks, TileFrames
  <2> HIDE DEF c, n
  <2> QED
    BY <2>1, <2>2, <2>4
<1>2. CASE frame.kind = "RETRY"
  <2> DEFINE n == [kind |-> "RETRY_WRITTEN", id |-> frame.id]
  <2>1. CommitTask(frame) = {} /\ WrittenTask(frame) = {n}
    BY <1>2 DEF CommitTask, WrittenTask
  <2>2. SentTask(n, lastId) /\ \A g : n \notin WrittenTasks(g) /\ frame \notin TileFrames(g)
    BY <1>2 DEF SentTask, WrittenTasks, TileFrames
  <2> HIDE DEF n
  <2> QED
    BY <2>1, <2>2
<1>3. CASE frame.kind = "PLAN"
  <2> DEFINE n == [kind |-> "PLAN_COMMITTED", generation |-> frame.generation]
  <2>1. CommitTask(frame) = {n} /\ WrittenTask(frame) = {}
    BY <1>3 DEF CommitTask, WrittenTask
  <2>2. n.kind # "TILE_WRITTEN" /\ SentTask(n, lastId) /\ \A g : frame \notin TileFrames(g)
    BY <1>3 DEF SentTask, TileFrames
  <2> HIDE DEF n
  <2> QED
    BY <2>1, <2>2
<1>4. CASE frame.kind = "DONE"
  <2> DEFINE n == [kind |-> "DONE_COMMITTED", generation |-> frame.generation]
  <2>1. CommitTask(frame) = {n} /\ WrittenTask(frame) = {}
    BY <1>4 DEF CommitTask, WrittenTask
  <2>2. n.kind # "TILE_WRITTEN" /\ SentTask(n, lastId) /\ \A g : frame \notin TileFrames(g)
    BY <1>4 DEF SentTask, TileFrames
  <2> HIDE DEF n
  <2> QED
    BY <2>1, <2>2
<1>5. CASE frame.kind \notin {"PLAN", "DONE", "TILE", "RETRY"}
  <2>1. CommitTask(frame) = {} /\ WrittenTask(frame) = {} /\ \A g : frame \notin TileFrames(g)
    BY <1>5 DEF CommitTask, WrittenTask, TileFrames
  <2> QED
    BY <2>1
<1> QED
  BY <1>1, <1>2, <1>3, <1>4, <1>5

LEMMA GainsSent ==
    ASSUME NEW s \in SessionType, NEW t, NEW tasks \in SUBSET Task, NEW lastId, Gains(s, t, tasks),
           TasksSent(s.tasks, lastId), \A new \in tasks : SentTask(new, lastId)
    PROVE  TasksSent(t.tasks, lastId)
<1>1. s.tasks \in Seq(Task)
  BY DEF SessionType
<1> QED
  BY <1>1, TasksSentAppend DEF Gains

\* The head was written: its callback is queued, and counts a tile of the plan
\* where the frame did.
LEMMA WriteDoneFlows ==
    ASSUME SessionInv(session), NEW w, NEW held, Flows(session, w, held), WriteDone
    PROVE  Flows(session', w, held)
<1> DEFINE s == session
           t == session'
           u == [s EXCEPT !.frames = Tail(s.frames), !.writing = FALSE]
           frame == Head(s.frames)
           tasks == WrittenTask(frame)
<1>0. s \in SessionType /\ Queues(s) /\ s.writing /\ s.frames # <<>>
  BY DEF SessionInv, WriteDone, Queues, FramesHold
<1>1. t = SubmitAny(u, tasks)
  BY <1>0 DEF WriteDone, SessionType
<1>2. /\ s.frames \in Seq(Frame) /\ s.tasks \in Seq(Task) /\ frame \in Frame
      /\ frame = s.frames[1] /\ 1 \in 1..Len(s.frames) /\ Tail(s.frames) \in Seq(Frame)
      /\ \A i \in 1..Len(Tail(s.frames)) :
            i + 1 \in 1..Len(s.frames) /\ Tail(s.frames)[i] = s.frames[i + 1]
  BY <1>0, TailFacts DEF SessionType
<1>3. /\ u \in SessionType /\ SamePlan(s, u) /\ SameCredit(s, u) /\ SameView(s, u)
      /\ u.frames = Tail(s.frames) /\ ~u.writing /\ u.tasks = s.tasks
      /\ u.closed = s.closed /\ u.state = s.state
  BY <1>0, <1>2 DEF SessionType, SamePlan, SameCredit, SameView
<1> HIDE DEF u
<1>4. /\ t \in SessionType
      /\ SamePlan(u, t) /\ SameCredit(u, t) /\ SameView(u, t)
      /\ SameFrames(u, t) /\ Ends(u, t)
      /\ Gains(u, t, tasks)
  BY <1>1, <1>2, <1>3, CallbackTasks, SubmitAnyEffect
<1> HIDE DEF t
<1>5. /\ SamePlan(s, t) /\ SameCredit(s, t) /\ SameView(s, t) /\ Gains(s, t, tasks)
      /\ t.frames = Tail(s.frames) /\ ~t.writing /\ (s.closed => t.closed)
  BY <1>3, <1>4 DEF SamePlan, SameCredit, SameView, SameFrames, Ends, Gains
<1>6. Waiting(t) = Waiting(s)
  BY <1>0, <1>5 DEF Waiting
<1>7. frame.kind \in {"TILE", "RETRY"} => frame.id <= w.lastId
  BY <1>0, <1>2 DEF Flows, FramesSent
<1> HIDE DEF tasks, frame
<1>8. /\ tasks \in SUBSET Task
      /\ \A new \in tasks :
            SentTask(new, w.lastId) /\ \A g : new \in WrittenTasks(g) <=> frame \in TileFrames(g)
      /\ tasks = {} => \A g : frame \notin TileFrames(g)
      /\ tasks = {} \/ \E new : tasks = {new}
  BY <1>2, <1>7, CallbacksSent, CallbackTasks DEF tasks
<1>9. TasksSent(t.tasks, w.lastId)
  BY <1>0, <1>5, <1>8, GainsSent DEF Flows
<1>10. FramesSent(t.frames, t.writing, w.lastId)
  BY <1>2, <1>5 DEF Flows, FramesSent
<1>11. \A i \in 1..Len(t.frames) : t.frames[i].kind \in Announces => t.frames[i].epoch <= t.currentEpoch
  BY <1>2, <1>5 DEF Flows, SameView
<1>12. ASSUME ~t.closed PROVE SameCount(s, t)
  <2> DEFINE g == s.activePlan.generation
             T == WrittenTasks(g)
  <2>0. GainsOnly(s, t, tasks)
    BY <1>0, <1>4, <1>5, <1>8, GainsFacts
  <2> HIDE DEF g
  <2>1. CASE frame \in TileFrames(g)
    <3>1. \E new \in tasks : new \in T /\ new \in Task
      BY <1>8, <2>1
    <3>2. \E new \in tasks : t.tasks = Append(s.tasks, new)
      BY <1>5, <1>12, <2>0, <3>1 DEF GainsOnly, Gains
    <3>3. ~None(t.tasks, T)
      BY <1>2, <1>8, <2>1, <3>2, AppendTokens
    <3>4. Uncounted(t, g) /\ Uncounted(s, g)
      BY <1>0, <2>1, <3>3 DEF Uncounted, frame
    <3> QED
      BY <3>4 DEF SameCount, g
  <2>2. CASE frame \notin TileFrames(g)
    <3>1. \A new \in tasks : new \notin T
      BY <1>8, <2>2
    <3>2. Alike(s.tasks, t.tasks, T)
      BY <2>0, <3>1 DEF GainsOnly
    <3>3. Uncounted(t, g) <=> Uncounted(s, g)
      BY <1>5, <2>2, <3>2 DEF Uncounted, Alike, frame
    <3> QED
      BY <3>3 DEF SameCount, g
  <2> QED
    BY <2>1, <2>2
<1>13. ASSUME ~t.closed PROVE Coupled(t, w)
  <2>1. Coupled(s, w) /\ SameCount(s, t) /\ t.activePlan = s.activePlan
        /\ t.deliveries = s.deliveries /\ t.currentEpoch = s.currentEpoch
    BY <1>5, <1>12, <1>13 DEF Flows, SamePlan, SameCredit, SameView
  <2> QED
    BY <1>6, <2>1 DEF Coupled, Belongs, Streams, SameCount
<1>14. /\ w \in Wire /\ Continues(w, Waiting(t))
       /\ w.epoch <= t.currentEpoch /\ w.lastId < t.nextDeliveryId
       /\ DeliveriesSent(t.deliveries, w) /\ HeldSent(held, w.lastId)
  <2>1. t.currentEpoch = s.currentEpoch /\ t.nextDeliveryId = s.nextDeliveryId
        /\ t.deliveries = s.deliveries
    BY <1>5 DEF SameCredit, SameView
  <2> QED
    BY <1>6, <2>1 DEF Flows
<1>15. t.closed \/ Coupled(t, w)
  BY <1>13
<1> QED
  BY <1>9, <1>10, <1>11, <1>14, <1>15 DEF Flows, t

--------------------------------------------------------------------------------
\* The head of the queue goes to the wire

Sends(w, after, frame) ==
    /\ after.epoch = IF frame.kind \in Announces THEN frame.epoch ELSE w.epoch
    /\ after.size = IF frame.kind = "PLAN" THEN frame.count ELSE w.size
    /\ after.sent = IF frame.kind = "PLAN" THEN 0 ELSE IF frame.kind = "TILE" THEN w.sent + 1 ELSE w.sent
    /\ after.streaming = IF frame.kind = "PLAN" THEN TRUE
                         ELSE IF frame.kind \in {"MANIFEST", "DONE"} THEN FALSE
                         ELSE w.streaming
    /\ after.lastId = IF frame.kind = "TILE" THEN frame.id ELSE w.lastId
    /\ after.last = IF frame.kind \in Announces \cup OfStream \cup {"RETRY"}
                    THEN [kind |-> frame.kind, epoch |-> frame.epoch,
                          count |-> IF frame.kind = "DONE" THEN frame.count ELSE 0]
                    ELSE w.last

LEMMA CarriedSends ==
    ASSUME wire \in Wire, NEW frame \in Frame
    PROVE  Carried(frame) \in Wire /\ Sends(wire, Carried(frame), frame)
<1> DEFINE last == [kind |-> frame.kind, epoch |-> frame.epoch,
                    count |-> IF frame.kind = "DONE" THEN frame.count ELSE 0]
           next == [wire EXCEPT !.last = last]
<1>1. frame.kind \in PlainKinds \cup PlanKinds /\ frame.epoch \in Nat /\ frame.id \in Nat
      /\ frame.count \in Nat
  BY FrameFields
<1>2. last \in [kind : PlainKinds \cup PlanKinds \cup {"NONE"}, epoch : Nat, count : Nat]
  BY <1>1
<1>3. last = [kind |-> frame.kind, epoch |-> frame.epoch,
              count |-> IF frame.kind = "DONE" THEN frame.count ELSE 0]
  OBVIOUS
<1> HIDE DEF last
<1>4. next \in Wire /\ next.last = last /\ next.epoch = wire.epoch /\ next.size = wire.size
      /\ next.sent = wire.sent /\ next.streaming = wire.streaming /\ next.lastId = wire.lastId
  BY <1>2 DEF Wire
<1>5. Carried(frame) =
        CASE frame.kind = "MANIFEST" -> [next EXCEPT !.epoch = frame.epoch, !.streaming = FALSE]
          [] frame.kind = "PLAN" ->
               [next EXCEPT !.epoch = frame.epoch, !.streaming = TRUE,
                            !.size = frame.count, !.sent = 0]
          [] frame.kind = "TILE" -> [next EXCEPT !.sent = next.sent + 1, !.lastId = frame.id]
          [] frame.kind = "DONE" -> [next EXCEPT !.streaming = FALSE]
          [] frame.kind = "RETRY" -> next
          [] OTHER -> wire
  BY <1>4 DEF Carried, last, Wire
<1> HIDE DEF next
<1>6. CASE frame.kind = "MANIFEST"
  <2>1. Carried(frame) = [next EXCEPT !.epoch = frame.epoch, !.streaming = FALSE]
    BY <1>5, <1>6
  <2> QED
    BY <1>1, <1>3, <1>4, <1>6, <2>1 DEF Wire, Sends, Announces, OfStream
<1>7. CASE frame.kind = "PLAN"
  <2>1. Carried(frame) = [next EXCEPT !.epoch = frame.epoch, !.streaming = TRUE,
                                      !.size = frame.count, !.sent = 0]
    BY <1>5, <1>7
  <2>2. /\ Carried(frame) \in Wire
        /\ Carried(frame).epoch = frame.epoch /\ Carried(frame).streaming = TRUE
        /\ Carried(frame).size = frame.count /\ Carried(frame).sent = 0
        /\ Carried(frame).lastId = wire.lastId /\ Carried(frame).last = last
    <3> DEFINE a == [next EXCEPT !.epoch = frame.epoch, !.streaming = TRUE]
               b == [a EXCEPT !.size = frame.count, !.sent = 0]
    <3>1. /\ a \in Wire /\ a.epoch = frame.epoch /\ a.streaming = TRUE
          /\ a.lastId = wire.lastId /\ a.last = last
      BY <1>1, <1>4 DEF Wire
    <3>2. Carried(frame) = b
      BY <1>4, <2>1 DEF Wire
    <3> HIDE DEF a
    <3>3. /\ b \in Wire /\ b.epoch = frame.epoch /\ b.streaming = TRUE
          /\ b.size = frame.count /\ b.sent = 0 /\ b.lastId = wire.lastId /\ b.last = last
      BY <1>1, <3>1 DEF Wire
    <3> QED
      BY <3>2, <3>3, Zenon
  <2> QED
    BY <1>3, <1>7, <2>2 DEF Sends, Announces, OfStream
<1>8. CASE frame.kind = "TILE"
  <2>1. Carried(frame) = [next EXCEPT !.sent = next.sent + 1, !.lastId = frame.id]
    BY <1>5, <1>8
  <2>2. next.sent + 1 \in Nat
    BY <1>4 DEF Wire
  <2>3. /\ Carried(frame) \in Wire
        /\ Carried(frame).epoch = wire.epoch /\ Carried(frame).streaming = wire.streaming
        /\ Carried(frame).size = wire.size /\ Carried(frame).sent = wire.sent + 1
        /\ Carried(frame).lastId = frame.id /\ Carried(frame).last = last
    BY <1>1, <1>4, <2>1, <2>2 DEF Wire
  <2> QED
    BY <1>3, <1>8, <2>3 DEF Sends, Announces, OfStream
<1>9. CASE frame.kind = "DONE"
  <2>1. Carried(frame) = [next EXCEPT !.streaming = FALSE]
    BY <1>5, <1>9
  <2> QED
    BY <1>1, <1>3, <1>4, <1>9, <2>1 DEF Wire, Sends, Announces, OfStream
<1>10. CASE frame.kind = "RETRY"
  <2>1. Carried(frame) = next
    BY <1>5, <1>10
  <2> QED
    BY <1>1, <1>3, <1>4, <1>10, <2>1 DEF Wire, Sends, Announces, OfStream
<1>11. CASE frame.kind \in {"WELCOME", "ERROR"}
  <2>1. Carried(frame) = wire
    BY <1>5, <1>11
  <2> QED
    BY <1>11, <2>1 DEF Sends, Announces, OfStream
<1> QED
  BY <1>1, <1>6, <1>7, <1>8, <1>9, <1>10, <1>11 DEF PlainKinds, PlanKinds

\* A frame that can be the next one is a step of the stream.
LEMMA SendsStream ==
    ASSUME wire \in Wire, NEW frame \in Frame, Follows(wire, frame), wire' \in Wire,
           Sends(wire, wire', frame)
    PROVE  [Stream!StreamNext]_(Stream!streamVars)
<1>1. frame.kind \in PlainKinds \cup PlanKinds
  BY FrameFields
<1>2. CASE frame.kind = "MANIFEST"
  <2>1. Stream!Manifest
    BY <1>2 DEF Sends, Follows, Announces, OfStream, Stream!Manifest
  <2> QED
    BY <2>1 DEF Stream!StreamNext
<1>3. CASE frame.kind = "PLAN"
  <2>1. Stream!Plan
    BY <1>3 DEF Sends, Follows, Announces, OfStream, Stream!Plan
  <2> QED
    BY <2>1 DEF Stream!StreamNext
<1>4. CASE frame.kind = "TILE"
  <2>1. Stream!Tile
    BY <1>4 DEF Sends, Follows, Announces, OfStream, Stream!Tile
  <2> QED
    BY <2>1 DEF Stream!StreamNext
<1>5. CASE frame.kind = "DONE"
  <2>1. Stream!Done
    BY <1>5 DEF Sends, Follows, Announces, OfStream, Stream!Done
  <2> QED
    BY <2>1 DEF Stream!StreamNext
<1>6. CASE frame.kind = "RETRY"
  <2>1. Stream!Retry
    BY <1>6 DEF Sends, Follows, Announces, OfStream, Stream!Retry
  <2> QED
    BY <2>1 DEF Stream!StreamNext
<1>7. CASE frame.kind \in {"WELCOME", "ERROR"}
  BY <1>7 DEF Sends, Announces, OfStream, Stream!streamVars
<1> QED
  BY <1>1, <1>2, <1>3, <1>4, <1>5, <1>6, <1>7 DEF PlainKinds, PlanKinds

\* What waited behind it follows it.
LEMMA SendsContinues ==
    ASSUME NEW w \in Wire, NEW waiting \in Seq(Frame), waiting # <<>>, Continues(w, waiting),
           NEW after \in Wire, Sends(w, after, Head(waiting))
    PROVE  Continues(after, Tail(waiting))
<1> DEFINE rest == Tail(waiting)
           frame == Head(waiting)
<1>0. Sends(w, after, frame)
  OBVIOUS
<1>1. /\ rest \in Seq(Frame) /\ frame \in Frame /\ frame = waiting[1] /\ 1 \in 1..Len(waiting)
      /\ \A i \in 1..Len(rest) : /\ i + 1 \in 1..Len(waiting) /\ 1 < i + 1 /\ i \in Nat
                                 /\ rest[i] = waiting[i + 1]
  BY TailFacts
<1> HIDE DEF rest, frame
<1>2. Follows(w, frame)
  BY <1>1, Zenon DEF Continues
<1>3. ASSUME NEW i \in 1..Len(rest) PROVE Follows(after, rest[i])
  <2> DEFINE f == rest[i]
  <2>1. f \in Frame /\ Follows(w, f) /\ InOrder(frame, f)
    <3>1. rest[i] \in Frame
      BY <1>1
    <3>2. Follows(w, waiting[i + 1]) /\ InOrder(waiting[1], waiting[i + 1])
      BY <1>1, Zenon DEF Continues
    <3> QED
      BY <1>1, <3>1, <3>2
  <2> HIDE DEF f
  <2>2. f.epoch \in Nat /\ frame.epoch \in Nat /\ w.epoch \in Nat /\ w.lastId \in Nat /\ frame.id \in Nat
    BY <1>1, <2>1, FrameFields DEF Wire
  <2>3. Follows(after, f)
    <3>1. CASE f.kind \in Announces
      <4>1. f.epoch > w.epoch /\ (f.kind = "PLAN" => f.count > 0)
        BY <2>1, <3>1 DEF Follows
      <4>2. f.epoch > after.epoch
        BY <1>0, <2>1, <3>1, <4>1, <2>2 DEF InOrder, Sends
      <4> QED
        BY <3>1, <4>1, <4>2 DEF Follows, Announces, OfStream
    <3>2. CASE f.kind \in OfStream
      <4>1. frame.kind \notin Announces \cup OfStream
        BY <2>1, <3>2 DEF InOrder
      <4>2. /\ after.epoch = w.epoch /\ after.size = w.size /\ after.sent = w.sent
            /\ after.streaming = w.streaming /\ after.lastId = w.lastId
        BY <1>0, <4>1 DEF Sends, Announces, OfStream
      <4> QED
        BY <2>1, <3>2, <4>2 DEF Follows
    <3>3. CASE f.kind = "RETRY"
      <4>1. f.epoch \in 1..w.epoch /\ w.lastId > 0
        BY <2>1, <3>3 DEF Follows
      <4>2. after.epoch >= w.epoch /\ after.lastId >= w.lastId /\ after.epoch \in Nat /\ after.lastId \in Nat
        <5>1. /\ frame.kind \in Announces => frame.epoch > w.epoch
              /\ frame.kind = "TILE" => frame.id > w.lastId
          BY <1>2 DEF Follows
        <5>2. /\ after.epoch = IF frame.kind \in Announces THEN frame.epoch ELSE w.epoch
              /\ after.lastId = IF frame.kind = "TILE" THEN frame.id ELSE w.lastId
          BY <1>0 DEF Sends
        <5>3. after.epoch >= w.epoch
          BY <2>2, <5>1, <5>2
        <5>4. after.lastId >= w.lastId
          BY <2>2, <5>1, <5>2
        <5>5. after.epoch \in Nat /\ after.lastId \in Nat
          BY DEF Wire
        <5> QED
          BY <5>3, <5>4, <5>5
      <4> QED
        BY <2>2, <3>3, <4>1, <4>2 DEF Follows, Announces, OfStream
    <3>4. CASE f.kind \notin Announces \cup OfStream \cup {"RETRY"}
      BY <3>4 DEF Follows, Announces, OfStream
    <3> QED
      BY <3>1, <3>2, <3>3, <3>4
  <2> QED
    BY <2>3 DEF f
<1>4. ASSUME NEW i \in 1..Len(rest), NEW j \in 1..Len(rest), i < j PROVE InOrder(rest[i], rest[j])
  <2>1. i + 1 \in 1..Len(waiting) /\ j + 1 \in 1..Len(waiting) /\ i + 1 < j + 1
        /\ rest[i] = waiting[i + 1] /\ rest[j] = waiting[j + 1]
    BY <1>1, <1>4
  <2> QED
    BY <2>1, Zenon DEF Continues
<1> QED
  BY <1>2, <1>3, <1>4, Zenon DEF Continues, rest, frame

\* The head was given to the socket, and its callback queued.
Committed(s, t) ==
    /\ s.frames # <<>> /\ ~s.writing /\ t.writing /\ t.frames = s.frames
    /\ SamePlan(s, t) /\ SameCredit(s, t) /\ SameView(s, t)
    /\ \A g : Alike(s.tasks, t.tasks, WrittenTasks(g))

\* The PLAN of the active plan is sent: the stream is at its beginning.
LEMMA PlanSentStreams ==
    ASSUME NEW s \in SessionType, SessionInv(s), NEW t \in SessionType, Committed(s, t),
           NEW w \in Wire, NEW after \in Wire, Sends(w, after, Head(s.frames)), Coupled(s, w),
           s.activePlan # NoPlan, ~s.closed, Head(s.frames) \in PlanFrames(s.activePlan.generation)
    PROVE  Streams(t, after)
<1> DEFINE plan == s.activePlan
           g == plan.generation
           frame == Head(s.frames)
           waiting == s.frames
<1>1. /\ s.frames \in Seq(Frame) /\ s.frames # <<>> /\ ~s.writing /\ t.writing
      /\ t.frames = s.frames /\ t.activePlan = plan
      /\ Waiting(s) = waiting /\ Waiting(t) = Tail(waiting) /\ FramesHold(s)
  BY DEF Committed, SamePlan, Waiting, SessionType, SessionInv, Queues
<1>2. /\ frame \in Frame /\ frame = waiting[1] /\ 1 \in 1..Len(waiting)
      /\ \A i \in 1..Len(Tail(waiting)) :
            i + 1 \in 1..Len(waiting) /\ 1 < i + 1 /\ Tail(waiting)[i] = waiting[i + 1]
  BY <1>1, TailFacts
<1>3. frame.kind = "PLAN" /\ frame.generation = g
  BY DEF PlanFrames
<1>4. /\ plan.tiles \in Nat /\ plan.next \in Nat /\ plan.sentTiles \in Nat
      /\ Underway(plan) \in {0, 1} /\ plan.busy \in BOOLEAN
  BY PlanFields DEF Underway
<1>5. Stage(s)
  BY DEF SessionInv, Stages
<1>6. ~plan.planCommitted
  <2>1. ~PlanAbsent(s, g)
    BY <1>1, <1>2 DEF PlanAbsent, Absent, None
  <2> QED
    BY <1>5, <2>1 DEF Stage, PlanStage
<1>7. plan.next = 0 /\ plan.sentTiles = 0 /\ Underway(plan) = 0 /\ plan.tiles > 0 /\ ~plan.doneQueued
  BY <1>4, <1>5, <1>6 DEF Stage, Progress
<1>8. ~Uncounted(s, g)
  <2>1. ~plan.busy
    BY <1>4, <1>7 DEF Underway
  <2>2. TileAbsent(s, g)
    BY <1>5, <2>1 DEF Stage, TileStage
  <2> QED
    BY <1>1, <2>2, NothingUncounted
<1>9. ~Uncounted(t, g)
  <2>1. frame \notin TileFrames(g)
    BY <1>3 DEF TileFrames
  <2> QED
    BY <1>1, <1>8, <2>1 DEF Uncounted, Committed, Alike
<1>10. Belongs(s, frame) /\ \A j \in 1..Len(Tail(waiting)) : Tail(waiting)[j].kind \notin Announces
  BY <1>1, <1>2, <1>3 DEF Coupled, PlanKinds
<1>11. /\ after.epoch = frame.epoch /\ after.size = frame.count /\ after.sent = 0
       /\ after.streaming = TRUE
  BY <1>3 DEF Sends, Announces
<1>12. after.epoch = plan.epoch /\ after.size = plan.tiles
  BY <1>3, <1>10, <1>11 DEF Belongs
<1> QED
  BY <1>1, <1>7, <1>9, <1>10, <1>11, <1>12 DEF Streams

\* A frame of the stream, or of none, is sent.
LEMMA FrameSentStreams ==
    ASSUME NEW s \in SessionType, SessionInv(s), NEW t \in SessionType, Committed(s, t),
           NEW w \in Wire, NEW after \in Wire, Sends(w, after, Head(s.frames)),
           Follows(w, Head(s.frames)), Coupled(s, w), Streams(s, w),
           s.activePlan # NoPlan, ~s.closed
    PROVE  Streams(t, after)
<1> DEFINE plan == s.activePlan
           g == plan.generation
           frame == Head(s.frames)
           waiting == s.frames
<1>1. /\ s.frames \in Seq(Frame) /\ s.frames # <<>> /\ ~s.writing /\ t.writing
      /\ t.frames = s.frames /\ t.activePlan = plan /\ s.tasks \in Seq(Task)
      /\ Waiting(s) = waiting /\ Waiting(t) = Tail(waiting)
  BY DEF Committed, SamePlan, Waiting, SessionType
<1>2. /\ frame \in Frame /\ frame = waiting[1] /\ 1 \in 1..Len(waiting)
      /\ \A i \in 1..Len(Tail(waiting)) :
            i + 1 \in 1..Len(waiting) /\ 1 < i + 1 /\ Tail(waiting)[i] = waiting[i + 1]
  BY <1>1, TailFacts
<1>3. Stage(s) /\ plan.sentTiles \in Nat /\ w.sent \in Nat
  BY PlanFields DEF SessionInv, Stages, Wire
<1>4. frame.kind \notin Announces /\ \A j \in 1..Len(Tail(waiting)) : Tail(waiting)[j].kind \notin Announces
  BY <1>1, <1>2 DEF Streams
<1>5. after.epoch = w.epoch /\ after.size = w.size
  BY <1>4 DEF Sends, Announces
<1>6. frame.kind \in {"TILE", "DONE"} => frame.generation = g
  BY <1>1, <1>2 DEF Coupled, Belongs, PlanKinds
<1>7. after.streaming <=> (plan.doneQueued => ~None(Tail(waiting), DoneFrames(g)))
  <2>1. w.streaming <=> (plan.doneQueued => ~None(waiting, DoneFrames(g)))
    BY <1>1 DEF Streams
  <2>2. CASE frame.kind = "DONE"
    <3>1. frame \in DoneFrames(g)
      BY <1>2, <1>6, <2>2 DEF DoneFrames
    <3>2. ~None(waiting, DoneFrames(g))
      BY <1>2, <3>1 DEF None
    <3>3. plan.doneQueued
      BY <1>1, <1>3, <3>2 DEF Stage, DoneStage, DoneAbsent, Absent
    <3>4. Once(waiting, DoneFrames(g))
      BY <1>1, <1>3 DEF Stage, DoneStage, AtMostOne
    <3>5. None(Tail(waiting), DoneFrames(g))
      BY <1>1, <3>1, <3>4, TailTokens
    <3>6. after.streaming = FALSE
      BY <2>2 DEF Sends
    <3> QED
      BY <3>3, <3>5, <3>6
  <2>3. CASE frame.kind # "DONE"
    <3>1. frame \notin DoneFrames(g)
      BY <2>3 DEF DoneFrames
    <3>2. None(Tail(waiting), DoneFrames(g)) <=> None(waiting, DoneFrames(g))
      BY <1>1, <3>1, TailTokens
    <3>3. after.streaming = w.streaming
      BY <1>4, <2>3 DEF Sends, Announces
    <3> QED
      BY <2>1, <3>2, <3>3
  <2> QED
    BY <2>2, <2>3
<1>8. after.sent = plan.sentTiles + (IF Uncounted(t, g) THEN 1 ELSE 0)
  <2>1. w.sent = plan.sentTiles + (IF Uncounted(s, g) THEN 1 ELSE 0)
    BY DEF Streams
  <2>2. CASE frame.kind = "TILE"
    <3>1. frame \in TileFrames(g)
      BY <1>2, <1>6, <2>2 DEF TileFrames
    <3>2. ~None(waiting, TileFrames(g))
      BY <1>2, <3>1 DEF None
    <3>3. None(s.tasks, TileTasks(g))
      BY <1>3, <3>2 DEF Stage, TileStage, AtMostOne
    <3>4. None(s.tasks, WrittenTasks(g))
      BY <3>3 DEF None, TileTasks, WrittenTasks
    <3>5. ~Uncounted(s, g) /\ Uncounted(t, g)
      BY <1>1, <3>1, <3>4 DEF Uncounted
    <3>6. after.sent = w.sent + 1
      BY <2>2 DEF Sends
    <3> QED
      BY <1>3, <2>1, <3>5, <3>6
  <2>3. CASE frame.kind # "TILE"
    <3>1. frame \notin TileFrames(g)
      BY <2>3 DEF TileFrames
    <3>2. Uncounted(t, g) <=> Uncounted(s, g)
      BY <1>1, <3>1 DEF Uncounted, Committed, Alike
    <3>3. after.sent = w.sent
      BY <1>4, <2>3 DEF Sends, Announces
    <3> QED
      BY <2>1, <3>2, <3>3
  <2> QED
    BY <2>2, <2>3
<1> QED
  BY <1>1, <1>4, <1>5, <1>7, <1>8 DEF Streams

LEMMA CommittedCoupled ==
    ASSUME NEW s \in SessionType, SessionInv(s), NEW t \in SessionType, Committed(s, t),
           NEW w \in Wire, NEW after \in Wire, Sends(w, after, Head(s.frames)),
           Follows(w, Head(s.frames)), Coupled(s, w), ~s.closed
    PROVE  Coupled(t, after)
<1> DEFINE waiting == s.frames
           rest == Tail(s.frames)
<1>1. /\ s.frames \in Seq(Frame) /\ s.frames # <<>>
      /\ t.activePlan = s.activePlan /\ t.deliveries = s.deliveries
      /\ t.currentEpoch = s.currentEpoch
      /\ Waiting(s) = waiting /\ Waiting(t) = rest
  BY DEF Committed, SamePlan, SameCredit, SameView, Waiting, SessionType
<1>2. /\ Head(waiting) \in Frame /\ Head(waiting) = waiting[1] /\ 1 \in 1..Len(waiting)
      /\ \A i \in 1..Len(rest) :
            i + 1 \in 1..Len(waiting) /\ 1 < i + 1 /\ i \in Nat /\ rest[i] = waiting[i + 1]
  BY <1>1, TailFacts
<1> HIDE DEF rest, waiting
<1>3. \A i \in 1..Len(rest) : rest[i].kind \in PlanKinds => Belongs(t, rest[i])
  BY <1>1, <1>2 DEF Coupled, Belongs
<1>4. ASSUME NEW i \in 1..Len(rest), NEW j \in 1..Len(rest), i < j, rest[i].kind = "PLAN"
      PROVE  rest[j].kind \notin Announces
  <2>1. i + 1 \in 1..Len(waiting) /\ j + 1 \in 1..Len(waiting) /\ i + 1 < j + 1
        /\ rest[i] = waiting[i + 1] /\ rest[j] = waiting[j + 1]
    BY <1>2, <1>4
  <2> QED
    BY <1>1, <1>4, <2>1 DEF Coupled
<1>5. ASSUME t.activePlan # NoPlan
      PROVE  /\ t.activePlan.epoch \in 1..t.currentEpoch
             /\ None(rest, PlanFrames(t.activePlan.generation)) => Streams(t, after)
  <2>1. /\ t.activePlan.epoch \in 1..t.currentEpoch
        /\ None(waiting, PlanFrames(s.activePlan.generation)) => Streams(s, w)
    BY <1>1, <1>5 DEF Coupled
  <2>2. CASE Head(waiting) \in PlanFrames(s.activePlan.generation)
    BY <1>1, <1>5, <2>1, <2>2, PlanSentStreams DEF waiting
  <2>3. CASE Head(waiting) \notin PlanFrames(s.activePlan.generation)
    <3>1. None(rest, PlanFrames(s.activePlan.generation)) => None(waiting, PlanFrames(s.activePlan.generation))
      BY <1>1, <2>3, TailTokens DEF waiting, rest
    <3> QED
      BY <1>1, <1>5, <2>1, <3>1, FrameSentStreams DEF waiting
  <2> QED
    BY <2>1, <2>2, <2>3
<1> QED
  BY <1>1, <1>3, <1>4, <1>5 DEF Coupled

\* What the wire carried grows, and so does what the client may hold.
LEMMA CommitHeadFlows ==
    ASSUME Inv, Flows(session, wire, client.held), CommitHead
    PROVE  Flows(session', wire', client'.held) /\ [Stream!StreamNext]_(Stream!streamVars)
<1> DEFINE s == session
           t == session'
           w == wire
           after == wire'
           u == [s EXCEPT !.writing = TRUE]
           frame == Head(s.frames)
           tasks == CommitTask(frame)
<1>1. /\ SessionInv(s) /\ client \in ClientType /\ s \in SessionType /\ FramesHold(s)
      /\ s.frames \in Seq(Frame) /\ s.tasks \in Seq(Task)
  BY DEF Inv, SessionInv, Queues, SessionType
<1>2. /\ s.frames # <<>> /\ ~s.writing /\ t = SubmitAny(u, tasks)
      /\ after = Carried(frame) /\ client' = Arrives(frame)
  BY DEF CommitHead
<1>3. /\ frame \in Frame /\ frame = s.frames[1] /\ 1 \in 1..Len(s.frames)
      /\ frame.epoch \in Nat /\ frame.id \in Nat /\ frame.id < s.nextDeliveryId
  <2>1. frame \in Frame /\ frame = s.frames[1] /\ 1 \in 1..Len(s.frames)
    BY <1>1, <1>2, TailFacts
  <2> QED
    BY <1>1, <2>1, FrameFields DEF FramesHold
<1>4. /\ u \in SessionType /\ SamePlan(s, u) /\ SameCredit(s, u) /\ SameView(s, u)
      /\ u.frames = s.frames /\ u.writing /\ u.tasks = s.tasks
      /\ u.closed = s.closed /\ u.state = s.state
  BY <1>1 DEF SessionType, SamePlan, SameCredit, SameView
<1> HIDE DEF u
<1>5. /\ t \in SessionType
      /\ SamePlan(u, t) /\ SameCredit(u, t) /\ SameView(u, t)
      /\ SameFrames(u, t) /\ Ends(u, t)
      /\ Gains(u, t, tasks)
  BY <1>2, <1>3, <1>4, CallbackTasks, SubmitAnyEffect
<1>6. w \in Wire /\ Continues(w, s.frames)
  BY <1>2 DEF Flows, Waiting
<1>7. after \in Wire /\ Sends(w, after, frame)
  BY <1>2, <1>3, <1>6, CarriedSends
<1>8. Follows(w, frame)
  BY <1>3, <1>6, Zenon DEF Continues
<1>9. [Stream!StreamNext]_(Stream!streamVars)
  BY <1>3, <1>6, <1>7, <1>8, SendsStream
<1> HIDE DEF t, after, w
<1>10. /\ SamePlan(s, t) /\ SameCredit(s, t) /\ SameView(s, t) /\ Gains(s, t, tasks)
       /\ t.frames = s.frames /\ t.writing /\ (s.closed => t.closed)
       /\ t.deliveries = s.deliveries /\ t.nextDeliveryId = s.nextDeliveryId
       /\ t.currentEpoch = s.currentEpoch /\ Waiting(t) = Tail(s.frames)
  BY <1>4, <1>5 DEF SamePlan, SameCredit, SameView, SameFrames, Ends, Gains, Waiting
<1>11. Continues(after, Waiting(t))
  BY <1>1, <1>2, <1>6, <1>7, <1>10, SendsContinues
<1>12. /\ w.epoch \in Nat /\ w.lastId \in Nat /\ after.epoch \in Nat /\ after.lastId \in Nat
       /\ after.epoch >= w.epoch /\ after.lastId >= w.lastId
       /\ after.epoch <= t.currentEpoch /\ after.lastId < t.nextDeliveryId
       /\ frame.kind = "TILE" => frame.id = after.lastId
  <2>1. /\ frame.kind \in Announces => frame.epoch > w.epoch
        /\ frame.kind = "TILE" => frame.id > w.lastId
    BY <1>8 DEF Follows
  <2>2. /\ after.epoch = IF frame.kind \in Announces THEN frame.epoch ELSE w.epoch
        /\ after.lastId = IF frame.kind = "TILE" THEN frame.id ELSE w.lastId
    BY <1>7 DEF Sends
  <2>3. w.epoch \in Nat /\ w.lastId \in Nat /\ after.epoch \in Nat /\ after.lastId \in Nat
    BY <1>6, <1>7 DEF Wire
  <2>4. /\ frame.kind \in Announces => frame.epoch <= s.currentEpoch
        /\ w.epoch <= s.currentEpoch /\ w.lastId < s.nextDeliveryId
    BY <1>3 DEF Flows, w
  <2>5. after.epoch >= w.epoch /\ after.epoch <= t.currentEpoch
    BY <1>3, <1>10, <2>1, <2>2, <2>3, <2>4
  <2>6. after.lastId >= w.lastId /\ after.lastId < t.nextDeliveryId
    BY <1>3, <1>10, <2>1, <2>2, <2>3, <2>4
  <2> QED
    BY <2>2, <2>3, <2>5, <2>6
<1>13. frame.kind \in {"TILE", "RETRY"} => frame.id <= after.lastId
  <2>1. frame.kind = "RETRY" => frame.id <= w.lastId
    BY <1>3 DEF Flows, FramesSent, w
  <2> QED
    BY <1>3, <1>12, <2>1
<1> HIDE DEF tasks, frame
<1>14. TasksSent(t.tasks, after.lastId)
  <2>1. ASSUME NEW x \in Task, SentTask(x, w.lastId) PROVE SentTask(x, after.lastId)
    BY <1>12, <2>1, TaskFields DEF SentTask
  <2>2. TasksSent(s.tasks, after.lastId)
    <3>1. \A i \in 1..Len(s.tasks) : s.tasks[i] \in Task
      BY <1>1
    <3> QED
      BY <2>1, <3>1 DEF Flows, TasksSent, w
  <2>3. \A new \in tasks : SentTask(new, after.lastId)
    BY <1>3, <1>13, CallbacksSent DEF tasks
  <2>4. tasks \in SUBSET Task
    BY <1>3, CallbackTasks DEF tasks
  <2> QED
    BY <1>1, <1>10, <2>2, <2>3, <2>4, GainsSent
<1>15. FramesSent(t.frames, t.writing, after.lastId)
  <2>1. ASSUME NEW i \in 1..Len(s.frames), s.frames[i].kind = "RETRY" PROVE s.frames[i].id <= after.lastId
    <3>1. s.frames[i].id <= w.lastId
      BY <2>1 DEF Flows, FramesSent, w
    <3>2. s.frames[i].id \in Nat
      BY <1>1, FrameFields
    <3> QED
      BY <1>12, <3>1, <3>2
  <2>2. Head(s.frames).kind = "TILE" => Head(s.frames).id <= after.lastId
    BY <1>13 DEF frame
  <2> QED
    BY <1>10, <2>1, <2>2 DEF FramesSent
<1>16. DeliveriesSent(t.deliveries, after)
  <2>1. ASSUME NEW id \in DOMAIN s.deliveries
        PROVE  /\ s.deliveries[id].epoch \in 1..after.epoch
               /\ s.deliveries[id].state # "RESERVED_QUEUED" => id <= after.lastId
    <3>1. /\ s.deliveries[id].epoch \in 1..w.epoch
          /\ s.deliveries[id].state # "RESERVED_QUEUED" => id <= w.lastId
      BY DEF Flows, DeliveriesSent, w
    <3>2. id \in Nat
      BY <1>1, DeliveryField
    <3> QED
      BY <1>12, <3>1, <3>2
  <2> QED
    BY <1>10, <2>1 DEF DeliveriesSent
<1>17. HeldSent(client'.held, after.lastId)
  <2> DEFINE tile == [id |-> frame.id, epoch |-> frame.epoch]
  <2>1. client'.held \subseteq client.held \cup (IF frame.kind \in {"TILE", "RETRY"} THEN {tile} ELSE {})
    BY <1>1, <1>2 DEF Arrives, ClientType
  <2>2. ASSUME NEW x \in client.held PROVE x.id <= after.lastId
    <3>1. x.id \in Nat /\ x.id <= w.lastId
      BY <1>1 DEF ClientType, ClientTile, Flows, HeldSent, w
    <3> QED
      BY <1>12, <3>1
  <2>3. frame.kind \in {"TILE", "RETRY"} => tile.id <= after.lastId
    BY <1>13
  <2> HIDE DEF tile
  <2> QED
    BY <2>1, <2>2, <2>3 DEF HeldSent
<1>18. ASSUME ~t.closed PROVE Coupled(t, after)
  <2>1. Coupled(s, w) /\ ~s.closed
    BY <1>10, <1>18 DEF Flows, w
  <2>2. \A g : Alike(s.tasks, t.tasks, WrittenTasks(g))
    <3>1. tasks \in SUBSET Task
      BY <1>3, CallbackTasks DEF tasks
    <3>2. GainsOnly(s, t, tasks)
      BY <1>1, <1>5, <1>10, <3>1, GainsFacts
    <3>3. \A new \in tasks : \A g : new \notin WrittenTasks(g)
      BY <1>3, <1>13, CallbacksSent DEF tasks, WrittenTasks
    <3> QED
      BY <3>2, <3>3 DEF GainsOnly
  <2>3. Committed(s, t)
    BY <1>2, <1>10, <2>2 DEF Committed
  <2> QED
    BY <1>1, <1>5, <1>6, <1>7, <1>8, <2>1, <2>3, CommittedCoupled DEF frame
<1>19. t.closed \/ Coupled(t, after)
  BY <1>18
<1>20. \A i \in 1..Len(t.frames) : t.frames[i].kind \in Announces => t.frames[i].epoch <= t.currentEpoch
  BY <1>10 DEF Flows
<1>21. Flows(t, after, client'.held)
  BY <1>7, <1>11, <1>12, <1>14, <1>15, <1>16, <1>17, <1>19, <1>20 DEF Flows
<1> QED
  BY <1>9, <1>21 DEF t, after

--------------------------------------------------------------------------------
\* Every step keeps the stream

FlowsInv == Flows(session, wire, client.held)

LEMMA FlowsInit == Init => FlowsInv /\ Stream!StreamInit
<1> SUFFICES ASSUME Init PROVE FlowsInv /\ Stream!StreamInit
  OBVIOUS
<1>1. /\ session.tasks = <<>> /\ session.frames = <<>> /\ ~session.writing
      /\ session.deliveries = <<>> /\ session.activePlan = NoPlan
      /\ session.currentEpoch = 0 /\ session.nextDeliveryId = 1
  BY DEF Init
<1>2. wire = [epoch |-> 0, size |-> 0, sent |-> 0, streaming |-> FALSE, lastId |-> 0,
              last |-> [kind |-> "NONE", epoch |-> 0, count |-> 0]]
      /\ client.held = {}
  BY DEF Init
<1>3. Len(<<>>) = 0 /\ DOMAIN session.deliveries = {}
  BY <1>1, EmptySeq
<1>4. wire \in Wire
  BY <1>2 DEF Wire
<1>5. Waiting(session) = <<>>
  BY <1>1 DEF Waiting
<1>6. Continues(wire, <<>>)
  BY <1>3 DEF Continues
<1>7. /\ TasksSent(<<>>, wire.lastId) /\ FramesSent(<<>>, session.writing, wire.lastId)
      /\ DeliveriesSent(session.deliveries, wire) /\ HeldSent({}, wire.lastId)
  BY <1>1, <1>3 DEF TasksSent, FramesSent, DeliveriesSent, HeldSent
<1>8. Coupled(session, wire)
  BY <1>1, <1>3, <1>5 DEF Coupled
<1>9. FlowsInv
  BY <1>1, <1>2, <1>3, <1>4, <1>5, <1>6, <1>7, <1>8 DEF FlowsInv, Flows
<1>10. Stream!StreamInit
  BY <1>2 DEF Stream!StreamInit
<1> QED
  BY <1>9, <1>10

LEMMA HandlersFlow ==
    ASSUME SessionInv(session), NEW w, NEW held, Flows(session, w, held), Handlers
    PROVE  Flows(session', w, held) /\ UNCHANGED <<client, wire>>
<1>1. Flows(session', w, held)
  BY HandleHelloFlows, HandleOpenFlows, HandleViewFlows, HandleReleaseFlows, HandleAckStateFlows,
     OnSelectiveTileReadFlows, OnPlanCommittedFlows, OnTileWrittenFlows, OnReadPermitGrantedFlows,
     OnTileReadFlows, OnOpenResolvedFlows, OnSelectiveTileWrittenFlows, OnDoneCommittedFlows,
     OnTileCommittedFlows, TimeoutsFlow
     DEF Handlers
<1>2. UNCHANGED <<client, wire>>
  BY DEF Handlers, HandleHello, HandleOpen, HandleView, HandleRelease, HandleAckState,
         OnSelectiveTileRead, OnPlanCommitted, OnTileWritten, OnReadPermitGranted, OnTileRead,
         OnOpenResolved, OnSelectiveTileWritten, OnDoneCommitted, OnTileCommitted,
         OnReleaseTimeout, OnHelloTimeout, Cleanup, Becomes
<1> QED
  BY <1>1, <1>2

\* Only the head of the queue goes to the wire.
LEMMA FlowsStep ==
    Inv /\ FlowsInv /\ [Next]_vars => FlowsInv' /\ [Stream!StreamNext]_(Stream!streamVars)
<1> SUFFICES ASSUME Inv, Flows(session, wire, client.held), [Next]_vars
             PROVE  /\ Flows(session', wire', client'.held)
                    /\ [Stream!StreamNext]_(Stream!streamVars)
  BY DEF FlowsInv
<1>1. SessionInv(session)
  BY DEF Inv
<1>2. ASSUME wire' = wire, Flows(session', wire, client'.held)
      PROVE  Flows(session', wire', client'.held) /\ [Stream!StreamNext]_(Stream!streamVars)
  BY <1>2 DEF Stream!streamVars
<1>3. CASE Handlers
  BY <1>1, <1>2, <1>3, HandlersFlow
<1>4. CASE CommitHead
  BY <1>4, CommitHeadFlows
<1>5. CASE WriteDone
  <2>1. wire' = wire /\ client' = client
    BY <1>5 DEF WriteDone
  <2> QED
    BY <1>1, <1>2, <1>5, <2>1, WriteDoneFlows
<1>6. CASE TransportCloses
  <2>1. wire' = wire /\ client' = client
    BY <1>6 DEF TransportCloses
  <2> QED
    BY <1>1, <1>2, <1>6, <2>1, TransportClosesFlows
<1>7. CASE GrantTurn
  <2>1. wire' = wire /\ client' = client
    BY <1>7 DEF GrantTurn
  <2> QED
    BY <1>1, <1>2, <1>7, <2>1, GrantTurnFlows
<1>8. CASE Reads
  <2>1. wire' = wire /\ client' = client
    BY <1>8 DEF Reads, TileReadEnds, TileResult, RecoveryResult
  <2> QED
    BY <1>1, <1>2, <1>8, <2>1, ReadsFlow
<1>9. CASE HelloTimer \/ \E id \in DOMAIN session.deliveries : ReleaseTimer(id)
  <2>1. wire' = wire /\ client' = client
    BY <1>9 DEF HelloTimer, ReleaseTimer
  <2> QED
    BY <1>1, <1>2, <1>9, <2>1, TimersFlows
<1>10. CASE \/ \E open \in opens, ok \in BOOLEAN : OpenResolves(open, ok)
            \/ \E ok \in BOOLEAN : ClientHello(ok)
            \/ \E image \in Images : ClientOpen(image)
            \/ ClientView
            \/ \E tile \in client.held : ClientConfirms(tile) \/ ClientAsks(tile)
  BY <1>2, <1>10, ControlsFlow
<1>11. CASE UNCHANGED vars
  BY <1>2, <1>11 DEF vars
<1> QED
  BY <1>3, <1>4, <1>5, <1>6, <1>7, <1>8, <1>9, <1>10, <1>11 DEF Next

\* The wire carries what ViewStream promises, whatever the windows, the plans,
\* the sizes of tiles, the queues and the answers of the executors: epochs of
\* announcements that increase, a tile sent for the first time only while the plan
\* it belongs to is the one announced last, each DONE once, after every tile of
\* its plan and with their number.  Of a tile sent again it promises only that its
\* epoch was announced (RecoveredTilesAreCurrent, which does not hold, says more).
THEOREM KeepsTheStream == Spec => ImplementsViewStream
<1>1. Init => FlowsInv /\ Stream!StreamInit
  BY FlowsInit
<1>2. Inv /\ FlowsInv /\ [Next]_vars => FlowsInv' /\ [Stream!StreamNext]_(Stream!streamVars)
  BY FlowsStep
<1> QED
  BY <1>1, <1>2, InvAlways, PTL DEF Spec, ImplementsViewStream, Stream!StreamSpec

--------------------------------------------------------------------------------
\* The end of a reservation

\* Something of a kind that carries the id of a delivery.
Carries(seq, kind, id) == \E i \in 1..Len(seq) : seq[i].kind = kind /\ seq[i].id = id

\* What will end a reservation: before the tile is written, its frame or the
\* callback of its frame; during a recovery, the second read, its result, its
\* frame or its callback; and otherwise the RELEASE deadline.
Ending(s, id) ==
    LET d == s.deliveries[id]
        written == d.state = "WRITTEN_AWAITING_RELEASE"
    IN  /\ ~written =>
              /\ ~d.retryInProgress
              /\ Carries(s.frames, "TILE", id) \/ Carries(s.tasks, "TILE_WRITTEN", id)
        /\ written /\ d.retryInProgress =>
              \/ RetryRead(id) \in s.reads
              \/ Carries(s.tasks, "RETRY_READ", id)
              \/ Carries(s.frames, "RETRY", id)
              \/ Carries(s.tasks, "RETRY_WRITTEN", id)
        /\ written /\ ~d.retryInProgress =>
              d.releaseTimer \/ Carries(s.tasks, "RELEASE_TIMEOUT", id)

AllEnd(s) == s.closed \/ \A id \in DOMAIN s.deliveries : Ending(s, id)

\* From s to t, a reservation keeps its end, and a new one has one.
EndsKept(s, t) ==
    \A id \in DOMAIN t.deliveries : (id \in DOMAIN s.deliveries => Ending(s, id)) => Ending(t, id)

LEMMA EndsTwice ==
    ASSUME NEW s, NEW t, NEW u, EndsKept(s, t), EndsKept(t, u)
    PROVE  EndsKept(s, u)
BY DEF EndsKept

--------------------------------------------------------------------------------
\* The place of a tile

\* A tile is in one place at most: it waits to be sent, the first time or
\* again; the client holds it; what the client says of it waits to be handled;
\* or it is read again.
PlaceTasks(id) ==
    {t \in Task : \/ t.kind \in {"RELEASE", "RETRY_READ"} /\ t.id = id
                  \/ t.kind = "ACK_STATE" /\ (id \in t.received \/ t.missing = id)}

PlaceFrames(id) == {f \in Frame : f.kind \in {"TILE", "RETRY"} /\ f.id = id}

Copies(s, held, id) == (s.reads \cap {RetryRead(id)}) \cup {tile \in held : tile.id = id}

OnePlace(s, held, id) ==
    AtMostOne(s.tasks, PlaceTasks(id), Waiting(s), PlaceFrames(id),
              Copies(s, held, id), Copies(s, held, id))

NoPlace(s, held, id) ==
    None(s.tasks, PlaceTasks(id)) /\ None(Waiting(s), PlaceFrames(id)) /\ Copies(s, held, id) = {}

\* While it waits and while the client holds it, it is reserved.  0 is no id:
\* it stands for no missing tile.
Placed(s, held, id) ==
    /\ id > 0 => OnePlace(s, held, id)
    /\ id >= s.nextDeliveryId => NoPlace(s, held, id)
    /\ id \notin DOMAIN s.deliveries =>
          None(Waiting(s), PlaceFrames(id)) /\ \A tile \in held : tile.id # id

AllPlaced(s, held) == s.closed \/ \A id \in Nat : Placed(s, held, id)

\* From s to t, every tile stays in one place, or goes to another.
PlacesKept(s, t) ==
    \A held \in SUBSET ClientTile : \A id \in Nat : Placed(s, held, id) => Placed(t, held, id)

\* From s to t, reservations keep their end and tiles their place, or the
\* session closes.
Onward(s, t) == t.closed \/ (~s.closed /\ EndsKept(s, t) /\ PlacesKept(s, t))

LEMMA OnwardEnds ==
    ASSUME NEW s, NEW t, NEW held \in SUBSET ClientTile, Onward(s, t)
    PROVE  (AllEnd(s) => AllEnd(t)) /\ (AllPlaced(s, held) => AllPlaced(t, held))
BY DEF AllEnd, AllPlaced, Onward, EndsKept, PlacesKept

LEMMA OnwardTwice ==
    ASSUME NEW s, NEW t, NEW u, Onward(s, t), Onward(t, u)
    PROVE  Onward(s, u)
BY EndsTwice DEF Onward, PlacesKept

--------------------------------------------------------------------------------
\* What keeps an end and a place

\* The tasks that carry the end of a reservation.
EndTasks == {"TILE_WRITTEN", "RETRY_READ", "RETRY_WRITTEN", "RELEASE_TIMEOUT"}

\* All that carries the end of the reservation of id in s does so in t, or what
\* follows it does.
Stays(s, t, id) ==
    /\ \A kind \in EndTasks : Carries(s.tasks, kind, id) => Carries(t.tasks, kind, id)
    /\ Carries(s.frames, "TILE", id) =>
          Carries(t.frames, "TILE", id) \/ Carries(t.tasks, "TILE_WRITTEN", id)
    /\ Carries(s.frames, "RETRY", id) =>
          Carries(t.frames, "RETRY", id) \/ Carries(t.tasks, "RETRY_WRITTEN", id)
    /\ RetryRead(id) \in s.reads => RetryRead(id) \in t.reads \/ Carries(t.tasks, "RETRY_READ", id)

LEMMA EndingStays ==
    ASSUME NEW s, NEW t, NEW id, Stays(s, t, id), t.deliveries[id] = s.deliveries[id], Ending(s, id)
    PROVE  Ending(t, id)
BY DEF Stays, Ending, EndTasks

LEMMA StaysEnds ==
    ASSUME NEW s, NEW t, DOMAIN t.deliveries \subseteq DOMAIN s.deliveries,
           \A id \in DOMAIN t.deliveries : t.deliveries[id] = s.deliveries[id] /\ Stays(s, t, id)
    PROVE  EndsKept(s, t)
BY EndingStays DEF EndsKept

\* In other there is no more of S than in seq.
Fewer(seq, other, S) == (Once(seq, S) => Once(other, S)) /\ (None(seq, S) => None(other, S))

\* The tile of id is in no place in t where it was not in s.
FewerPlaces(s, t, id) ==
    /\ Fewer(s.tasks, t.tasks, PlaceTasks(id))
    /\ Fewer(Waiting(s), Waiting(t), PlaceFrames(id))
    /\ RetryRead(id) \in t.reads => RetryRead(id) \in s.reads
    /\ id >= t.nextDeliveryId => id >= s.nextDeliveryId

LEMMA FewerOne ==
    ASSUME NEW s, NEW t, NEW id, FewerPlaces(s, t, id), NEW held
    PROVE  /\ OnePlace(s, held, id) => OnePlace(t, held, id)
           /\ NoPlace(s, held, id) => NoPlace(t, held, id)
<1>1. Copies(t, held, id) \subseteq Copies(s, held, id)
  BY DEF FewerPlaces, Copies
<1> QED
  BY <1>1 DEF FewerPlaces, Fewer, OnePlace, NoPlace, AtMostOne

LEMMA FewerPlaced ==
    ASSUME NEW s, NEW t, NEW id, FewerPlaces(s, t, id), NEW held, Placed(s, held, id),
           id \in DOMAIN s.deliveries => id \in DOMAIN t.deliveries
    PROVE  Placed(t, held, id)
BY FewerOne DEF FewerPlaces, Fewer, Placed

LEMMA FewerKept ==
    ASSUME NEW s, NEW t, DOMAIN s.deliveries \subseteq DOMAIN t.deliveries,
           \A id \in Nat : FewerPlaces(s, t, id)
    PROVE  PlacesKept(s, t)
BY FewerPlaced DEF PlacesKept

\* A tile in no place can have any.
LEMMA NoPlacePlaced ==
    ASSUME NEW s, NEW held, NEW id, NoPlace(s, held, id)
    PROVE  Placed(s, held, id)
<1>1. \A tile \in held : tile.id # id
  BY DEF NoPlace, Copies
<1>2. None(s.tasks, PlaceTasks(id)) /\ None(Waiting(s), PlaceFrames(id)) /\ Copies(s, held, id) = {}
  BY DEF NoPlace
<1>3. \A seq, S : None(seq, S) => Once(seq, S)
  BY DEF None, Once
<1>4. OnePlace(s, held, id)
  BY <1>2, <1>3 DEF OnePlace, AtMostOne
<1> QED
  BY <1>1, <1>2, <1>4 DEF Placed, NoPlace

LEMMA StaysOnward ==
    ASSUME NEW s, NEW t, s.closed => t.closed, t.deliveries = s.deliveries,
           \A id : Stays(s, t, id), \A id \in Nat : FewerPlaces(s, t, id)
    PROVE  Onward(s, t)
<1>1. EndsKept(s, t) /\ PlacesKept(s, t)
  BY StaysEnds, FewerKept
<1> QED
  BY <1>1 DEF Onward

\* What the proofs need of a session: the frame the socket has is the first,
\* and it is not cancelled; 0 is no id.
Sound(s) == s \in SessionType /\ FramesHold(s) /\ 0 \notin DOMAIN s.deliveries

LEMMA InvSound ==
    ASSUME NEW s, SessionInv(s)
    PROVE  Sound(s) /\ s \in SessionType
BY DEF SessionInv, Sound, Queues, Account

LEMMA SoundSame ==
    ASSUME NEW s, Sound(s), NEW t \in SessionType, SameFrames(s, t),
           DOMAIN t.deliveries \subseteq DOMAIN s.deliveries,
           t.planGeneration >= s.planGeneration, t.nextDeliveryId >= s.nextDeliveryId
    PROVE  Sound(t)
BY FramesSame DEF Sound

LEMMA CarriesAppend ==
    ASSUME NEW T, NEW seq \in Seq(T), NEW e \in T
    PROVE  /\ \A kind, id : Carries(seq, kind, id) => Carries(Append(seq, e), kind, id)
           /\ Carries(Append(seq, e), e.kind, e.id)
<1> DEFINE more == Append(seq, e)
<1>1. /\ Len(seq) \in Nat /\ Len(more) = Len(seq) + 1 /\ more[Len(seq) + 1] = e
      /\ \A i \in 1..Len(seq) : more[i] = seq[i]
  BY AppendFacts
<1> HIDE DEF more
<1>2. Len(seq) + 1 \in 1..Len(more) /\ \A i \in 1..Len(seq) : i \in 1..Len(more)
  BY <1>1
<1> QED
  BY <1>1, <1>2 DEF Carries, more

LEMMA CarriesTail ==
    ASSUME NEW T, NEW seq \in Seq(T), seq # <<>>, NEW kind, NEW id, Carries(seq, kind, id),
           ~(Head(seq).kind = kind /\ Head(seq).id = id)
    PROVE  Carries(Tail(seq), kind, id)
<1>1. PICK i \in 1..Len(seq) : seq[i].kind = kind /\ seq[i].id = id
  BY DEF Carries
<1>2. /\ Len(Tail(seq)) = Len(seq) - 1 /\ Len(seq) \in Nat \ {0} /\ Head(seq) = seq[1]
      /\ \A j \in 1..Len(Tail(seq)) : Tail(seq)[j] = seq[j + 1]
  BY TailFacts
<1>3. i # 1
  BY <1>1, <1>2
<1>4. i - 1 \in 1..Len(Tail(seq)) /\ (i - 1) + 1 = i
  BY <1>2, <1>3
<1>5. Tail(seq)[i - 1] = seq[i]
  BY <1>2, <1>4
<1> QED
  BY <1>1, <1>4, <1>5 DEF Carries

LEMMA CarriesRemains ==
    ASSUME NEW seq, NEW rest, NEW cancelled, Remains(rest, seq, cancelled, Len(seq)),
           NEW kind, NEW id, Carries(seq, kind, id),
           \A f \in cancelled : ~(f.kind = kind /\ f.id = id)
    PROVE  Carries(rest, kind, id)
<1>1. PICK i \in 1..Len(seq) : seq[i].kind = kind /\ seq[i].id = id
  BY DEF Carries
<1>2. seq[i] \notin cancelled
  BY <1>1
<1>3. PICK j \in 1..Len(rest) : rest[j] = seq[i]
  BY <1>2 DEF Remains
<1> QED
  BY <1>1, <1>3 DEF Carries

LEMMA FewerAppend ==
    ASSUME NEW T, NEW seq \in Seq(T), NEW e \in T, NEW S, e \notin S
    PROVE  Fewer(seq, Append(seq, e), S)
BY AppendTokens DEF Fewer

LEMMA FewerTail ==
    ASSUME NEW T, NEW seq \in Seq(T), seq # <<>>, NEW S
    PROVE  Fewer(seq, Tail(seq), S)
BY TailTokens DEF Fewer

LEMMA FewerPart ==
    ASSUME NEW T, NEW seq \in Seq(T), NEW rest \in Seq(T), NEW cancelled, Part(rest, seq, cancelled),
           NEW S
    PROVE  Fewer(seq, rest, S)
<1>1. PICK place \in [1..Len(rest) -> 1..Len(seq)] :
          /\ \A i \in 1..Len(rest) : rest[i] = seq[place[i]]
          /\ \A i, j \in 1..Len(rest) : i < j => place[i] < place[j]
  BY DEF Part
<1>2. Len(rest) \in Nat /\ Len(seq) \in Nat
  OBVIOUS
<1>3. ASSUME Once(seq, S), NEW i \in 1..Len(rest), NEW j \in 1..Len(rest), rest[i] \in S, rest[j] \in S
      PROVE  i = j
  <2>1. place[i] = place[j] /\ place[i] \in 1..Len(seq)
    BY <1>1, <1>3 DEF Once
  <2>2. ~(i < j) /\ ~(j < i)
    BY <1>1, <1>2, <2>1
  <2> QED
    BY <1>2, <2>2
<1>4. None(seq, S) => None(rest, S)
  BY <1>1 DEF None
<1> QED
  BY <1>3, <1>4 DEF Fewer, Once

\* Nothing that an end or a place depends on changes, but the reads of plans.
Alone(s, t) ==
    /\ t.deliveries = s.deliveries /\ t.nextDeliveryId = s.nextDeliveryId
    /\ t.tasks = s.tasks /\ SameFrames(s, t)
    /\ s.closed => t.closed
    /\ \A id : RetryRead(id) \in t.reads <=> RetryRead(id) \in s.reads

LEMMA AloneOnward ==
    ASSUME NEW s, NEW t, Alone(s, t)
    PROVE  Onward(s, t)
<1>1. \A id : Stays(s, t, id)
  BY DEF Alone, Stays, SameFrames
<1>2. Waiting(t) = Waiting(s)
  BY DEF Alone, Waiting, SameFrames
<1>3. \A id : FewerPlaces(s, t, id)
  BY <1>2 DEF Alone, FewerPlaces, Fewer
<1> QED
  BY <1>1, <1>3, StaysOnward DEF Alone

\* The frames that carry no tile.
LEMMA ApartFrame ==
    ASSUME NEW frame, frame.kind \notin {"TILE", "RETRY"}
    PROVE  \A id : frame \notin PlaceFrames(id)
BY DEF PlaceFrames

\* One frame more, at most.
LEMMA FrameOnward ==
    ASSUME NEW s, Sound(s), NEW t \in SessionType,
           SameCredit(s, t), SameTurn(s, t), t.tasks = s.tasks, t.writing = s.writing,
           s.closed => t.closed,
           NEW frame \in Frame, frame.kind \notin {"TILE", "RETRY"},
           t.frames = s.frames \/ t.frames = Append(s.frames, frame)
    PROVE  Onward(s, t)
<1>0. s \in SessionType /\ FramesHold(s) /\ s.frames \in Seq(Frame)
  BY DEF SessionType, Sound
<1>1. /\ t.deliveries = s.deliveries /\ t.reads = s.reads
      /\ t.nextDeliveryId = s.nextDeliveryId
  BY DEF SameCredit, SameTurn
<1>2. \A kind, id : Carries(s.frames, kind, id) => Carries(t.frames, kind, id)
  BY <1>0, CarriesAppend
<1>3. \A id : Stays(s, t, id)
  BY <1>1, <1>2 DEF Stays
<1>4. Waiting(t) = Waiting(s) \/ Waiting(t) = Append(Waiting(s), frame)
  BY <1>0, WaitingGrows DEF Waiting
<1>5. Waiting(s) \in Seq(Frame)
  BY <1>0, WaitingFacts
<1>6. \A id : Fewer(Waiting(s), Waiting(t), PlaceFrames(id))
  BY <1>4, <1>5, ApartFrame, FewerAppend DEF Fewer
<1>7. \A id : FewerPlaces(s, t, id)
  BY <1>1, <1>6 DEF FewerPlaces, Fewer
<1> QED
  BY <1>1, <1>3, <1>7, StaysOnward

LEMMA SendOnward ==
    ASSUME NEW s, Sound(s), NEW frame \in Frame, frame.kind \notin {"TILE", "RETRY"}
    PROVE  Onward(s, Send(s, frame)) /\ Send(s, frame) \in SessionType
<1> DEFINE t == Send(s, frame)
<1>1. t = Send(s, frame) /\ s \in SessionType
  BY DEF Sound
<1> HIDE DEF t
<1>2. t \in SessionType /\ OnlyFrames(s, t) /\ (t.frames = s.frames \/ t.frames = Append(s.frames, frame))
  BY <1>1, SendEffect
<1> QED
  BY <1>1, <1>2, FrameOnward DEF OnlyFrames, Ends

LEMMA SendErrorOnward ==
    ASSUME NEW s, Sound(s), NEW epoch \in Nat
    PROVE  Onward(s, SendError(s, epoch)) /\ SendError(s, epoch) \in SessionType
<1>1. Control("ERROR", epoch, NoImage) \in Frame /\ Control("ERROR", epoch, NoImage).kind = "ERROR"
  BY ControlIsFrame DEF PlainKinds, SomeImage
<1> QED
  BY <1>1, SendOnward DEF SendError

LEMMA ClosingOnward ==
    ASSUME NEW s \in SessionType
    PROVE  Closing(s) \in SessionType /\ \A r : Onward(r, Closing(s))
BY ClosingEffect DEF Onward

\* From r to s, tiles keep their place, and those of ids leave theirs.
Freed(r, s, ids) ==
    \A held \in SUBSET ClientTile : \A id \in Nat :
        Placed(r, held, id) => Placed(s, held, id) /\ (id \in ids /\ id > 0 => NoPlace(s, held, id))

\* What is confirmed is no longer reserved: it is in no place.
LEMMA AcknowledgeOnward ==
    ASSUME NEW r, NEW s, Sound(s), NEW all, Onward(r, s), Freed(r, s, all), ~s.closed,
           NEW ids \in SUBSET all, NEW t, t = Acknowledge(s, ids)
    PROVE  Onward(r, t) /\ Sound(t) /\ Freed(r, t, all)
<1>0. s \in SessionType
  BY DEF Sound
<1>1. t \in SessionType /\ OnlyCredit(s, t) /\ Loses(s.deliveries, t.deliveries, ids)
  BY <1>0, AcknowledgeEffect
<1>2. /\ t.tasks = s.tasks /\ t.reads = s.reads /\ SameFrames(s, t) /\ t.frames = s.frames
      /\ t.nextDeliveryId = s.nextDeliveryId /\ t.planGeneration = s.planGeneration
      /\ Waiting(t) = Waiting(s)
  BY <1>1 DEF OnlyCredit, SamePlan, SameTurn, SameFrames, Waiting
<1>3. \A id : Stays(s, t, id)
  BY <1>2 DEF Stays
<1>4. /\ DOMAIN t.deliveries = DOMAIN s.deliveries \ ids
      /\ \A id \in DOMAIN t.deliveries : t.deliveries[id] = s.deliveries[id]
  BY <1>1 DEF Loses
<1>5. EndsKept(r, t)
  BY <1>3, <1>4, StaysEnds, EndsTwice DEF Onward
<1>6. \A id : FewerPlaces(s, t, id)
  BY <1>2 DEF FewerPlaces, Fewer
<1>7. ASSUME NEW held \in SUBSET ClientTile, NEW id \in Nat, Placed(r, held, id)
      PROVE  Placed(t, held, id) /\ (id \in all /\ id > 0 => NoPlace(t, held, id))
  <2>1. Placed(s, held, id) /\ (id \in all /\ id > 0 => NoPlace(s, held, id))
    BY <1>7 DEF Freed
  <2>2. id \in all /\ id > 0 => NoPlace(t, held, id)
    BY <1>6, <2>1, FewerOne
  <2>3. CASE id \in all /\ id > 0
    BY <2>2, <2>3, NoPlacePlaced
  <2>4. CASE ~(id \in all /\ id > 0)
    <3>1. id \in DOMAIN s.deliveries => id \in DOMAIN t.deliveries
      BY <1>4, <2>4 DEF Sound
    <3> QED
      BY <1>6, <2>1, <2>2, <3>1, FewerPlaced
  <2> QED
    BY <2>2, <2>3, <2>4
<1>8. Freed(r, t, all) /\ PlacesKept(r, t)
  BY <1>7 DEF Freed, PlacesKept
<1>9. Sound(t)
  <2>1. s.planGeneration \in Nat /\ s.nextDeliveryId \in Nat
    BY <1>0 DEF SessionType
  <2> QED
    BY <1>1, <1>2, <1>4, <2>1, SoundSame
<1> QED
  BY <1>5, <1>8, <1>9 DEF Onward

LEMMA FreedFewer ==
    ASSUME NEW r, NEW s, NEW all, Freed(r, s, all), NEW ids \in SUBSET all
    PROVE  Freed(r, s, ids)
BY DEF Freed

--------------------------------------------------------------------------------
\* The end of a plan and the pump

\* The tile of a frame that is cancelled waits, and is in no other place.
LEMMA WithdrawnWaits ==
    ASSUME NEW s, Sound(s), NEW id \in WithdrawnTiles(s)
    PROVE  /\ id \in DOMAIN s.deliveries /\ id \in Nat
           /\ \E i \in 1..Len(Waiting(s)) :
                 Waiting(s)[i] \in Withdrawn(s) /\ Waiting(s)[i] \in PlaceFrames(id)
<1>0. s \in SessionType /\ s.frames \in Seq(Frame) /\ (s.writing => s.frames # <<>>)
  BY DEF Sound, SessionType, FramesHold
<1>1. PICK f \in Withdrawn(s) : f.kind = "TILE" /\ f.id = id
  BY DEF WithdrawnTiles
<1>2. f \in Uncommitted(s, s.activePlan.generation)
  BY <1>1 DEF Withdrawn
<1>3. id \in DOMAIN s.deliveries /\ Cancellable(s, f)
  BY <1>1, <1>2 DEF Uncommitted
<1>4. PICK k \in (IF s.writing THEN 2 ELSE 1)..Len(s.frames) : s.frames[k] = f
  BY <1>3 DEF Cancellable
<1>5. Len(s.frames) \in Nat /\ k \in 1..Len(s.frames) /\ f \in Frame
  BY <1>0, <1>4
<1>6. \E i \in 1..Len(Waiting(s)) : Waiting(s)[i] = f
  <2>1. CASE ~s.writing
    BY <1>4, <1>5, <2>1 DEF Waiting
  <2>2. CASE s.writing
    <3>1. /\ Len(Tail(s.frames)) = Len(s.frames) - 1
          /\ \A i \in 1..Len(Tail(s.frames)) : Tail(s.frames)[i] = s.frames[i + 1]
      BY <1>0, <2>2, TailFacts
    <3>2. k - 1 \in 1..Len(Tail(s.frames)) /\ (k - 1) + 1 = k
      BY <1>4, <1>5, <2>2, <3>1
    <3>3. Tail(s.frames)[k - 1] = f
      BY <1>4, <3>1, <3>2
    <3> QED
      BY <2>2, <3>2, <3>3 DEF Waiting
  <2> QED
    BY <2>1, <2>2
<1>7. f \in PlaceFrames(id)
  BY <1>1, <1>5 DEF PlaceFrames
<1> QED
  BY <1>0, <1>1, <1>3, <1>6, <1>7, DeliveryField

\* What is cancelled is in no place any more.
LEMMA WithdrawnLeaves ==
    ASSUME NEW s, Sound(s), NEW t \in SessionType,
           Remains(t.frames, s.frames, Withdrawn(s), Len(s.frames)), t.writing = s.writing,
           t.tasks = s.tasks, t.reads = s.reads,
           NEW id \in WithdrawnTiles(s), NEW held, Placed(s, held, id)
    PROVE  NoPlace(t, held, id)
<1>1. PICK k \in 1..Len(Waiting(s)) :
          Waiting(s)[k] \in Withdrawn(s) /\ Waiting(s)[k] \in PlaceFrames(id)
  BY WithdrawnWaits
<1>2. OnePlace(s, held, id)
  <2>1. id \in DOMAIN s.deliveries /\ id \in Nat /\ 0 \notin DOMAIN s.deliveries
    BY WithdrawnWaits DEF Sound
  <2>2. id > 0
    BY <2>1
  <2> QED
    BY <2>2 DEF Placed
<1>3. ~None(Waiting(s), PlaceFrames(id))
  BY <1>1 DEF None
<1>4. /\ None(s.tasks, PlaceTasks(id)) /\ Once(Waiting(s), PlaceFrames(id))
      /\ Copies(s, held, id) = {}
  BY <1>2, <1>3 DEF OnePlace, AtMostOne
<1>5. Part(Waiting(t), Waiting(s), Withdrawn(s))
  BY WaitingRemains DEF Sound
<1>6. ASSUME NEW i \in 1..Len(Waiting(t)), Waiting(t)[i] \in PlaceFrames(id)
      PROVE  FALSE
  <2>1. PICK j \in 1..Len(Waiting(s)) : Waiting(t)[i] = Waiting(s)[j] /\ Waiting(t)[i] \notin Withdrawn(s)
    BY <1>5 DEF Part
  <2>2. j = k
    BY <1>1, <1>4, <1>6, <2>1 DEF Once
  <2> QED
    BY <1>1, <2>1, <2>2
<1>7. None(Waiting(t), PlaceFrames(id))
  BY <1>6 DEF None
<1> QED
  BY <1>4, <1>7 DEF NoPlace, Copies

\* A recovery is not cancelled.
LEMMA PlanEndsOnward ==
    ASSUME NEW s, Sound(s), NEW t \in SessionType,
           Remains(t.frames, s.frames, Withdrawn(s), Len(s.frames)), t.writing = s.writing,
           t.tasks = s.tasks, t.reads = s.reads, s.closed => t.closed,
           t.nextDeliveryId = s.nextDeliveryId,
           Loses(s.deliveries, t.deliveries, WithdrawnTiles(s))
    PROVE  Onward(s, t)
<1>1. ASSUME NEW id \in DOMAIN t.deliveries
      PROVE  t.deliveries[id] = s.deliveries[id] /\ Stays(s, t, id)
  <2>1. id \notin WithdrawnTiles(s) /\ t.deliveries[id] = s.deliveries[id]
    BY <1>1 DEF Loses
  <2>2. \A f \in Withdrawn(s) : f.kind # "RETRY"
    BY DEF Withdrawn, Uncommitted
  <2>3. \A f \in Withdrawn(s) : ~(f.kind = "TILE" /\ f.id = id)
    BY <2>1 DEF WithdrawnTiles
  <2>4. ASSUME NEW kind \in {"TILE", "RETRY"}, Carries(s.frames, kind, id)
        PROVE  Carries(t.frames, kind, id)
    BY <2>2, <2>3, <2>4, CarriesRemains
  <2> QED
    BY <2>1, <2>4 DEF Stays
<1>2. EndsKept(s, t)
  BY <1>1, StaysEnds DEF Loses
<1>3. ASSUME NEW held \in SUBSET ClientTile, NEW id \in Nat, Placed(s, held, id)
      PROVE  Placed(t, held, id)
  <2>1. CASE id \in WithdrawnTiles(s)
    BY <1>3, <2>1, WithdrawnLeaves, NoPlacePlaced
  <2>2. CASE id \notin WithdrawnTiles(s)
    <3>1. id \in DOMAIN s.deliveries => id \in DOMAIN t.deliveries
      BY <2>2 DEF Loses
    <3>2. Part(Waiting(t), Waiting(s), Withdrawn(s)) /\ Waiting(s) \in Seq(Frame)
      BY WaitingRemains, WaitingFacts DEF Sound
    <3>3. Waiting(t) \in Seq(Frame)
      <4>1. t.frames \in Seq(Frame)
        BY DEF SessionType
      <4>2. s.writing => t.frames # <<>>
        <5>1. s.writing => s.frames # <<>> /\ s.frames[1] \notin Withdrawn(s)
          BY HeadIsNotWithdrawn DEF Sound
        <5>2. s.frames \in Seq(Frame)
          BY DEF Sound, SessionType
        <5> QED
          BY <4>1, <5>1, <5>2, RemainsHead
      <4> QED
        BY <4>1, <4>2, TailFacts DEF Waiting
    <3>4. FewerPlaces(s, t, id)
      BY <3>2, <3>3, FewerPart DEF FewerPlaces, Fewer
    <3> QED
      BY <1>3, <3>1, <3>4, FewerPlaced
  <2> QED
    BY <2>1, <2>2
<1> QED
  BY <1>2, <1>3 DEF Onward, PlacesKept

\* And a frame that carries no tile follows what remains.
LEMMA PlanEndsFrameOnward ==
    ASSUME NEW s, Sound(s), NEW t \in SessionType, NEW rest \in Seq(Frame),
           Remains(rest, s.frames, Withdrawn(s), Len(s.frames)), t.writing = s.writing,
           NEW frame \in Frame, frame.kind \notin {"TILE", "RETRY"}, t.frames = Append(rest, frame),
           t.tasks = s.tasks, t.reads = s.reads, s.closed => t.closed,
           t.nextDeliveryId = s.nextDeliveryId,
           Loses(s.deliveries, t.deliveries, WithdrawnTiles(s))
    PROVE  Onward(s, t)
<1> DEFINE u == [s EXCEPT !.frames = rest, !.deliveries = t.deliveries]
<1>0. s \in SessionType /\ t.deliveries \in Ledgers
  BY DEF Sound, SessionType
<1>1. /\ u \in SessionType /\ u.frames = rest /\ u.writing = s.writing /\ u.tasks = s.tasks
      /\ u.reads = s.reads /\ u.closed = s.closed /\ u.nextDeliveryId = s.nextDeliveryId
      /\ u.deliveries = t.deliveries /\ u.planGeneration = s.planGeneration
  BY <1>0 DEF SessionType
<1> HIDE DEF u
<1>2. Onward(s, u)
  BY <1>1, PlanEndsOnward
<1>3. Sound(u)
  <2>1. s.planGeneration \in Nat
    BY <1>0 DEF SessionType
  <2>2. FramesHold(u)
    BY <1>0, <1>1, <2>1, FramesRemain DEF Sound
  <2> QED
    BY <1>1, <2>2 DEF Sound, Loses
<1>4. Onward(u, t)
  <2>1. s.frames \in Seq(Frame) /\ u.frames \in Seq(Frame)
    BY <1>0, <1>1 DEF SessionType
  <2>2. /\ \A kind, id : Carries(u.frames, kind, id) => Carries(t.frames, kind, id)
        /\ Waiting(t) = Append(Waiting(u), frame) /\ Waiting(u) \in Seq(Frame)
    BY <1>1, <1>3, CarriesAppend, WaitingGrows, WaitingFacts, SMTT(30) DEF Sound
  <2>3. \A id : Stays(u, t, id)
    BY <1>1, <2>2 DEF Stays
  <2>4. \A id : FewerPlaces(u, t, id)
    BY <1>1, <2>2, ApartFrame, FewerAppend DEF FewerPlaces, Fewer
  <2> QED
    BY <1>1, <2>3, <2>4, StaysOnward
<1> QED
  BY <1>2, <1>4, OnwardTwice

LEMMA InvalidatePlanOnward ==
    ASSUME NEW s, Sound(s)
    PROVE  Onward(s, InvalidatePlan(s)) /\ Sound(InvalidatePlan(s))
<1> DEFINE t == InvalidatePlan(s)
<1>1. t = InvalidatePlan(s) /\ s \in SessionType
  BY DEF Sound
<1> HIDE DEF t
<1>2. /\ t \in SessionType /\ PlanEnds(s, t)
      /\ Remains(t.frames, s.frames, Withdrawn(s), Len(s.frames))
  BY <1>1, InvalidatePlanEffect
<1>3. Onward(s, t)
  BY <1>2, PlanEndsOnward DEF PlanEnds, Ends
<1>4. s.planGeneration \in Nat /\ t.planGeneration = s.planGeneration + 1
  BY <1>1, <1>2 DEF PlanEnds, SessionType
<1>5. FramesHold(t)
  BY <1>1, <1>2, <1>4, FramesRemain DEF PlanEnds, Sound
<1>6. 0 \notin DOMAIN t.deliveries
  BY <1>2 DEF PlanEnds, Loses, Sound
<1> QED
  BY <1>1, <1>2, <1>3, <1>5, <1>6 DEF Sound

LEMMA FailPlanOnward ==
    ASSUME NEW s, Sound(s), s.activePlan # NoPlan
    PROVE  Onward(s, FailPlan(s)) /\ FailPlan(s) \in SessionType
<1>1. s.activePlan.epoch \in Nat
  BY PlanFields DEF Sound
<1>2. Onward(s, InvalidatePlan(s)) /\ Sound(InvalidatePlan(s))
  BY InvalidatePlanOnward
<1>3. FailPlan(s) = SendError(InvalidatePlan(s), s.activePlan.epoch)
  BY DEF FailPlan
<1> QED
  BY <1>1, <1>2, <1>3, SendErrorOnward, OnwardTwice

\* A tile that was reserved has its frame, or the session closes.  Its id is new.
LEMMA SendTileOnward ==
    ASSUME NEW s, Sound(s), Account(s), s.activePlan # NoPlan
    PROVE  Onward(s, SendTile(Reserve(s)))
<1> DEFINE r == Reserve(s)
           t == SendTile(r)
           new == s.nextDeliveryId
<1>0. s \in SessionType
  BY DEF Sound
<1>1. r = Reserve(s) /\ t = SendTile(r)
  OBVIOUS
<1> HIDE DEF r, t
<1>2. new \notin DOMAIN s.deliveries /\ new \in Nat
  BY <1>0 DEF Account, SessionType
<1>3. /\ r \in SessionType /\ r.activePlan \in ActivePlan
      /\ SameTurn(s, r) /\ SameFrames(s, r) /\ r.tasks = s.tasks /\ Ends(s, r)
      /\ r.nextDeliveryId = new + 1
      /\ Adds(s.deliveries, r.deliveries, new, Reserved(s))
  BY <1>0, <1>1, <1>2, ReserveEffect
<1>4. r.activePlan # NoPlan /\ r.nextDeliveryId - 1 = new /\ new \in DOMAIN r.deliveries
  BY <1>2, <1>3 DEF Adds, ActivePlan, NoPlan
<1>5. /\ t \in SessionType
      /\ \/ t.closed
         \/ /\ ~r.closed /\ ~t.closed /\ OnlyFrames(r, t)
            /\ \E image \in SomeImage :
                  LET frame == TileFrame("TILE", r.activePlan.epoch, r.activePlan.generation,
                                         r.nextDeliveryId - 1, image)
                  IN frame \in Frame /\ t.frames = Append(r.frames, frame)
  BY <1>1, <1>3, <1>4, SendTileEffect
<1>6. CASE t.closed
  BY <1>1, <1>6 DEF Onward
<1>7. CASE ~t.closed
  <2>1. PICK image \in SomeImage :
               LET frame == TileFrame("TILE", r.activePlan.epoch, r.activePlan.generation, new, image)
               IN frame \in Frame /\ t.frames = Append(r.frames, frame)
    BY <1>4, <1>5, <1>7
  <2> DEFINE frame == TileFrame("TILE", r.activePlan.epoch, r.activePlan.generation, new, image)
  <2>2. frame \in Frame /\ t.frames = Append(s.frames, frame) /\ frame.kind = "TILE" /\ frame.id = new
    BY <1>3, <2>1 DEF SameFrames, TileFrame
  <2> HIDE DEF frame
  <2>3. s.frames \in Seq(Frame)
    BY <1>0 DEF SessionType
  <2>4. /\ \A kind, id : Carries(s.frames, kind, id) => Carries(t.frames, kind, id)
        /\ Carries(t.frames, "TILE", new)
    BY <2>2, <2>3, CarriesAppend
  <2>5. /\ t.deliveries = r.deliveries /\ t.tasks = s.tasks /\ t.reads = s.reads /\ ~s.closed
        /\ t.writing = s.writing /\ t.nextDeliveryId = new + 1
    BY <1>3, <1>5, <1>7 DEF OnlyFrames, SameCredit, SameTurn, SameFrames, Ends
  <2>6. \A id : Stays(s, t, id)
    BY <2>4, <2>5 DEF Stays
  <2>7. Ending(t, new)
    <3>1. t.deliveries[new] = Reserved(s)
      BY <1>3, <2>5 DEF Adds
    <3>2. /\ t.deliveries[new].state # "WRITTEN_AWAITING_RELEASE"
          /\ ~t.deliveries[new].retryInProgress
      BY <3>1 DEF Reserved
    <3> QED
      BY <2>4, <3>2 DEF Ending
  <2>8. ASSUME NEW id \in DOMAIN t.deliveries, id \in DOMAIN s.deliveries => Ending(s, id)
        PROVE  Ending(t, id)
    <3>1. CASE id = new
      BY <2>7, <3>1
    <3>2. CASE id # new
      <4>1. id \in DOMAIN s.deliveries /\ t.deliveries[id] = s.deliveries[id]
        BY <1>3, <2>5, <2>8, <3>2 DEF Adds
      <4> QED
        BY <2>6, <2>8, <4>1, EndingStays
    <3> QED
      BY <3>1, <3>2
  <2>9. Waiting(t) = Append(Waiting(s), frame) /\ Waiting(s) \in Seq(Frame)
    BY <1>0, <1>5, <2>2, <2>5, WaitingGrows, WaitingFacts DEF Sound
  <2>10. ASSUME NEW held \in SUBSET ClientTile, NEW id \in Nat, Placed(s, held, id)
         PROVE  Placed(t, held, id)
    <3>1. CASE id = new
      <4>1. NoPlace(s, held, new)
        BY <1>2, <2>10, <3>1 DEF Placed
      <4>2. OnePlace(t, held, new)
        <5>1. Once(Waiting(t), PlaceFrames(new))
          BY <2>2, <2>9, <4>1, AppendTokens DEF NoPlace
        <5>2. None(t.tasks, PlaceTasks(new)) /\ Copies(t, held, new) = {}
          BY <2>5, <4>1 DEF NoPlace, Copies
        <5> QED
          BY <5>1, <5>2 DEF OnePlace, AtMostOne, None, Once
      <4> QED
        BY <1>2, <1>4, <2>5, <3>1, <4>2 DEF Placed
    <3>2. CASE id # new
      <4>1. frame \notin PlaceFrames(id)
        BY <2>2, <3>2 DEF PlaceFrames
      <4>2. FewerPlaces(s, t, id)
        BY <1>2, <2>2, <2>5, <2>9, <4>1, FewerAppend DEF FewerPlaces, Fewer
      <4>3. id \in DOMAIN s.deliveries => id \in DOMAIN t.deliveries
        BY <1>3, <2>5 DEF Adds
      <4> QED
        BY <2>10, <4>2, <4>3, FewerPlaced
    <3> QED
      BY <3>1, <3>2
  <2>11. Onward(s, t)
    BY <2>5, <2>8, <2>10 DEF Onward, EndsKept, PlacesKept
  <2> QED
    BY <1>1, <2>11
<1> QED
  BY <1>6, <1>7

LEMMA OnwardSelf ==
    ASSUME NEW s
    PROVE  Onward(s, s)
BY DEF Onward, EndsKept, PlacesKept

LEMMA TrySendPendingOnward ==
    ASSUME NEW s, Sound(s), Account(s), s.activePlan # NoPlan, NEW answer
    PROVE  Onward(s, TrySendPending(s, answer))
<1>1. s.activePlan.epoch \in Nat
  BY PlanFields DEF Sound
<1>2. /\ Onward(s, Closing(SendError(s, s.activePlan.epoch)))
      /\ Onward(s, FailPlan(s)) /\ Onward(s, SendTile(Reserve(s)))
  BY <1>1, SendErrorOnward, ClosingOnward, FailPlanOnward, SendTileOnward
<1> QED
  BY <1>2, OnwardSelf DEF TrySendPending

LEMMA SendDoneOnward ==
    ASSUME NEW s, Sound(s), s.activePlan # NoPlan
    PROVE  Onward(s, SendDone(s))
<1> DEFINE t == SendDone(s)
           frame == PlanControl("DONE", s.activePlan, s.activePlan.sentTiles)
<1>1. t = SendDone(s) /\ s \in SessionType
  BY DEF Sound
<1> HIDE DEF t
<1>2. /\ t \in SessionType /\ SameTurn(s, t) /\ SameCredit(s, t) /\ t.tasks = s.tasks
      /\ t.writing = s.writing
      /\ \/ t.closed
         \/ /\ ~s.closed /\ ~t.closed /\ frame \in Frame /\ t.frames = Append(s.frames, frame)
  BY <1>1, SendDoneEffect
<1>3. frame.kind = "DONE"
  BY DEF PlanControl
<1> HIDE DEF frame
<1>4. CASE t.closed
  BY <1>1, <1>4 DEF Onward
<1>5. CASE ~t.closed
  BY <1>1, <1>2, <1>3, <1>5, FrameOnward
<1> QED
  BY <1>4, <1>5

LEMMA StartTileReadOnward ==
    ASSUME NEW s, Sound(s), s.activePlan # NoPlan, NEW answer
    PROVE  Onward(s, StartTileRead(s, answer))
<1> DEFINE t == StartTileRead(s, answer)
<1>1. t = StartTileRead(s, answer) /\ s \in SessionType
  BY DEF Sound
<1> HIDE DEF t
<1>2. CASE t = [s EXCEPT !.turn = "none"]
  <2>1. Alone(s, t)
    BY <1>1, <1>2 DEF SessionType, Alone, SameFrames
  <2> QED
    BY <1>1, <2>1, AloneOnward
<1>3. ASSUME NEW u \in SessionType, ReadFails(s, u), t = FailPlan(u)
      PROVE  Onward(s, t)
  <2>1. Alone(s, u) /\ u.activePlan # NoPlan
    BY <1>3 DEF Alone, ReadFails, SameCredit, SameFrames, ActivePlan, NoPlan
  <2>2. Sound(u)
    <3>1. s.planGeneration \in Nat /\ s.nextDeliveryId \in Nat
      BY <1>1 DEF SessionType
    <3> QED
      BY <1>3, <3>1, SoundSame DEF ReadFails, SameCredit
  <2> QED
    BY <1>3, <2>1, <2>2, AloneOnward, FailPlanOnward, OnwardTwice
<1>4. CASE ReadStarts(s, t)
  <2>1. \A id : RetryRead(id) # TileRead(s.activePlan)
    BY DEF RetryRead, TileRead
  <2>2. Alone(s, t)
    BY <1>4, <2>1 DEF Alone, ReadStarts, SameCredit, SameFrames
  <2> QED
    BY <1>1, <2>2, AloneOnward
<1> QED
  BY <1>1, <1>2, <1>3, <1>4, StartTileReadCases

LEMMA RequestTileReadOnward ==
    ASSUME NEW s, Sound(s), s.activePlan # NoPlan, NEW answer
    PROVE  Onward(s, RequestTileRead(s, answer))
<1> DEFINE t == [s EXCEPT !.turn = "queued", !.activePlan.readWait = TRUE]
<1>1. Alone(s, t)
  BY DEF SessionType, Alone, SameFrames, Sound
<1>2. Onward(s, t)
  BY <1>1, AloneOnward
<1>3. Onward(s, FailPlan(s)) /\ Onward(s, StartTileRead(s, answer))
  BY FailPlanOnward, StartTileReadOnward
<1> QED
  BY <1>2, <1>3, OnwardSelf DEF RequestTileRead

LEMMA PumpOnward ==
    ASSUME NEW s, Sound(s), Account(s), NEW answer
    PROVE  Onward(s, Pump(s, answer))
<1>1. s.activePlan # NoPlan =>
        /\ Onward(s, TrySendPending(s, answer)) /\ Onward(s, SendDone(s))
        /\ Onward(s, RequestTileRead(s, answer))
  BY TrySendPendingOnward, SendDoneOnward, RequestTileReadOnward
<1> QED
  BY <1>1, OnwardSelf DEF Pump

\* A PLAN follows the frames that remain, or the session closes.
LEMMA AcceptViewOnward ==
    ASSUME NEW s, Sound(s), NEW epoch \in Nat
    PROVE  Onward(s, AcceptView(s, epoch))
<1> DEFINE t == AcceptView(s, epoch)
<1>1. t = AcceptView(s, epoch) /\ s \in SessionType
  BY DEF Sound
<1> HIDE DEF t
<1>2. t \in SessionType /\ Replans(s, t, epoch) /\ \E rest \in Seq(Frame) : Announced(s, t, rest, epoch)
  BY <1>1, AcceptViewEffect
<1>3. CASE t.closed
  BY <1>1, <1>3 DEF Onward
<1>4. CASE ~t.closed
  <2> DEFINE frame == PlanControl("PLAN", t.activePlan, t.activePlan.tiles)
  <2>1. PICK rest \in Seq(Frame) :
            /\ Remains(rest, s.frames, Withdrawn(s), Len(s.frames))
            /\ frame \in Frame /\ t.frames = Append(rest, frame) /\ ~s.closed
    BY <1>2, <1>4 DEF Announced
  <2>2. frame.kind = "PLAN"
    BY DEF PlanControl
  <2> HIDE DEF frame
  <2>3. /\ t.tasks = s.tasks /\ t.reads = s.reads /\ t.writing = s.writing
        /\ t.nextDeliveryId = s.nextDeliveryId
        /\ Loses(s.deliveries, t.deliveries, WithdrawnTiles(s))
    BY <1>2 DEF Replans
  <2> QED
    BY <1>1, <1>2, <2>1, <2>2, <2>3, PlanEndsFrameOnward
<1> QED
  BY <1>3, <1>4

--------------------------------------------------------------------------------
\* The tasks that end a reservation

\* From s to t, every reservation but that of id keeps what will end it.
Apart(s, t, id) ==
    /\ s.closed => t.closed
    /\ \A other \in DOMAIN t.deliveries : other # id =>
          /\ other \in DOMAIN s.deliveries /\ t.deliveries[other] = s.deliveries[other]
          /\ Stays(s, t, other)

LEMMA ApartEnds ==
    ASSUME NEW s, NEW t, NEW id, Apart(s, t, id), id \in DOMAIN t.deliveries => id \in DOMAIN s.deliveries,
           id \in DOMAIN t.deliveries /\ Ending(s, id) => Ending(t, id)
    PROVE  EndsKept(s, t)
<1>1. ASSUME NEW other \in DOMAIN t.deliveries, other \in DOMAIN s.deliveries => Ending(s, other)
      PROVE  Ending(t, other)
  <2>1. CASE other = id
    BY <1>1, <2>1
  <2>2. CASE other # id
    BY <1>1, <2>2, EndingStays DEF Apart
  <2> QED
    BY <2>1, <2>2
<1> QED
  BY <1>1 DEF EndsKept

LEMMA ApartOnward ==
    ASSUME NEW s, NEW t, NEW id, Apart(s, t, id), id \in DOMAIN t.deliveries => id \in DOMAIN s.deliveries,
           id \in DOMAIN t.deliveries /\ Ending(s, id) => Ending(t, id), PlacesKept(s, t)
    PROVE  Onward(s, t)
BY ApartEnds DEF Onward, Apart

LEMMA ApartTwice ==
    ASSUME NEW s, NEW t, NEW u, NEW id, Apart(s, t, id), Apart(t, u, id)
    PROVE  Apart(s, u, id)
<1>1. ASSUME NEW other, Stays(s, t, other), Stays(t, u, other)
      PROVE  Stays(s, u, other)
  BY <1>1 DEF Stays, EndTasks
<1> QED
  BY <1>1 DEF Apart

LEMMA PlacesTwice ==
    ASSUME NEW s, NEW t, NEW u, PlacesKept(s, t), PlacesKept(t, u)
    PROVE  PlacesKept(s, u)
BY DEF PlacesKept

\* The head of the queue leaves it.
LEMMA TailStays ==
    ASSUME NEW s \in SessionType, s.tasks # <<>>, NEW t,
           t.tasks = Tail(s.tasks), SameTurn(s, t), SameFrames(s, t),
           NEW id, Head(s.tasks).kind \in EndTasks => Head(s.tasks).id # id
    PROVE  Stays(s, t, id)
<1>1. s.tasks \in Seq(Task)
  BY DEF SessionType
<1>2. ASSUME NEW kind \in EndTasks, Carries(s.tasks, kind, id) PROVE Carries(t.tasks, kind, id)
  <2>1. ~(Head(s.tasks).kind = kind /\ Head(s.tasks).id = id)
    BY <1>2
  <2>2. Carries(Tail(s.tasks), kind, id)
    BY <1>1, <1>2, <2>1, CarriesTail
  <2> QED
    BY <2>2
<1> QED
  BY <1>2 DEF Stays, SameTurn, SameFrames

LEMMA TailPlaces ==
    ASSUME NEW s \in SessionType, s.tasks # <<>>, NEW t,
           t.tasks = Tail(s.tasks), SameTurn(s, t), SameFrames(s, t), SameCredit(s, t)
    PROVE  (\A id : FewerPlaces(s, t, id)) /\ PlacesKept(s, t)
<1>1. s.tasks \in Seq(Task) /\ Waiting(t) = Waiting(s)
  BY DEF SessionType, Waiting, SameFrames
<1>2. ASSUME NEW id PROVE FewerPlaces(s, t, id)
  BY <1>1, FewerTail DEF FewerPlaces, Fewer, SameTurn, SameCredit
<1> QED
  BY <1>2, FewerKept DEF SameCredit

\* The tiles it speaks of are in no place when it has run.
LEMMA TailFreed ==
    ASSUME NEW s \in SessionType, s.tasks # <<>>, NEW t,
           t.tasks = Tail(s.tasks), SameTurn(s, t), SameFrames(s, t), SameCredit(s, t),
           NEW ids, \A id \in ids : id \in Nat /\ id > 0 => Head(s.tasks) \in PlaceTasks(id)
    PROVE  Freed(s, t, ids)
<1>1. s.tasks \in Seq(Task) /\ Waiting(t) = Waiting(s)
  BY DEF SessionType, Waiting, SameFrames
<1>2. ASSUME NEW held \in SUBSET ClientTile, NEW id \in Nat, Placed(s, held, id), id \in ids, id > 0
      PROVE  NoPlace(t, held, id)
  <2>1. Head(s.tasks) \in PlaceTasks(id) /\ OnePlace(s, held, id)
    BY <1>2 DEF Placed
  <2>2. ~None(s.tasks, PlaceTasks(id))
    <3>1. Head(s.tasks) = s.tasks[1] /\ 1 \in 1..Len(s.tasks)
      BY <1>1, TailFacts
    <3> QED
      BY <2>1, <3>1 DEF None
  <2>3. /\ Once(s.tasks, PlaceTasks(id)) /\ None(Waiting(s), PlaceFrames(id))
        /\ Copies(s, held, id) = {}
    BY <2>1, <2>2 DEF OnePlace, AtMostOne
  <2>4. None(t.tasks, PlaceTasks(id))
    BY <1>1, <2>1, <2>3, TailTokens
  <2> QED
    BY <1>1, <2>3, <2>4 DEF NoPlace, Copies, SameTurn
<1>3. PlacesKept(s, t)
  BY TailPlaces
<1> QED
  BY <1>2, <1>3 DEF Freed, PlacesKept

LEMMA TailApart ==
    ASSUME NEW s \in SessionType, s.tasks # <<>>, NEW t,
           t.tasks = Tail(s.tasks), SameTurn(s, t), SameFrames(s, t), SameCredit(s, t),
           t.closed = s.closed,
           NEW id, Head(s.tasks).kind \in EndTasks => Head(s.tasks).id = id
    PROVE  Apart(s, t, id)
<1>1. \A other : other # id => Stays(s, t, other)
  BY TailStays
<1> QED
  BY <1>1 DEF Apart, SameCredit

LEMMA TailOnward ==
    ASSUME NEW s \in SessionType, s.tasks # <<>>, NEW t,
           t.tasks = Tail(s.tasks), SameTurn(s, t), SameFrames(s, t), SameCredit(s, t),
           t.closed = s.closed, Head(s.tasks).kind \notin EndTasks
    PROVE  Onward(s, t)
<1>1. \A id : Stays(s, t, id)
  BY TailStays
<1>2. \A id : FewerPlaces(s, t, id)
  BY TailPlaces
<1> QED
  BY <1>1, <1>2, StaysOnward DEF SameCredit

\* The session whose first task runs.
LEMMA RunsSound ==
    ASSUME SessionInv(session), session.tasks # <<>>, NEW t, t = Ran(session)
    PROVE  /\ t \in SessionType /\ session \in SessionType /\ Sound(t)
           /\ t.tasks = Tail(session.tasks) /\ SameTurn(session, t)
           /\ SameFrames(session, t) /\ SameCredit(session, t) /\ t.closed = session.closed
<1>1. session \in SessionType /\ Sound(session)
  BY InvSound
<1>2. /\ t \in SessionType /\ t.tasks = Tail(session.tasks) /\ SameTurn(session, t)
      /\ SamePlan(session, t) /\ SameFrames(session, t) /\ SameCredit(session, t)
      /\ t.closed = session.closed
  BY <1>1, RanEffect
<1>3. session.planGeneration \in Nat /\ session.nextDeliveryId \in Nat
  BY <1>1 DEF SessionType
<1> QED
  BY <1>1, <1>2, <1>3, SoundSame DEF SamePlan, SameCredit

LEMMA RunsOnward ==
    ASSUME SessionInv(session), NEW kind, kind \notin EndTasks, Running(kind)
    PROVE  /\ Onward(session, Ran(session))
           /\ Sound(Ran(session)) /\ Ran(session) \in SessionType
<1> DEFINE t == Ran(session)
<1>1. session.tasks # <<>> /\ Head(session.tasks).kind = kind
  BY DEF Running
<1>2. t = Ran(session)
  OBVIOUS
<1> HIDE DEF t
<1>3. /\ t \in SessionType /\ session \in SessionType /\ Sound(t)
      /\ t.tasks = Tail(session.tasks) /\ SameTurn(session, t)
      /\ SameFrames(session, t) /\ SameCredit(session, t) /\ t.closed = session.closed
  BY <1>1, <1>2, RunsSound
<1>4. Onward(session, t)
  BY <1>1, <1>3, TailOnward
<1> QED
  BY <1>2, <1>3, <1>4

LEMMA RunsFreed ==
    ASSUME SessionInv(session), session.tasks # <<>>,
           NEW ids, \A id \in ids : id \in Nat /\ id > 0 => task \in PlaceTasks(id)
    PROVE  Freed(session, Ran(session), ids)
<1> DEFINE t == Ran(session)
<1>1. t = Ran(session) /\ task = Head(session.tasks)
  BY DEF task
<1> HIDE DEF t
<1>2. /\ session \in SessionType
      /\ t.tasks = Tail(session.tasks) /\ SameTurn(session, t)
      /\ SameFrames(session, t) /\ SameCredit(session, t)
  BY <1>1, RunsSound
<1> QED
  BY <1>1, <1>2, TailFreed

\* The task of a delivery leaves the queue.
LEMMA RunsApart ==
    ASSUME SessionInv(session), NEW kind \in EndTasks, Running(kind)
    PROVE  /\ Apart(session, Ran(session), task.id) /\ Ran(session) \in SessionType
           /\ Sound(Ran(session)) /\ PlacesKept(session, Ran(session))
           /\ Ran(session).deliveries = session.deliveries /\ Ran(session).reads = session.reads
           /\ Ran(session).frames = session.frames /\ Ran(session).closed = session.closed
           /\ \A other \in EndTasks : \A id : other # kind /\ Carries(session.tasks, other, id) =>
                 Carries(Ran(session).tasks, other, id)
<1> DEFINE t == Ran(session)
<1>1. /\ session.tasks # <<>> /\ Head(session.tasks).kind = kind
      /\ task = Head(session.tasks)
  BY DEF Running, task
<1>2. t = Ran(session)
  OBVIOUS
<1> HIDE DEF t
<1>3. /\ t \in SessionType /\ session \in SessionType /\ Sound(t)
      /\ t.tasks = Tail(session.tasks) /\ SameTurn(session, t)
      /\ SameFrames(session, t) /\ SameCredit(session, t) /\ t.closed = session.closed
  BY <1>1, <1>2, RunsSound
<1>4. Apart(session, t, task.id)
  BY <1>1, <1>3, TailApart
<1>5. ASSUME NEW other \in EndTasks, NEW id, other # kind, Carries(session.tasks, other, id)
      PROVE  Carries(t.tasks, other, id)
  <2>1. session.tasks \in Seq(Task) /\ ~(Head(session.tasks).kind = other /\ Head(session.tasks).id = id)
    BY <1>1, <1>3, <1>5 DEF SessionType
  <2>2. Carries(Tail(session.tasks), other, id)
    BY <1>1, <1>5, <2>1, CarriesTail
  <2> QED
    BY <1>3, <2>2
<1>6. PlacesKept(session, t)
  BY <1>1, <1>3, TailPlaces
<1> QED
  BY <1>2, <1>3, <1>4, <1>5, <1>6 DEF SameCredit, SameTurn, SameFrames

\* A delivery is revised.
LEMMA RevisesApart ==
    ASSUME NEW s, Sound(s), NEW t, NEW id, NEW state, NEW retrying, NEW timer,
           Revises(s, t, id, state, retrying, timer)
    PROVE  /\ t \in SessionType /\ Sound(t) /\ Apart(s, t, id) /\ PlacesKept(s, t)
           /\ id \in DOMAIN s.deliveries /\ DOMAIN t.deliveries = DOMAIN s.deliveries
           /\ Revised(s.deliveries[id], t.deliveries[id], state, retrying, timer)
           /\ t.tasks = s.tasks /\ SameFrames(s, t) /\ t.reads = s.reads /\ t.closed = s.closed
           /\ t.nextDeliveryId = s.nextDeliveryId
<1>0. s \in SessionType
  BY DEF Sound
<1>1. PICK d : /\ Revised(s.deliveries[id], d, state, retrying, timer)
               /\ t = [s EXCEPT !.deliveries[id] = d]
  BY DEF Revises
<1>2. id \in DOMAIN s.deliveries /\ d \in Delivery /\ d.reservedBytes = s.deliveries[id].reservedBytes
  BY <1>1 DEF Revises, Revised
<1>3. /\ t \in SessionType /\ DOMAIN t.deliveries = DOMAIN s.deliveries
      /\ t.tasks = s.tasks /\ t.reads = s.reads /\ t.closed = s.closed
      /\ SameFrames(s, t) /\ t.frames = s.frames
      /\ t.nextDeliveryId = s.nextDeliveryId /\ t.planGeneration = s.planGeneration
  BY <1>0, <1>1, <1>2, DeliveryEffect DEF SamePlan, SameTurn, SameFrames
<1>4. t.deliveries = [s.deliveries EXCEPT ![id] = d]
  BY <1>0, <1>1 DEF SessionType
<1>5. s.deliveries \in [DOMAIN s.deliveries -> Delivery]
  BY <1>0, LedgerElim DEF SessionType
<1>6. t.deliveries[id] = d /\ \A other \in DOMAIN t.deliveries : other # id =>
                                  t.deliveries[other] = s.deliveries[other]
  BY <1>2, <1>3, <1>4, <1>5
<1>7. \A other : Stays(s, t, other)
  BY <1>3 DEF Stays
<1>8. PlacesKept(s, t)
  <2>1. \A other : FewerPlaces(s, t, other)
    BY <1>3 DEF FewerPlaces, Fewer, Waiting, SameFrames
  <2> QED
    BY <1>3, <2>1, FewerKept
<1>9. Sound(t)
  <2>1. s.planGeneration \in Nat /\ s.nextDeliveryId \in Nat
    BY <1>0 DEF SessionType
  <2> QED
    BY <1>3, <2>1, SoundSame
<1> QED
  BY <1>1, <1>2, <1>3, <1>6, <1>7, <1>8, <1>9 DEF Apart

LEMMA RearmedOnward ==
    ASSUME NEW s, Sound(s), NEW t, NEW id, Revises(s, t, id, "WRITTEN_AWAITING_RELEASE", FALSE, TRUE)
    PROVE  Onward(s, t) /\ Sound(t)
<1>1. /\ Sound(t) /\ Apart(s, t, id) /\ DOMAIN t.deliveries = DOMAIN s.deliveries /\ PlacesKept(s, t)
      /\ Revised(s.deliveries[id], t.deliveries[id], "WRITTEN_AWAITING_RELEASE", FALSE, TRUE)
  BY RevisesApart
<1>2. Ending(t, id)
  BY <1>1 DEF Ending, Revised
<1> QED
  BY <1>1, <1>2, ApartOnward

\* A tile that was in no place is read again.
LEMMA RereadPlaces ==
    ASSUME NEW r, NEW s, Sound(s), Account(s), NEW id \in DOMAIN s.deliveries, Freed(r, s, {id}),
           NEW t, t.tasks = s.tasks, SameFrames(s, t), t.reads = s.reads \cup {RetryRead(id)},
           DOMAIN t.deliveries = DOMAIN s.deliveries, t.nextDeliveryId = s.nextDeliveryId
    PROVE  PlacesKept(r, t)
<1>1. id \in Nat /\ id > 0 /\ id < s.nextDeliveryId /\ s.nextDeliveryId \in Nat
  BY DeliveryField DEF Sound, Account, SessionType
<1>2. Waiting(t) = Waiting(s)
  BY DEF Waiting, SameFrames
<1>3. ASSUME NEW held \in SUBSET ClientTile, NEW i \in Nat, Placed(r, held, i)
      PROVE  Placed(t, held, i)
  <2>1. Placed(s, held, i) /\ (i = id => NoPlace(s, held, id))
    BY <1>1, <1>3 DEF Freed
  <2>2. CASE i = id
    <3>1. NoPlace(s, held, id)
      BY <2>1, <2>2
    <3>2. Copies(t, held, id) = {RetryRead(id)}
      BY <3>1 DEF NoPlace, Copies
    <3>3. OnePlace(t, held, id)
      BY <1>2, <3>1, <3>2 DEF OnePlace, AtMostOne, NoPlace, None, Once
    <3>4. ~(id >= t.nextDeliveryId)
      BY <1>1
    <3> QED
      BY <2>2, <3>3, <3>4 DEF Placed
  <2>3. CASE i # id
    <3>1. RetryRead(i) # RetryRead(id)
      BY <2>3 DEF RetryRead
    <3>2. FewerPlaces(s, t, i)
      BY <1>2, <3>1 DEF FewerPlaces, Fewer
    <3> QED
      BY <2>1, <3>2, FewerPlaced
  <2> QED
    BY <2>2, <2>3
<1> QED
  BY <1>3 DEF PlacesKept

LEMMA RetransmitOnward ==
    ASSUME NEW r, NEW s, Sound(s), Account(s), ~s.closed, NEW epoch \in Nat, NEW id, NEW answer,
           Onward(r, s), Freed(r, s, {id}),
           NEW after, after = RequestSelectiveRetransmit(s, epoch, id, answer)
    PROVE  Onward(r, after)
<1>1. Onward(r, Acknowledge(s, {id})) /\ Onward(r, SendError(Acknowledge(s, {id}), epoch))
  <2>1. {id} \in SUBSET {id}
    OBVIOUS
  <2> QED
    BY <2>1, AcknowledgeOnward, SendErrorOnward, OnwardTwice
<1>2. ASSUME NEW t, Revises(s, t, id, "WRITTEN_AWAITING_RELEASE", FALSE, TRUE), after = SendError(t, epoch)
      PROVE  Onward(r, after)
  BY <1>2, RearmedOnward, SendErrorOnward, OnwardTwice
<1>3. ASSUME NEW t, Revises(s, t, id, "WRITTEN_AWAITING_RELEASE", TRUE, FALSE), Rereads(t, after, id)
      PROVE  Onward(r, after)
  <2>1. /\ t \in SessionType /\ Apart(s, t, id) /\ DOMAIN t.deliveries = DOMAIN s.deliveries
        /\ id \in DOMAIN s.deliveries /\ SameFrames(s, t) /\ t.tasks = s.tasks /\ t.reads = s.reads
        /\ t.nextDeliveryId = s.nextDeliveryId /\ t.closed = s.closed
        /\ Revised(s.deliveries[id], t.deliveries[id], "WRITTEN_AWAITING_RELEASE", TRUE, FALSE)
    BY <1>3, RevisesApart
  <2>2. /\ after.deliveries = t.deliveries /\ after.tasks = t.tasks /\ SameFrames(t, after)
        /\ after.reads = t.reads \cup {RetryRead(id)} /\ after.closed = t.closed
        /\ after.nextDeliveryId = t.nextDeliveryId
    BY <1>3, <2>1 DEF Rereads, SessionType, SameFrames
  <2>3. Apart(t, after, id)
    BY <2>2 DEF Apart, Stays, SameFrames
  <2>4. Ending(after, id)
    BY <2>1, <2>2 DEF Ending, Revised
  <2>5. EndsKept(s, after)
    BY <2>1, <2>2, <2>3, <2>4, ApartTwice, ApartEnds
  <2>6. PlacesKept(r, after)
    BY <2>1, <2>2, RereadPlaces DEF SameFrames
  <2> QED
    BY <2>2, <2>5, <2>6, EndsTwice DEF Onward
<1> QED
  BY <1>1, <1>2, <1>3, RetransmitCases DEF Sound

--------------------------------------------------------------------------------
\* The handlers keep every end and every place

LEMMA HandleHelloOnward ==
    ASSUME SessionInv(session), NEW answer, HandleHello(answer)
    PROVE  Onward(session, session')
<1> DEFINE s == Ran(session)
           greeted == [s EXCEPT !.helloTimer = FALSE, !.state = "LISTA",
                                !.negotiatedWindowBytes = Window, !.freeWindowBytes = Window]
           welcome == Control("WELCOME", 0, NoImage)
<1>1. Onward(session, s) /\ SessionInv(s) /\ s \in SessionType /\ Sound(s)
  BY TaskRuns, RunsOnward DEF HandleHello, GenerationKinds, EndTasks
<1>2. \/ session' = s
      \/ session' = Closing(s)
      \/ session' = SendError(s, 0)
      \/ session' = Closing(SendError(s, 0))
      \/ ~s.closed /\ s.state = "ESPERA_HELLO" /\ session' = Send(greeted, welcome)
  BY DEF HandleHello, Becomes
<1> HIDE DEF s
<1>3. Onward(s, SendError(s, 0)) /\ SendError(s, 0) \in SessionType
  BY <1>1, SendErrorOnward
<1>4. CASE ~s.closed /\ s.state = "ESPERA_HELLO" /\ session' = Send(greeted, welcome)
  <2>1. greeted \in SessionType
    BY <1>1, <1>4, GreetedHolds DEF SessionInv
  <2>2. /\ Alone(s, greeted) /\ SameFrames(s, greeted)
        /\ greeted.deliveries = s.deliveries /\ greeted.nextDeliveryId = s.nextDeliveryId
        /\ greeted.planGeneration = s.planGeneration
        /\ s.planGeneration \in Nat /\ s.nextDeliveryId \in Nat
    BY <1>1 DEF SessionType, Alone, SameFrames
  <2>3. welcome \in Frame /\ welcome.kind = "WELCOME"
    BY ControlIsFrame DEF PlainKinds, SomeImage
  <2> HIDE DEF greeted, welcome
  <2>4. Onward(s, greeted) /\ Sound(greeted)
    BY <1>1, <2>1, <2>2, AloneOnward, SoundSame
  <2> QED
    BY <1>1, <1>4, <2>1, <2>3, <2>4, SendOnward, OnwardTwice
<1> QED
  BY <1>1, <1>2, <1>3, <1>4, ClosingOnward, OnwardTwice

LEMMA HandleOpenOnward ==
    ASSUME SessionInv(session), NEW answer, HandleOpen(answer)
    PROVE  Onward(session, session')
<1> DEFINE s == Ran(session)
<1>1. Onward(session, s) /\ Sound(s) /\ s \in SessionType /\ task.epoch \in Nat
  BY TaskRuns, TaskFields, RunsOnward DEF HandleOpen, EndTasks
<1>2. session' = s \/ session' = Closing(s) \/ session' = SendError(s, task.epoch)
  BY DEF HandleOpen
<1> HIDE DEF s
<1> QED
  BY <1>1, <1>2, ClosingOnward, SendErrorOnward, OnwardTwice

LEMMA OnOpenResolvedOnward ==
    ASSUME SessionInv(session), OnOpenResolved
    PROVE  Onward(session, session')
<1> DEFINE s == Ran(session)
           ended == InvalidatePlan(s)
           opened == [ended EXCEPT
                         !.opened = task.image, !.thumbnailCommittedForOpen = FALSE,
                         !.currentEpoch = task.epoch, !.state = "IMAGEN_ABIERTA"]
           manifest == Control("MANIFEST", task.epoch, task.image)
<1>1. /\ Onward(session, s) /\ Sound(s) /\ s \in SessionType
      /\ task.epoch \in Nat /\ task.image \in SomeImage
  BY TaskRuns, TaskFields, RunsOnward DEF OnOpenResolved, EndTasks
<1>2. \/ session' = s
      \/ session' = SendError(s, task.epoch)
      \/ ~s.closed /\ session' = Send(opened, manifest)
  BY DEF OnOpenResolved, Becomes
<1> HIDE DEF s
<1>3. CASE ~s.closed /\ session' = Send(opened, manifest)
  <2>1. Onward(s, ended) /\ Sound(ended) /\ ended \in SessionType
    BY <1>1, InvalidatePlanOnward DEF Sound
  <2>2. session' = Send(opened, manifest)
    BY <1>3
  <2> HIDE DEF ended
  <2>3. /\ opened \in SessionType /\ Alone(ended, opened) /\ SameFrames(ended, opened)
        /\ opened.deliveries = ended.deliveries /\ opened.nextDeliveryId = ended.nextDeliveryId
        /\ opened.planGeneration = ended.planGeneration
        /\ ended.planGeneration \in Nat /\ ended.nextDeliveryId \in Nat
    BY <1>1, <2>1 DEF SessionType, States, Alone, SameFrames
  <2>4. manifest \in Frame /\ manifest.kind = "MANIFEST"
    BY <1>1, ControlIsFrame DEF PlainKinds
  <2> HIDE DEF opened, manifest
  <2>5. Sound(opened)
    BY <2>1, <2>3, SoundSame
  <2>6. Onward(ended, opened) /\ Onward(opened, session')
    BY <2>2, <2>3, <2>4, <2>5, AloneOnward, SendOnward
  <2> QED
    BY <1>1, <2>1, <2>6, OnwardTwice
<1> QED
  BY <1>1, <1>2, <1>3, SendErrorOnward, OnwardTwice

LEMMA HandleViewOnward ==
    ASSUME SessionInv(session), NEW answer, HandleView(answer)
    PROVE  Onward(session, session')
<1> DEFINE s == Ran(session)
<1>1. Onward(session, s) /\ Sound(s) /\ s \in SessionType /\ task.epoch \in Nat
  BY TaskRuns, TaskFields, RunsOnward DEF HandleView, EndTasks
<1>2. \/ session' = s
      \/ session' = Closing(s)
      \/ session' = SendError(s, task.epoch)
      \/ session' = AcceptView(s, task.epoch)
  BY DEF HandleView, Becomes
<1> HIDE DEF s
<1> QED
  BY <1>1, <1>2, ClosingOnward, SendErrorOnward, AcceptViewOnward, OnwardTwice

LEMMA HandleReleaseOnward ==
    ASSUME SessionInv(session), NEW answer, HandleRelease(answer)
    PROVE  Onward(session, session')
<1> DEFINE s == Ran(session)
           acknowledged == Acknowledge(s, {task.id})
<1>1. /\ Onward(session, s) /\ SessionInv(s) /\ Sound(s) /\ s \in SessionType
      /\ session.tasks # <<>> /\ task \in Task /\ task.kind = "RELEASE"
  BY TaskRuns, RunsOnward DEF HandleRelease, GenerationKinds, EndTasks
<1>2. \/ session' = s
      \/ session' = Closing(s)
      \/ ~s.closed /\ s.state # "ESPERA_HELLO" /\ session' = Pump(acknowledged, answer)
  BY DEF HandleRelease, Becomes
<1>3. Freed(session, s, {task.id})
  <2>1. task \in PlaceTasks(task.id)
    BY <1>1 DEF PlaceTasks
  <2> QED
    BY <1>1, <2>1, RunsFreed
<1> HIDE DEF s
<1>4. CASE ~s.closed /\ s.state # "ESPERA_HELLO" /\ session' = Pump(acknowledged, answer)
  <2>1. {task.id} \in SUBSET {task.id}
    OBVIOUS
  <2>2. SessionInv(acknowledged) /\ Onward(session, acknowledged)
    BY <1>1, <1>3, <1>4, <2>1, AcknowledgeHolds, AcknowledgeOnward
  <2> HIDE DEF acknowledged
  <2>3. Onward(acknowledged, session')
    BY <1>4, <2>2, InvSound, PumpOnward DEF SessionInv
  <2> QED
    BY <2>2, <2>3, OnwardTwice
<1> QED
  BY <1>1, <1>2, <1>4, ClosingOnward, OnwardTwice

LEMMA HandleAckStateOnward ==
    ASSUME SessionInv(session), NEW answer, HandleAckState(answer)
    PROVE  Onward(session, session')
<1> DEFINE s == Ran(session)
           all == task.received \cup {task.missing}
<1>1. /\ Onward(session, s) /\ SessionInv(s) /\ Sound(s) /\ s \in SessionType /\ task.epoch \in Nat
      /\ session.tasks # <<>> /\ task \in Task /\ task.kind = "ACK_STATE"
  BY TaskRuns, TaskFields, RunsOnward DEF HandleAckState, GenerationKinds, EndTasks
<1>2. \/ session' = s
      \/ session' = Closing(s)
      \/ /\ ~s.closed /\ s.state # "ESPERA_HELLO"
         /\ \E received \in SUBSET task.received :
               session' = Pump(RequestSelectiveRetransmit(Acknowledge(s, received),
                                   task.epoch, task.missing, answer), answer)
  <2> DEFINE received == {id \in task.received \cap DOMAIN s.deliveries :
                             s.deliveries[id].epoch = task.epoch}
  <2>1. received \in SUBSET task.received
    OBVIOUS
  <2> QED
    BY <2>1 DEF HandleAckState, Becomes
<1>3. Freed(session, s, all)
  <2>1. \A id \in all : task \in PlaceTasks(id)
    BY <1>1 DEF PlaceTasks
  <2> QED
    BY <1>1, <2>1, RunsFreed
<1> HIDE DEF s
<1>4. ASSUME ~s.closed, s.state # "ESPERA_HELLO", NEW received \in SUBSET task.received,
             session' = Pump(RequestSelectiveRetransmit(Acknowledge(s, received),
                                 task.epoch, task.missing, answer), answer)
      PROVE  Onward(session, session')
  <2> DEFINE acknowledged == Acknowledge(s, received)
             asked == RequestSelectiveRetransmit(acknowledged, task.epoch, task.missing, answer)
  <2>1. received \in SUBSET all /\ {task.missing} \in SUBSET all
    OBVIOUS
  <2>2. /\ SessionInv(acknowledged) /\ ~acknowledged.closed /\ acknowledged.state # "ESPERA_HELLO"
        /\ Onward(session, acknowledged) /\ Sound(acknowledged) /\ Freed(session, acknowledged, all)
    BY <1>1, <1>3, <1>4, <2>1, AcknowledgeHolds, AcknowledgeOnward
  <2>3. session' = Pump(asked, answer)
    BY <1>4
  <2> HIDE DEF acknowledged, all
  <2>4. Freed(session, acknowledged, {task.missing})
    BY <2>1, <2>2, FreedFewer
  <2>5. SessionInv(asked) /\ Onward(session, asked)
    BY <1>1, <2>2, <2>4, RetransmitHolds, RetransmitOnward DEF SessionInv
  <2> HIDE DEF asked
  <2>6. Onward(asked, session')
    BY <2>3, <2>5, InvSound, PumpOnward DEF SessionInv
  <2> QED
    BY <2>5, <2>6, OnwardTwice
<1> QED
  BY <1>1, <1>2, <1>4, ClosingOnward, OnwardTwice

\* The tile that was read again waits to be sent.
LEMMA ResentPlaces ==
    ASSUME NEW r, NEW s, Sound(s), Account(s), NEW id \in DOMAIN s.deliveries, Freed(r, s, {id}),
           NEW frame \in Frame, frame.kind = "RETRY", frame.id = id,
           NEW t \in SessionType, t.frames = Append(s.frames, frame), t.writing = s.writing,
           t.tasks = s.tasks, t.reads = s.reads,
           DOMAIN t.deliveries = DOMAIN s.deliveries, t.nextDeliveryId = s.nextDeliveryId
    PROVE  PlacesKept(r, t)
<1>1. id \in Nat /\ id > 0 /\ id < s.nextDeliveryId /\ s.nextDeliveryId \in Nat
  BY DeliveryField DEF Sound, Account, SessionType
<1>2. Waiting(t) = Append(Waiting(s), frame) /\ Waiting(s) \in Seq(Frame)
  BY WaitingGrows, WaitingFacts DEF Sound
<1>3. ASSUME NEW held \in SUBSET ClientTile, NEW i \in Nat, Placed(r, held, i)
      PROVE  Placed(t, held, i)
  <2>1. Placed(s, held, i) /\ (i = id => NoPlace(s, held, id))
    BY <1>1, <1>3 DEF Freed
  <2>2. CASE i = id
    <3>1. NoPlace(s, held, id)
      BY <2>1, <2>2
    <3>2. None(t.tasks, PlaceTasks(id)) /\ Copies(t, held, id) = {}
      BY <3>1 DEF NoPlace, Copies
    <3>3. Once(Waiting(t), PlaceFrames(id))
      BY <1>2, <3>1, AppendTokens DEF NoPlace
    <3>4. OnePlace(t, held, id)
      BY <3>2, <3>3 DEF OnePlace, AtMostOne, None, Once
    <3>5. ~(id >= t.nextDeliveryId)
      BY <1>1
    <3> QED
      BY <2>2, <3>4, <3>5 DEF Placed
  <2>3. CASE i # id
    <3>1. frame \notin PlaceFrames(i)
      BY <2>3 DEF PlaceFrames
    <3>2. FewerPlaces(s, t, i)
      BY <1>2, <3>1, FewerAppend DEF FewerPlaces, Fewer
    <3> QED
      BY <2>1, <3>2, FewerPlaced
  <2> QED
    BY <2>2, <2>3
<1> QED
  BY <1>3 DEF PlacesKept

\* The second read of a tile ended: its frame, or the deadline again.
LEMMA OnSelectiveTileReadOnward ==
    ASSUME SessionInv(session), NEW answer, OnSelectiveTileRead(answer)
    PROVE  Onward(session, session')
<1> DEFINE s == Ran(session)
           id == task.id
           d == session.deliveries[task.id]
<1>1. /\ Apart(session, s, id) /\ s \in SessionType /\ s.deliveries = session.deliveries
      /\ s.reads = session.reads /\ s.frames = session.frames
      /\ Sound(s) /\ PlacesKept(session, s) /\ s.closed = session.closed
      /\ \A kind \in EndTasks : \A i : kind # "RETRY_READ" /\ Carries(session.tasks, kind, i) =>
            Carries(s.tasks, kind, i)
  BY RunsApart DEF OnSelectiveTileRead, EndTasks
<1>0. Freed(session, s, {id}) /\ Account(s)
  <2>1. session.tasks # <<>> /\ task \in Task /\ task.kind = "RETRY_READ" /\ SessionInv(s)
    BY TaskRuns DEF OnSelectiveTileRead, GenerationKinds
  <2>2. task \in PlaceTasks(id)
    BY <2>1 DEF PlaceTasks
  <2> QED
    BY <2>1, <2>2, RunsFreed DEF SessionInv
<1>2. \/ ~(/\ id \in DOMAIN s.deliveries /\ d.retryInProgress
           /\ d.state = "WRITTEN_AWAITING_RELEASE") /\ session' = s
      \/ /\ id \in DOMAIN s.deliveries /\ d.retryInProgress
         /\ d.state = "WRITTEN_AWAITING_RELEASE"
         /\ session' = RecoveryFailed(s, id) \/ session' = SendAgain(s, id)
  BY <1>1 DEF OnSelectiveTileRead, Becomes
<1> HIDE DEF s
<1>3. CASE ~(/\ id \in DOMAIN s.deliveries /\ d.retryInProgress
             /\ d.state = "WRITTEN_AWAITING_RELEASE") /\ session' = s
  <2>1. id \in DOMAIN s.deliveries /\ Ending(session, id) => Ending(s, id)
    BY <1>1, <1>3 DEF Ending, EndTasks
  <2> QED
    BY <1>1, <1>3, <2>1, ApartOnward
<1>4. CASE /\ id \in DOMAIN s.deliveries /\ d.state = "WRITTEN_AWAITING_RELEASE"
           /\ session' = RecoveryFailed(s, id)
  <2>0. s \in SessionType /\ id \in DOMAIN s.deliveries /\ session' = RecoveryFailed(s, id)
    BY <1>1, <1>4
  <2>1. PICK t : /\ Revises(s, t, id, s.deliveries[id].state, FALSE, TRUE)
                 /\ session' = SendError(t, s.deliveries[id].epoch)
    BY <2>0, RecoveryFailedEffect
  <2>2. s.deliveries[id].epoch \in Nat
    BY <1>1, <1>4, DeliveryField DEF Delivery
  <2>3. /\ Sound(t) /\ Apart(s, t, id) /\ DOMAIN t.deliveries = DOMAIN s.deliveries
        /\ PlacesKept(session, t)
        /\ Revised(s.deliveries[id], t.deliveries[id], s.deliveries[id].state, FALSE, TRUE)
    <3>1. Sound(s) /\ PlacesKept(session, s)
      BY <1>1
    <3>2. /\ Sound(t) /\ Apart(s, t, id) /\ DOMAIN t.deliveries = DOMAIN s.deliveries
          /\ PlacesKept(s, t)
          /\ Revised(s.deliveries[id], t.deliveries[id], s.deliveries[id].state, FALSE, TRUE)
      BY <2>1, <3>1, RevisesApart
    <3> QED
      BY <3>1, <3>2, PlacesTwice
  <2>4. Ending(t, id)
    BY <1>1, <1>4, <2>3 DEF Ending, Revised
  <2>5. Onward(session, t)
    BY <1>1, <2>3, <2>4, ApartTwice, ApartOnward
  <2> QED
    BY <2>1, <2>2, <2>3, <2>5, SendErrorOnward, OnwardTwice
<1>5. CASE /\ id \in DOMAIN s.deliveries /\ d.retryInProgress
           /\ d.state = "WRITTEN_AWAITING_RELEASE" /\ session' = SendAgain(s, id)
  <2> DEFINE frame == TileFrame("RETRY", s.deliveries[id].epoch, 0, id, NoImage)
  <2>1. \/ \E t : /\ Revises(s, t, id, s.deliveries[id].state, FALSE, s.deliveries[id].releaseTimer)
                  /\ session' = Closing(t)
        \/ frame \in Frame /\ session' = Queued(s, frame)
    BY <1>1, <1>5, SendAgainEffect
  <2>2. frame.kind = "RETRY" /\ frame.id = id
    BY DEF TileFrame
  <2> HIDE DEF frame
  <2>3. ASSUME NEW t, Revises(s, t, id, s.deliveries[id].state, FALSE, s.deliveries[id].releaseTimer),
               session' = Closing(t)
        PROVE  Onward(session, session')
    <3>1. t \in SessionType
      BY <1>1, <2>3, RevisesApart
    <3> QED
      BY <2>3, <3>1, ClosingOnward
  <2>4. CASE frame \in Frame /\ session' = Queued(s, frame)
    <3>1. s.frames \in Seq(Frame)
      BY <1>1 DEF SessionType
    <3>2. /\ session'.frames = Append(s.frames, frame) /\ session'.deliveries = s.deliveries
          /\ session'.tasks = s.tasks /\ session'.reads = s.reads /\ session'.closed = s.closed
          /\ session'.writing = s.writing /\ session'.nextDeliveryId = s.nextDeliveryId
      BY <1>1, <2>4 DEF Queued, SessionType
    <3>3. /\ \A kind, i : Carries(s.frames, kind, i) => Carries(session'.frames, kind, i)
          /\ Carries(session'.frames, "RETRY", id)
      BY <2>2, <2>4, <3>1, <3>2, CarriesAppend
    <3>4. Apart(s, session', id)
      BY <3>2, <3>3 DEF Apart, Stays
    <3>5. Ending(session', id)
      BY <1>1, <1>5, <3>2, <3>3 DEF Ending
    <3>6. session' \in SessionType
      BY <1>1, <2>4, QueuedEffect
    <3>7. PlacesKept(session, session')
      BY <1>0, <1>1, <1>5, <2>2, <2>4, <3>2, <3>6, ResentPlaces
    <3> QED
      BY <1>1, <3>2, <3>4, <3>5, <3>7, ApartTwice, ApartOnward
  <2> QED
    BY <2>1, <2>3, <2>4
<1> QED
  BY <1>2, <1>3, <1>4, <1>5

LEMMA OnSelectiveTileWrittenOnward ==
    ASSUME SessionInv(session), OnSelectiveTileWritten
    PROVE  Onward(session, session')
<1> DEFINE s == Ran(session)
           id == task.id
           d == [s.deliveries[id] EXCEPT !.retryInProgress = FALSE, !.releaseTimer = TRUE,
                                         !.state = "WRITTEN_AWAITING_RELEASE"]
<1>1. /\ Apart(session, s, id) /\ s \in SessionType /\ s.deliveries = session.deliveries
      /\ Sound(s) /\ PlacesKept(session, s)
  BY RunsApart DEF OnSelectiveTileWritten, EndTasks
<1>2. CASE id \notin DOMAIN s.deliveries
  <2>1. session' = s
    BY <1>2 DEF OnSelectiveTileWritten, Becomes
  <2> HIDE DEF s
  <2> QED
    BY <1>1, <1>2, <2>1, ApartOnward
<1>3. CASE id \in DOMAIN s.deliveries
  <2>1. session' = [s EXCEPT !.deliveries[id] =
                       [@ EXCEPT !.retryInProgress = FALSE, !.releaseTimer = TRUE,
                                 !.state = "WRITTEN_AWAITING_RELEASE"]]
    BY <1>3 DEF OnSelectiveTileWritten, Becomes
  <2> HIDE DEF s
  <2>2. s.deliveries[id] \in Delivery
    BY <1>1, <1>3, DeliveryField
  <2>3. session' = [s EXCEPT !.deliveries[id] = d]
    BY <1>1, <2>1, <2>2 DEF SessionType
  <2>4. Revised(s.deliveries[id], d, "WRITTEN_AWAITING_RELEASE", FALSE, TRUE)
    BY <2>2 DEF Revised, Delivery
  <2> HIDE DEF d
  <2>5. Revises(s, session', id, "WRITTEN_AWAITING_RELEASE", FALSE, TRUE)
    BY <1>3, <2>3, <2>4, Zenon DEF Revises
  <2>6. /\ Apart(s, session', id) /\ DOMAIN session'.deliveries = DOMAIN s.deliveries
        /\ PlacesKept(session, session')
        /\ Revised(s.deliveries[id], session'.deliveries[id], "WRITTEN_AWAITING_RELEASE", FALSE, TRUE)
    BY <1>1, <2>5, RevisesApart, PlacesTwice
  <2>7. Ending(session', id)
    BY <2>6 DEF Ending, Revised
  <2> QED
    BY <1>1, <2>6, <2>7, ApartTwice, ApartOnward
<1> QED
  BY <1>2, <1>3

LEMMA OnTileCommittedOnward ==
    ASSUME SessionInv(session), OnTileCommitted
    PROVE  Onward(session, session')
<1> DEFINE s == Ran(session)
           id == task.id
           d == [s.deliveries[id] EXCEPT !.state = "COMMITTED"]
           u == [s EXCEPT !.deliveries[id] = d]
           committed == s.thumbnailCommittedForOpen \/ s.deliveries[id].openingThumbnail
<1>1. Onward(session, s) /\ Sound(s) /\ s \in SessionType
  BY RunsOnward DEF OnTileCommitted, EndTasks
<1>2. CASE id \notin DOMAIN s.deliveries \/ s.deliveries[id].state # "RESERVED_QUEUED"
  BY <1>1, <1>2 DEF OnTileCommitted, Becomes
<1>3. CASE ~(id \notin DOMAIN s.deliveries \/ s.deliveries[id].state # "RESERVED_QUEUED")
  <2>1. session' = [s EXCEPT !.deliveries[id].state = "COMMITTED",
                             !.thumbnailCommittedForOpen = @ \/ s.deliveries[id].openingThumbnail]
    BY <1>3 DEF OnTileCommitted, Becomes
  <2> HIDE DEF s
  <2>2. s.deliveries[id] \in Delivery /\ id \in DOMAIN s.deliveries
    BY <1>1, <1>3, DeliveryField
  <2>3. Revised(s.deliveries[id], d, "COMMITTED", s.deliveries[id].retryInProgress,
                s.deliveries[id].releaseTimer)
    BY <2>2 DEF Revised, Delivery
  <2>4. session' = [u EXCEPT !.thumbnailCommittedForOpen = committed]
    BY <1>1, <2>1, <2>2 DEF SessionType
  <2> HIDE DEF d, committed
  <2>5. Revises(s, u, id, "COMMITTED", s.deliveries[id].retryInProgress, s.deliveries[id].releaseTimer)
    BY <2>2, <2>3, Zenon DEF Revises
  <2>6. /\ u \in SessionType /\ Apart(s, u, id) /\ DOMAIN u.deliveries = DOMAIN s.deliveries
        /\ PlacesKept(s, u)
        /\ Revised(s.deliveries[id], u.deliveries[id], "COMMITTED", s.deliveries[id].retryInProgress,
                   s.deliveries[id].releaseTimer)
        /\ u.tasks = s.tasks /\ u.frames = s.frames /\ u.reads = s.reads
    BY <1>1, <2>5, RevisesApart DEF SameFrames
  <2> HIDE DEF u
  <2>7. Ending(s, id) => Ending(u, id)
    BY <1>3, <2>6 DEF Ending, Revised, SameFrames
  <2>8. Onward(s, u)
    BY <2>6, <2>7, ApartOnward
  <2>9. Alone(u, session')
    BY <2>4, <2>6 DEF SessionType, Alone, SameFrames
  <2>10. Onward(u, session')
    BY <2>9, AloneOnward
  <2> QED
    BY <1>1, <2>8, <2>10, OnwardTwice
<1> QED
  BY <1>2, <1>3

\* A deadline that no longer counts ends nothing.
LEMMA TimeoutsOnward ==
    ASSUME SessionInv(session), OnReleaseTimeout \/ OnHelloTimeout \/ Cleanup
    PROVE  Onward(session, session')
<1> DEFINE s == Ran(session)
           id == task.id
<1>1. session' = Dismantle(s) => Onward(session, session')
  <2>1. s \in SessionType
    BY RanEffect DEF SessionInv, OnReleaseTimeout, OnHelloTimeout, Cleanup, Running
  <2> HIDE DEF s
  <2> QED
    BY <2>1, DismantleEffect DEF Onward
<1>2. CASE OnReleaseTimeout
  <2>1. /\ Apart(session, s, id) /\ s \in SessionType /\ s.deliveries = session.deliveries
        /\ s.reads = session.reads /\ s.frames = session.frames /\ PlacesKept(session, s)
        /\ \A kind \in EndTasks : \A i : kind # "RELEASE_TIMEOUT" /\ Carries(session.tasks, kind, i) =>
              Carries(s.tasks, kind, i)
    BY <1>2, RunsApart DEF OnReleaseTimeout, EndTasks
  <2>2. \/ session' = Dismantle(s)
        \/ session' = s /\ s.closed
        \/ /\ session' = s
           /\ id \in DOMAIN s.deliveries => s.deliveries[id].state # "WRITTEN_AWAITING_RELEASE"
    BY <1>2 DEF OnReleaseTimeout, Becomes
  <2> HIDE DEF s
  <2>3. CASE session' = s /\ s.closed
    BY <2>3 DEF Onward
  <2>4. CASE /\ session' = s
             /\ id \in DOMAIN s.deliveries => s.deliveries[id].state # "WRITTEN_AWAITING_RELEASE"
    <3>1. id \in DOMAIN s.deliveries /\ Ending(session, id) => Ending(s, id)
      BY <2>1, <2>4 DEF Ending, EndTasks
    <3> QED
      BY <2>1, <2>4, <3>1, ApartOnward
  <2> QED
    BY <1>1, <2>2, <2>3, <2>4
<1>3. CASE OnHelloTimeout \/ Cleanup
  <2>1. Onward(session, s)
    BY <1>3, RunsOnward DEF OnHelloTimeout, Cleanup, EndTasks
  <2>2. session' = s \/ session' = Dismantle(s)
    BY <1>3 DEF OnHelloTimeout, Cleanup, Becomes
  <2> QED
    BY <1>1, <2>1, <2>2
<1> QED
  BY <1>2, <1>3

--------------------------------------------------------------------------------
\* The callbacks of a plan

LEMMA ProgressesSound ==
    ASSUME NEW s, NEW t, NEW plan, Progresses(s, t, plan)
    PROVE  Sound(t)
BY DEF Progresses, Sound, Queues, Account

\* The task of a plan leaves the queue, and the plan changes.
LEMMA ProgressesOnward ==
    ASSUME NEW s, SessionInv(s), s.tasks # <<>>, Head(s.tasks).kind \notin EndTasks,
           NEW t, NEW plan, Progresses(s, t, plan)
    PROVE  Onward(s, t) /\ Sound(t)
<1>1. Onward(s, t)
  BY TailOnward DEF Progresses, SessionInv
<1> QED
  BY <1>1, ProgressesSound

LEMMA AloneSound ==
    ASSUME NEW s, Sound(s), NEW t \in SessionType, Alone(s, t), t.planGeneration = s.planGeneration
    PROVE  Sound(t)
<1>1. s.planGeneration \in Nat /\ s.nextDeliveryId \in Nat
  BY DEF Sound, SessionType
<1> QED
  BY <1>1, SoundSame DEF Alone

LEMMA OnPlanCommittedOnward ==
    ASSUME SessionInv(session), NEW answer, OnPlanCommitted(answer)
    PROVE  Onward(session, session')
<1> DEFINE s == session
           plan == [s.activePlan EXCEPT !.planCommitted = TRUE]
           t == [Ran(s) EXCEPT !.activePlan = plan]
<1>1. /\ Running("PLAN_COMMITTED") /\ s.tasks # <<>> /\ task = Head(s.tasks) /\ task.kind = "PLAN_COMMITTED"
      /\ Head(s.tasks).kind \notin EndTasks
  BY TaskRuns DEF OnPlanCommitted, task, EndTasks
<1>2. /\ Onward(s, Ran(s)) /\ Ran(s) \in SessionType /\ Ran(s).activePlan = s.activePlan
      /\ s.activePlan.generation = task.generation => s.activePlan # NoPlan
  BY <1>1, RunsOnward, CallbackRuns DEF EndTasks
<1>3. CASE s.activePlan.generation # task.generation
  BY <1>2, <1>3 DEF OnPlanCommitted, Becomes
<1>4. CASE s.activePlan.generation = task.generation
  <2>1. s.activePlan # NoPlan /\ s.activePlan \in ActivePlan
    BY <1>2, <1>4, PlanFields DEF SessionInv
  <2>2. session' = Pump(t, answer)
    <3>1. session' = Pump([Ran(s) EXCEPT !.activePlan.planCommitted = TRUE], answer)
      BY <1>2, <1>4 DEF OnPlanCommitted, Becomes
    <3>2. t = [Ran(s) EXCEPT !.activePlan.planCommitted = TRUE]
      BY <1>2, <2>1 DEF SessionType
    <3> HIDE DEF t
    <3> QED
      BY <3>1, <3>2, Zenon
  <2>3. plan \in ActivePlan /\ plan.readWait = s.activePlan.readWait
    BY <2>1 DEF ActivePlan
  <2>4. t = [Ran(s) EXCEPT !.activePlan = plan]
    OBVIOUS
  <2> HIDE DEF t, plan
  <2>5. s.turn = "queued" => plan.readWait
    BY <2>3 DEF SessionInv, Turn
  <2>6. Progresses(s, t, plan)
    BY <1>1, <2>1, <2>3, <2>4, <2>5, PlanChanges
  <2>7. Onward(s, t) /\ Sound(t)
    BY <1>1, <2>6, ProgressesOnward
  <2>8. Account(t)
    BY <2>6 DEF Progresses
  <2> QED
    BY <2>2, <2>7, <2>8, PumpOnward, OnwardTwice
<1> QED
  BY <1>3, <1>4

LEMMA OnDoneCommittedOnward ==
    ASSUME SessionInv(session), OnDoneCommitted
    PROVE  Onward(session, session')
<1> DEFINE s == Ran(session)
           t == [s EXCEPT !.activePlan = NoPlan]
<1>1. Onward(session, s) /\ s \in SessionType
  BY RunsOnward DEF OnDoneCommitted, EndTasks
<1>2. session' = s \/ session' = t
  BY DEF OnDoneCommitted, Becomes
<1> HIDE DEF s
<1>3. Alone(s, t)
  BY <1>1 DEF SessionType, Alone, SameFrames
<1> HIDE DEF t
<1>4. Onward(s, t)
  BY <1>3, AloneOnward
<1> QED
  BY <1>1, <1>2, <1>4, OnwardTwice

LEMMA OnTileReadOnward ==
    ASSUME SessionInv(session), NEW answer, OnTileRead(answer)
    PROVE  Onward(session, session')
<1> DEFINE s == session
           r == Ran(s)
           idle == [s.activePlan EXCEPT !.busy = FALSE]
           t == [r EXCEPT !.activePlan = idle]
           plan == [s.activePlan EXCEPT !.busy = FALSE, !.pendingTile = task.bytes]
           u == [r EXCEPT !.activePlan = plan]
<1>1. /\ task.kind = "TILE_READ" /\ task \in Task /\ s \in SessionType
      /\ s.tasks # <<>> /\ task = Head(s.tasks) /\ task.bytes \in Nat
      /\ Head(s.tasks).kind \notin EndTasks
  BY TaskRuns, TaskFields DEF OnTileRead, task, SessionInv, EndTasks
<1>2. r \in SessionType /\ r.activePlan = s.activePlan /\ Account(r) /\ Onward(s, r) /\ Sound(r)
  BY <1>1, RanFacts, RunsOnward DEF OnTileRead, EndTasks, SamePlan
<1>3. CASE ~BelongsToPlan(r, task.generation)
  <2>1. session' = Pump(r, answer)
    BY <1>3 DEF OnTileRead, Becomes, StaleResult
  <2> HIDE DEF r
  <2> QED
    BY <1>2, <2>1, PumpOnward, OnwardTwice
<1>4. CASE BelongsToPlan(r, task.generation)
  <2>1. s.activePlan # NoPlan /\ s.activePlan \in ActivePlan
    BY <1>1, <1>2, <1>4, PlanFields DEF BelongsToPlan
  <2>2. \/ task.bytes = 0 /\ session' = FailPlan(t)
        \/ task.bytes # 0 /\ session' = IF u.closed THEN u ELSE TrySendPending(u, answer)
    <3>1. t = [r EXCEPT !.activePlan.busy = FALSE]
      BY <1>2, <2>1 DEF SessionType
    <3>2. u = [t EXCEPT !.activePlan.pendingTile = task.bytes]
      BY <1>2, <2>1 DEF SessionType, ActivePlan
    <3> DEFINE v == [r EXCEPT !.activePlan.busy = FALSE]
               w == [v EXCEPT !.activePlan.pendingTile = task.bytes]
    <3>3. \/ task.bytes = 0 /\ session' = FailPlan(v)
          \/ task.bytes # 0 /\ session' = IF w.closed THEN w ELSE TrySendPending(w, answer)
      BY <1>4 DEF OnTileRead, Becomes
    <3>4. t = v
      BY <3>1
    <3> HIDE DEF t, v
    <3>5. u = w
      BY <3>2, <3>4
    <3> HIDE DEF u, w
    <3> QED
      BY <3>3, <3>4, <3>5
  <2>3. /\ idle \in ActivePlan /\ idle.readWait = s.activePlan.readWait /\ idle # NoPlan
        /\ plan \in ActivePlan /\ plan.readWait = s.activePlan.readWait /\ plan # NoPlan
    BY <1>1, <2>1 DEF ActivePlan, NoPlan
  <2>4. t = [Ran(s) EXCEPT !.activePlan = idle] /\ u = [Ran(s) EXCEPT !.activePlan = plan]
    OBVIOUS
  <2> HIDE DEF t, u, idle, plan
  <2>5. s.turn = "queued" => s.activePlan.readWait
    BY DEF SessionInv, Turn
  <2>6. CASE task.bytes = 0 /\ session' = FailPlan(t)
    <3>1. Progresses(s, t, idle)
      BY <1>1, <2>1, <2>3, <2>4, <2>5, PlanChanges
    <3>2. t.activePlan # NoPlan
      BY <2>3, <3>1 DEF Progresses
    <3>3. Onward(s, t) /\ Sound(t)
      BY <1>1, <3>1, ProgressesOnward
    <3> QED
      BY <2>6, <3>2, <3>3, FailPlanOnward, OnwardTwice
  <2>7. CASE task.bytes # 0 /\ session' = IF u.closed THEN u ELSE TrySendPending(u, answer)
    <3>1. Progresses(s, u, plan)
      BY <1>1, <2>1, <2>3, <2>4, <2>5, PlanChanges
    <3>2. Account(u) /\ u.activePlan # NoPlan
      BY <2>3, <3>1 DEF Progresses
    <3>3. Onward(s, u) /\ Sound(u)
      BY <1>1, <3>1, ProgressesOnward
    <3>4. Onward(u, TrySendPending(u, answer))
      BY <3>2, <3>3, TrySendPendingOnward
    <3> QED
      BY <2>7, <3>3, <3>4, OnwardTwice
  <2> QED
    BY <2>2, <2>6, <2>7
<1> QED
  BY <1>3, <1>4

LEMMA OnReadPermitGrantedOnward ==
    ASSUME SessionInv(session), NEW answer, OnReadPermitGranted(answer)
    PROVE  Onward(session, session')
<1> DEFINE s == session
           r == Ran(s)
           returned == [r EXCEPT !.turn = "none"]
           plan == [s.activePlan EXCEPT !.readWait = FALSE]
           t == [r EXCEPT !.activePlan = plan]
<1>1. s \in SessionType /\ s.tasks # <<>>
  BY TaskRuns DEF OnReadPermitGranted, SessionInv
<1>2. r \in SessionType /\ Account(r) /\ r.activePlan = s.activePlan /\ Onward(s, r) /\ Sound(r)
  BY <1>1, RanFacts, RunsOnward DEF OnReadPermitGranted, EndTasks, SamePlan
<1>3. CASE r.closed \/ ~BelongsToPlan(r, task.generation)
  <2>1. session' = Pump(returned, answer)
    BY <1>3 DEF OnReadPermitGranted, Becomes, PermitReturned
  <2>2. returned = [r EXCEPT !.turn = "none"]
    OBVIOUS
  <2> HIDE DEF returned, r
  <2>3. /\ returned \in SessionType /\ returned.tasks = r.tasks /\ returned.frames = r.frames
        /\ SamePlan(r, returned) /\ SameCredit(r, returned) /\ returned.reads = r.reads
        /\ returned.closed = r.closed /\ returned.state = r.state /\ Alone(r, returned)
    BY <1>2, <2>2 DEF SessionType, SamePlan, SameCredit, Alone, SameFrames
  <2>4. Account(returned)
    BY <1>2, <2>3, AccountSame
  <2>5. Onward(r, returned) /\ Sound(returned)
    BY <1>2, <2>3, AloneOnward, AloneSound DEF SamePlan
  <2> QED
    BY <1>2, <2>1, <2>3, <2>4, <2>5, PumpOnward, OnwardTwice
<1>4. CASE ~(r.closed \/ ~BelongsToPlan(r, task.generation))
  <2>1. s.activePlan # NoPlan /\ s.activePlan \in ActivePlan
    BY <1>1, <1>2, <1>4, PlanFields DEF BelongsToPlan
  <2>2. plan \in ActivePlan /\ plan # NoPlan
    BY <2>1 DEF ActivePlan, NoPlan
  <2>3. session' = StartTileRead(t, answer)
    <3>1. t = [r EXCEPT !.activePlan.readWait = FALSE]
      BY <1>2, <2>1 DEF SessionType
    <3>2. session' = StartTileRead([r EXCEPT !.activePlan.readWait = FALSE], answer)
      BY <1>4 DEF OnReadPermitGranted, Becomes
    <3> HIDE DEF t
    <3> QED
      BY <3>1, <3>2, Zenon
  <2>4. t = [r EXCEPT !.activePlan = plan]
    OBVIOUS
  <2> HIDE DEF r, plan
  <2>5. /\ t \in SessionType /\ t.activePlan = plan
    BY <1>2, <2>2, <2>4, PlanEffect
  <2>6. Alone(r, t) /\ t.planGeneration = r.planGeneration
    BY <1>2, <2>4 DEF SessionType, Alone, SameFrames
  <2>7. Onward(r, t) /\ Sound(t)
    BY <1>2, <2>5, <2>6, AloneOnward, AloneSound
  <2> QED
    BY <1>2, <2>2, <2>3, <2>5, <2>7, StartTileReadOnward, OnwardTwice
<1> QED
  BY <1>3, <1>4

\* The callback of a frame: the deadline starts.
LEMMA WrittenEnds ==
    ASSUME NEW s, Sound(s), NEW id, NEW t, t = Written(s, id)
    PROVE  /\ Apart(s, t, id) /\ DOMAIN t.deliveries = DOMAIN s.deliveries
           /\ Sound(t) /\ PlacesKept(s, t)
           /\ SameFrames(s, t) /\ t.reads = s.reads /\ t.tasks = s.tasks /\ t.closed = s.closed
           /\ id \in DOMAIN t.deliveries => t.deliveries[id].state = "WRITTEN_AWAITING_RELEASE"
           /\ id \in DOMAIN t.deliveries /\ Ending(s, id) => Ending(t, id)
<1>1. CASE id \in DOMAIN s.deliveries /\ s.deliveries[id].state # "WRITTEN_AWAITING_RELEASE"
  <2>1. Revises(s, t, id, "WRITTEN_AWAITING_RELEASE", s.deliveries[id].retryInProgress, TRUE)
    BY <1>1, WrittenEffect DEF Sound
  <2>2. /\ Apart(s, t, id) /\ DOMAIN t.deliveries = DOMAIN s.deliveries
        /\ Sound(t) /\ PlacesKept(s, t)
        /\ SameFrames(s, t) /\ t.reads = s.reads /\ t.tasks = s.tasks /\ t.closed = s.closed
        /\ Revised(s.deliveries[id], t.deliveries[id], "WRITTEN_AWAITING_RELEASE",
                   s.deliveries[id].retryInProgress, TRUE)
    BY <2>1, RevisesApart
  <2>3. Ending(s, id) => Ending(t, id)
    BY <1>1, <2>2 DEF Ending, Revised, SameFrames
  <2> QED
    BY <2>2, <2>3 DEF Revised
<1>2. CASE ~(id \in DOMAIN s.deliveries /\ s.deliveries[id].state # "WRITTEN_AWAITING_RELEASE")
  <2>1. t = s
    BY <1>2 DEF Written
  <2> QED
    BY <1>2, <2>1 DEF Apart, Stays, PlacesKept, SameFrames
<1> QED
  BY <1>1, <1>2

LEMMA OnTileWrittenOnward ==
    ASSUME SessionInv(session), NEW answer, OnTileWritten(answer)
    PROVE  Onward(session, session')
<1> DEFINE id == task.id
           s == Written(session, task.id)
           r == Written(Ran(session), task.id)
           plan == [s.activePlan EXCEPT !.busy = FALSE, !.sentTiles = s.activePlan.sentTiles + 1]
           t == [r EXCEPT !.activePlan = plan]
<1>1. /\ task.kind = "TILE_WRITTEN" /\ task \in Task
      /\ session.tasks # <<>> /\ task = Head(session.tasks) /\ session \in SessionType
      /\ Sound(session)
  BY TaskRuns, InvSound DEF OnTileWritten, task
<1>2. /\ Apart(session, s, id) /\ PlacesKept(session, s) /\ DOMAIN s.deliveries = DOMAIN session.deliveries
      /\ id \in DOMAIN s.deliveries => s.deliveries[id].state = "WRITTEN_AWAITING_RELEASE"
      /\ id \in DOMAIN s.deliveries /\ Ending(session, id) => Ending(s, id)
  BY <1>1, WrittenEnds
<1>3. r = Ran(s) /\ s.tasks = session.tasks /\ SessionInv(s)
  BY <1>1, WrittenRan, WrittenHolds DEF SessionInv
<1>4. \/ ~BelongsToPlan(r, task.generation) /\ session' = r
      \/ /\ BelongsToPlan(r, task.generation)
         /\ session' = Pump([r EXCEPT !.activePlan.busy = FALSE,
                                      !.activePlan.sentTiles = @ + 1], answer)
  BY DEF OnTileWritten, Becomes
<1> HIDE DEF s, r
<1>5. /\ s.tasks # <<>> /\ task = Head(s.tasks) /\ s \in SessionType
      /\ r \in SessionType /\ r.activePlan = s.activePlan
      /\ r.tasks = Tail(s.tasks) /\ SameTurn(s, r) /\ SameFrames(s, r) /\ SameCredit(s, r)
      /\ r.closed = s.closed /\ r.planGeneration = s.planGeneration
  BY <1>1, <1>3, RanEffect DEF SessionInv, SamePlan
<1>6. Onward(session, r)
  <2>1. Apart(s, r, id)
    BY <1>5, TailApart
  <2>2. ASSUME NEW kind \in EndTasks \ {"TILE_WRITTEN"}, Carries(s.tasks, kind, id)
        PROVE  Carries(r.tasks, kind, id)
    <3>1. s.tasks \in Seq(Task) /\ ~(Head(s.tasks).kind = kind /\ Head(s.tasks).id = id)
      BY <1>1, <1>5, <2>2 DEF SessionType
    <3>2. Carries(Tail(s.tasks), kind, id)
      BY <1>5, <2>2, <3>1, CarriesTail
    <3> QED
      BY <1>5, <3>2
  <2>3. /\ r.deliveries = s.deliveries /\ r.frames = s.frames /\ r.reads = s.reads
    BY <1>5 DEF SameCredit, SameFrames, SameTurn
  <2>4. id \in DOMAIN s.deliveries /\ Ending(s, id) => Ending(r, id)
    BY <1>2, <2>2, <2>3 DEF Ending, EndTasks
  <2>5. PlacesKept(s, r)
    BY <1>5, TailPlaces
  <2> QED
    BY <1>2, <2>1, <2>3, <2>4, <2>5, PlacesTwice, ApartTwice, ApartOnward
<1>7. CASE ~BelongsToPlan(r, task.generation)
  BY <1>4, <1>6, <1>7
<1>8. CASE BelongsToPlan(r, task.generation)
  <2>1. s.activePlan # NoPlan /\ s.activePlan \in ActivePlan
    BY <1>5, <1>8, PlanFields DEF BelongsToPlan
  <2>2. session' = Pump(t, answer)
    <3>1. [r EXCEPT !.activePlan.busy = FALSE, !.activePlan.sentTiles = @ + 1] = t
      BY <1>5, <2>1 DEF SessionType, ActivePlan
    <3>2. session' = Pump([r EXCEPT !.activePlan.busy = FALSE,
                                    !.activePlan.sentTiles = @ + 1], answer)
      BY <1>4, <1>8
    <3> QED
      BY <3>1, <3>2, Zenon
  <2>3. plan \in ActivePlan /\ plan.readWait = s.activePlan.readWait
    <3>1. s.activePlan.sentTiles + 1 \in Nat
      BY <2>1 DEF ActivePlan
    <3> QED
      BY <2>1, <3>1 DEF ActivePlan
  <2>4. t = [Ran(s) EXCEPT !.activePlan = plan]
    BY <1>3
  <2>5. Alone(r, t)
    BY <1>5 DEF SessionType, Alone, SameFrames
  <2> HIDE DEF t, plan
  <2>6. s.turn = "queued" => plan.readWait
    BY <1>3, <2>3 DEF SessionInv, Turn
  <2>7. Progresses(s, t, plan)
    BY <1>3, <1>5, <2>1, <2>3, <2>4, <2>6, PlanChanges
  <2>8. Sound(t) /\ Account(t)
    BY <1>3, <1>5, <2>7, ProgressesSound DEF Progresses
  <2>9. Onward(r, t)
    BY <2>5, AloneOnward
  <2> QED
    BY <1>6, <2>2, <2>8, <2>9, PumpOnward, OnwardTwice
<1> QED
  BY <1>7, <1>8

--------------------------------------------------------------------------------
\* The other threads

\* What does not speak of a tile is in none of its places.
SpokenKinds == {"RELEASE", "RETRY_READ", "ACK_STATE"}

\* A task is queued, or the session closes.
LEMMA TaskQueued ==
    ASSUME NEW s \in SessionType, NEW new \in Task, NEW t, t = Submit(s, new) \/ t = Enqueue(s, new)
    PROVE  /\ t \in SessionType /\ t.deliveries = s.deliveries /\ SameFrames(s, t)
           /\ t.reads = s.reads /\ t.nextDeliveryId = s.nextDeliveryId /\ (s.closed => t.closed)
           /\ \/ t.closed
              \/ /\ t.tasks = Append(s.tasks, new)
                 /\ \A kind, id : Carries(s.tasks, kind, id) => Carries(t.tasks, kind, id)
                 /\ Carries(t.tasks, new.kind, new.id)
                 /\ \A S : new \notin S => Fewer(s.tasks, t.tasks, S)
<1>1. /\ t \in SessionType /\ SameTurn(s, t) /\ SameCredit(s, t) /\ SameFrames(s, t) /\ Ends(s, t)
      /\ t.tasks = Append(s.tasks, new) \/ t.closed
  BY SubmitEffect, EnqueueEffect
<1>2. s.tasks \in Seq(Task)
  BY DEF SessionType
<1>3. CASE t.tasks = Append(s.tasks, new)
  <2>1. /\ \A kind, id : Carries(s.tasks, kind, id) => Carries(t.tasks, kind, id)
        /\ Carries(t.tasks, new.kind, new.id)
    BY <1>2, <1>3, CarriesAppend
  <2>2. \A S : new \notin S => Fewer(s.tasks, t.tasks, S)
    BY <1>2, <1>3, FewerAppend
  <2> QED
    BY <1>1, <1>3, <2>1, <2>2 DEF SameTurn, SameCredit, Ends
<1>4. CASE t.closed
  BY <1>1, <1>4 DEF SameTurn, SameCredit
<1> QED
  BY <1>1, <1>3, <1>4

LEMMA SubmitEnds ==
    ASSUME NEW s \in SessionType, NEW new \in Task, NEW t, t = Submit(s, new) \/ t = Enqueue(s, new)
    PROVE  t.closed \/ (~s.closed /\ EndsKept(s, t))
<1>1. /\ t.deliveries = s.deliveries /\ SameFrames(s, t) /\ t.reads = s.reads /\ (s.closed => t.closed)
      /\ t.closed \/ \A kind, id : Carries(s.tasks, kind, id) => Carries(t.tasks, kind, id)
  BY TaskQueued
<1>2. ASSUME ~t.closed PROVE EndsKept(s, t)
  <2>1. \A id : Stays(s, t, id)
    BY <1>1, <1>2 DEF Stays, SameFrames
  <2> QED
    BY <1>1, <2>1, StaysEnds
<1> QED
  BY <1>1, <1>2

LEMMA SubmitOnward ==
    ASSUME NEW s \in SessionType, NEW new \in Task, new.kind \notin SpokenKinds,
           NEW t, t = Submit(s, new) \/ t = Enqueue(s, new)
    PROVE  t \in SessionType /\ Onward(s, t)
<1>1. /\ t \in SessionType /\ t.deliveries = s.deliveries /\ SameFrames(s, t)
      /\ t.reads = s.reads /\ t.nextDeliveryId = s.nextDeliveryId
      /\ t.closed \/ \A S : new \notin S => Fewer(s.tasks, t.tasks, S)
      /\ t.closed \/ (~s.closed /\ EndsKept(s, t))
  BY TaskQueued, SubmitEnds
<1>2. \A id : new \notin PlaceTasks(id)
  BY DEF PlaceTasks, SpokenKinds
<1>3. Waiting(t) = Waiting(s)
  BY <1>1 DEF Waiting, SameFrames
<1>4. ASSUME ~t.closed PROVE PlacesKept(s, t)
  <2>1. \A id : FewerPlaces(s, t, id)
    BY <1>1, <1>2, <1>3, <1>4 DEF FewerPlaces, Fewer
  <2> QED
    BY <1>1, <2>1, FewerKept
<1> QED
  BY <1>1, <1>4 DEF Onward

LEMMA SubmitAnyOnward ==
    ASSUME NEW s \in SessionType, NEW tasks \in SUBSET Task, tasks = {} \/ \E new : tasks = {new},
           \A new \in tasks : new.kind \notin SpokenKinds
    PROVE  Onward(s, SubmitAny(s, tasks))
<1>1. CASE tasks = {}
  BY <1>1, OnwardSelf DEF SubmitAny
<1>2. CASE tasks # {}
  <2>1. PICK new : tasks = {new}
    BY <1>2
  <2>2. new \in Task /\ new.kind \notin SpokenKinds /\ SubmitAny(s, tasks) = Submit(s, new)
    BY <1>2, <2>1 DEF SubmitAny
  <2> QED
    BY <2>2, SubmitOnward
<1> QED
  BY <1>1, <1>2

\* The session that has handed the head of its queue to the socket, but for the
\* callback.
LEMMA HeadGone ==
    ASSUME SessionInv(session), CommitHead,
           NEW u, u = [session EXCEPT !.writing = TRUE]
    PROVE  /\ u \in SessionType /\ u.closed = session.closed /\ u.deliveries = session.deliveries
           /\ u.nextDeliveryId = session.nextDeliveryId
           /\ u.tasks = session.tasks /\ u.frames = session.frames /\ u.reads = session.reads
           /\ session.frames # <<>> /\ session.frames \in Seq(Frame) /\ Head(session.frames) \in Frame
           /\ Waiting(session) = session.frames /\ Waiting(u) = Tail(session.frames)
           /\ session' = SubmitAny(u, CommitTask(Head(session.frames)))
<1>1. /\ session.frames # <<>> /\ ~session.writing
      /\ session' = SubmitAny(u, CommitTask(Head(session.frames)))
  BY DEF CommitHead
<1>2. session \in SessionType /\ session.frames \in Seq(Frame)
  BY DEF SessionInv, SessionType
<1>3. Head(session.frames) \in Frame
  BY <1>1, <1>2, TailFacts
<1>4. /\ u \in SessionType /\ u.closed = session.closed /\ u.deliveries = session.deliveries
      /\ u.nextDeliveryId = session.nextDeliveryId
      /\ u.tasks = session.tasks /\ u.frames = session.frames /\ u.reads = session.reads /\ u.writing
  BY <1>2 DEF SessionType
<1> QED
  BY <1>1, <1>2, <1>3, <1>4 DEF Waiting

\* Its callback says nothing of the place of the tile.
LEMMA CallbackOnward ==
    ASSUME NEW u \in SessionType, NEW frame \in Frame
    PROVE  Onward(u, SubmitAny(u, CommitTask(frame)))
<1>1. \A new \in CommitTask(frame) : new.kind \notin SpokenKinds
  BY DEF CommitTask, SpokenKinds
<1>2. /\ CommitTask(frame) \in SUBSET Task
      /\ CommitTask(frame) = {} \/ \E new : CommitTask(frame) = {new}
  BY CallbackTasks
<1> QED
  BY <1>1, <1>2, SubmitAnyOnward

LEMMA CommitHeadOnward ==
    ASSUME SessionInv(session), CommitHead
    PROVE  Onward(session, session')
<1> DEFINE s == session
           u == [s EXCEPT !.writing = TRUE]
<1>1. u = [session EXCEPT !.writing = TRUE]
  OBVIOUS
<1> HIDE DEF u
<1>2. /\ u \in SessionType /\ u.closed = s.closed /\ u.deliveries = s.deliveries
      /\ u.nextDeliveryId = s.nextDeliveryId
      /\ u.tasks = s.tasks /\ u.frames = s.frames /\ u.reads = s.reads
      /\ s.frames # <<>> /\ s.frames \in Seq(Frame) /\ Head(s.frames) \in Frame
      /\ Waiting(s) = s.frames /\ Waiting(u) = Tail(s.frames)
      /\ s' = SubmitAny(u, CommitTask(Head(s.frames)))
  BY <1>1, HeadGone
<1>3. \A id : Stays(s, u, id)
  BY <1>2 DEF Stays
<1>4. \A id : FewerPlaces(s, u, id)
  BY <1>2, FewerTail DEF FewerPlaces, Fewer
<1>5. Onward(s, u)
  BY <1>2, <1>3, <1>4, StaysOnward
<1>6. Onward(u, s')
  BY <1>2, CallbackOnward
<1> QED
  BY <1>5, <1>6, OnwardTwice

\* The tile that is handed to the socket goes to the client, which then holds it.
LEMMA CommitHeadPlaces ==
    ASSUME Inv, CommitHead, AllPlaced(session, client.held)
    PROVE  AllPlaced(session', client'.held)
<1> DEFINE s == session
           frame == Head(s.frames)
           tile == [id |-> frame.id, epoch |-> frame.epoch]
           u == [s EXCEPT !.writing = TRUE]
<1>1. u = [session EXCEPT !.writing = TRUE]
  OBVIOUS
<1> HIDE DEF u
<1>2. /\ u \in SessionType /\ u.closed = s.closed /\ u.deliveries = s.deliveries
      /\ u.nextDeliveryId = s.nextDeliveryId
      /\ u.tasks = s.tasks /\ u.frames = s.frames /\ u.reads = s.reads
      /\ s.frames # <<>> /\ s.frames \in Seq(Frame) /\ Head(s.frames) \in Frame
      /\ Waiting(s) = s.frames /\ Waiting(u) = Tail(s.frames)
      /\ s' = SubmitAny(u, CommitTask(Head(s.frames)))
  BY <1>1, HeadGone DEF Inv
<1>3. client \in ClientType /\ client.held \in SUBSET ClientTile /\ Sound(s) /\ SessionInv(s)
  BY InvSound DEF Inv, ClientType
<1>4. frame.id \in Nat /\ frame.epoch \in Nat /\ tile \in ClientTile
  BY <1>2, FrameFields DEF ClientTile, Frame
<1>5. client' = Arrives(frame)
  BY DEF CommitHead
<1>6. CASE frame.kind \notin {"TILE", "RETRY"}
  <2>1. client'.held = client.held
    BY <1>3, <1>5, <1>6 DEF Arrives, ClientType
  <2>2. Onward(s, s')
    BY <1>3, CommitHeadOnward
  <2> QED
    BY <1>3, <2>1, <2>2, OnwardEnds
<1>7. CASE frame.kind \in {"TILE", "RETRY"}
  <2> DEFINE held == client.held \cup {tile}
  <2>1. client'.held = held
    BY <1>3, <1>5, <1>7 DEF Arrives, ClientType
  <2> HIDE DEF tile
  <2>2. tile.id = frame.id
    BY DEF tile
  <2>3. ASSUME ~s.closed, NEW id \in Nat
        PROVE  Placed(u, held, id)
    <3>1. Placed(s, client.held, id)
      BY <2>3 DEF AllPlaced
    <3>2. CASE id = frame.id
      <4>1. frame \in PlaceFrames(id) /\ ~None(Waiting(s), PlaceFrames(id))
        <5>1. frame \in PlaceFrames(id)
          BY <1>2, <1>7, <3>2 DEF PlaceFrames
        <5>2. frame = s.frames[1] /\ 1 \in 1..Len(s.frames)
          BY <1>2, TailFacts
        <5> QED
          BY <1>2, <5>1, <5>2 DEF None
      <4>2. id \in DOMAIN s.deliveries /\ ~(id >= s.nextDeliveryId) /\ OnePlace(s, client.held, id)
        <5>1. id \in DOMAIN s.deliveries /\ ~(id >= s.nextDeliveryId)
          BY <3>1, <4>1 DEF Placed, NoPlace
        <5> QED
          BY <1>3, <3>1, <5>1 DEF Placed, Sound
      <4>3. /\ Once(Waiting(s), PlaceFrames(id)) /\ None(s.tasks, PlaceTasks(id))
            /\ Copies(s, client.held, id) = {}
        BY <4>1, <4>2 DEF OnePlace, AtMostOne
      <4>4. None(Waiting(u), PlaceFrames(id))
        BY <1>2, <4>1, <4>3, TailTokens
      <4>5. Copies(u, held, id) = {tile}
        BY <1>2, <2>2, <3>2, <4>3 DEF Copies
      <4>6. OnePlace(u, held, id)
        <5>1. \A seq, S : None(seq, S) => Once(seq, S)
          BY DEF None, Once
        <5> QED
          BY <1>2, <4>3, <4>4, <4>5, <5>1 DEF OnePlace, AtMostOne
      <4> QED
        BY <1>2, <4>2, <4>6 DEF Placed
    <3>3. CASE id # frame.id
      <4>1. FewerPlaces(s, u, id)
        BY <1>2, FewerTail DEF FewerPlaces, Fewer
      <4>2. Placed(u, client.held, id)
        BY <1>2, <3>1, <4>1, FewerPlaced
      <4>3. Copies(u, held, id) = Copies(u, client.held, id)
        BY <2>2, <3>3 DEF Copies
      <4>4. (\A one \in client.held : one.id # id) => (\A one \in held : one.id # id)
        BY <2>2, <3>3
      <4> HIDE DEF held
      <4> QED
        BY <4>2, <4>3, <4>4 DEF Placed, OnePlace, NoPlace
    <3> QED
      BY <3>2, <3>3
  <2>4. AllPlaced(u, held)
    BY <1>2, <2>3 DEF AllPlaced
  <2>5. held \in SUBSET ClientTile
    BY <1>3, <1>4
  <2>6. Onward(u, s')
    BY <1>2, CallbackOnward
  <2> HIDE DEF held
  <2> QED
    BY <2>1, <2>4, <2>5, <2>6, OnwardEnds
<1> QED
  BY <1>6, <1>7

\* The frame of a tile gives way to its callback.
LEMMA WriteDoneOnward ==
    ASSUME SessionInv(session), WriteDone
    PROVE  Onward(session, session')
<1> DEFINE s == session
           u == [s EXCEPT !.frames = Tail(s.frames), !.writing = FALSE]
           head == Head(s.frames)
<1>1. /\ s \in SessionType /\ s.writing /\ s.frames # <<>> /\ s.frames \in Seq(Frame)
  BY DEF SessionInv, WriteDone, Queues, FramesHold, SessionType
<1>2. session' = SubmitAny(u, WrittenTask(head))
  BY <1>1 DEF WriteDone, SessionType
<1>3. head \in Frame /\ Tail(s.frames) \in Seq(Frame)
  BY <1>1, TailFacts DEF SessionType
<1>4. /\ u \in SessionType /\ u.closed = s.closed /\ u.deliveries = s.deliveries
      /\ u.tasks = s.tasks /\ u.frames = Tail(s.frames) /\ u.reads = s.reads
      /\ u.nextDeliveryId = s.nextDeliveryId /\ Waiting(u) = Waiting(s)
  BY <1>1, <1>3 DEF SessionType, Waiting
<1>5. ASSUME NEW kind, NEW id, Carries(s.frames, kind, id), ~(head.kind = kind /\ head.id = id)
      PROVE  Carries(u.frames, kind, id)
  <2>1. Carries(Tail(s.frames), kind, id)
    BY <1>1, <1>5, CarriesTail
  <2> QED
    BY <1>4, <2>1
<1> HIDE DEF u
<1>6. CASE head.kind \notin {"TILE", "RETRY"}
  <2>1. WrittenTask(head) = {}
    BY <1>6 DEF WrittenTask
  <2>2. session' = u
    BY <1>2, <2>1 DEF SubmitAny
  <2>3. \A id : Stays(s, u, id)
    BY <1>4, <1>5, <1>6 DEF Stays
  <2>4. \A id : FewerPlaces(s, u, id)
    BY <1>4 DEF FewerPlaces, Fewer
  <2> QED
    BY <1>4, <2>2, <2>3, <2>4, StaysOnward
<1>7. ASSUME NEW new \in Task, WrittenTask(head) = {new}, new.id = head.id,
             \/ head.kind = "TILE" /\ new.kind = "TILE_WRITTEN"
             \/ head.kind = "RETRY" /\ new.kind = "RETRY_WRITTEN"
      PROVE  Onward(s, session')
  <2>1. session' = Submit(u, new)
    BY <1>2, <1>7 DEF SubmitAny
  <2>2. /\ session'.deliveries = u.deliveries /\ SameFrames(u, session')
        /\ session'.reads = u.reads /\ (u.closed => session'.closed)
        /\ session'.nextDeliveryId = u.nextDeliveryId
        /\ \/ session'.closed
           \/ /\ \A kind, id : Carries(u.tasks, kind, id) => Carries(session'.tasks, kind, id)
              /\ Carries(session'.tasks, new.kind, new.id)
              /\ \A S : new \notin S => Fewer(u.tasks, session'.tasks, S)
    BY <1>4, <2>1, TaskQueued
  <2>3. CASE session'.closed
    BY <2>3 DEF Onward
  <2>4. CASE /\ \A kind, id : Carries(u.tasks, kind, id) => Carries(session'.tasks, kind, id)
             /\ Carries(session'.tasks, new.kind, new.id)
             /\ \A S : new \notin S => Fewer(u.tasks, session'.tasks, S)
    <3>1. ASSUME NEW id PROVE Stays(s, session', id)
      <4>1. \A kind : Carries(s.tasks, kind, id) => Carries(session'.tasks, kind, id)
        BY <1>4, <2>4
      <4>2. /\ Carries(s.frames, "TILE", id) =>
                  Carries(session'.frames, "TILE", id) \/ Carries(session'.tasks, "TILE_WRITTEN", id)
            /\ Carries(s.frames, "RETRY", id) =>
                  Carries(session'.frames, "RETRY", id) \/ Carries(session'.tasks, "RETRY_WRITTEN", id)
        BY <1>5, <1>7, <2>2, <2>4 DEF SameFrames
      <4> QED
        BY <1>4, <2>2, <4>1, <4>2 DEF Stays
    <3>2. \A id : FewerPlaces(s, session', id)
      <4>1. \A id : new \notin PlaceTasks(id)
        BY <1>7 DEF PlaceTasks
      <4>2. Waiting(session') = Waiting(s)
        BY <1>4, <2>2 DEF Waiting, SameFrames
      <4> QED
        BY <1>4, <2>2, <2>4, <4>1, <4>2 DEF FewerPlaces, Fewer
    <3> QED
      BY <1>4, <2>2, <3>1, <3>2, StaysOnward
  <2> QED
    BY <2>2, <2>3, <2>4
<1>8. CASE head.kind = "TILE"
  <2> DEFINE new == [kind |-> "TILE_WRITTEN", generation |-> head.generation, id |-> head.id]
  <2>1. WrittenTask(head) = {new}
    BY <1>8 DEF WrittenTask
  <2>2. WrittenTask(head) \in SUBSET Task
    BY <1>3, CallbackTasks
  <2> QED
    BY <1>7, <1>8, <2>1, <2>2
<1>9. CASE head.kind = "RETRY"
  <2> DEFINE new == [kind |-> "RETRY_WRITTEN", id |-> head.id]
  <2>1. WrittenTask(head) = {new}
    BY <1>9 DEF WrittenTask
  <2>2. WrittenTask(head) \in SUBSET Task
    BY <1>3, CallbackTasks
  <2> QED
    BY <1>7, <1>9, <2>1, <2>2
<1> QED
  BY <1>6, <1>8, <1>9

LEMMA GrantTurnOnward ==
    ASSUME SessionInv(session), GrantTurn
    PROVE  Onward(session, session')
<1> DEFINE s == session
           t == session'
           permit == [kind |-> "PERMIT", generation |-> s.activePlan.generation]
           v == Submit(s, permit)
<1>1. /\ s \in SessionType
      /\ s.turn = "queued" /\ t = [v EXCEPT !.turn = IF s.closed \/ Len(s.tasks) >= TaskCapacity
                                                     THEN "none" ELSE "held"]
  BY DEF GrantTurn, SessionInv, SessionType
<1>2. s.activePlan # NoPlan /\ s.activePlan.generation \in Nat \ {0}
  <2>1. s.activePlan.readWait
    BY <1>1 DEF SessionInv, Turn
  <2>2. s.activePlan # NoPlan
    BY <2>1 DEF NoPlan
  <2> QED
    BY <1>1, <2>2, PlanFields
<1>3. permit \in Task /\ permit.kind \notin SpokenKinds
  BY <1>2 DEF Task, SpokenKinds
<1>4. v \in SessionType /\ Onward(s, v)
  BY <1>1, <1>3, SubmitOnward
<1> HIDE DEF permit, v
<1>5. Alone(v, t)
  BY <1>1, <1>4 DEF SessionType, Alone, SameFrames
<1>6. Onward(v, t)
  BY <1>5, AloneOnward
<1> QED
  BY <1>4, <1>6, OnwardTwice

\* The result of a second read takes its place.
LEMMA ResultPlaces ==
    ASSUME NEW s \in SessionType, NEW id, RetryRead(id) \in s.reads,
           NEW new \in Task, new.kind = "RETRY_READ", new.id = id,
           NEW t, SameFrames(s, t), t.reads = s.reads \ {RetryRead(id)}, t.tasks = Append(s.tasks, new),
           t.deliveries = s.deliveries, t.nextDeliveryId = s.nextDeliveryId
    PROVE  PlacesKept(s, t)
<1>1. s.tasks \in Seq(Task) /\ Waiting(t) = Waiting(s)
  BY DEF SessionType, Waiting, SameFrames
<1>2. ASSUME NEW held \in SUBSET ClientTile, NEW i \in Nat, Placed(s, held, i) PROVE Placed(t, held, i)
  <2>1. CASE i = id
    <3>1. RetryRead(i) \in Copies(s, held, i)
      BY <2>1 DEF Copies
    <3>2. ~(i >= t.nextDeliveryId)
      BY <1>2, <3>1 DEF Placed, NoPlace
    <3>3. ASSUME i > 0 PROVE OnePlace(t, held, i)
      <4>1. /\ Once(Waiting(s), PlaceFrames(i)) /\ None(s.tasks, PlaceTasks(i))
            /\ None(Waiting(s), PlaceFrames(i))
            /\ \A x, y \in Copies(s, held, i) : x = y
        BY <1>2, <3>1, <3>3 DEF Placed, OnePlace, AtMostOne
      <4>2. RetryRead(i) \notin ClientTile
        BY DEF RetryRead, ClientTile
      <4>3. Copies(t, held, i) = {}
        BY <2>1, <3>1, <4>1, <4>2 DEF Copies
      <4>4. Once(t.tasks, PlaceTasks(i))
        BY <1>1, <4>1, AppendTokens
      <4> QED
        BY <1>1, <4>1, <4>3, <4>4 DEF OnePlace, AtMostOne
    <3> QED
      BY <1>1, <1>2, <3>2, <3>3 DEF Placed
  <2>2. CASE i # id
    <3>1. new \notin PlaceTasks(i)
      BY <2>2 DEF PlaceTasks
    <3>2. FewerPlaces(s, t, i)
      BY <1>1, <3>1, FewerAppend DEF FewerPlaces, Fewer
    <3> QED
      BY <1>2, <3>2, FewerPlaced
  <2> QED
    BY <2>1, <2>2
<1> QED
  BY <1>2 DEF PlacesKept

\* The second read of a tile gives way to its result.
LEMMA ReadsOnward ==
    ASSUME SessionInv(session), Reads
    PROVE  Onward(session, session')
<1> DEFINE s == session
<1>1. PICK read \in s.reads :
          \/ \E bytes \in TileSizes \cup {0} : TileReadEnds(read, bytes)
          \/ TileResult(read)
          \/ \E ok \in BOOLEAN : RecoveryResult(read, ok)
  BY DEF Reads
<1>2. s \in SessionType /\ read \in Read
  BY DEF SessionInv, SessionType
<1>3. ASSUME NEW bytes, TileReadEnds(read, bytes) PROVE Onward(s, session')
  <2> DEFINE ended == [read EXCEPT !.bytes = bytes, !.complete = TRUE]
  <2>1. session' = [s EXCEPT !.reads = (s.reads \ {read}) \cup {ended}, !.turn = "none"]
    BY <1>2, <1>3 DEF TileReadEnds, SessionType
  <2> HIDE DEF ended
  <2>2. /\ session'.deliveries = s.deliveries /\ session'.tasks = s.tasks
        /\ SameFrames(s, session') /\ session'.closed = s.closed
        /\ session'.nextDeliveryId = s.nextDeliveryId
        /\ session'.reads = (s.reads \ {read}) \cup {ended}
    BY <1>2, <2>1 DEF SessionType, SameFrames
  <2>3. \A id : RetryRead(id) # read /\ RetryRead(id) # ended
    <3>1. read.kind = "TILE" /\ ended.kind = "TILE"
      BY <1>2, <1>3 DEF TileReadEnds, ended, Read
    <3> QED
      BY <3>1 DEF RetryRead
  <2>4. Alone(s, session')
    BY <2>2, <2>3 DEF Alone
  <2> QED
    BY <2>4, AloneOnward
<1> DEFINE u == [s EXCEPT !.reads = s.reads \ {read}]
<1>4. /\ u \in SessionType /\ u.closed = s.closed /\ u.deliveries = s.deliveries
      /\ u.tasks = s.tasks /\ SameFrames(s, u) /\ u.reads = s.reads \ {read}
      /\ u.nextDeliveryId = s.nextDeliveryId
  BY <1>2 DEF SessionType, SameFrames
<1>5. CASE TileResult(read)
  <2> DEFINE new == [kind |-> "TILE_READ", generation |-> read.generation, bytes |-> read.bytes]
  <2>1. session' = Enqueue(u, new) /\ read.kind = "TILE"
    BY <1>2, <1>5 DEF TileResult, SessionType
  <2>2. new \in Task /\ new.kind \notin SpokenKinds
    BY <1>2, <2>1, ReadFields DEF Task, SpokenKinds
  <2> HIDE DEF u, new
  <2>3. Onward(s, u)
    <3>1. \A id : RetryRead(id) # read
      BY <2>1 DEF RetryRead
    <3>2. Alone(s, u)
      BY <1>4, <3>1 DEF Alone
    <3> QED
      BY <3>2, AloneOnward
  <2> QED
    BY <1>4, <2>1, <2>2, <2>3, SubmitOnward, OnwardTwice
<1>6. ASSUME NEW ok \in BOOLEAN, RecoveryResult(read, ok) PROVE Onward(s, session')
  <2> DEFINE new == [kind |-> "RETRY_READ", id |-> read.id, ok |-> ok]
  <2>1. session' = Enqueue(u, new) /\ read.kind = "RETRY"
    BY <1>2, <1>6 DEF RecoveryResult, SessionType
  <2>2. new \in Task /\ new.kind = "RETRY_READ" /\ new.id = read.id /\ read.id \in Nat
    BY <1>2, <2>1, ReadFields DEF Task
  <2> HIDE DEF u, new
  <2>3. read = RetryRead(read.id)
    BY <1>2, <2>1 DEF Read, RetryRead
  <2>4. /\ session'.deliveries = u.deliveries /\ SameFrames(u, session')
        /\ session'.reads = u.reads /\ (u.closed => session'.closed)
        /\ session'.nextDeliveryId = u.nextDeliveryId
        /\ \/ session'.closed
           \/ /\ session'.tasks = Append(u.tasks, new)
              /\ \A kind, id : Carries(u.tasks, kind, id) => Carries(session'.tasks, kind, id)
              /\ Carries(session'.tasks, new.kind, new.id)
              /\ \A S : new \notin S => Fewer(u.tasks, session'.tasks, S)
    BY <1>4, <2>1, <2>2, TaskQueued, SMTT(30)
  <2>5. CASE session'.closed
    BY <2>5 DEF Onward
  <2>6. CASE ~session'.closed
    <3>1. ASSUME NEW id PROVE Stays(s, session', id)
      <4>1. RetryRead(id) \in s.reads =>
               RetryRead(id) \in session'.reads \/ Carries(session'.tasks, "RETRY_READ", id)
        BY <1>4, <2>2, <2>4, <2>6 DEF RetryRead
      <4> QED
        BY <1>4, <2>4, <2>6, <4>1 DEF Stays, SameFrames
    <3>2. EndsKept(s, session')
      BY <1>4, <2>4, <3>1, StaysEnds
    <3>3. PlacesKept(s, session')
      <4>1. /\ SameFrames(s, session') /\ session'.reads = s.reads \ {RetryRead(read.id)}
            /\ session'.tasks = Append(s.tasks, new) /\ session'.deliveries = s.deliveries
            /\ session'.nextDeliveryId = s.nextDeliveryId
        BY <1>4, <2>3, <2>4, <2>6 DEF SameFrames
      <4> QED
        BY <1>2, <2>2, <2>3, <4>1, ResultPlaces
    <3> QED
      BY <1>4, <2>4, <2>6, <3>2, <3>3 DEF Onward
  <2> QED
    BY <2>5, <2>6
<1> QED
  BY <1>1, <1>3, <1>5, <1>6

\* The deadline that fires gives way to its task.
LEMMA TimersOnward ==
    ASSUME SessionInv(session), HelloTimer \/ \E id \in DOMAIN session.deliveries : ReleaseTimer(id)
    PROVE  Onward(session, session')
<1>1. CASE HelloTimer
  <2> DEFINE s == session
             new == [kind |-> "HELLO_TIMEOUT"]
             t == [s EXCEPT !.helloTimer = FALSE]
  <2>1. new \in Task /\ new.kind \notin SpokenKinds /\ session' = Submit(t, new)
    BY <1>1 DEF Task, SpokenKinds, HelloTimer
  <2>2. t \in SessionType /\ Alone(s, t)
    BY DEF SessionInv, SessionType, Alone, SameFrames
  <2> HIDE DEF t, new
  <2>3. Onward(s, t)
    BY <2>2, AloneOnward
  <2> QED
    BY <2>1, <2>2, <2>3, SubmitOnward, OnwardTwice
<1>2. ASSUME NEW id \in DOMAIN session.deliveries, ReleaseTimer(id) PROVE Onward(session, session')
  <2> DEFINE new == [kind |-> "RELEASE_TIMEOUT", id |-> id]
             s == session
             d == [s.deliveries[id] EXCEPT !.releaseTimer = FALSE]
             t == [s EXCEPT !.deliveries[id] = d]
  <2>1. s \in SessionType /\ s.deliveries[id] \in Delivery /\ id \in Nat /\ Sound(s)
    BY DeliveryField, InvSound
  <2>2. new \in Task /\ new.kind = "RELEASE_TIMEOUT" /\ new.id = id
    BY <2>1 DEF Task
  <2>3. Revised(s.deliveries[id], d, s.deliveries[id].state, s.deliveries[id].retryInProgress, FALSE)
    BY <2>1 DEF Revised, Delivery
  <2>4. session' = Submit(t, new)
    <3>1. [s EXCEPT !.deliveries[id].releaseTimer = FALSE] = t
      BY <2>1 DEF SessionType
    <3>2. session' = Submit([s EXCEPT !.deliveries[id].releaseTimer = FALSE], new)
      BY <1>2 DEF ReleaseTimer
    <3> HIDE DEF t, new
    <3> QED
      BY <3>1, <3>2, Zenon
  <2> HIDE DEF new, d
  <2>5. Revises(s, t, id, s.deliveries[id].state, s.deliveries[id].retryInProgress, FALSE)
    BY <2>3, Zenon DEF Revises
  <2> HIDE DEF t
  <2>6. /\ t \in SessionType /\ Apart(s, t, id) /\ PlacesKept(s, t) /\ DOMAIN t.deliveries = DOMAIN s.deliveries
        /\ Revised(s.deliveries[id], t.deliveries[id], s.deliveries[id].state,
                   s.deliveries[id].retryInProgress, FALSE)
        /\ t.tasks = s.tasks /\ SameFrames(s, t) /\ t.reads = s.reads /\ t.closed = s.closed
    BY <2>1, <2>5, RevisesApart
  <2>7. /\ session'.deliveries = t.deliveries /\ SameFrames(t, session')
        /\ session'.reads = t.reads /\ (t.closed => session'.closed)
        /\ \/ session'.closed
           \/ /\ \A kind, i : Carries(t.tasks, kind, i) => Carries(session'.tasks, kind, i)
              /\ Carries(session'.tasks, new.kind, new.id)
    BY <2>2, <2>4, <2>6, TaskQueued
  <2>8. CASE session'.closed
    BY <2>8 DEF Onward
  <2>9. Onward(t, session')
    BY <2>2, <2>4, <2>6, SubmitOnward DEF SpokenKinds
  <2>10. CASE /\ \A kind, i : Carries(t.tasks, kind, i) => Carries(session'.tasks, kind, i)
             /\ Carries(session'.tasks, new.kind, new.id)
    <3>1. Apart(t, session', id)
      BY <2>7, <2>10 DEF Apart, Stays, SameFrames
    <3>2. Ending(s, id) => Ending(session', id)
      BY <2>2, <2>6, <2>7, <2>10 DEF Ending, Revised, SameFrames
    <3>3. session'.closed \/ PlacesKept(s, session')
      BY <2>6, <2>9, PlacesTwice DEF Onward
    <3> QED
      BY <2>6, <2>7, <2>8, <3>1, <3>2, <3>3, ApartTwice, ApartOnward
  <2> QED
    BY <2>7, <2>8, <2>10
<1> QED
  BY <1>1, <1>2

LEMMA TransportClosesOnward ==
    ASSUME SessionInv(session), TransportCloses
    PROVE  Onward(session, session')
<1> DEFINE s == [Closing(session) EXCEPT
                    !.helloTimer = FALSE,
                    !.deliveries = [id \in DOMAIN @ |-> [@[id] EXCEPT !.releaseTimer = FALSE]],
                    !.frames = <<>>, !.writing = FALSE]
<1>1. Closing(session).closed /\ Closing(session) \in SessionType
  BY ClosingEffect DEF SessionInv
<1>2. session' = Enqueue(s, [kind |-> "CLEANUP"])
  BY DEF TransportCloses
<1>3. s.closed
  BY <1>1 DEF SessionType
<1>4. s = [s EXCEPT !.closed = TRUE] /\ DOMAIN s = DOMAIN Closing(session) /\ "closed" \in DOMAIN s
  BY <1>1, <1>3 DEF SessionType
<1> HIDE DEF s
<1>5. session'.closed
  BY <1>2, <1>3, <1>4 DEF Enqueue, Closing
<1> QED
  BY <1>5 DEF Onward

\* A control that says nothing of a tile, or an opening that was resolved.
LEMMA ControlsOnward ==
    ASSUME Inv,
           \/ \E open \in opens, ok \in BOOLEAN : OpenResolves(open, ok)
           \/ \E ok \in BOOLEAN : ClientHello(ok)
           \/ \E image \in Images : ClientOpen(image)
           \/ ClientView
    PROVE  Onward(session, session') /\ client'.held = client.held
<1>1. /\ client.epoch \in Nat /\ client.image \in SomeImage /\ opens \subseteq Opening
      /\ session \in SessionType
  BY DEF Inv, SessionInv, ClientType
<1>2. client'.held = client.held
  BY DEF Inv, ClientType, OpenResolves, ClientHello, ClientOpen, ClientView
<1>3. ASSUME NEW new \in Task, new.kind \in {"OPENED", "HELLO", "OPEN", "VIEW"},
             session' = Submit(session, new)
      PROVE  Onward(session, session')
  BY <1>1, <1>3, SubmitOnward DEF SpokenKinds
<1>4. ASSUME NEW open \in opens, NEW ok \in BOOLEAN, OpenResolves(open, ok)
      PROVE  Onward(session, session')
  <2> DEFINE new == [kind |-> "OPENED", epoch |-> open.epoch, image |-> open.image, ok |-> ok]
  <2>1. new \in Task /\ new.kind = "OPENED"
    BY <1>1 DEF Task, Opening
  <2>2. session' = Submit(session, new)
    BY <1>4 DEF OpenResolves
  <2> HIDE DEF new
  <2> QED
    BY <1>3, <2>1, <2>2
<1>5. ASSUME NEW ok \in BOOLEAN, ClientHello(ok) PROVE Onward(session, session')
  <2> DEFINE new == [kind |-> "HELLO", ok |-> ok]
  <2>1. new \in Task /\ new.kind = "HELLO"
    BY DEF Task
  <2>2. session' = Submit(session, new)
    BY <1>5 DEF ClientHello, Says
  <2> HIDE DEF new
  <2> QED
    BY <1>3, <2>1, <2>2
<1>6. ASSUME NEW image \in Images, ClientOpen(image) PROVE Onward(session, session')
  <2> DEFINE new == [kind |-> "OPEN", epoch |-> client.epoch + 1, image |-> image]
  <2>1. new \in Task /\ new.kind = "OPEN"
    BY <1>1 DEF Task, SomeImage
  <2>2. session' = Submit(session, new)
    BY <1>6 DEF ClientOpen, Says
  <2> HIDE DEF new
  <2> QED
    BY <1>3, <2>1, <2>2
<1>7. ASSUME ClientView PROVE Onward(session, session')
  <2> DEFINE new == [kind |-> "VIEW", epoch |-> client.epoch + 1, image |-> client.image]
  <2>1. new \in Task /\ new.kind = "VIEW"
    BY <1>1 DEF Task
  <2>2. session' = Submit(session, new)
    BY <1>7 DEF ClientView, Says
  <2> HIDE DEF new
  <2> QED
    BY <1>3, <2>1, <2>2
<1> QED
  BY <1>2, <1>4, <1>5, <1>6, <1>7

\* What the client says of a tile it holds takes its place.
LEMMA SpeaksPlaces ==
    ASSUME NEW s, Sound(s), 0 < s.nextDeliveryId, NEW held \in SUBSET ClientTile, NEW tile \in held,
           AllPlaced(s, held),
           NEW new \in Task, \A i \in Nat : i > 0 /\ new \in PlaceTasks(i) => i = tile.id,
           NEW t, t = Submit(s, new)
    PROVE  AllPlaced(t, held \ {tile})
<1> DEFINE rest == held \ {tile}
<1>1. s \in SessionType /\ s.tasks \in Seq(Task) /\ s.nextDeliveryId \in Nat
  BY DEF Sound, SessionType
<1>2. /\ t.deliveries = s.deliveries /\ SameFrames(s, t) /\ (s.closed => t.closed)
      /\ t.reads = s.reads /\ t.nextDeliveryId = s.nextDeliveryId
      /\ \/ t.closed
         \/ /\ t.tasks = Append(s.tasks, new)
            /\ \A S : new \notin S => Fewer(s.tasks, t.tasks, S)
  BY <1>1, TaskQueued
<1>3. Waiting(t) = Waiting(s)
  BY <1>2 DEF Waiting, SameFrames
<1>4. ASSUME ~t.closed, NEW id \in Nat PROVE Placed(t, rest, id)
  <2>1. Placed(s, held, id)
    BY <1>2, <1>4 DEF AllPlaced
  <2>2. id \notin DOMAIN t.deliveries =>
           None(Waiting(t), PlaceFrames(id)) /\ \A one \in rest : one.id # id
    BY <1>2, <1>3, <2>1 DEF Placed
  <2>3. Copies(t, rest, id) \subseteq Copies(s, held, id)
    BY <1>2 DEF Copies
  <2>4. CASE id = 0
    BY <1>1, <1>2, <2>2, <2>4 DEF Placed
  <2>5. CASE id = tile.id /\ id > 0
    <3>1. tile \in Copies(s, held, id)
      BY <2>5 DEF Copies
    <3>2. ~(id >= s.nextDeliveryId)
      BY <2>1, <3>1 DEF Placed, NoPlace
    <3>3. /\ Once(Waiting(s), PlaceFrames(id)) /\ None(s.tasks, PlaceTasks(id))
          /\ None(Waiting(s), PlaceFrames(id))
          /\ \A x, y \in Copies(s, held, id) : x = y
      BY <2>1, <2>5, <3>1 DEF Placed, OnePlace, AtMostOne
    <3>4. Copies(t, rest, id) = {}
      <4>1. RetryRead(id) \notin ClientTile
        BY DEF RetryRead, ClientTile
      <4> QED
        BY <1>2, <2>5, <3>1, <3>3, <4>1 DEF Copies
    <3>5. Once(t.tasks, PlaceTasks(id))
      <4>1. t.tasks = Append(s.tasks, new)
        BY <1>2, <1>4
      <4>2. None(s.tasks, PlaceTasks(id)) => Once(Append(s.tasks, new), PlaceTasks(id))
        BY <1>1, AppendTokens
      <4> QED
        BY <3>3, <4>1, <4>2
    <3>6. OnePlace(t, rest, id)
      BY <1>3, <3>3, <3>4, <3>5 DEF OnePlace, AtMostOne
    <3> QED
      BY <1>2, <2>2, <3>2, <3>6 DEF Placed
  <2>6. CASE id # tile.id /\ id > 0
    <3>1. new \notin PlaceTasks(id)
      BY <2>6
    <3>2. /\ Fewer(s.tasks, t.tasks, PlaceTasks(id))
      BY <1>2, <1>4, <3>1
    <3>3. /\ OnePlace(s, held, id) => OnePlace(t, rest, id)
          /\ NoPlace(s, held, id) => NoPlace(t, rest, id)
      BY <1>3, <2>3, <3>2 DEF OnePlace, NoPlace, AtMostOne, Fewer
    <3> QED
      BY <1>2, <2>1, <2>2, <3>3 DEF Placed
  <2> QED
    BY <2>4, <2>5, <2>6
<1> QED
  BY <1>4 DEF AllPlaced

LEMMA ClientSpeaks ==
    ASSUME Inv, NEW tile \in client.held, ClientConfirms(tile) \/ ClientAsks(tile),
           AllEnd(session), AllPlaced(session, client.held)
    PROVE  AllEnd(session') /\ AllPlaced(session', client'.held)
<1>1. /\ session \in SessionType /\ Sound(session) /\ 0 < session.nextDeliveryId
      /\ client.held \in SUBSET ClientTile /\ tile.id \in Nat /\ tile.epoch \in Nat
  BY InvSound DEF Inv, SessionInv, Account, ClientType, ClientTile
<1>2. client'.held = client.held \ {tile}
  BY DEF Inv, ClientType, ClientConfirms, ClientAsks
<1>3. ASSUME NEW new \in Task, \A i \in Nat : i > 0 /\ new \in PlaceTasks(i) => i = tile.id,
             session' = Submit(session, new)
      PROVE  AllEnd(session') /\ AllPlaced(session', client'.held)
  <2>1. session'.closed \/ (~session.closed /\ EndsKept(session, session'))
    BY <1>1, <1>3, SubmitEnds
  <2>2. AllEnd(session')
    BY <2>1 DEF AllEnd, EndsKept
  <2>3. AllPlaced(session', client.held \ {tile})
    BY <1>1, <1>3, SpeaksPlaces
  <2> QED
    BY <1>2, <2>2, <2>3
<1> DEFINE release == [kind |-> "RELEASE", id |-> tile.id]
           ack == [kind |-> "ACK_STATE", epoch |-> tile.epoch, received |-> {tile.id}, missing |-> 0]
           asks == [kind |-> "ACK_STATE", epoch |-> tile.epoch, received |-> {}, missing |-> tile.id]
<1>4. /\ release \in Task /\ \A i \in Nat : i > 0 /\ release \in PlaceTasks(i) => i = tile.id
      /\ ack \in Task /\ \A i \in Nat : i > 0 /\ ack \in PlaceTasks(i) => i = tile.id
      /\ asks \in Task /\ \A i \in Nat : i > 0 /\ asks \in PlaceTasks(i) => i = tile.id
  BY <1>1 DEF Task, PlaceTasks
<1>5. \/ session' = Submit(session, release) \/ session' = Submit(session, ack)
      \/ session' = Submit(session, asks)
  BY DEF ClientConfirms, ClientAsks, Says
<1> HIDE DEF release, ack, asks
<1> QED
  BY <1>3, <1>4, <1>5

--------------------------------------------------------------------------------
\* Every step

LEMMA HandlersOnward ==
    ASSUME SessionInv(session), Handlers
    PROVE  Onward(session, session')
BY HandleHelloOnward, HandleOpenOnward, HandleViewOnward, HandleReleaseOnward, HandleAckStateOnward,
   OnSelectiveTileReadOnward, OnPlanCommittedOnward, OnTileWrittenOnward, OnReadPermitGrantedOnward,
   OnTileReadOnward, OnOpenResolvedOnward, OnSelectiveTileWrittenOnward, OnDoneCommittedOnward,
   OnTileCommittedOnward, TimeoutsOnward
   DEF Handlers

\* Reservations have an end and tiles a place, at every step.
Kept == AllEnd(session) /\ AllPlaced(session, client.held)

LEMMA KeptStep == Inv /\ Kept /\ [Next]_vars => Kept'
<1> SUFFICES ASSUME Inv, AllEnd(session), AllPlaced(session, client.held), [Next]_vars
             PROVE  AllEnd(session') /\ AllPlaced(session', client'.held)
  BY DEF Kept
<1>1. SessionInv(session) /\ client.held \in SUBSET ClientTile
  BY DEF Inv, ClientType
<1>2. ASSUME Onward(session, session'), client'.held = client.held
      PROVE  AllEnd(session') /\ AllPlaced(session', client'.held)
  BY <1>1, <1>2, OnwardEnds
<1>3. CASE Handlers
  <2>1. client' = client
    BY <1>3 DEF Handlers, HandleHello, HandleOpen, HandleView, HandleRelease, HandleAckState,
                OnSelectiveTileRead, OnPlanCommitted, OnTileWritten, OnReadPermitGranted, OnTileRead,
                OnOpenResolved, OnSelectiveTileWritten, OnDoneCommitted, OnTileCommitted,
                OnReleaseTimeout, OnHelloTimeout, Cleanup, Becomes
  <2> QED
    BY <1>1, <1>2, <1>3, <2>1, HandlersOnward
<1>4. CASE CommitHead
  <2>1. AllEnd(session')
    BY <1>1, <1>4, CommitHeadOnward, OnwardEnds
  <2> QED
    BY <1>4, <2>1, CommitHeadPlaces
<1>5. CASE WriteDone \/ TransportCloses \/ GrantTurn
  <2>1. client' = client
    BY <1>5 DEF WriteDone, TransportCloses, GrantTurn
  <2> QED
    BY <1>1, <1>2, <1>5, <2>1, WriteDoneOnward, TransportClosesOnward, GrantTurnOnward
<1>6. CASE Reads
  <2>1. client' = client
    BY <1>6 DEF Reads, TileReadEnds, TileResult, RecoveryResult
  <2> QED
    BY <1>1, <1>2, <1>6, <2>1, ReadsOnward
<1>7. CASE HelloTimer \/ \E id \in DOMAIN session.deliveries : ReleaseTimer(id)
  <2>1. client' = client
    BY <1>7 DEF HelloTimer, ReleaseTimer
  <2> QED
    BY <1>1, <1>2, <1>7, <2>1, TimersOnward
<1>8. CASE \/ \E open \in opens, ok \in BOOLEAN : OpenResolves(open, ok)
           \/ \E ok \in BOOLEAN : ClientHello(ok)
           \/ \E image \in Images : ClientOpen(image)
           \/ ClientView
  BY <1>2, <1>8, ControlsOnward
<1>9. CASE \E tile \in client.held : ClientConfirms(tile) \/ ClientAsks(tile)
  BY <1>9, ClientSpeaks
<1>10. CASE UNCHANGED vars
  BY <1>2, <1>10, OnwardSelf DEF vars
<1> QED
  BY <1>3, <1>4, <1>5, <1>6, <1>7, <1>8, <1>9, <1>10 DEF Next

LEMMA KeptInit == Init => Kept
<1> SUFFICES ASSUME Init PROVE Kept
  OBVIOUS
<1>1. /\ session.deliveries = <<>> /\ session.tasks = <<>> /\ session.frames = <<>>
      /\ session.reads = {} /\ ~session.writing /\ client.held = {}
  BY DEF Init
<1>2. AllEnd(session)
  BY <1>1 DEF AllEnd
<1>3. \A id \in Nat : NoPlace(session, client.held, id)
  BY <1>1 DEF NoPlace, None, Waiting, Copies
<1> QED
  BY <1>2, <1>3, NoPlacePlaced DEF Kept, AllPlaced

THEOREM KeptAlways == Spec => [](Inv /\ Kept)
<1>1. Inv /\ Kept /\ [Next]_vars => Kept'
  BY KeptStep
<1> QED
  BY <1>1, KeptInit, InvAlways, PTL DEF Spec

\* What carries the end of each reservation is what the property asks for.
LEMMA AllEndIsEnd ==
    ASSUME SessionInv(session), AllEnd(session)
    PROVE  ReservationsEnd
<1> DEFINE s == session
<1>1. s.tasks \in Seq(Task) /\ s.frames \in Seq(Frame)
  BY DEF SessionInv, SessionType
<1>2. /\ \A i \in 1..Len(s.tasks) : s.tasks[i] \in ToSet(s.tasks)
      /\ \A i \in 1..Len(s.frames) : s.frames[i] \in ToSet(s.frames)
  BY <1>1 DEF ToSet
<1>3. ASSUME NEW kind, NEW id, Carries(s.frames, kind, id) PROVE \E f \in ToSet(s.frames) : f.id = id
  BY <1>2, <1>3 DEF Carries
<1>4. ASSUME NEW kind, NEW id, Carries(s.tasks, kind, id) PROVE \E t \in Enqueued(kind) : t.id = id
  BY <1>2, <1>4 DEF Carries, Enqueued
<1> QED
  BY <1>3, <1>4 DEF AllEnd, Ending, RetryRead, ReservationsEnd

\* No reservation is left without what will end it: the tile on its way, its
\* RELEASE deadline, or a recovery under way. A confirmation that is lost costs
\* the session its window no longer than the deadline, whatever the retries, the
\* refusals of the executors and the plans replaced meanwhile.
THEOREM ReservationsEndAlways == Spec => []ReservationsEnd
<1>1. Inv /\ Kept => ReservationsEnd
  BY AllEndIsEnd DEF Inv, Kept
<1> QED
  BY <1>1, KeptAlways, PTL

\* The bytes of a tile the client holds are promised to no other tile: its
\* reservation outlives the plan, its replacement, the deadline that only closes
\* the session, and every retry, until the client speaks of it.
THEOREM HeldTilesReservedAlways == Spec => []HeldTilesReserved
<1>1. Inv /\ Kept => HeldTilesReserved
  <2> SUFFICES ASSUME Inv, Kept, ~session.closed, NEW tile \in client.held
               PROVE  tile.id \in DOMAIN session.deliveries
    BY DEF HeldTilesReserved
  <2>1. tile.id \in Nat
    BY DEF Inv, ClientType, ClientTile
  <2>2. Placed(session, client.held, tile.id)
    BY <2>1 DEF Kept, AllPlaced
  <2> QED
    BY <2>2 DEF Placed
<1> QED
  BY <1>1, KeptAlways, PTL

--------------------------------------------------------------------------------
\* The epochs the client uses

TaskEpoch(t) == t.kind \in {"OPEN", "OPENED", "VIEW"} => t.epoch <= MaxEpoch

\* The session knows of no epoch the client did not use.
EpochsUsed(s) ==
    /\ s.currentEpoch <= MaxEpoch
    /\ \A i \in 1..Len(s.tasks) : TaskEpoch(s.tasks[i])

\* No operator but AcceptView and the opening of an image touches them.
Steady(s, t) == t.tasks = s.tasks /\ t.currentEpoch = s.currentEpoch

LEMMA SteadyTwice ==
    ASSUME NEW s, NEW t, NEW u, Steady(s, t), Steady(t, u)
    PROVE  Steady(s, u)
BY DEF Steady

LEMMA SteadyEpochs ==
    ASSUME NEW s, NEW t, Steady(s, t), EpochsUsed(s)
    PROVE  EpochsUsed(t)
BY DEF Steady, EpochsUsed

LEMMA ClosingSteady ==
    ASSUME NEW s \in SessionType
    PROVE  Closing(s) \in SessionType /\ Steady(s, Closing(s))
BY ClosingEffect DEF OnlyEnds, SameView, Steady

LEMMA SendSteady ==
    ASSUME NEW s \in SessionType, NEW frame \in Frame
    PROVE  Send(s, frame) \in SessionType /\ Steady(s, Send(s, frame))
BY SendEffect DEF OnlyFrames, SameView, Steady

LEMMA SendErrorSteady ==
    ASSUME NEW s \in SessionType, NEW epoch \in Nat
    PROVE  SendError(s, epoch) \in SessionType /\ Steady(s, SendError(s, epoch))
BY SendErrorEffect DEF OnlyFrames, SameView, Steady

LEMMA AcknowledgeSteady ==
    ASSUME NEW s \in SessionType, NEW ids
    PROVE  Acknowledge(s, ids) \in SessionType /\ Steady(s, Acknowledge(s, ids))
BY AcknowledgeEffect DEF OnlyCredit, SameView, Steady

LEMMA InvalidatePlanSteady ==
    ASSUME NEW s \in SessionType
    PROVE  InvalidatePlan(s) \in SessionType /\ Steady(s, InvalidatePlan(s))
BY InvalidatePlanEffect DEF PlanEnds, SameView, Steady

LEMMA FailPlanSteady ==
    ASSUME NEW s \in SessionType, s.activePlan # NoPlan
    PROVE  FailPlan(s) \in SessionType /\ Steady(s, FailPlan(s))
BY FailPlanEffect DEF PlanEnds, SameView, Steady

LEMMA DismantleSteady ==
    ASSUME NEW s \in SessionType
    PROVE  Steady(s, Dismantle(s))
BY DismantleEffect DEF SameView, Steady

LEMMA PlanSteady ==
    ASSUME NEW s \in SessionType, NEW plan \in ActivePlan \cup {NoPlan}
    PROVE  /\ [s EXCEPT !.activePlan = plan] \in SessionType
           /\ Steady(s, [s EXCEPT !.activePlan = plan])
BY PlanEffect DEF SameView, Steady

LEMMA SendTileSteady ==
    ASSUME NEW s \in SessionType, s.activePlan # NoPlan, s.nextDeliveryId \notin DOMAIN s.deliveries
    PROVE  Steady(s, SendTile(Reserve(s)))
<1> DEFINE r == Reserve(s)
           t == SendTile(r)
<1>1. r = Reserve(s) /\ t = SendTile(r)
  OBVIOUS
<1> HIDE DEF r, t
<1>2. /\ r \in SessionType /\ Steady(s, r)
      /\ r.activePlan \in ActivePlan /\ r.nextDeliveryId = s.nextDeliveryId + 1
      /\ DOMAIN r.deliveries = DOMAIN s.deliveries \cup {s.nextDeliveryId}
  BY <1>1, ReserveEffect DEF SameView, Steady, Adds
<1>3. r.activePlan # NoPlan /\ r.nextDeliveryId - 1 \in DOMAIN r.deliveries
  <2>1. r.activePlan.generation \in Nat \ {0}
    BY <1>2 DEF ActivePlan
  <2>2. s.nextDeliveryId \in Nat
    BY DEF SessionType
  <2> QED
    BY <1>2, <2>1, <2>2 DEF NoPlan
<1>4. Steady(r, t)
  BY <1>1, <1>2, <1>3, SendTileOutcome DEF SameView, OnlyFrames, Steady
<1> QED
  BY <1>1, <1>2, <1>4, SteadyTwice

LEMMA TrySendPendingSteady ==
    ASSUME NEW s \in SessionType, s.activePlan # NoPlan, Account(s), NEW answer
    PROVE  Steady(s, TrySendPending(s, answer))
<1>1. s.nextDeliveryId \notin DOMAIN s.deliveries
  BY DEF Account, SessionType
<1>2. s.activePlan.epoch \in Nat
  BY PlanFields
<1>3. Steady(s, s) /\ Steady(s, FailPlan(s)) /\ Steady(s, SendTile(Reserve(s)))
  BY <1>1, FailPlanSteady, SendTileSteady DEF Steady
<1>4. Steady(s, Closing(SendError(s, s.activePlan.epoch)))
  BY <1>2, SendErrorSteady, ClosingSteady, SteadyTwice
<1> QED
  BY <1>3, <1>4 DEF TrySendPending

LEMMA StartTileReadSteady ==
    ASSUME NEW s \in SessionType, s.activePlan # NoPlan, NEW answer
    PROVE  Steady(s, StartTileRead(s, answer))
<1> DEFINE after == StartTileRead(s, answer)
<1>1. after = StartTileRead(s, answer)
  OBVIOUS
<1> HIDE DEF after
<1>2. CASE after = [s EXCEPT !.turn = "none"]
  BY <1>1, <1>2, TurnEffect DEF SameView, Steady
<1>3. ASSUME NEW t \in SessionType, ReadFails(s, t), after = FailPlan(t)
      PROVE  Steady(s, after)
  <2>1. t.activePlan # NoPlan /\ Steady(s, t)
    BY <1>3 DEF ReadFails, SameView, Steady, ActivePlan, NoPlan
  <2> QED
    BY <1>3, <2>1, FailPlanSteady, SteadyTwice
<1>4. CASE ReadStarts(s, after)
  BY <1>1, <1>4 DEF ReadStarts, SameView, Steady
<1> QED
  BY <1>1, <1>2, <1>3, <1>4, StartTileReadCases

LEMMA RequestTileReadSteady ==
    ASSUME NEW s \in SessionType, s.activePlan # NoPlan, NEW answer
    PROVE  Steady(s, RequestTileRead(s, answer))
<1>1. Steady(s, s) /\ Steady(s, FailPlan(s)) /\ Steady(s, StartTileRead(s, answer))
  BY FailPlanSteady, StartTileReadSteady DEF Steady
<1>2. Steady(s, [s EXCEPT !.turn = "queued", !.activePlan.readWait = TRUE])
  BY TurnQueuedEffect DEF SameView, Steady
<1> QED
  BY <1>1, <1>2 DEF RequestTileRead

LEMMA PumpSteady ==
    ASSUME NEW s \in SessionType, Account(s), NEW answer
    PROVE  Steady(s, Pump(s, answer))
<1>1. CASE s.activePlan = NoPlan
  BY <1>1 DEF Pump, Steady
<1>2. CASE s.activePlan # NoPlan
  <2>1. /\ Steady(s, s) /\ Steady(s, TrySendPending(s, answer))
        /\ Steady(s, RequestTileRead(s, answer))
    BY <1>2, TrySendPendingSteady, RequestTileReadSteady DEF Steady
  <2>2. Steady(s, SendDone(s))
    BY <1>2, SendDoneEffect DEF SameView, Steady
  <2> QED
    BY <2>1, <2>2 DEF Pump
<1> QED
  BY <1>1, <1>2

LEMMA RevisesSteady ==
    ASSUME NEW s \in SessionType, NEW t, NEW id, NEW state, NEW retrying, NEW timer,
           Revises(s, t, id, state, retrying, timer)
    PROVE  t \in SessionType /\ Steady(s, t)
<1>1. PICK d : /\ Revised(s.deliveries[id], d, state, retrying, timer)
               /\ t = [s EXCEPT !.deliveries[id] = d]
  BY DEF Revises
<1>2. id \in DOMAIN s.deliveries /\ d \in Delivery /\ d.reservedBytes = s.deliveries[id].reservedBytes
  BY <1>1 DEF Revises, Revised
<1> QED
  BY <1>1, <1>2, DeliveryEffect DEF SameView, Steady

LEMMA RetransmitSteady ==
    ASSUME NEW s \in SessionType, NEW epoch \in Nat, NEW id, NEW answer
    PROVE  Steady(s, RequestSelectiveRetransmit(s, epoch, id, answer))
<1> DEFINE after == RequestSelectiveRetransmit(s, epoch, id, answer)
<1>1. after = RequestSelectiveRetransmit(s, epoch, id, answer)
  OBVIOUS
<1> HIDE DEF after
<1>2. Steady(s, s) /\ Steady(s, Acknowledge(s, {id})) /\ Steady(s, SendError(Acknowledge(s, {id}), epoch))
  BY AcknowledgeSteady, SendErrorSteady, SteadyTwice DEF Steady
<1>3. ASSUME NEW t, Revises(s, t, id, "WRITTEN_AWAITING_RELEASE", FALSE, TRUE), after = SendError(t, epoch)
      PROVE  Steady(s, after)
  BY <1>3, RevisesSteady, SendErrorSteady, SteadyTwice
<1>4. ASSUME NEW t, Revises(s, t, id, "WRITTEN_AWAITING_RELEASE", TRUE, FALSE), Rereads(t, after, id)
      PROVE  Steady(s, after)
  <2>1. t \in SessionType /\ Steady(s, t)
    BY <1>4, RevisesSteady
  <2>2. Steady(t, after)
    BY <1>4, <2>1 DEF Rereads, SessionType, Steady
  <2> QED
    BY <2>1, <2>2, SteadyTwice
<1> QED
  BY <1>1, <1>2, <1>3, <1>4, RetransmitCases

--------------------------------------------------------------------------------
\* The handlers and the epochs

\* The task at the head leaves the queue.
LEMMA RunsEpochs ==
    ASSUME SessionInv(session), EpochsUsed(session), NEW kind, Running(kind)
    PROVE  /\ EpochsUsed(Ran(session)) /\ Ran(session) \in SessionType /\ Account(Ran(session))
           /\ TaskEpoch(task) /\ task \in Task /\ task.kind = kind
<1> DEFINE t == Ran(session)
<1>1. t = Ran(session) /\ session.tasks # <<>> /\ session \in SessionType /\ session.tasks \in Seq(Task)
  BY TaskRuns DEF SessionInv, SessionType
<1> HIDE DEF t
<1>2. /\ t \in SessionType /\ Account(t)
      /\ t.tasks = Tail(session.tasks) /\ t.currentEpoch = session.currentEpoch
  BY <1>1, RanEffect, RanFacts DEF SameView
<1>3. /\ Len(Tail(session.tasks)) = Len(session.tasks) - 1 /\ Len(session.tasks) \in Nat \ {0}
      /\ Head(session.tasks) = session.tasks[1]
      /\ \A i \in 1..Len(Tail(session.tasks)) : Tail(session.tasks)[i] = session.tasks[i + 1]
                                               /\ i + 1 \in 1..Len(session.tasks)
  BY <1>1, TailFacts
<1>4. EpochsUsed(t)
  BY <1>2, <1>3 DEF EpochsUsed
<1>5. TaskEpoch(task)
  BY <1>3 DEF EpochsUsed, task
<1> QED
  BY <1>1, <1>2, <1>4, <1>5, TaskRuns

LEMMA HandleHelloEpochs ==
    ASSUME SessionInv(session), EpochsUsed(session), NEW answer, HandleHello(answer)
    PROVE  EpochsUsed(session')
<1> DEFINE s == Ran(session)
           greeted == [s EXCEPT !.helloTimer = FALSE, !.state = "LISTA",
                                !.negotiatedWindowBytes = Window, !.freeWindowBytes = Window]
           welcome == Control("WELCOME", 0, NoImage)
<1>1. EpochsUsed(s) /\ s \in SessionType /\ SessionInv(s)
  BY RunsEpochs, TaskRuns DEF HandleHello, GenerationKinds
<1>2. \/ session' = s
      \/ session' = Closing(s)
      \/ session' = SendError(s, 0)
      \/ session' = Closing(SendError(s, 0))
      \/ ~s.closed /\ s.state = "ESPERA_HELLO" /\ session' = Send(greeted, welcome)
  BY DEF HandleHello, Becomes
<1> HIDE DEF s
<1>3. CASE ~s.closed /\ s.state = "ESPERA_HELLO" /\ session' = Send(greeted, welcome)
  <2>1. greeted \in SessionType /\ Steady(s, greeted)
    BY <1>1, <1>3, GreetedHolds DEF SessionInv, SessionType, Steady
  <2>2. welcome \in Frame
    BY ControlIsFrame DEF PlainKinds, SomeImage
  <2> HIDE DEF greeted, welcome
  <2> QED
    BY <1>1, <1>3, <2>1, <2>2, SendSteady, SteadyEpochs
<1> QED
  BY <1>1, <1>2, <1>3, ClosingSteady, SendErrorSteady, SteadyEpochs

LEMMA HandleOpenEpochs ==
    ASSUME SessionInv(session), EpochsUsed(session), NEW answer, HandleOpen(answer)
    PROVE  /\ EpochsUsed(session')
           /\ \A open \in opens' : open \in opens \/ open.epoch <= MaxEpoch
<1> DEFINE s == Ran(session)
<1>1. /\ EpochsUsed(s) /\ s \in SessionType /\ task.epoch \in Nat /\ task.epoch <= MaxEpoch
  BY RunsEpochs, TaskFields DEF HandleOpen, TaskEpoch
<1>2. session' = s \/ session' = Closing(s) \/ session' = SendError(s, task.epoch)
  BY DEF HandleOpen
<1>3. opens' = opens \/ opens' = opens \cup {[epoch |-> task.epoch, image |-> task.image]}
  BY DEF HandleOpen
<1> HIDE DEF s
<1> QED
  BY <1>1, <1>2, <1>3, ClosingSteady, SendErrorSteady, SteadyEpochs

LEMMA OnOpenResolvedEpochs ==
    ASSUME SessionInv(session), EpochsUsed(session), OnOpenResolved
    PROVE  EpochsUsed(session')
<1> DEFINE s == Ran(session)
           ended == InvalidatePlan(s)
           opened == [ended EXCEPT
                         !.opened = task.image, !.thumbnailCommittedForOpen = FALSE,
                         !.currentEpoch = task.epoch, !.state = "IMAGEN_ABIERTA"]
           manifest == Control("MANIFEST", task.epoch, task.image)
<1>1. /\ EpochsUsed(s) /\ s \in SessionType /\ task.epoch \in Nat /\ task.image \in SomeImage
      /\ task.epoch <= MaxEpoch
  BY RunsEpochs, TaskFields DEF OnOpenResolved, TaskEpoch
<1>2. \/ session' = s
      \/ session' = SendError(s, task.epoch)
      \/ session' = Send(opened, manifest)
  BY DEF OnOpenResolved, Becomes
<1> HIDE DEF s
<1>3. CASE session' = Send(opened, manifest)
  <2>1. EpochsUsed(ended) /\ ended \in SessionType
    BY <1>1, InvalidatePlanSteady, SteadyEpochs
  <2> HIDE DEF ended
  <2>2. opened \in SessionType /\ opened.tasks = ended.tasks /\ opened.currentEpoch = task.epoch
    BY <1>1, <2>1 DEF SessionType, States
  <2>3. manifest \in Frame
    BY <1>1, ControlIsFrame DEF PlainKinds
  <2> HIDE DEF opened, manifest
  <2>4. EpochsUsed(opened)
    BY <1>1, <2>1, <2>2 DEF EpochsUsed
  <2> QED
    BY <1>3, <2>2, <2>3, <2>4, SendSteady, SteadyEpochs
<1> QED
  BY <1>1, <1>2, <1>3, SendErrorSteady, SteadyEpochs

LEMMA HandleViewEpochs ==
    ASSUME SessionInv(session), EpochsUsed(session), NEW answer, HandleView(answer)
    PROVE  EpochsUsed(session')
<1> DEFINE s == Ran(session)
<1>1. EpochsUsed(s) /\ s \in SessionType /\ task.epoch \in Nat /\ task.epoch <= MaxEpoch
  BY RunsEpochs, TaskFields DEF HandleView, TaskEpoch
<1>2. \/ session' = s
      \/ session' = Closing(s)
      \/ session' = SendError(s, task.epoch)
      \/ session' = AcceptView(s, task.epoch)
  BY DEF HandleView, Becomes
<1> HIDE DEF s
<1>3. CASE session' = AcceptView(s, task.epoch)
  <2>1. session'.currentEpoch = task.epoch /\ session'.tasks = s.tasks
    BY <1>1, <1>3, AcceptViewEffect DEF Replans
  <2> QED
    BY <1>1, <2>1 DEF EpochsUsed
<1> QED
  BY <1>1, <1>2, <1>3, ClosingSteady, SendErrorSteady, SteadyEpochs

LEMMA HandleReleaseEpochs ==
    ASSUME SessionInv(session), EpochsUsed(session), NEW answer, HandleRelease(answer)
    PROVE  EpochsUsed(session')
<1> DEFINE s == Ran(session)
           acknowledged == Acknowledge(s, {task.id})
<1>1. EpochsUsed(s) /\ s \in SessionType /\ SessionInv(s)
  BY RunsEpochs, TaskRuns DEF HandleRelease, GenerationKinds
<1>2. \/ session' = s
      \/ session' = Closing(s)
      \/ ~s.closed /\ s.state # "ESPERA_HELLO" /\ session' = Pump(acknowledged, answer)
  BY DEF HandleRelease, Becomes
<1> HIDE DEF s
<1>3. CASE ~s.closed /\ s.state # "ESPERA_HELLO" /\ session' = Pump(acknowledged, answer)
  <2>1. acknowledged \in SessionType /\ Account(acknowledged) /\ Steady(s, acknowledged)
    BY <1>1, <1>3, AcknowledgeHolds, AcknowledgeSteady DEF SessionInv
  <2> HIDE DEF acknowledged
  <2> QED
    BY <1>1, <1>3, <2>1, PumpSteady, SteadyEpochs
<1> QED
  BY <1>1, <1>2, <1>3, ClosingSteady, SteadyEpochs

LEMMA HandleAckStateEpochs ==
    ASSUME SessionInv(session), EpochsUsed(session), NEW answer, HandleAckState(answer)
    PROVE  EpochsUsed(session')
<1> DEFINE s == Ran(session)
<1>1. EpochsUsed(s) /\ s \in SessionType /\ SessionInv(s) /\ task.epoch \in Nat
  BY RunsEpochs, TaskRuns, TaskFields DEF HandleAckState, GenerationKinds
<1>2. \/ session' = s
      \/ session' = Closing(s)
      \/ /\ ~s.closed /\ s.state # "ESPERA_HELLO"
         /\ \E received : session' = Pump(RequestSelectiveRetransmit(Acknowledge(s, received),
                                              task.epoch, task.missing, answer), answer)
  BY DEF HandleAckState, Becomes
<1> HIDE DEF s
<1>3. ASSUME ~s.closed, s.state # "ESPERA_HELLO", NEW received,
             session' = Pump(RequestSelectiveRetransmit(Acknowledge(s, received),
                                 task.epoch, task.missing, answer), answer)
      PROVE  EpochsUsed(session')
  <2> DEFINE acknowledged == Acknowledge(s, received)
             asked == RequestSelectiveRetransmit(acknowledged, task.epoch, task.missing, answer)
  <2>1. /\ SessionInv(acknowledged) /\ ~acknowledged.closed /\ acknowledged.state # "ESPERA_HELLO"
        /\ acknowledged \in SessionType /\ Steady(s, acknowledged)
    BY <1>1, <1>3, AcknowledgeHolds, AcknowledgeSteady DEF SessionInv
  <2>2. session' = Pump(asked, answer)
    BY <1>3
  <2> HIDE DEF acknowledged
  <2>3. Steady(acknowledged, asked)
    BY <1>1, <2>1, RetransmitSteady
  <2>4. SessionInv(asked)
    BY <1>1, <2>1, RetransmitHolds
  <2> HIDE DEF asked
  <2>5. Steady(asked, session')
    BY <2>2, <2>4, PumpSteady DEF SessionInv
  <2> QED
    BY <1>1, <2>1, <2>3, <2>5, SteadyEpochs
<1> QED
  BY <1>1, <1>2, <1>3, ClosingSteady, SteadyEpochs

LEMMA OnSelectiveTileReadEpochs ==
    ASSUME SessionInv(session), EpochsUsed(session), NEW answer, OnSelectiveTileRead(answer)
    PROVE  EpochsUsed(session')
<1> DEFINE s == Ran(session)
           id == task.id
<1>1. EpochsUsed(s) /\ s \in SessionType
  BY RunsEpochs DEF OnSelectiveTileRead
<1>2. \/ session' = s
      \/ /\ id \in DOMAIN s.deliveries
         /\ session' = RecoveryFailed(s, id) \/ session' = SendAgain(s, id)
  BY DEF OnSelectiveTileRead, Becomes
<1> HIDE DEF s
<1>3. CASE id \in DOMAIN s.deliveries /\ session' = RecoveryFailed(s, id)
  <2>1. s.deliveries[id].epoch \in Nat
    BY <1>1, <1>3, DeliveryField DEF Delivery
  <2>2. id \in DOMAIN s.deliveries /\ session' = RecoveryFailed(s, id)
    BY <1>3
  <2>3. PICK t : /\ Revises(s, t, id, s.deliveries[id].state, FALSE, TRUE)
                 /\ session' = SendError(t, s.deliveries[id].epoch)
    BY <1>1, <2>2, RecoveryFailedEffect
  <2>4. t \in SessionType /\ EpochsUsed(t)
    BY <1>1, <2>3, RevisesSteady, SteadyEpochs
  <2> QED
    BY <2>1, <2>3, <2>4, SendErrorSteady, SteadyEpochs
<1>4. CASE id \in DOMAIN s.deliveries /\ session' = SendAgain(s, id)
  <2> DEFINE frame == TileFrame("RETRY", s.deliveries[id].epoch, 0, id, NoImage)
  <2>1. \/ \E t : /\ Revises(s, t, id, s.deliveries[id].state, FALSE, s.deliveries[id].releaseTimer)
                  /\ session' = Closing(t)
        \/ frame \in Frame /\ session' = Queued(s, frame)
    BY <1>1, <1>4, SendAgainEffect
  <2> HIDE DEF frame
  <2>2. CASE frame \in Frame /\ session' = Queued(s, frame)
    BY <1>1, <2>2, QueuedEffect, SteadyEpochs DEF OnlyFrames, SameView, Steady
  <2>3. ASSUME NEW t, Revises(s, t, id, s.deliveries[id].state, FALSE, s.deliveries[id].releaseTimer),
               session' = Closing(t)
        PROVE  EpochsUsed(session')
    <3>1. t \in SessionType /\ Steady(s, t)
      BY <1>1, <2>3, RevisesSteady
    <3> QED
      BY <1>1, <2>3, <3>1, ClosingSteady, SteadyTwice, SteadyEpochs
  <2> QED
    BY <2>1, <2>2, <2>3
<1> QED
  BY <1>1, <1>2, <1>3, <1>4

LEMMA OnSelectiveTileWrittenEpochs ==
    ASSUME SessionInv(session), EpochsUsed(session), OnSelectiveTileWritten
    PROVE  EpochsUsed(session')
<1> DEFINE s == Ran(session)
<1>1. EpochsUsed(s) /\ s \in SessionType
  BY RunsEpochs DEF OnSelectiveTileWritten
<1>2. \/ session' = s
      \/ \E ledger : session' = [s EXCEPT !.deliveries = ledger]
  BY DEF OnSelectiveTileWritten, Becomes
<1> HIDE DEF s
<1>3. Steady(s, session')
  BY <1>1, <1>2 DEF SessionType, Steady
<1> QED
  BY <1>1, <1>3, SteadyEpochs

LEMMA OnTileCommittedEpochs ==
    ASSUME SessionInv(session), EpochsUsed(session), OnTileCommitted
    PROVE  EpochsUsed(session')
<1> DEFINE s == Ran(session)
<1>1. EpochsUsed(s) /\ s \in SessionType
  BY RunsEpochs DEF OnTileCommitted
<1>2. \/ session' = s
      \/ session' = [s EXCEPT !.deliveries[task.id].state = "COMMITTED",
                              !.thumbnailCommittedForOpen =
                                  @ \/ s.deliveries[task.id].openingThumbnail]
  BY DEF OnTileCommitted, Becomes
<1> HIDE DEF s
<1>3. Steady(s, session')
  BY <1>1, <1>2 DEF SessionType, Steady
<1> QED
  BY <1>1, <1>3, SteadyEpochs

LEMMA TimeoutsEpochs ==
    ASSUME SessionInv(session), EpochsUsed(session), OnReleaseTimeout \/ OnHelloTimeout \/ Cleanup
    PROVE  EpochsUsed(session')
<1> DEFINE s == Ran(session)
<1>1. EpochsUsed(s) /\ s \in SessionType
  BY RunsEpochs DEF OnReleaseTimeout, OnHelloTimeout, Cleanup
<1>2. session' = s \/ session' = Dismantle(s)
  BY DEF OnReleaseTimeout, OnHelloTimeout, Cleanup, Becomes
<1> HIDE DEF s
<1> QED
  BY <1>1, <1>2, DismantleSteady, SteadyEpochs

LEMMA OnDoneCommittedEpochs ==
    ASSUME SessionInv(session), EpochsUsed(session), OnDoneCommitted
    PROVE  EpochsUsed(session')
<1> DEFINE s == Ran(session)
<1>1. EpochsUsed(s) /\ s \in SessionType
  BY RunsEpochs DEF OnDoneCommitted
<1>2. session' = s \/ session' = [s EXCEPT !.activePlan = NoPlan]
  BY DEF OnDoneCommitted, Becomes
<1> HIDE DEF s
<1> QED
  BY <1>1, <1>2, PlanSteady, SteadyEpochs

LEMMA ProgressesEpochs ==
    ASSUME SessionInv(session), EpochsUsed(session), NEW kind, Running(kind),
           session.activePlan # NoPlan, NEW plan \in ActivePlan,
           plan.readWait = session.activePlan.readWait,
           NEW t, t = [Ran(session) EXCEPT !.activePlan = plan]
    PROVE  t \in SessionType /\ Account(t) /\ EpochsUsed(t) /\ t.activePlan = plan /\ plan # NoPlan
<1>1. Ran(session) \in SessionType /\ EpochsUsed(Ran(session))
  BY RunsEpochs
<1>2. session.tasks # <<>> /\ (session.turn = "queued" => plan.readWait)
  BY TaskRuns DEF SessionInv, Turn
<1>3. Account(t) /\ t.activePlan = plan /\ t \in SessionType
  BY <1>2, PlanChanges DEF Progresses
<1>4. Steady(Ran(session), t)
  BY <1>1, PlanSteady
<1>5. plan # NoPlan
  BY DEF ActivePlan, NoPlan
<1> QED
  BY <1>1, <1>3, <1>4, <1>5, SteadyEpochs

LEMMA OnPlanCommittedEpochs ==
    ASSUME SessionInv(session), EpochsUsed(session), NEW answer, OnPlanCommitted(answer)
    PROVE  EpochsUsed(session')
<1> DEFINE s == session
           plan == [s.activePlan EXCEPT !.planCommitted = TRUE]
           t == [Ran(s) EXCEPT !.activePlan = plan]
<1>1. /\ Running("PLAN_COMMITTED")
      /\ Ran(s) \in SessionType /\ Ran(s).activePlan = s.activePlan /\ EpochsUsed(Ran(s))
      /\ s.activePlan.generation = task.generation => s.activePlan # NoPlan
  BY CallbackRuns, RunsEpochs DEF OnPlanCommitted
<1>2. CASE s.activePlan.generation # task.generation
  BY <1>1, <1>2 DEF OnPlanCommitted, Becomes
<1>3. CASE s.activePlan.generation = task.generation
  <2>1. s.activePlan # NoPlan /\ s.activePlan \in ActivePlan
    BY <1>1, <1>3, PlanFields DEF SessionInv
  <2>2. session' = Pump(t, answer)
    <3>1. session' = Pump([Ran(s) EXCEPT !.activePlan.planCommitted = TRUE], answer)
      BY <1>1, <1>3 DEF OnPlanCommitted, Becomes
    <3>2. t = [Ran(s) EXCEPT !.activePlan.planCommitted = TRUE]
      BY <1>1, <2>1 DEF SessionType
    <3> HIDE DEF t
    <3> QED
      BY <3>1, <3>2, Zenon
  <2>3. plan \in ActivePlan /\ plan.readWait = s.activePlan.readWait
    BY <2>1 DEF ActivePlan
  <2>4. t = [Ran(s) EXCEPT !.activePlan = plan]
    OBVIOUS
  <2> HIDE DEF t, plan
  <2>5. t \in SessionType /\ Account(t) /\ EpochsUsed(t)
    BY <1>1, <2>1, <2>3, <2>4, ProgressesEpochs
  <2> QED
    BY <2>2, <2>5, PumpSteady, SteadyEpochs
<1> QED
  BY <1>2, <1>3

LEMMA OnTileReadEpochs ==
    ASSUME SessionInv(session), EpochsUsed(session), NEW answer, OnTileRead(answer)
    PROVE  EpochsUsed(session')
<1> DEFINE s == session
           r == Ran(s)
           idle == [s.activePlan EXCEPT !.busy = FALSE]
           t == [r EXCEPT !.activePlan = idle]
           plan == [s.activePlan EXCEPT !.busy = FALSE, !.pendingTile = task.bytes]
           u == [r EXCEPT !.activePlan = plan]
<1>1. /\ task.bytes \in Nat /\ s \in SessionType /\ r \in SessionType /\ EpochsUsed(r) /\ Account(r)
      /\ Running("TILE_READ") /\ s.tasks # <<>>
  BY RunsEpochs, TaskRuns, TaskFields DEF OnTileRead, SessionInv
<1>2. r.activePlan = s.activePlan
  BY <1>1, RanEffect DEF SamePlan
<1>3. CASE ~BelongsToPlan(r, task.generation)
  <2>1. session' = Pump(r, answer)
    BY <1>3 DEF OnTileRead, Becomes, StaleResult
  <2> HIDE DEF r
  <2> QED
    BY <1>1, <2>1, PumpSteady, SteadyEpochs
<1>4. CASE BelongsToPlan(r, task.generation)
  <2>1. s.activePlan # NoPlan /\ s.activePlan \in ActivePlan
    BY <1>1, <1>2, <1>4, PlanFields DEF BelongsToPlan
  <2>2. \/ session' = FailPlan(t)
        \/ session' = IF u.closed THEN u ELSE TrySendPending(u, answer)
    <3>1. t = [r EXCEPT !.activePlan.busy = FALSE]
      BY <1>1, <1>2, <2>1 DEF SessionType
    <3>2. u = [t EXCEPT !.activePlan.pendingTile = task.bytes]
      BY <1>1, <1>2, <2>1 DEF SessionType, ActivePlan
    <3> DEFINE v == [r EXCEPT !.activePlan.busy = FALSE]
               w == [v EXCEPT !.activePlan.pendingTile = task.bytes]
    <3>3. \/ session' = FailPlan(v)
          \/ session' = IF w.closed THEN w ELSE TrySendPending(w, answer)
      BY <1>4 DEF OnTileRead, Becomes
    <3>4. t = v
      BY <3>1
    <3> HIDE DEF t, v
    <3>5. u = w
      BY <3>2, <3>4
    <3> HIDE DEF u, w
    <3> QED
      BY <3>3, <3>4, <3>5
  <2>3. /\ idle \in ActivePlan /\ idle.readWait = s.activePlan.readWait
        /\ plan \in ActivePlan /\ plan.readWait = s.activePlan.readWait
    BY <1>1, <2>1 DEF ActivePlan
  <2>4. t = [Ran(s) EXCEPT !.activePlan = idle] /\ u = [Ran(s) EXCEPT !.activePlan = plan]
    OBVIOUS
  <2> HIDE DEF t, u, idle, plan
  <2>5. t \in SessionType /\ EpochsUsed(t) /\ t.activePlan # NoPlan
    BY <1>1, <2>1, <2>3, <2>4, ProgressesEpochs
  <2>6. u \in SessionType /\ Account(u) /\ EpochsUsed(u) /\ u.activePlan # NoPlan
    BY <1>1, <2>1, <2>3, <2>4, ProgressesEpochs
  <2> QED
    BY <2>2, <2>5, <2>6, FailPlanSteady, TrySendPendingSteady, SteadyEpochs
<1> QED
  BY <1>3, <1>4

LEMMA OnReadPermitGrantedEpochs ==
    ASSUME SessionInv(session), EpochsUsed(session), NEW answer, OnReadPermitGranted(answer)
    PROVE  EpochsUsed(session')
<1> DEFINE s == session
           r == Ran(s)
           returned == [r EXCEPT !.turn = "none"]
           plan == [s.activePlan EXCEPT !.readWait = FALSE]
           t == [r EXCEPT !.activePlan = plan]
<1>1. /\ s \in SessionType /\ s.tasks # <<>> /\ r \in SessionType /\ Account(r) /\ EpochsUsed(r)
  BY RunsEpochs, TaskRuns DEF OnReadPermitGranted, SessionInv
<1>2. r.activePlan = s.activePlan
  BY <1>1, RanEffect DEF SamePlan
<1>3. CASE r.closed \/ ~BelongsToPlan(r, task.generation)
  <2>1. session' = Pump(returned, answer)
    BY <1>3 DEF OnReadPermitGranted, Becomes, PermitReturned
  <2>2. returned = [r EXCEPT !.turn = "none"]
    OBVIOUS
  <2> HIDE DEF returned, r
  <2>3. /\ returned \in SessionType /\ SamePlan(r, returned) /\ SameCredit(r, returned)
        /\ returned.closed = r.closed /\ returned.state = r.state /\ Steady(r, returned)
    BY <1>1, <2>2 DEF SessionType, SamePlan, SameCredit, Steady
  <2>4. Account(returned)
    BY <1>1, <2>3, AccountSame
  <2> QED
    BY <1>1, <2>1, <2>3, <2>4, PumpSteady, SteadyEpochs
<1>4. CASE ~(r.closed \/ ~BelongsToPlan(r, task.generation))
  <2>1. s.activePlan # NoPlan /\ s.activePlan \in ActivePlan
    BY <1>1, <1>2, <1>4, PlanFields DEF BelongsToPlan
  <2>2. plan \in ActivePlan /\ plan # NoPlan
    BY <2>1 DEF ActivePlan, NoPlan
  <2>3. session' = StartTileRead(t, answer)
    <3>1. t = [r EXCEPT !.activePlan.readWait = FALSE]
      BY <1>1, <1>2, <2>1 DEF SessionType
    <3>2. session' = StartTileRead([r EXCEPT !.activePlan.readWait = FALSE], answer)
      BY <1>4 DEF OnReadPermitGranted, Becomes
    <3> HIDE DEF t
    <3> QED
      BY <3>1, <3>2, Zenon
  <2>4. t = [r EXCEPT !.activePlan = plan]
    OBVIOUS
  <2> HIDE DEF r, plan, t
  <2>5. t \in SessionType /\ t.activePlan = plan /\ Steady(r, t)
    BY <1>1, <2>2, <2>4, PlanEffect, PlanSteady
  <2> QED
    BY <1>1, <2>2, <2>3, <2>5, StartTileReadSteady, SteadyEpochs
<1> QED
  BY <1>3, <1>4

LEMMA OnTileWrittenEpochs ==
    ASSUME SessionInv(session), EpochsUsed(session), NEW answer, OnTileWritten(answer)
    PROVE  EpochsUsed(session')
<1> DEFINE s == Written(session, task.id)
           r == Written(Ran(session), task.id)
           plan == [s.activePlan EXCEPT !.busy = FALSE, !.sentTiles = s.activePlan.sentTiles + 1]
           t == [r EXCEPT !.activePlan = plan]
<1>1. /\ task.kind = "TILE_WRITTEN" /\ task \in Task /\ session.tasks # <<>> /\ session \in SessionType
      /\ task = Head(session.tasks)
      /\ EpochsUsed(Ran(session)) /\ Ran(session) \in SessionType
  BY RunsEpochs, TaskRuns DEF OnTileWritten, task, SessionInv
<1>2. /\ SessionInv(s) /\ s \in SessionType /\ s.tasks = session.tasks /\ r = Ran(s)
  BY <1>1, WrittenHolds, WrittenRan DEF SessionInv
<1>3. r \in SessionType /\ EpochsUsed(r) /\ r.activePlan = s.activePlan
  <2>1. r.activePlan = s.activePlan
    BY <1>1, <1>2, RanEffect DEF SamePlan
  <2>2. \/ r = Ran(session)
        \/ \E state, retrying, timer : Revises(Ran(session), r, task.id, state, retrying, timer)
    BY <1>1, WrittenEffect
  <2> HIDE DEF r
  <2>3. ASSUME NEW state, NEW retrying, NEW timer,
               Revises(Ran(session), r, task.id, state, retrying, timer)
        PROVE  r \in SessionType /\ Steady(Ran(session), r)
    BY <1>1, <2>3, RevisesSteady
  <2> QED
    BY <1>1, <2>1, <2>2, <2>3, SteadyEpochs
<1>4. CASE ~BelongsToPlan(r, task.generation)
  BY <1>3, <1>4 DEF OnTileWritten, Becomes
<1>5. CASE BelongsToPlan(r, task.generation)
  <2>1. s.activePlan # NoPlan /\ s.activePlan \in ActivePlan /\ task.generation = s.activePlan.generation
    BY <1>2, <1>3, <1>5, PlanFields DEF BelongsToPlan
  <2>2. session' = Pump(t, answer)
    <3>1. t = [r EXCEPT !.activePlan.busy = FALSE, !.activePlan.sentTiles = @ + 1]
      BY <1>3, <2>1 DEF SessionType, ActivePlan
    <3>2. session' = Pump([r EXCEPT !.activePlan.busy = FALSE, !.activePlan.sentTiles = @ + 1], answer)
      BY <1>5 DEF OnTileWritten, Becomes
    <3> HIDE DEF t
    <3> QED
      BY <3>1, <3>2, Zenon
  <2>3. plan \in ActivePlan
    <3> HIDE DEF s
    <3>1. s.activePlan.sentTiles + 1 \in Nat
      BY <2>1 DEF ActivePlan
    <3> QED
      BY <2>1, <3>1 DEF ActivePlan
  <2>4. /\ t = [r EXCEPT !.activePlan = plan]
        /\ t = [Ran(s) EXCEPT !.activePlan = [s.activePlan EXCEPT !.busy = FALSE,
                                                 !.sentTiles = s.activePlan.sentTiles + 1]]
    BY <1>2
  <2> HIDE DEF t, plan, r
  <2>5. Steady(r, t)
    BY <1>3, <2>3, <2>4, PlanSteady
  <2>6. SessionInv(t)
    <3> HIDE DEF s
    <3> QED
      BY <1>1, <1>2, <2>1, <2>4, TileSentHolds
  <2>7. Steady(t, session')
    BY <2>2, <2>6, PumpSteady DEF SessionInv
  <2> QED
    BY <1>3, <2>5, <2>7, SteadyEpochs
<1> QED
  BY <1>4, <1>5

\* What the other threads queue names no epoch that the client did not use.
LEMMA GrowsEpochs ==
    ASSUME NEW s \in SessionType, EpochsUsed(s), NEW new \in Task, TaskEpoch(new),
           NEW t, t.tasks = s.tasks \/ t.tasks = Append(s.tasks, new),
           t.currentEpoch = s.currentEpoch
    PROVE  EpochsUsed(t)
<1>1. s.tasks \in Seq(Task)
  BY DEF SessionType
<1>2. CASE t.tasks = s.tasks
  BY <1>2 DEF EpochsUsed
<1>3. CASE t.tasks = Append(s.tasks, new)
  <2> DEFINE more == Append(s.tasks, new)
  <2>1. /\ more[Len(s.tasks) + 1] = new
        /\ \A i \in 1..Len(s.tasks) : more[i] = s.tasks[i]
        /\ \A i \in 1..Len(more) : i = Len(s.tasks) + 1 \/ i \in 1..Len(s.tasks)
    BY <1>1, AppendFacts
  <2> HIDE DEF more
  <2>2. \A i \in 1..Len(more) : TaskEpoch(more[i])
    BY <2>1, Zenon DEF EpochsUsed
  <2> QED
    BY <1>3, <2>2 DEF EpochsUsed, more
<1> QED
  BY <1>2, <1>3

LEMMA SubmitEpochs ==
    ASSUME NEW s \in SessionType, EpochsUsed(s), NEW new \in Task, TaskEpoch(new),
           NEW t, t = Submit(s, new) \/ t = Enqueue(s, new)
    PROVE  EpochsUsed(t)
<1>1. /\ t.tasks = s.tasks \/ t.tasks = Append(s.tasks, new)
      /\ t.currentEpoch = s.currentEpoch
  BY SubmitEffect, EnqueueEffect DEF SameView
<1> QED
  BY <1>1, GrowsEpochs

LEMMA SubmitAnyEpochs ==
    ASSUME NEW s \in SessionType, EpochsUsed(s), NEW tasks \in SUBSET Task,
           tasks = {} \/ \E new : tasks = {new}, \A new \in tasks : TaskEpoch(new),
           NEW t, t = SubmitAny(s, tasks)
    PROVE  EpochsUsed(t) /\ t.currentEpoch = s.currentEpoch
<1>1. Gains(s, t, tasks) /\ t.currentEpoch = s.currentEpoch
  BY SubmitAnyEffect DEF SameView
<1>2. ASSUME NEW new \in tasks, t.tasks = Append(s.tasks, new) PROVE EpochsUsed(t)
  BY <1>1, <1>2, GrowsEpochs
<1>3. CASE t.tasks = s.tasks
  BY <1>1, <1>3 DEF EpochsUsed
<1> QED
  BY <1>1, <1>2, <1>3 DEF Gains

LEMMA CallbackEpochs ==
    ASSUME NEW frame \in Frame
    PROVE  \A new \in CommitTask(frame) \cup WrittenTask(frame) : TaskEpoch(new)
<1>1. CASE frame.kind = "TILE"
  BY <1>1 DEF CommitTask, WrittenTask, TaskEpoch
<1>2. CASE frame.kind = "RETRY"
  BY <1>2 DEF CommitTask, WrittenTask, TaskEpoch
<1>3. CASE frame.kind = "PLAN"
  BY <1>3 DEF CommitTask, WrittenTask, TaskEpoch
<1>4. CASE frame.kind = "DONE"
  BY <1>4 DEF CommitTask, WrittenTask, TaskEpoch
<1>5. CASE frame.kind \notin {"PLAN", "DONE", "TILE", "RETRY"}
  BY <1>5 DEF CommitTask, WrittenTask
<1> QED
  BY <1>1, <1>2, <1>3, <1>4, <1>5

LEMMA CommitHeadEpochs ==
    ASSUME SessionInv(session), EpochsUsed(session), CommitHead
    PROVE  EpochsUsed(session')
<1> DEFINE s == session
           u == [s EXCEPT !.writing = TRUE]
           frame == Head(s.frames)
<1>1. s \in SessionType /\ s.frames \in Seq(Frame) /\ s.frames # <<>> /\ session' = SubmitAny(u, CommitTask(frame))
  BY DEF SessionInv, SessionType, CommitHead
<1>2. frame \in Frame
  BY <1>1, TailFacts
<1>3. u \in SessionType /\ Steady(s, u)
  BY <1>1 DEF SessionType, Steady
<1> HIDE DEF u, frame, s
<1>4. EpochsUsed(u)
  BY <1>3, SteadyEpochs DEF s
<1>5. \A new \in CommitTask(frame) : TaskEpoch(new)
  BY <1>2, CallbackEpochs
<1> QED
  BY <1>1, <1>2, <1>3, <1>4, <1>5, CallbackTasks, SubmitAnyEpochs

LEMMA WriteDoneEpochs ==
    ASSUME SessionInv(session), EpochsUsed(session), WriteDone
    PROVE  EpochsUsed(session')
<1> DEFINE s == session
           u == [s EXCEPT !.frames = Tail(s.frames), !.writing = FALSE]
           frame == Head(s.frames)
<1>0. s \in SessionType /\ s.frames \in Seq(Frame) /\ s.frames # <<>>
  BY DEF SessionInv, SessionType, WriteDone, Queues, FramesHold
<1>1. session' = SubmitAny(u, WrittenTask(frame))
  BY <1>0 DEF SessionType, WriteDone
<1>2. frame \in Frame /\ Tail(s.frames) \in Seq(Frame)
  BY <1>0, TailFacts
<1>3. u \in SessionType /\ Steady(s, u)
  BY <1>0, <1>2 DEF SessionType, Steady
<1> HIDE DEF u, frame, s
<1>4. EpochsUsed(u)
  BY <1>3, SteadyEpochs DEF s
<1>5. \A new \in WrittenTask(frame) : TaskEpoch(new)
  BY <1>2, CallbackEpochs
<1> QED
  BY <1>1, <1>2, <1>3, <1>4, <1>5, CallbackTasks, SubmitAnyEpochs

LEMMA TransportClosesEpochs ==
    ASSUME SessionInv(session), EpochsUsed(session), TransportCloses
    PROVE  EpochsUsed(session')
<1> DEFINE new == [kind |-> "CLEANUP"]
           s == session
           ledger == [id \in DOMAIN s.deliveries |-> [s.deliveries[id] EXCEPT !.releaseTimer = FALSE]]
           u == [s EXCEPT !.closed = TRUE, !.state = "CERRADA", !.helloTimer = FALSE,
                          !.deliveries = ledger, !.frames = <<>>, !.writing = FALSE]
<1>1. new \in Task /\ TaskEpoch(new)
  BY DEF Task, TaskEpoch
<1>2. s \in SessionType /\ s.deliveries \in Ledgers
  BY DEF SessionInv, SessionType
<1>3. session' = Enqueue(u, new)
  BY <1>2 DEF TransportCloses, Closing, SessionType
<1>4. s.deliveries \in [DOMAIN s.deliveries -> Delivery]
  BY <1>2, LedgerElim
<1>5. /\ ledger \in [DOMAIN s.deliveries -> Delivery]
      /\ \A id \in DOMAIN s.deliveries : ledger[id].reservedBytes = s.deliveries[id].reservedBytes
  BY <1>4 DEF Delivery
<1> HIDE DEF new, ledger
<1>6. ledger \in Ledgers
  BY <1>2, <1>5, LedgerSameBytes
<1>7. <<>> \in Seq(Frame)
  BY EmptySeq
<1>8. u \in SessionType /\ Steady(s, u)
  BY <1>2, <1>6, <1>7 DEF SessionType, States, Steady
<1> HIDE DEF u, s
<1>9. EpochsUsed(u)
  BY <1>8, SteadyEpochs DEF s
<1> QED
  BY <1>1, <1>3, <1>8, <1>9, SubmitEpochs

LEMMA GrantTurnEpochs ==
    ASSUME SessionInv(session), EpochsUsed(session), GrantTurn
    PROVE  EpochsUsed(session')
<1> DEFINE s == session
           permit == [kind |-> "PERMIT", generation |-> s.activePlan.generation]
           v == Submit(s, permit)
           turn == IF s.closed \/ Len(s.tasks) >= TaskCapacity THEN "none" ELSE "held"
<1>1. s \in SessionType /\ s.turn = "queued" /\ session' = [v EXCEPT !.turn = turn]
  BY DEF GrantTurn, SessionInv
<1>2. s.activePlan # NoPlan
  <2>1. s.activePlan.readWait
    BY <1>1 DEF SessionInv, Turn
  <2> QED
    BY <2>1 DEF NoPlan
<1>3. permit \in Task /\ TaskEpoch(permit)
  BY <1>1, <1>2, PlanFields DEF Task, TaskEpoch
<1>4. v = Submit(s, permit)
  OBVIOUS
<1> HIDE DEF permit, v, turn
<1>5. v \in SessionType /\ EpochsUsed(v)
  BY <1>1, <1>3, <1>4, SubmitEffect, SubmitEpochs
<1>6. Steady(v, session')
  BY <1>1, <1>5 DEF SessionType, Steady
<1> QED
  BY <1>5, <1>6, SteadyEpochs

LEMMA ReadsEpochs ==
    ASSUME SessionInv(session), EpochsUsed(session), Reads
    PROVE  EpochsUsed(session')
<1> DEFINE s == session
<1>1. s \in SessionType /\ s.reads \subseteq Read
  BY DEF SessionInv, SessionType
<1>2. ASSUME NEW read \in s.reads, NEW bytes, TileReadEnds(read, bytes) PROVE Steady(s, session')
  BY <1>1, <1>2 DEF TileReadEnds, SessionType, Steady
<1>3. ASSUME NEW read \in s.reads, NEW u, u = [s EXCEPT !.reads = s.reads \ {read}]
      PROVE  u \in SessionType /\ EpochsUsed(u)
  <2>1. u \in SessionType /\ Steady(s, u)
    BY <1>1, <1>3 DEF SessionType, Steady
  <2> QED
    BY <2>1, SteadyEpochs
<1>4. ASSUME NEW read \in s.reads, TileResult(read) PROVE EpochsUsed(session')
  <2> DEFINE u == [s EXCEPT !.reads = s.reads \ {read}]
             new == [kind |-> "TILE_READ", generation |-> read.generation, bytes |-> read.bytes]
  <2>1. session' = Enqueue(u, new) /\ read.kind = "TILE"
    BY <1>1, <1>4 DEF TileResult, SessionType
  <2>2. new \in Task /\ TaskEpoch(new)
    BY <1>1, <2>1, ReadFields DEF Task, TaskEpoch
  <2>3. u \in SessionType /\ EpochsUsed(u)
    BY <1>3
  <2> HIDE DEF u, new
  <2> QED
    BY <2>1, <2>2, <2>3, SubmitEpochs
<1>5. ASSUME NEW read \in s.reads, NEW ok \in BOOLEAN, RecoveryResult(read, ok) PROVE EpochsUsed(session')
  <2> DEFINE u == [s EXCEPT !.reads = s.reads \ {read}]
             new == [kind |-> "RETRY_READ", id |-> read.id, ok |-> ok]
  <2>1. session' = Enqueue(u, new) /\ read.kind = "RETRY"
    BY <1>1, <1>5 DEF RecoveryResult, SessionType
  <2>2. new \in Task /\ TaskEpoch(new)
    BY <1>1, <2>1, ReadFields DEF Task, TaskEpoch
  <2>3. u \in SessionType /\ EpochsUsed(u)
    BY <1>3
  <2> HIDE DEF u, new
  <2> QED
    BY <2>1, <2>2, <2>3, SubmitEpochs
<1> QED
  BY <1>2, <1>4, <1>5, SteadyEpochs DEF Reads

LEMMA TimersEpochs ==
    ASSUME SessionInv(session), EpochsUsed(session),
           HelloTimer \/ \E id \in DOMAIN session.deliveries : ReleaseTimer(id)
    PROVE  EpochsUsed(session')
<1> DEFINE s == session
<1>0. s \in SessionType
  BY DEF SessionInv
<1>1. CASE HelloTimer
  <2> DEFINE new == [kind |-> "HELLO_TIMEOUT"]
             u == [s EXCEPT !.helloTimer = FALSE]
  <2>1. new \in Task /\ TaskEpoch(new) /\ session' = Submit(u, new)
    BY <1>1 DEF Task, TaskEpoch, HelloTimer
  <2>2. u \in SessionType /\ Steady(s, u)
    BY <1>0 DEF SessionType, Steady
  <2> HIDE DEF u, new
  <2>3. EpochsUsed(u)
    BY <2>2, SteadyEpochs
  <2> QED
    BY <2>1, <2>2, <2>3, SubmitEpochs
<1>2. ASSUME NEW id \in DOMAIN s.deliveries, ReleaseTimer(id) PROVE EpochsUsed(session')
  <2> DEFINE new == [kind |-> "RELEASE_TIMEOUT", id |-> id]
             d == [s.deliveries[id] EXCEPT !.releaseTimer = FALSE]
             u == [s EXCEPT !.deliveries[id] = d]
             state == s.deliveries[id].state
             retrying == s.deliveries[id].retryInProgress
             timer == FALSE
  <2>1. s.deliveries[id] \in Delivery /\ id \in Nat
    BY <1>0, DeliveryField
  <2>2. new \in Task /\ TaskEpoch(new)
    BY <2>1 DEF Task, TaskEpoch
  <2>3. Revised(s.deliveries[id], d, state, retrying, timer)
    BY <2>1 DEF Revised, Delivery
  <2>4. session' = Submit(u, new)
    <3>1. [s EXCEPT !.deliveries[id].releaseTimer = FALSE] = u
      BY <1>0 DEF SessionType
    <3>2. session' = Submit([s EXCEPT !.deliveries[id].releaseTimer = FALSE], new)
      BY <1>2 DEF ReleaseTimer
    <3> HIDE DEF u, new
    <3> QED
      BY <3>1, <3>2, Zenon
  <2> HIDE DEF new, d
  <2>5. Revises(s, u, id, state, retrying, timer)
    BY <2>3, Zenon DEF Revises
  <2> HIDE DEF u, state, retrying, timer
  <2>6. u \in SessionType /\ EpochsUsed(u)
    BY <1>0, <2>5, RevisesSteady, SteadyEpochs
  <2> QED
    BY <2>2, <2>4, <2>6, SubmitEpochs
<1> QED
  BY <1>1, <1>2

LEMMA HandlersEpochs ==
    ASSUME SessionInv(session), EpochsUsed(session), Handlers
    PROVE  /\ EpochsUsed(session')
           /\ \A open \in opens' : open \in opens \/ open.epoch <= MaxEpoch
<1>1. ASSUME NEW answer \in Answers, HandleOpen(answer)
      PROVE  /\ EpochsUsed(session')
             /\ \A open \in opens' : open \in opens \/ open.epoch <= MaxEpoch
  BY <1>1, HandleOpenEpochs
<1>2. CASE \A answer \in Answers : ~HandleOpen(answer)
  <2>1. opens' = opens
    BY <1>2 DEF Handlers, HandleHello, HandleView, HandleRelease, HandleAckState,
           OnSelectiveTileRead, OnPlanCommitted, OnTileWritten, OnReadPermitGranted, OnTileRead,
           OnOpenResolved, OnSelectiveTileWritten, OnDoneCommitted, OnTileCommitted,
           OnReleaseTimeout, OnHelloTimeout, Cleanup, Becomes
  <2>2. EpochsUsed(session')
    BY <1>2, HandleHelloEpochs, HandleViewEpochs, HandleReleaseEpochs, HandleAckStateEpochs,
       OnSelectiveTileReadEpochs, OnPlanCommittedEpochs, OnTileWrittenEpochs,
       OnReadPermitGrantedEpochs, OnTileReadEpochs, OnOpenResolvedEpochs,
       OnSelectiveTileWrittenEpochs, OnDoneCommittedEpochs, OnTileCommittedEpochs, TimeoutsEpochs
       DEF Handlers
  <2> QED
    BY <2>1, <2>2
<1> QED
  BY <1>1, <1>2

\* What the type invariant needs beside Inv: no queue knows an epoch that the
\* client did not use, and the tiles it asked for again are of the past of the
\* wire, apart from those it holds.
Used ==
    /\ EpochsUsed(session)
    /\ \A open \in opens : open.epoch <= MaxEpoch
    /\ client.epoch <= MaxEpoch
    /\ client.asked \cap client.held = {}
    /\ HeldSent(client.asked, wire.lastId)

LEMMA UsedInit == Init => Used
<1> SUFFICES ASSUME Init PROVE Used
  OBVIOUS
<1>1. /\ session.tasks = <<>> /\ session.currentEpoch = 0 /\ opens = {}
      /\ client.epoch = 0 /\ client.asked = {} /\ client.held = {}
  BY DEF Init
<1>2. EpochsUsed(session)
  BY <1>1, EmptySeq, ConstantsAssumption DEF EpochsUsed
<1> QED
  BY <1>1, <1>2, ConstantsAssumption DEF Used, HeldSent

\* A tile that arrives is none of those the client asked for again: their ids
\* are of the past of the wire.
LEMMA CommitHeadUsed ==
    ASSUME Inv, Flows(session, wire, client.held), Used, CommitHead
    PROVE  Used'
<1> DEFINE s == session
           w == wire
           after == wire'
           frame == Head(s.frames)
           tile == [id |-> frame.id, epoch |-> frame.epoch]
<1>1. /\ SessionInv(s) /\ s.frames \in Seq(Frame) /\ s.frames # <<>> /\ ~s.writing
      /\ client \in ClientType /\ client' = Arrives(frame) /\ after = Carried(frame) /\ opens' = opens
  BY DEF Inv, SessionInv, SessionType, CommitHead
<1>2. frame \in Frame /\ frame = s.frames[1] /\ 1 \in 1..Len(s.frames)
  BY <1>1, TailFacts
<1>3. w \in Wire /\ Continues(w, s.frames)
  BY <1>1 DEF Flows, Waiting
<1>4. after.lastId = IF frame.kind = "TILE" THEN frame.id ELSE w.lastId
  BY <1>1, <1>2, <1>3, CarriedSends DEF Sends
<1>5. frame.kind = "TILE" => frame.id > w.lastId
  BY <1>2, <1>3, Zenon DEF Continues, Follows
<1>6. /\ client.asked \subseteq ClientTile /\ client.asked \cap client.held = {}
      /\ HeldSent(client.asked, w.lastId)
  BY <1>1 DEF ClientType, Used
<1>7. frame.id \in Nat /\ w.lastId \in Nat
  BY <1>2, <1>3, FrameFields DEF Wire
<1>8. client'.epoch = client.epoch
  BY <1>1 DEF Arrives, ClientType
<1>9. /\ client'.asked \cap client'.held = {}
      /\ client'.asked \subseteq client.asked
  <2>1. CASE frame.kind = "TILE"
    <3>1. client'.held = client.held \cup {tile} /\ client'.asked = client.asked
      BY <1>1, <2>1 DEF Arrives, ClientType
    <3>2. tile \notin client.asked
      BY <1>5, <1>6, <1>7, <2>1 DEF HeldSent
    <3> QED
      BY <1>6, <3>1, <3>2
  <2>2. CASE frame.kind = "RETRY"
    <3>1. client'.held = client.held \cup {tile} /\ client'.asked = client.asked \ {tile}
      BY <1>1, <2>2 DEF Arrives, ClientType
    <3> QED
      BY <1>6, <3>1
  <2>3. CASE frame.kind \notin {"TILE", "RETRY"}
    <3>1. client'.held = client.held /\ client'.asked = client.asked
      BY <1>1, <2>3 DEF Arrives, ClientType
    <3> QED
      BY <1>6, <3>1
  <2> QED
    BY <2>1, <2>2, <2>3
<1>10. HeldSent(client'.asked, after.lastId)
  <2> SUFFICES ASSUME NEW asked \in client'.asked PROVE asked.id <= after.lastId
    BY DEF HeldSent
  <2>1. asked.id \in Nat /\ asked.id <= w.lastId
    BY <1>6, <1>9 DEF HeldSent, ClientTile
  <2>2. w.lastId <= after.lastId /\ after.lastId \in Nat
    BY <1>4, <1>5, <1>7
  <2> QED
    BY <1>7, <2>1, <2>2
<1>11. EpochsUsed(session')
  BY <1>1, CommitHeadEpochs DEF Used
<1> HIDE DEF s, w, after, frame, tile
<1> QED
  BY <1>1, <1>8, <1>9, <1>10, <1>11 DEF Used, after

\* The client speaks of the last epoch it used, or of a tile it holds.
LEMMA ControlsUsed ==
    ASSUME Inv, Flows(session, wire, client.held), Used,
           \/ \E open \in opens, ok \in BOOLEAN : OpenResolves(open, ok)
           \/ \E ok \in BOOLEAN : ClientHello(ok)
           \/ \E image \in Images : ClientOpen(image)
           \/ ClientView
           \/ \E tile \in client.held : ClientConfirms(tile) \/ ClientAsks(tile)
    PROVE  Used'
<1>1. /\ session \in SessionType /\ EpochsUsed(session)
      /\ client \in ClientType /\ client.epoch \in Nat /\ client.image \in SomeImage
      /\ client.held \subseteq ClientTile /\ opens \subseteq Opening
      /\ client.epoch <= MaxEpoch /\ MaxEpoch \in Nat
  BY ConstantsAssumption DEF Inv, SessionInv, ClientType, Used
<1>2. HeldSent(client.held, wire.lastId) /\ HeldSent(client.asked, wire.lastId)
  BY DEF Flows, Used
<1>3. ASSUME NEW new \in Task, TaskEpoch(new), session' = Submit(session, new),
             opens' \subseteq opens, client'.epoch <= MaxEpoch, wire' = wire,
             client'.asked = client.asked, client'.held \subseteq client.held
      PROVE  Used'
  <2>1. EpochsUsed(session')
    BY <1>1, <1>3, SubmitEpochs
  <2> QED
    BY <1>2, <1>3, <2>1 DEF Used
<1>4. ASSUME NEW open \in opens, NEW ok \in BOOLEAN, OpenResolves(open, ok) PROVE Used'
  <2> DEFINE new == [kind |-> "OPENED", epoch |-> open.epoch, image |-> open.image, ok |-> ok]
  <2>1. new \in Task /\ TaskEpoch(new)
    BY <1>1 DEF Task, TaskEpoch, Opening, Used
  <2>2. session' = Submit(session, new) /\ wire' = wire /\ client' = client /\ opens' \subseteq opens
    BY <1>4 DEF OpenResolves
  <2> HIDE DEF new
  <2> QED
    BY <1>1, <1>3, <2>1, <2>2
<1>5. ASSUME NEW ok \in BOOLEAN, ClientHello(ok) PROVE Used'
  <2> DEFINE new == [kind |-> "HELLO", ok |-> ok]
  <2>1. new \in Task /\ TaskEpoch(new)
    BY DEF Task, TaskEpoch
  <2>2. /\ session' = Submit(session, new) /\ wire' = wire /\ opens' = opens
        /\ client'.epoch = client.epoch /\ client'.asked = client.asked /\ client'.held = client.held
    BY <1>1, <1>5 DEF ClientHello, Says, ClientType
  <2> HIDE DEF new
  <2> QED
    BY <1>1, <1>3, <2>1, <2>2
<1>6. ASSUME NEW image \in Images, ClientOpen(image) PROVE Used'
  <2> DEFINE new == [kind |-> "OPEN", epoch |-> client.epoch + 1, image |-> image]
  <2>0. client.epoch + 1 <= MaxEpoch
    BY <1>1, <1>6 DEF ClientOpen
  <2>1. new \in Task /\ TaskEpoch(new)
    BY <1>1, <2>0 DEF Task, TaskEpoch, SomeImage
  <2>2. /\ session' = Submit(session, new) /\ wire' = wire /\ opens' = opens
        /\ client'.epoch = client.epoch + 1 /\ client'.asked = client.asked /\ client'.held = client.held
    BY <1>1, <1>6 DEF ClientOpen, Says, ClientType
  <2> HIDE DEF new
  <2> QED
    BY <1>3, <2>0, <2>1, <2>2
<1>7. ASSUME ClientView PROVE Used'
  <2> DEFINE new == [kind |-> "VIEW", epoch |-> client.epoch + 1, image |-> client.image]
  <2>0. client.epoch + 1 <= MaxEpoch
    BY <1>1, <1>7 DEF ClientView
  <2>1. new \in Task /\ TaskEpoch(new)
    BY <1>1, <2>0 DEF Task, TaskEpoch
  <2>2. /\ session' = Submit(session, new) /\ wire' = wire /\ opens' = opens
        /\ client'.epoch = client.epoch + 1 /\ client'.asked = client.asked /\ client'.held = client.held
    BY <1>1, <1>7 DEF ClientView, Says, ClientType
  <2> HIDE DEF new
  <2> QED
    BY <1>3, <2>0, <2>1, <2>2
<1>8. ASSUME NEW tile \in client.held, ClientConfirms(tile) PROVE Used'
  <2> DEFINE release == [kind |-> "RELEASE", id |-> tile.id]
             ack == [kind |-> "ACK_STATE", epoch |-> tile.epoch, received |-> {tile.id}, missing |-> 0]
  <2>1. tile.id \in Nat /\ tile.epoch \in Nat
    BY <1>1 DEF ClientTile
  <2>2. /\ release \in Task /\ TaskEpoch(release)
        /\ ack \in Task /\ TaskEpoch(ack)
    BY <2>1 DEF Task, TaskEpoch
  <2>3. /\ session' = Submit(session, release) \/ session' = Submit(session, ack)
        /\ wire' = wire /\ opens' = opens
    BY <1>8 DEF ClientConfirms, Says
  <2>4. /\ client'.epoch = client.epoch /\ client'.asked = client.asked
        /\ client'.held \subseteq client.held
    BY <1>1, <1>8 DEF ClientConfirms, ClientType
  <2> HIDE DEF release, ack
  <2> QED
    BY <1>1, <1>3, <2>2, <2>3, <2>4
<1>9. ASSUME NEW tile \in client.held, ClientAsks(tile) PROVE Used'
  <2> DEFINE ask == [kind |-> "ACK_STATE", epoch |-> tile.epoch, received |-> {}, missing |-> tile.id]
  <2>1. tile.id \in Nat /\ tile.epoch \in Nat
    BY <1>1 DEF ClientTile
  <2>2. ask \in Task /\ TaskEpoch(ask)
    BY <2>1 DEF Task, TaskEpoch
  <2>3. session' = Submit(session, ask) /\ wire' = wire /\ opens' = opens
    BY <1>9 DEF ClientAsks, Says
  <2>4. /\ client'.epoch = client.epoch /\ client'.asked = client.asked \cup {tile}
        /\ client'.held = client.held \ {tile}
    BY <1>1, <1>9 DEF ClientAsks, ClientType
  <2> HIDE DEF ask
  <2>5. EpochsUsed(session')
    BY <1>1, <2>2, <2>3, SubmitEpochs
  <2>6. client'.asked \cap client'.held = {} /\ HeldSent(client'.asked, wire'.lastId)
    BY <1>2, <2>3, <2>4 DEF HeldSent, Used
  <2> QED
    BY <1>1, <2>3, <2>4, <2>5, <2>6 DEF Used
<1> QED
  BY <1>4, <1>5, <1>6, <1>7, <1>8, <1>9

LEMMA UsedStep == Inv /\ FlowsInv /\ Used /\ [Next]_vars => Used'
<1> SUFFICES ASSUME Inv, Flows(session, wire, client.held), Used, [Next]_vars
             PROVE  Used'
  BY DEF FlowsInv
<1>1. SessionInv(session) /\ EpochsUsed(session)
  BY DEF Inv, Used
<1>2. ASSUME EpochsUsed(session'), \A open \in opens' : open \in opens \/ open.epoch <= MaxEpoch,
             client' = client, wire' = wire
      PROVE  Used'
  BY <1>2 DEF Used
<1>3. CASE Handlers
  <2>1. client' = client /\ wire' = wire
    BY <1>1, <1>3, HandlersFlow
  <2> QED
    BY <1>1, <1>2, <1>3, <2>1, HandlersEpochs
<1>4. CASE CommitHead
  BY <1>4, CommitHeadUsed
<1>5. CASE WriteDone
  <2>1. wire' = wire /\ client' = client /\ opens' = opens
    BY <1>5 DEF WriteDone
  <2> QED
    BY <1>1, <1>2, <1>5, <2>1, WriteDoneEpochs
<1>6. CASE TransportCloses
  <2>1. wire' = wire /\ client' = client /\ opens' = opens
    BY <1>6 DEF TransportCloses
  <2> QED
    BY <1>1, <1>2, <1>6, <2>1, TransportClosesEpochs
<1>7. CASE GrantTurn
  <2>1. wire' = wire /\ client' = client /\ opens' = opens
    BY <1>7 DEF GrantTurn
  <2> QED
    BY <1>1, <1>2, <1>7, <2>1, GrantTurnEpochs
<1>8. CASE Reads
  <2>1. wire' = wire /\ client' = client /\ opens' = opens
    BY <1>8 DEF Reads, TileReadEnds, TileResult, RecoveryResult
  <2> QED
    BY <1>1, <1>2, <1>8, <2>1, ReadsEpochs
<1>9. CASE HelloTimer \/ \E id \in DOMAIN session.deliveries : ReleaseTimer(id)
  <2>1. wire' = wire /\ client' = client /\ opens' = opens
    BY <1>9 DEF HelloTimer, ReleaseTimer
  <2> QED
    BY <1>1, <1>2, <1>9, <2>1, TimersEpochs
<1>10. CASE \/ \E open \in opens, ok \in BOOLEAN : OpenResolves(open, ok)
            \/ \E ok \in BOOLEAN : ClientHello(ok)
            \/ \E image \in Images : ClientOpen(image)
            \/ ClientView
            \/ \E tile \in client.held : ClientConfirms(tile) \/ ClientAsks(tile)
  BY <1>10, ControlsUsed
<1>11. CASE UNCHANGED vars
  BY <1>11 DEF vars, Used
<1> QED
  BY <1>3, <1>4, <1>5, <1>6, <1>7, <1>8, <1>9, <1>10, <1>11 DEF Next

\* The states a session may be in, for every window, size of tile, bound of a
\* queue and number of epochs: its window is never below zero, its cursor never
\* past its plan, its queues and its ledger never past their bounds, and no tile
\* is both shown and asked for again.
THEOREM TypeOKAlways == Spec => []TypeOK
<1>1. Inv /\ Used => TypeOK
  <2> SUFFICES ASSUME Inv, Used PROVE TypeOK
    OBVIOUS
  <2>1. /\ session \in SessionType /\ Account(session) /\ Queues(session) /\ Stages(session)
        /\ session.currentEpoch <= MaxEpoch
    BY DEF Inv, SessionInv, Used, EpochsUsed
  <2>2. /\ session.state \in States /\ session.closed \in BOOLEAN /\ session.opened \in SomeImage
        /\ session.turn \in {"none", "queued", "held"} /\ session.currentEpoch \in 0..MaxEpoch
    BY <2>1, ConstantsAssumption DEF SessionType
  <2>3. session.freeWindowBytes \in 0..session.negotiatedWindowBytes
    <3>1. /\ session.negotiatedWindowBytes \in Nat /\ session.freeWindowBytes \in Int
          /\ ReservedBytes(session.deliveries) \in Nat
      BY <2>1, LedgerElim DEF SessionType
    <3> QED
      BY <2>1, <3>1 DEF Account, CreditHolds, Gone
  <2>4. /\ session.activePlan.next \in 0..session.activePlan.tiles
        /\ session.activePlan.sentTiles \in 0..session.activePlan.next
    <3>1. CASE session.activePlan = NoPlan
      BY <3>1 DEF NoPlan
    <3>2. CASE session.activePlan # NoPlan
      <4>1. /\ session.activePlan.next \in Nat /\ session.activePlan.tiles \in Nat
            /\ session.activePlan.sentTiles \in Nat /\ Underway(session.activePlan) \in Nat
        BY <2>1, <3>2, PlanFields DEF Underway
      <4>2. /\ session.activePlan.next <= session.activePlan.tiles
            /\ session.activePlan.sentTiles + Underway(session.activePlan) <= session.activePlan.next
        BY <2>1, <3>2 DEF Stages, Stage, Progress
      <4> QED
        BY <4>1, <4>2
    <3> QED
      BY <3>1, <3>2
  <2>5. DOMAIN session.deliveries \subseteq 1..MaxDeliveryId
    <3>1. DOMAIN session.deliveries \subseteq Nat /\ session.nextDeliveryId \in Nat
      BY <2>1, LedgerElim DEF SessionType
    <3> QED
      BY <2>1, <3>1, ConstantsAssumption DEF Account
  <2>6. Cardinality(DOMAIN session.deliveries) <= MaxInFlight
    BY <2>1 DEF Account
  <2>7. \A i \in 1..Len(session.tasks) : session.tasks[i].kind \in TaskKinds
    <3>1. \A i \in 1..Len(session.tasks) : session.tasks[i] \in Task
      BY <2>1 DEF SessionType
    <3> QED
      BY <3>1, TaskFields
  <2>8. Len(session.tasks) <= TaskCapacity /\ Len(session.frames) <= FrameCapacity
    BY <2>1 DEF Queues, TasksHold, FramesHold
  <2>9. transport \in {"open", "closed"} /\ client.asked \cap client.held = {}
    BY DEF Inv, Used
  <2> QED
    BY <2>2, <2>3, <2>4, <2>5, <2>6, <2>7, <2>8, <2>9 DEF TypeOK, States, SomeImage
<1>2. Init => FlowsInv /\ Used
  BY FlowsInit, UsedInit
<1>3. Inv /\ FlowsInv /\ Used /\ [Next]_vars => FlowsInv' /\ Used'
  BY FlowsStep, UsedStep
<1> QED
  BY <1>1, <1>2, <1>3, InvAlways, PTL DEF Spec

================================================================================
