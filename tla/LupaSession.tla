------------------------------- MODULE LupaSession -------------------------------
(***************************************************************************)
(* One LUPA session (gt.lupa.session.LupaSession) with what surrounds it:  *)
(* its SerialExecutor, the write queue of its WebSocket, its turn in the   *)
(* DRR admission, the disk and metadata executors, its timers, and a       *)
(* client that follows the protocol.                                       *)
(*                                                                         *)
(* Handlers run one at a time from the serial queue.  Each is an action;   *)
(* the methods a handler calls are operators on the record "session", so   *)
(* that a chain of calls reads as it does in the code: Acknowledge, then   *)
(* Pump, then TrySendPending.  The other threads (I/O, disk, metadata,     *)
(* timers) interleave between handlers; all they do to the session is to   *)
(* enqueue a task, to set "closed" and, at the end, to cancel the timers.  *)
(*                                                                         *)
(* What the shared executors and budgets answer to a handler that asks     *)
(* them for something is chosen by the environment, from Answers.          *)
(*                                                                         *)
(* Left out: malformed controls (policyClose, as HandleHello does), the    *)
(* encoding failures, and the diagnostic queue of the no-cancellation      *)
(* experiment.  The races between a handler and the close that runs at     *)
(* the same time on the I/O thread are the subject of SessionResources.    *)
(***************************************************************************)
EXTENDS Integers, Sequences, FiniteSets, SequencesExt, Functions

CONSTANTS
    Images,         \* published images
    NoImage,        \* opened == null
    Window,         \* windowBytes negotiated by HELLO
    TileSizes,      \* sizes a tile envelope can have
    PlanTiles,      \* tiles of a plan, besides the opening thumbnail
    MaxInFlight,    \* MAX_IN_FLIGHT
    MaxRetries,     \* MAX_SELECTIVE_RETRIES
    TaskCapacity,   \* capacity of the SerialExecutor, the active task included
    FrameCapacity,  \* maxQueuedFrames of the write queue
    MaxDeliveryId,  \* last id of the DeliveryIdSequence
    Answers,        \* what executors and budgets may answer
    Confirmations,  \* "RELEASE", "ACK_STATE": how the client confirms a tile
    MaxEpoch,       \* bound: epochs the client uses
    MaxHellos,      \* bound: HELLOs the client sends
    MaxAsks         \* bound: tiles the client asks to be sent again

ASSUME ConstantsAssumption ==
    /\ NoImage \notin Images
    /\ Window \in Nat \ {0}
    /\ TileSizes \subseteq Nat \ {0}
    /\ PlanTiles \in Nat \ {0}
    /\ MaxInFlight \in Nat \ {0}
    /\ MaxRetries \in Nat
    /\ TaskCapacity \in Nat \ {0}
    /\ FrameCapacity \in Nat \ {0}
    /\ MaxDeliveryId \in Nat
    /\ Answers \subseteq {"granted", "queued", "turnsFull", "diskFull",
                          "buffersFull", "metadataFull", "planTooLarge", "noSession"}
    /\ Confirmations \subseteq {"RELEASE", "ACK_STATE"}
    /\ MaxEpoch \in Nat /\ MaxHellos \in Nat /\ MaxAsks \in Nat

VARIABLES
    session,    \* the fields of LupaSession, its queues, its turn and its reads
    opens,      \* OPENs the metadata executor is resolving
    transport,  \* "open", or "closed": onClosed has run
    client,     \* the client's epoch and image, and the tiles it holds or asked for again
    wire        \* history: what the socket carried (the variables of ViewStream)

vars == <<session, opens, transport, client, wire>>

\* activePlan == null, and the shape of a plan.  "next" is the cursor, and
\* "pendingTile" the size of the tile read and not sent (0 is null).
NoPlan ==
    [generation |-> 0, epoch |-> 0, thumbnail |-> FALSE, tiles |-> 0, next |-> 0,
     planCommitted |-> FALSE, doneQueued |-> FALSE, busy |-> FALSE, sentTiles |-> 0,
     pendingTile |-> 0, readWait |-> FALSE]

\* onOpen has run: the HELLO timer is armed.
Init ==
    /\ session =
        [state |-> "ESPERA_HELLO", closed |-> FALSE, helloTimer |-> TRUE,
         currentEpoch |-> 0, opened |-> NoImage, thumbnailCommittedForOpen |-> FALSE,
         planGeneration |-> 0, negotiatedWindowBytes |-> 0, freeWindowBytes |-> 0,
         activePlan |-> NoPlan, deliveries |-> <<>>, nextDeliveryId |-> 1,
         tasks |-> <<>>, frames |-> <<>>, writing |-> FALSE,
         turn |-> "none", reads |-> {}]
    /\ opens = {}
    /\ transport = "open"
    /\ client = [epoch |-> 0, image |-> NoImage, held |-> {}, asked |-> {},
                 hellos |-> 0, asks |-> 0, thumbnails |-> {}]
    /\ wire = [epoch |-> 0, size |-> 0, sent |-> 0, streaming |-> FALSE, lastId |-> 0,
               last |-> [kind |-> "NONE", epoch |-> 0, count |-> 0]]

--------------------------------------------------------------------------------
\* The serial queue and the write queue

Closing(s) == [s EXCEPT !.closed = TRUE, !.state = "CERRADA"]

\* serial.execute: a full queue closes the session.
Enqueue(s, task) ==
    IF Len(s.tasks) < TaskCapacity THEN [s EXCEPT !.tasks = Append(@, task)] ELSE Closing(s)

\* submitSerial: dropped once the session is closed.
Submit(s, task) == IF s.closed THEN s ELSE Enqueue(s, task)

\* A frame: a control outside a plan, a control of a plan (count is the number
\* of its tiles in PLAN, of those sent in DONE), or a tile.  The image is that
\* of a MANIFEST or of an opening thumbnail.
Control(kind, epoch, image) ==
    [kind |-> kind, epoch |-> epoch, generation |-> 0, id |-> 0, count |-> 0, image |-> image]

PlanControl(kind, plan, count) ==
    [kind |-> kind, epoch |-> plan.epoch, generation |-> plan.generation, id |-> 0,
     count |-> count, image |-> NoImage]

TileFrame(kind, epoch, generation, id, image) ==
    [kind |-> kind, epoch |-> epoch, generation |-> generation, id |-> id, count |-> 0,
     image |-> image]

\* The sender refuses when the queue is full, and once a close was asked for.
Refuses(s) == s.closed \/ Len(s.frames) >= FrameCapacity

Queued(s, frame) == [s EXCEPT !.frames = Append(@, frame)]

\* sendJson: nothing is sent once closed, and a full queue closes the session.
Send(s, frame) ==
    IF s.closed THEN s
    ELSE IF Refuses(s) THEN Closing(s)
    ELSE Queued(s, frame)

SendError(s, epoch) == Send(s, Control("ERROR", epoch, NoImage))

--------------------------------------------------------------------------------
\* Credits

\* The bytes reserved, one member for each byte of each delivery.
Bytes(deliveries) == UNION {{id} \X (1..deliveries[id].reservedBytes) : id \in DOMAIN deliveries}
ReservedBytes(deliveries) == Cardinality(Bytes(deliveries))

CreditHolds(s) ==
    /\ s.freeWindowBytes >= 0
    /\ s.freeWindowBytes + ReservedBytes(s.deliveries) = s.negotiatedWindowBytes

EnforceCreditInvariant(s) == IF CreditHolds(s) THEN s ELSE Closing(s)

\* The reservations of ids leave the ledger and their bytes return to the window.
Refund(s, ids) ==
    [s EXCEPT !.deliveries = Restrict(@, DOMAIN @ \ ids),
              !.freeWindowBytes = @ + ReservedBytes(Restrict(s.deliveries, ids))]

\* Mutant: the credit comes back but the reservation stays.
AcknowledgeTwice(s, ids) ==
    LET known == ids \cap DOMAIN s.deliveries IN
    [s EXCEPT !.freeWindowBytes = @ + ReservedBytes(Restrict(s.deliveries, known))]

\* acknowledgeDelivery, for each of ids; an unknown one is ignored.
Acknowledge(s, ids) ==
    EnforceCreditInvariant(Refund(s, ids \cap DOMAIN s.deliveries))

--------------------------------------------------------------------------------
\* The end of a plan

\* Mutant: a frame is cancelled although the socket has it.
CancellableAnyTime(s, frame) == frame \in ToSet(s.frames)

\* cancelIfNotCommitted: only the head of the queue can be committed.
Cancellable(s, frame) == \E i \in (IF s.writing THEN 2 ELSE 1)..Len(s.frames) : s.frames[i] = frame

\* The PLAN, the DONE and the tiles of a plan; of the tiles, those still
\* reserved.
Uncommitted(s, generation) ==
    {f \in ToSet(s.frames) :
        /\ f.generation = generation /\ f.kind # "RETRY"
        /\ f.kind = "TILE" => f.id \in DOMAIN s.deliveries
        /\ Cancellable(s, f)}

\* The frames that are not cancelled, in their order.
Without(frames, cancelled) ==
    LET kept[n \in 0..Len(frames)] ==
            IF n = 0 THEN <<>>
            ELSE IF frames[n] \in cancelled THEN kept[n - 1]
            ELSE Append(kept[n - 1], frames[n])
    IN kept[Len(frames)]

\* discardPlanResources, cancelUncommittedControl and
\* cancelUncommittedDeliveries of the active plan, which is no longer active.
Withdraw(s) ==
    LET cancelled == Uncommitted(s, s.activePlan.generation)
        kept == [s EXCEPT
            !.frames = Without(@, cancelled),
            !.turn = IF s.activePlan.readWait /\ @ = "queued" THEN "none" ELSE @,
            !.activePlan = NoPlan]
    IN EnforceCreditInvariant(Refund(kept, {f.id : f \in {t \in cancelled : t.kind = "TILE"}}))

InvalidatePlan(s) ==
    LET t == IF s.activePlan = NoPlan THEN s ELSE Withdraw(s)
    IN [t EXCEPT !.planGeneration = @ + 1]

FailPlan(s) == SendError(InvalidatePlan(s), s.activePlan.epoch)

\* closeForTimeout, and the cleanup that onClosed submits.
Dismantle(s) ==
    [s EXCEPT !.state = "CERRADA", !.closed = TRUE, !.helloTimer = FALSE,
              !.turn = IF s.activePlan.readWait /\ @ = "queued" THEN "none" ELSE @,
              !.activePlan = NoPlan, !.deliveries = <<>>, !.freeWindowBytes = 0]

--------------------------------------------------------------------------------
\* The pump: one tile at a time is read, reserved and sent

ThumbnailIsPending(plan) == plan.thumbnail /\ plan.next = 1

\* The tile is reserved under a fresh id.
Reserve(s) ==
    LET plan == s.activePlan
        delivery == [epoch |-> plan.epoch, planGeneration |-> plan.generation,
                     reservedBytes |-> plan.pendingTile, image |-> s.opened,
                     openingThumbnail |-> ThumbnailIsPending(plan),
                     state |-> "RESERVED_QUEUED", selectiveRetries |-> 0,
                     retryInProgress |-> FALSE, releaseTimer |-> FALSE]
    IN EnforceCreditInvariant([s EXCEPT
        !.deliveries = [id \in DOMAIN @ \cup {s.nextDeliveryId} |->
                           IF id = s.nextDeliveryId THEN delivery ELSE @[id]],
        !.freeWindowBytes = @ - plan.pendingTile,
        !.nextDeliveryId = @ + 1,
        !.activePlan.pendingTile = 0,
        !.activePlan.busy = TRUE])

\* sendBinaryTracked: a refused tile gives its credit back and closes.
SendTile(s) ==
    LET plan == s.activePlan
        id == s.nextDeliveryId - 1
    IN IF s.closed THEN s
       ELSE IF Refuses(s) THEN Closing([Refund(s, {id}) EXCEPT !.activePlan.busy = FALSE])
       ELSE Queued(s, TileFrame("TILE", plan.epoch, plan.generation, id,
                IF s.deliveries[id].openingThumbnail THEN s.opened ELSE NoImage))

\* Mutant: a tile is sent whatever the credit.
NeverLacksCredit(s) == FALSE

LacksCredit(s) == s.activePlan.pendingTile > s.freeWindowBytes

\* The active plan is not busy, and has a tile pending.
TrySendPending(s, answer) ==
    LET plan == s.activePlan IN
    IF Cardinality(DOMAIN s.deliveries) >= MaxInFlight THEN s
    ELSE IF s.nextDeliveryId > MaxDeliveryId THEN Closing(SendError(s, plan.epoch))
    ELSE IF plan.pendingTile > s.negotiatedWindowBytes THEN FailPlan(s)
    ELSE IF LacksCredit(s) THEN s
    ELSE IF answer = "buffersFull" THEN FailPlan(s)
    ELSE SendTile(Reserve(s))

\* sendDoneControl
SendDone(s) ==
    LET plan == s.activePlan IN
    IF Refuses(s)
    THEN Closing([s EXCEPT !.activePlan = NoPlan])
    ELSE Queued([s EXCEPT !.activePlan.doneQueued = TRUE],
                PlanControl("DONE", plan, plan.sentTiles))

\* startTileRead, with the turn in hand and a tile left to read: a plan asks
\* for a turn only then.
StartTileRead(s, answer) ==
    LET advanced == [s EXCEPT !.activePlan.next = @ + 1] IN
    IF s.closed \/ s.activePlan.busy THEN [s EXCEPT !.turn = "none"]
    ELSE IF answer = "diskFull" THEN FailPlan([advanced EXCEPT !.turn = "none"])
    ELSE [advanced EXCEPT
             !.activePlan.busy = TRUE,
             !.turn = "held",
             !.reads = @ \cup {[kind |-> "TILE", generation |-> s.activePlan.generation,
                                bytes |-> 0, complete |-> FALSE]}]

\* requestTileRead.  The session already having a turn (of a plan that was
\* replaced) is DUPLICATE_OWNER: the end of that turn pumps again.
RequestTileRead(s, answer) ==
    IF s.turn # "none" THEN s
    ELSE IF answer = "turnsFull" THEN FailPlan(s)
    ELSE IF answer = "queued" THEN [s EXCEPT !.turn = "queued", !.activePlan.readWait = TRUE]
    ELSE StartTileRead(s, answer)

Pump(s, answer) ==
    LET plan == s.activePlan IN
    IF s.closed \/ plan = NoPlan \/ plan.busy \/ ~plan.planCommitted THEN s
    ELSE IF plan.pendingTile > 0 THEN TrySendPending(s, answer)
    ELSE IF plan.next = plan.tiles THEN (IF plan.doneQueued THEN s ELSE SendDone(s))
    ELSE IF Cardinality(DOMAIN s.deliveries) >= MaxInFlight \/ plan.readWait THEN s
    ELSE RequestTileRead(s, answer)

--------------------------------------------------------------------------------
\* Handlers of the client's controls.  Each runs when its task reaches the head
\* of the serial queue; handleText drops a control once the session is closed.

Ran(s) == [s EXCEPT !.tasks = Tail(@)]

Running(kind) == session.tasks # <<>> /\ Head(session.tasks).kind = kind

task == Head(session.tasks)

\* Every handler changes the session only, except handleOpen.
Becomes(s) == session' = s /\ UNCHANGED <<opens, transport, client, wire>>

HandleHello(answer) ==
    /\ Running("HELLO")
    /\ LET s == Ran(session) IN
       Becomes(IF s.closed THEN s
               ELSE IF s.state # "ESPERA_HELLO" THEN Closing(s)              \* policyClose
               ELSE IF ~task.ok THEN SendError(s, 0)
               ELSE IF answer = "noSession" THEN Closing(SendError(s, 0))
               ELSE Send([s EXCEPT !.helloTimer = FALSE, !.state = "LISTA",
                                   !.negotiatedWindowBytes = Window,
                                   !.freeWindowBytes = Window],
                         Control("WELCOME", 0, NoImage)))

\* A new epoch goes to the metadata executor, off the serial queue.
HandleOpen(answer) ==
    /\ Running("OPEN")
    /\ LET s == Ran(session)
           ignored == s.closed \/ s.state = "ESPERA_HELLO" \/ task.epoch <= s.currentEpoch
       IN /\ session' = IF s.closed THEN s
                        ELSE IF s.state = "ESPERA_HELLO" THEN Closing(s)     \* policyClose
                        ELSE IF task.epoch > s.currentEpoch /\ answer = "metadataFull" THEN SendError(s, task.epoch)
                        ELSE s
          /\ opens' = IF ignored \/ answer = "metadataFull"
                      THEN opens
                      ELSE opens \cup {[epoch |-> task.epoch, image |-> task.image]}
    /\ UNCHANGED <<transport, client, wire>>

\* onOpenResolved compares again: a newer OPEN or VIEW may have been accepted
\* while the image was being resolved.
OpenIsRelevant(s, epoch) == epoch > s.currentEpoch

OnOpenResolved ==
    /\ Running("OPENED")
    /\ LET s == Ran(session) IN
       Becomes(IF s.closed \/ ~OpenIsRelevant(s, task.epoch) THEN s
               ELSE IF ~task.ok THEN SendError(s, task.epoch)
               ELSE Send([InvalidatePlan(s) EXCEPT
                             !.opened = task.image,
                             !.thumbnailCommittedForOpen = FALSE,
                             !.currentEpoch = task.epoch,
                             !.state = "IMAGEN_ABIERTA"],
                         Control("MANIFEST", task.epoch, task.image)))

\* The plan of an accepted VIEW: the opening thumbnail first, unless it was
\* committed for this opening.
NewPlan(s, epoch) ==
    [NoPlan EXCEPT
        !.generation = s.planGeneration,
        !.epoch = epoch,
        !.thumbnail = ~s.thumbnailCommittedForOpen,
        !.tiles = PlanTiles + (IF s.thumbnailCommittedForOpen THEN 0 ELSE 1)]

\* sendPlanControl: a refused PLAN removes the plan and closes.
SendPlan(s) ==
    IF Refuses(s)
    THEN Closing([s EXCEPT !.activePlan = NoPlan])
    ELSE Queued(s, PlanControl("PLAN", s.activePlan, s.activePlan.tiles))

AcceptView(s, epoch) ==
    LET t == [InvalidatePlan(s) EXCEPT !.currentEpoch = epoch, !.planGeneration = @ + 1]
    IN SendPlan([t EXCEPT !.activePlan = NewPlan(t, epoch)])

HandleView(answer) ==
    /\ Running("VIEW")
    /\ LET s == Ran(session) IN
       Becomes(IF s.closed THEN s
               ELSE IF s.state # "IMAGEN_ABIERTA" THEN Closing(s)            \* policyClose
               ELSE IF task.epoch <= s.currentEpoch THEN s
               ELSE IF task.image # s.opened THEN SendError(s, task.epoch)   \* BAD_VIEW
               ELSE IF answer = "planTooLarge" THEN SendError(s, task.epoch)
               ELSE AcceptView(s, task.epoch))

\* RELEASE confirms a tile whatever its state and epoch.
HandleRelease(answer) ==
    /\ Running("RELEASE")
    /\ LET s == Ran(session) IN
       Becomes(IF s.closed THEN s
               ELSE IF s.state = "ESPERA_HELLO" THEN Closing(s)              \* policyClose
               ELSE IF task.id \notin DOMAIN s.deliveries THEN s
               ELSE Pump(Acknowledge(s, {task.id}), answer))

--------------------------------------------------------------------------------
\* ACK_STATE: selective acknowledgement and recovery

\* requestSelectiveRetransmit, for a tile that was read correctly the first
\* time.  The second read bypasses the DRR admission.
RequestSelectiveRetransmit(s, epoch, id, answer) ==
    LET delivery == s.deliveries[id] IN
    IF id \notin DOMAIN s.deliveries THEN s
    ELSE IF delivery.epoch # epoch \/ delivery.state # "WRITTEN_AWAITING_RELEASE" THEN s
    ELSE IF delivery.retryInProgress THEN s
    ELSE IF delivery.selectiveRetries >= MaxRetries THEN SendError(Acknowledge(s, {id}), epoch)
    ELSE IF s.currentEpoch # epoch \/ s.opened # delivery.image THEN Acknowledge(s, {id})
    ELSE IF answer = "diskFull" THEN
            SendError([s EXCEPT !.deliveries[id] =
                          [delivery EXCEPT !.selectiveRetries = @ + 1, !.releaseTimer = TRUE]], epoch)
    ELSE [s EXCEPT !.deliveries[id] =
                      [delivery EXCEPT !.retryInProgress = TRUE, !.releaseTimer = FALSE,
                                       !.selectiveRetries = @ + 1],
                   !.reads = @ \cup {[kind |-> "RETRY", id |-> id]}]

\* The client confirms or asks for one tile at a time (task.missing is 0 when
\* it confirms); the server only looks at the tiles of the epoch it names.
HandleAckState(answer) ==
    /\ Running("ACK_STATE")
    /\ LET s == Ran(session)
           received == {id \in task.received \cap DOMAIN s.deliveries :
                           s.deliveries[id].epoch = task.epoch}
       IN Becomes(IF s.closed THEN s
                  ELSE IF s.state = "ESPERA_HELLO" THEN Closing(s)           \* policyClose
                  ELSE Pump(RequestSelectiveRetransmit(Acknowledge(s, received),
                                         task.epoch, task.missing, answer), answer))

\* Mutant: the deadline is not armed again when a recovery fails.
RecoveryForgotten(s, id) ==
    SendError([s EXCEPT !.deliveries[id].retryInProgress = FALSE], s.deliveries[id].epoch)

\* A recovery that cannot go on: the RELEASE deadline runs again.
RecoveryFailed(s, id) ==
    SendError([s EXCEPT !.deliveries[id].retryInProgress = FALSE,
                        !.deliveries[id].releaseTimer = TRUE], s.deliveries[id].epoch)

\* onSelectiveTileRead, for a delivery that is still pending.
SendAgain(s, id) ==
    IF Refuses(s)
    THEN Closing([s EXCEPT !.deliveries[id].retryInProgress = FALSE])
    ELSE Queued(s, TileFrame("RETRY", s.deliveries[id].epoch, 0, id, NoImage))

\* onSelectiveTileRead does not look at "closed": it is a result, and results
\* are enqueued even then.
OnSelectiveTileRead(answer) ==
    /\ Running("RETRY_READ")
    /\ LET s == Ran(session)
           id == task.id
           pending == /\ id \in DOMAIN s.deliveries
                      /\ s.deliveries[id].retryInProgress
                      /\ s.deliveries[id].state = "WRITTEN_AWAITING_RELEASE"
       IN Becomes(IF ~pending THEN s
                  ELSE IF ~task.ok \/ answer = "buffersFull" THEN RecoveryFailed(s, id)
                  ELSE SendAgain(s, id))

OnSelectiveTileWritten ==
    /\ Running("RETRY_WRITTEN")
    /\ LET s == Ran(session) IN
       Becomes(IF task.id \notin DOMAIN s.deliveries
               THEN s
               ELSE [s EXCEPT !.deliveries[task.id] =
                       [@ EXCEPT !.retryInProgress = FALSE, !.releaseTimer = TRUE,
                                 !.state = "WRITTEN_AWAITING_RELEASE"]])

--------------------------------------------------------------------------------
\* Callbacks of the write queue, of the DRR admission and of the disk

OnPlanCommitted(answer) ==
    /\ Running("PLAN_COMMITTED")
    /\ LET s == Ran(session) IN
       Becomes(IF s.activePlan.generation # task.generation
               THEN s
               ELSE Pump([s EXCEPT !.activePlan.planCommitted = TRUE], answer))

OnDoneCommitted ==
    /\ Running("DONE_COMMITTED")
    /\ LET s == Ran(session) IN
       Becomes(IF s.activePlan.generation # task.generation
               THEN s
               ELSE [s EXCEPT !.activePlan = NoPlan])

\* The commit of a thumbnail counts for whatever image is open by now.
OnTileCommitted ==
    /\ Running("TILE_COMMITTED")
    /\ LET s == Ran(session)
           id == task.id
       IN Becomes(IF id \notin DOMAIN s.deliveries THEN s
                  ELSE IF s.deliveries[id].state # "RESERVED_QUEUED" THEN s
                  ELSE [s EXCEPT !.deliveries[id].state = "COMMITTED",
                                 !.thumbnailCommittedForOpen =
                                     @ \/ s.deliveries[id].openingThumbnail])

\* The delivery is written: its RELEASE deadline starts.
Written(s, id) ==
    IF id \in DOMAIN s.deliveries /\ s.deliveries[id].state # "WRITTEN_AWAITING_RELEASE"
    THEN [s EXCEPT !.deliveries[id].state = "WRITTEN_AWAITING_RELEASE",
                   !.deliveries[id].releaseTimer = TRUE]
    ELSE s

\* Mutant: the callback of a replaced plan counts for the active one.
CountsForPlan(s, generation) == s.activePlan # NoPlan

\* The late callback of a replaced plan leaves the active one alone.
BelongsToPlan(s, generation) ==
    s.activePlan # NoPlan /\ s.activePlan.generation = generation

OnTileWritten(answer) ==
    /\ Running("TILE_WRITTEN")
    /\ LET s == Written(Ran(session), task.id) IN
       Becomes(IF ~BelongsToPlan(s, task.generation)
               THEN s
               ELSE Pump([s EXCEPT !.activePlan.busy = FALSE,
                                   !.activePlan.sentTiles = @ + 1], answer))

\* Mutant: the stale permit is dropped on the floor.
PermitDropped(s, answer) == Pump(s, answer)

\* A permit that arrives too late is given back, and the newer plan may ask.
PermitReturned(s, answer) == Pump([s EXCEPT !.turn = "none"], answer)

OnReadPermitGranted(answer) ==
    /\ Running("PERMIT")
    /\ LET s == Ran(session) IN
       Becomes(IF s.closed \/ ~BelongsToPlan(s, task.generation)
               THEN PermitReturned(s, answer)
               ELSE StartTileRead([s EXCEPT !.activePlan.readWait = FALSE], answer))

\* Mutant: a stale result does not wake the plan that replaced its own.
StaleIgnored(s, answer) == s

\* The result of a replaced plan: its turn is over, the new plan may ask.
StaleResult(s, answer) == Pump(s, answer)

OnTileRead(answer) ==
    /\ Running("TILE_READ")
    /\ LET s == Ran(session)
           t == [s EXCEPT !.activePlan.busy = FALSE]
       IN Becomes(IF ~BelongsToPlan(s, task.generation) THEN StaleResult(s, answer)
                  ELSE IF task.bytes = 0 THEN FailPlan(t)
                  ELSE LET u == [t EXCEPT !.activePlan.pendingTile = task.bytes]
                       IN IF u.closed THEN u ELSE TrySendPending(u, answer))

OnReleaseTimeout ==
    /\ Running("RELEASE_TIMEOUT")
    /\ LET s == Ran(session)
           expired == /\ task.id \in DOMAIN s.deliveries
                      /\ s.deliveries[task.id].state = "WRITTEN_AWAITING_RELEASE"
       IN Becomes(IF s.closed \/ ~expired THEN s ELSE Dismantle(s))

OnHelloTimeout ==
    /\ Running("HELLO_TIMEOUT")
    /\ LET s == Ran(session) IN
       Becomes(IF s.closed \/ s.state # "ESPERA_HELLO" THEN s ELSE Dismantle(s))

\* The task that onClosed leaves in the serial queue.
Cleanup ==
    /\ Running("CLEANUP")
    /\ Becomes(Dismantle(Ran(session)))

--------------------------------------------------------------------------------
\* The I/O threads: the write queue and the end of the transport

\* The history of the wire, after a frame is committed to the socket.
Carried(frame) ==
    LET next == [wire EXCEPT !.last = [kind |-> frame.kind, epoch |-> frame.epoch,
                                       count |-> IF frame.kind = "DONE" THEN frame.count ELSE 0]]
    IN CASE frame.kind = "MANIFEST" -> [next EXCEPT !.epoch = frame.epoch, !.streaming = FALSE]
         [] frame.kind = "PLAN" ->
               [next EXCEPT !.epoch = frame.epoch, !.streaming = TRUE,
                            !.size = frame.count, !.sent = 0]
         [] frame.kind = "TILE" -> [next EXCEPT !.sent = @ + 1, !.lastId = frame.id]
         [] frame.kind = "DONE" -> [next EXCEPT !.streaming = FALSE]
         [] frame.kind = "RETRY" -> next
         [] OTHER -> wire

\* The onCommitted and onWritten callbacks of a frame.
CommitTask(frame) ==
    CASE frame.kind = "PLAN" -> {[kind |-> "PLAN_COMMITTED", generation |-> frame.generation]}
      [] frame.kind = "DONE" -> {[kind |-> "DONE_COMMITTED", generation |-> frame.generation]}
      [] frame.kind = "TILE" -> {[kind |-> "TILE_COMMITTED", id |-> frame.id]}
      [] OTHER -> {}

WrittenTask(frame) ==
    CASE frame.kind = "TILE" ->
            {[kind |-> "TILE_WRITTEN", generation |-> frame.generation, id |-> frame.id]}
      [] frame.kind = "RETRY" -> {[kind |-> "RETRY_WRITTEN", id |-> frame.id]}
      [] OTHER -> {}

SubmitAny(s, tasks) == IF tasks = {} THEN s ELSE Submit(s, CHOOSE t \in tasks : TRUE)

\* What the client does when a frame arrives.  A tile, new or repeated, is held
\* until it is confirmed.
Arrives(frame) ==
    LET tile == [id |-> frame.id, epoch |-> frame.epoch] IN
    CASE frame.kind = "MANIFEST" -> [client EXCEPT !.image = frame.image]
      [] frame.kind = "TILE" ->
            [client EXCEPT !.held = @ \cup {tile},
                           !.thumbnails = @ \cup ({frame.image} \ {NoImage})]
      [] frame.kind = "RETRY" -> [client EXCEPT !.held = @ \cup {tile}, !.asked = @ \ {tile}]
      [] OTHER -> client

\* requestDrive: the head of the queue is handed to the socket.
CommitHead ==
    /\ transport = "open"
    /\ session.frames # <<>>
    /\ ~session.writing
    /\ LET frame == Head(session.frames) IN
       /\ session' = SubmitAny([session EXCEPT !.writing = TRUE], CommitTask(frame))
       /\ wire' = Carried(frame)
       /\ client' = Arrives(frame)
    /\ UNCHANGED <<opens, transport>>

\* The completion handler of the last write of a frame.
WriteDone ==
    /\ transport = "open"
    /\ session.writing
    /\ session' = SubmitAny([session EXCEPT !.frames = Tail(@), !.writing = FALSE],
                            WrittenTask(Head(session.frames)))
    /\ UNCHANGED <<opens, transport, client, wire>>

\* onClosed: the peer went away, a write failed, or the close that the session
\* asked for ended.  The cleanup is lost if the serial queue is full.
TransportCloses ==
    /\ transport = "open"
    /\ transport' = "closed"
    /\ LET s == [Closing(session) EXCEPT
                    !.helloTimer = FALSE,
                    !.deliveries = [id \in DOMAIN @ |-> [@[id] EXCEPT !.releaseTimer = FALSE]],
                    !.frames = <<>>, !.writing = FALSE]
       IN session' = Enqueue(s, [kind |-> "CLEANUP"])
    /\ UNCHANGED <<opens, client, wire>>

--------------------------------------------------------------------------------
\* The DRR admission, the disk, the metadata executor and the timers

\* The waiter of this session is selected: onReadPermitGrantedAsync.
GrantTurn ==
    /\ session.turn = "queued"
    /\ LET permit == [kind |-> "PERMIT", generation |-> session.activePlan.generation]
           full == Len(session.tasks) >= TaskCapacity
       IN session' = [Submit(session, permit) EXCEPT
                         !.turn = IF session.closed \/ full THEN "none" ELSE "held"]
    /\ UNCHANGED <<opens, transport, client, wire>>

\* The read of a tile ends, well (some size) or badly (0), and its lease is
\* completed: the turn is over before the result is handed to the session.
TileReadEnds(read, bytes) ==
    /\ read.kind = "TILE" /\ ~read.complete
    /\ session' = [session EXCEPT
                      !.reads = (@ \ {read}) \cup {[read EXCEPT !.bytes = bytes, !.complete = TRUE]},
                      !.turn = "none"]
    /\ UNCHANGED <<opens, transport, client, wire>>

\* submitTileResult, of a tile and of a recovery.
TileResult(read) ==
    /\ read.kind = "TILE" /\ read.complete
    /\ session' = Enqueue([session EXCEPT !.reads = @ \ {read}],
                      [kind |-> "TILE_READ", generation |-> read.generation, bytes |-> read.bytes])
    /\ UNCHANGED <<opens, transport, client, wire>>

RecoveryResult(read, ok) ==
    /\ read.kind = "RETRY"
    /\ session' = Enqueue([session EXCEPT !.reads = @ \ {read}],
                      [kind |-> "RETRY_READ", id |-> read.id, ok |-> ok])
    /\ UNCHANGED <<opens, transport, client, wire>>

\* The catalog and the manifest of an OPEN were read, or could not be.
OpenResolves(open, ok) ==
    /\ opens' = opens \ {open}
    /\ session' = Submit(session, [kind |-> "OPENED", epoch |-> open.epoch,
                                   image |-> open.image, ok |-> ok])
    /\ UNCHANGED <<transport, client, wire>>

HelloTimer ==
    /\ session.helloTimer
    /\ session' = Submit([session EXCEPT !.helloTimer = FALSE], [kind |-> "HELLO_TIMEOUT"])
    /\ UNCHANGED <<opens, transport, client, wire>>

ReleaseTimer(id) ==
    /\ session.deliveries[id].releaseTimer
    /\ session' = Submit([session EXCEPT !.deliveries[id].releaseTimer = FALSE],
                         [kind |-> "RELEASE_TIMEOUT", id |-> id])
    /\ UNCHANGED <<opens, transport, client, wire>>

--------------------------------------------------------------------------------
\* The client.  Its controls reach onText in the order it sends them.

Says(control) ==
    /\ transport = "open"
    /\ ~session.closed
    /\ session' = Submit(session, control)
    /\ UNCHANGED <<opens, transport, wire>>

ClientHello(ok) ==
    /\ client.hellos < MaxHellos
    /\ Says([kind |-> "HELLO", ok |-> ok])
    /\ client' = [client EXCEPT !.hellos = @ + 1]

ClientOpen(image) ==
    /\ client.hellos > 0
    /\ client.epoch < MaxEpoch
    /\ Says([kind |-> "OPEN", epoch |-> client.epoch + 1, image |-> image])
    /\ client' = [client EXCEPT !.epoch = @ + 1]

\* A VIEW of the image of the last MANIFEST the client saw.
ClientView ==
    /\ client.image # NoImage
    /\ client.epoch < MaxEpoch
    /\ Says([kind |-> "VIEW", epoch |-> client.epoch + 1, image |-> client.image])
    /\ client' = [client EXCEPT !.epoch = @ + 1]

\* A tile was shown, discarded or given up.
ClientConfirms(tile) ==
    /\ \/ /\ "RELEASE" \in Confirmations
          /\ Says([kind |-> "RELEASE", id |-> tile.id])
       \/ /\ "ACK_STATE" \in Confirmations
          /\ Says([kind |-> "ACK_STATE", epoch |-> tile.epoch, received |-> {tile.id}, missing |-> 0])
    /\ client' = [client EXCEPT !.held = @ \ {tile}]

\* A tile could not be decoded: the client asks for it again and waits.
ClientAsks(tile) ==
    /\ client.asks < MaxAsks
    /\ Says([kind |-> "ACK_STATE", epoch |-> tile.epoch, received |-> {}, missing |-> tile.id])
    /\ client' = [client EXCEPT !.held = @ \ {tile}, !.asked = @ \cup {tile}, !.asks = @ + 1]

--------------------------------------------------------------------------------
Handlers ==
    \/ \E answer \in Answers :
        \/ HandleHello(answer)
        \/ HandleOpen(answer)
        \/ HandleView(answer)
        \/ HandleRelease(answer)
        \/ HandleAckState(answer)
        \/ OnSelectiveTileRead(answer)
        \/ OnPlanCommitted(answer)
        \/ OnTileWritten(answer)
        \/ OnReadPermitGranted(answer)
        \/ OnTileRead(answer)
    \/ OnOpenResolved
    \/ OnSelectiveTileWritten
    \/ OnDoneCommitted
    \/ OnTileCommitted
    \/ OnReleaseTimeout
    \/ OnHelloTimeout
    \/ Cleanup

Reads ==
    \E read \in session.reads :
        \/ \E bytes \in TileSizes \cup {0} : TileReadEnds(read, bytes)
        \/ TileResult(read)
        \/ \E ok \in BOOLEAN : RecoveryResult(read, ok)

Next ==
    \/ Handlers
    \/ CommitHead
    \/ WriteDone
    \/ TransportCloses
    \/ GrantTurn
    \/ Reads
    \/ \E open \in opens, ok \in BOOLEAN : OpenResolves(open, ok)
    \/ HelloTimer
    \/ \E id \in DOMAIN session.deliveries : ReleaseTimer(id)
    \/ \E ok \in BOOLEAN : ClientHello(ok)
    \/ \E image \in Images : ClientOpen(image)
    \/ ClientView
    \/ \E tile \in client.held : ClientConfirms(tile) \/ ClientAsks(tile)

Spec == Init /\ [][Next]_vars

\* Nothing a thread has in hand stays there for ever: tasks are run, frames are
\* written, reads end, queued turns come, a closed session loses its transport,
\* and the client confirms the tiles it holds.  Timers need not fire.
Fairness ==
    /\ WF_vars(Handlers)
    /\ WF_vars(CommitHead)
    /\ WF_vars(WriteDone)
    /\ WF_vars(session.closed /\ TransportCloses)
    /\ WF_vars(GrantTurn)
    /\ WF_vars(Reads)
    /\ WF_vars(\E tile \in client.held : ClientConfirms(tile))

FairSpec == Spec /\ Fairness

--------------------------------------------------------------------------------
\* Properties

TaskKinds == {"HELLO", "OPEN", "OPENED", "VIEW", "RELEASE", "ACK_STATE", "PLAN_COMMITTED",
              "DONE_COMMITTED", "TILE_COMMITTED", "TILE_WRITTEN", "RETRY_WRITTEN", "PERMIT",
              "TILE_READ", "RETRY_READ", "RELEASE_TIMEOUT", "HELLO_TIMEOUT", "CLEANUP"}

TypeOK ==
    /\ session.state \in {"ESPERA_HELLO", "LISTA", "IMAGEN_ABIERTA", "CERRADA"}
    /\ session.closed \in BOOLEAN
    /\ session.currentEpoch \in 0..MaxEpoch
    /\ session.opened \in Images \cup {NoImage}
    /\ session.freeWindowBytes \in 0..session.negotiatedWindowBytes
    /\ session.activePlan.next \in 0..session.activePlan.tiles
    /\ session.activePlan.sentTiles \in 0..session.activePlan.next
    /\ DOMAIN session.deliveries \subseteq 1..MaxDeliveryId
    /\ Cardinality(DOMAIN session.deliveries) <= MaxInFlight
    /\ session.turn \in {"none", "queued", "held"}
    /\ \A i \in 1..Len(session.tasks) : session.tasks[i].kind \in TaskKinds
    /\ Len(session.tasks) <= TaskCapacity
    /\ Len(session.frames) <= FrameCapacity
    /\ transport \in {"open", "closed"}
    /\ client.asked \cap client.held = {}

\* The session was dismantled: by a timeout or by the task of onClosed.
Dismantled == session.closed /\ session.activePlan = NoPlan /\ session.freeWindowBytes = 0

\* Every byte of the window is free or reserved by one delivery, at every step,
\* whatever is confirmed twice, cancelled, asked again or refused meanwhile.
\* enforceCreditInvariant closes the session when it finds otherwise: this says
\* that it never does.
CreditConserved == Dismantled \/ CreditHolds(session)

\* Every tile the client holds still has its reservation: its bytes cannot be
\* promised to another tile before the client confirmed it.
HeldTilesReserved ==
    session.closed \/ \A tile \in client.held : tile.id \in DOMAIN session.deliveries

Enqueued(kind) == {t \in ToSet(session.tasks) : t.kind = kind}

TileReads == {read \in session.reads : read.kind = "TILE"}

\* The session's turn in the DRR admission always has somebody to end it: a
\* read that will complete the lease, the task that will use or return it, or,
\* while it is queued, the active plan that waits for it.  A turn nobody ends
\* is a permit lost for every session, and DUPLICATE_OWNER for ever for this one.
TurnHasAnOwner ==
    /\ session.turn = "held" =>
          Cardinality({r \in TileReads : ~r.complete}) + Cardinality(Enqueued("PERMIT")) = 1
    /\ session.turn = "queued" => session.activePlan.readWait
    /\ session.turn = "none" => {r \in TileReads : ~r.complete} = {} /\ Enqueued("PERMIT") = {}

\* What will run the pump of the active plan again.
PlanWakeups ==
    LET plan == session.activePlan IN
    \/ \E f \in ToSet(session.frames) : f.generation = plan.generation
    \/ \E t \in ToSet(session.tasks) :
          \/ t.kind \in {"PERMIT", "TILE_READ"}
          \/ t.kind \in {"PLAN_COMMITTED", "TILE_WRITTEN", "DONE_COMMITTED"}
                /\ t.generation = plan.generation
    \/ TileReads # {}
    \/ session.turn = "queued"

\* The active plan waits for credit: for a tile to be confirmed.
WaitsForCredit ==
    /\ session.deliveries # <<>>
    /\ \/ LacksCredit(session)
       \/ Cardinality(DOMAIN session.deliveries) = MaxInFlight

\* The pump has no clock: it runs when a callback calls it.  An open session
\* whose plan is not finished always has such a callback coming, or waits for
\* credit.  Otherwise the view stays half drawn until the user moves.
PlanHasAWakeup ==
    session.closed \/ session.activePlan = NoPlan \/ PlanWakeups \/ WaitsForCredit

\* Every reservation ends: the tile is still to be written, or its RELEASE
\* deadline runs, or a recovery is under way that will write it or restart
\* the deadline.  A reservation with none of these shrinks the window for ever.
ReservationsEnd ==
    session.closed \/ \A id \in DOMAIN session.deliveries :
        \/ session.deliveries[id].releaseTimer
        \/ \E f \in ToSet(session.frames) : f.id = id
        \/ \E t \in Enqueued("TILE_WRITTEN") \cup Enqueued("RETRY_WRITTEN") \cup
                     Enqueued("RETRY_READ") \cup Enqueued("RELEASE_TIMEOUT") : t.id = id
        \/ [kind |-> "RETRY", id |-> id] \in session.reads

Stream == INSTANCE ViewStream WITH
    epoch <- wire.epoch, size <- wire.size, sent <- wire.sent,
    streaming <- wire.streaming, lastId <- wire.lastId, last <- wire.last

\* The wire carries what ViewStream promises: epochs increase, the first sending of
\* a tile comes after the announcement of its own plan and before any newer one, and
\* DONE comes once, after all the tiles of its plan, with their number.  Of the tiles
\* that are sent again it promises only that they were announced.
ImplementsViewStream == Stream!StreamSpec

\* A tile is sent again only for the epoch that is current ("Los resultados obsoletos
\* se descartan", docs/LUPA_CONTROL_RECOVERY.md:53).  The code breaks it: the epoch is
\* looked at before the tile is read, in requestSelectiveRetransmit, and not when the
\* result comes, in onSelectiveTileRead; the view that replaced it meanwhile leaves
\* the deliveries that were written as they are.
RecoveredTilesAreCurrent ==
    [][\A frame \in ToSet(session'.frames) \ ToSet(session.frames) :
          frame.kind = "RETRY" => frame.epoch = session'.currentEpoch]_vars

\* A plan leaves the thumbnail out only if the client was sent the thumbnail of
\* the image that is open.  The code breaks it: the commit callback of a
\* thumbnail of the previous image, queued behind the OPEN that replaced it,
\* counts for the new image.
ThumbnailWasSent ==
    session.thumbnailCommittedForOpen => session.opened \in client.thumbnails

\* A plan is never left half sent: there comes a time without an active plan,
\* through DONE, an error or a newer plan that ends, or the session closes.
PlansEnd == session.activePlan # NoPlan ~> session.activePlan = NoPlan \/ session.closed

================================================================================
