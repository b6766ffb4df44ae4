------------------------------- MODULE LupaClient -------------------------------
(***************************************************************************)
(* The browser client (LupaClient.ts) with its DeliveryLedger, its         *)
(* BitmapBudget, its CanvasCompositor and its decoding Worker, facing a    *)
(* LUPA server that follows the protocol and a socket that may close at    *)
(* any time.                                                               *)
(*                                                                         *)
(* The main thread runs one callback at a time: each callback is an        *)
(* action, and the methods it calls are operators on a record s of all     *)
(* the variables, so that a chain of calls reads as it does in the code.   *)
(*                                                                         *)
(* What the client says reaches "server" at once, but the server takes     *)
(* the controls when it likes: it answers for server.epoch, which may be   *)
(* behind client.epoch.  What it says is received when it is said; a       *)
(* message in flight is one the server has not said yet.                   *)
(*                                                                         *)
(* A view is its epoch here: which rectangle is asked for, and when, is    *)
(* the subject of ViewNavigation.  Left out: the trace, the notification   *)
(* of listeners, destroy (nobody looks at the client after it), malformed  *)
(* messages, and sends that throw (a look at isOpen precedes every send in *)
(* the same callback).                                                     *)
(***************************************************************************)
EXTENDS Integers, FiniteSets, Sequences, FiniteSetsExt, SequencesExt, Functions,
        DeliveryLedger, BitmapBudget, DecodeWorker, CanvasCompositor

CONSTANTS
    Images,             \* images of the catalog
    Bytes,              \* bytes of each decoded tile
    MaxEpoch,           \* MAX_EPOCH
    MaxManifestHistory, \* the bound of manifestHistory
    MaxConnections,     \* bound: connections the user opens
    MaxDeliveries       \* bound: deliveries of each connection

Tiles == DOMAIN Level

ASSUME ClientAssumption ==
    /\ NoImage \notin Images
    /\ Level \in [Tiles -> Nat]
    /\ Bytes \in [Tiles -> Nat \ {0}]
    /\ MaxEpoch \in Nat
    /\ MaxSafeInteger > MaxEpoch
    /\ MaxManifestHistory \in Nat \ {0}
    /\ MaxConnections \in Nat
    /\ MaxDeliveries \in [1..MaxConnections -> Nat]

VARIABLES
    client,     \* the fields of LupaClient
    ledger,     \* its DeliveryLedger
    budget,     \* its BitmapBudget
    canvas,     \* its CanvasCompositor
    worker,     \* the decoding Worker and its answers
    sockets,    \* readyState of the socket of each connection
    server      \* the session at the other end of the current connection

vars == <<client, ledger, budget, canvas, worker, sockets, server>>

Connections == 0..MaxConnections
Deliveries == 1..Max(Range(MaxDeliveries))
NoPlan == -1

\* The fields of a new connection; selected and viewport outlive connections.
\* terminal is drawnTiles + discardedTiles + failedTiles.
FreshClient(connection, selected, viewport) ==
    [connectionId |-> connection, epoch |-> 0, selected |-> selected, manifest |-> NoImage,
     manifestHistory |-> <<>>, plan |-> NoPlan, welcome |-> FALSE, viewport |-> viewport,
     pending |-> <<>>, phase |-> "connecting", error |-> "none", received |-> 0, terminal |-> 0,
     releases |-> 0, pendingPresentations |-> 0, serverDone |-> FALSE]

\* controls[e] is what the client said for epoch e, and deliveries[d] the tile
\* sent under id d: how many copies were sent, how many were asked for again,
\* and how many confirmations came back.
FreshServer == [stage |-> "hello", epoch |-> 0, controls |-> <<>>, deliveries |-> <<>>]

Init ==
    /\ client = [FreshClient(0, NoImage, FALSE) EXCEPT !.phase = "disconnected"]
    /\ ledger = EmptyLedger
    /\ budget = EmptyBudget
    /\ canvas = EmptyCanvas(FALSE)
    /\ worker = NewWorker(Connections)
    /\ sockets = [c \in Connections |-> "none"]
    /\ server = FreshServer

Now ==
    [client |-> client, ledger |-> ledger, budget |-> budget, canvas |-> canvas,
     worker |-> worker, sockets |-> sockets, server |-> server]

Becomes(s) ==
    \E after \in {s} :
        /\ client' = after.client
        /\ ledger' = after.ledger
        /\ budget' = after.budget
        /\ canvas' = after.canvas
        /\ worker' = after.worker
        /\ sockets' = after.sockets
        /\ server' = after.server

--------------------------------------------------------------------------------
\* Phases and errors

IsOpen(s) == s.sockets[s.client.connectionId] = "open"

Fail(s, error) == [s EXCEPT !.client.error = error, !.client.phase = "error"]

\* WebSocketTransport.close: the close event comes later.
CloseTransport(s) ==
    [s EXCEPT !.sockets[s.client.connectionId] =
        IF @ \in {"connecting", "open"} THEN "closing" ELSE @]

ProtocolViolation(s) == Fail(CloseTransport(s), "violation")

\* deriveTransferPhase, or the phase of today where it returns null.
TransferPhase(c, otherwise) ==
    IF DOMAIN c.pending # {} \/ c.pendingPresentations > 0 THEN "processing"
    ELSE IF c.serverDone THEN "observing"
    ELSE IF c.plan # NoPlan THEN "receiving"
    ELSE otherwise

UpdateCompletionPhase(s) ==
    LET c == s.client
        otherwise == IF c.error # "none" THEN "observing" ELSE c.phase
        next == IF c.error # "none" /\ c.manifest = NoImage
                THEN IF c.welcome THEN "ready" ELSE "error"
                ELSE TransferPhase(c, otherwise)
    IN  [s EXCEPT !.client.phase = next]

--------------------------------------------------------------------------------
\* What is said of a delivery

\* release: at most one confirmation, and only on the connection it came by.
Release(s, job) ==
    IF ~(job.connection = s.client.connectionId /\ IsOpen(s)
         /\ IsActive(s.ledger, job.delivery, job.connection))
    THEN s
    ELSE [s EXCEPT
            !.ledger = ReleaseOnce(@, job.delivery),
            !.client.releases = @ + 1,
            !.server.deliveries[job.delivery].receipt.acks = @ + 1]

MayAskAgain(s, job) ==
    /\ job.connection = s.client.connectionId
    /\ job.epoch = s.client.epoch
    /\ IsOpen(s)
    /\ MayRequestRetry(s.ledger, job.delivery, job.connection)

RequestSelectiveRetry(s, job) ==
    [s EXCEPT
        !.ledger = RequestRetry(@, job.delivery),
        !.server.deliveries[job.delivery].receipt.asks = @ + 1]

\* A tile reached its end without being stored.
Discard(s, job) == Release([s EXCEPT !.client.terminal = @ + 1], job)

\* onPresented and onDiscarded: the callbacks of an entry of the canvas.
PresentationEnds(s, job) ==
    UpdateCompletionPhase(Discard(
        [s EXCEPT !.client.pendingPresentations = AtLeastZero(@, 1)], job))

\* The entries of tiles that were never drawn end, all of them.
EndPresentations(s, tiles) ==
    FoldSet(LAMBDA t, acc : PresentationEnds(acc, s.canvas.entries[t].job),
            s, Unpresented(s.canvas, tiles))

\* onRemoved of the entries of tiles.
RemovedFromBudget(b, entries, tiles) ==
    FoldSet(LAMBDA t, acc : RemoveStored(acc, entries[t].kind, Bytes[t]), b, tiles)

--------------------------------------------------------------------------------
\* The compositor with its callbacks

CompositorReset(s) ==
    LET tiles == DOMAIN s.canvas.entries
    IN  [EndPresentations(s, tiles) EXCEPT
            !.canvas = EmptyCanvas(FALSE),
            !.budget = RemovedFromBudget(@, s.canvas.entries, tiles)]

\* Mutant: the entries of the old epoch leave in silence.
BeginEpochSilently(s, epoch) ==
    [s EXCEPT !.canvas = BeginEpoch(@, epoch),
              !.budget = RemovedFromBudget(@, s.canvas.entries, OfOldEpoch(s.canvas))]

CompositorBeginEpoch(s, epoch) ==
    LET tiles == OfOldEpoch(s.canvas)
    IN  [EndPresentations(s, tiles) EXCEPT
            !.canvas = BeginEpoch(@, epoch),
            !.budget = RemovedFromBudget(@, s.canvas.entries, tiles)]

\* Mutant: the bytes of the entry that leaves stay in the budget.
StoreKeepsBytes(s, job, kind) ==
    [EndPresentations(s, {job.tile} \cap DOMAIN s.canvas.entries)
        EXCEPT !.canvas = StoreEntry(@, job, kind)]

\* store, of an accepted tile: an entry of the same tile leaves first.
CompositorStore(s, job, kind) ==
    LET previous == {job.tile} \cap DOMAIN s.canvas.entries
    IN  [EndPresentations(s, previous) EXCEPT
            !.canvas = StoreEntry(@, job, kind),
            !.budget = RemovedFromBudget(@, s.canvas.entries, previous)]

--------------------------------------------------------------------------------
\* Epochs and the controls that open them

EpochsExhausted(s) == s.client.epoch >= MaxEpoch

\* The parts common to OPEN and VIEW: the next epoch, said to the worker and to
\* the server, with nothing received of it.
NewEpoch(s, type, image) ==
    LET epoch == s.client.epoch + 1
    IN  [s EXCEPT
            !.client.epoch = epoch, !.client.plan = NoPlan, !.client.serverDone = FALSE,
            !.client.error = "none",
            !.worker = Invalidate(@, s.client.connectionId, epoch),
            !.server.controls = Append(@, [type |-> type, image |-> image])]

\* Reservations of the epochs before OPEN are given back before the answers of
\* the worker come.
CancelReservations(s) ==
    [s EXCEPT !.budget = FoldSet(LAMBDA job, b : Cancel(b, job), @, DOMAIN s.client.pending)]

OpenSelected(s) ==
    IF s.client.selected = NoImage THEN s
    ELSE IF EpochsExhausted(s) THEN Fail(s, "exhausted")
    ELSE LET opened == [CancelReservations(NewEpoch(s, "OPEN", s.client.selected))
                            EXCEPT !.client.manifest = NoImage]
         IN  [CompositorReset(opened) EXCEPT !.client.phase = "opening"]

\* requestView, of a view that differs from the last one asked for.  There is
\* a layout when there are a viewport and a manifest.
RequestView(s) ==
    IF ~(s.client.manifest # NoImage /\ s.client.viewport /\ s.client.selected # NoImage
         /\ IsOpen(s))
    THEN s
    ELSE IF EpochsExhausted(s) THEN Fail(s, "exhausted")
    ELSE LET asked == NewEpoch(s, "VIEW", s.client.manifest)
         IN  [CompositorBeginEpoch(asked, asked.client.epoch) EXCEPT !.client.phase = "receiving"]

\* rememberManifest: the least recent leaves.
Remember(history, image) ==
    LET kept == Append(Without(history, {image}), image)
    IN  IF Len(kept) > MaxManifestHistory THEN Tail(kept) ELSE kept

--------------------------------------------------------------------------------
\* Messages of the server

OnWelcome(s) ==
    OpenSelected([s EXCEPT !.client.welcome = TRUE, !.client.phase = "ready"])

\* The image shown changes: the canvas starts over, if there is a viewport.
ShowManifest(s, image) ==
    [s EXCEPT
        !.client.manifest = image, !.client.manifestHistory = Remember(@, image),
        !.client.plan = NoPlan, !.client.serverDone = FALSE, !.client.phase = "opening"]

OnManifest(s, epoch, image) ==
    IF epoch < s.client.epoch THEN s
    ELSE IF epoch > s.client.epoch \/ s.client.selected # image THEN ProtocolViolation(s)
    ELSE IF ~s.client.viewport THEN ShowManifest(s, image)
    ELSE RequestView([CompositorReset(ShowManifest(s, image)) EXCEPT !.canvas = StartImage(image)])

\* Mutant: a late PLAN is taken for one of today.
LatePlanAccused(s, epoch, contextLevel) ==
    IF s.client.manifest = NoImage \/ epoch # s.client.epoch THEN ProtocolViolation(s)
    ELSE [s EXCEPT !.client.plan = contextLevel, !.client.phase = "receiving"]

\* contextLevel is the last level whose tiles are context: that of the PLAN in
\* focus mode, 0 in uniform mode.
OnPlan(s, epoch, contextLevel) ==
    IF epoch < s.client.epoch THEN s
    ELSE IF s.client.manifest = NoImage \/ epoch > s.client.epoch THEN ProtocolViolation(s)
    ELSE [s EXCEPT !.client.plan = contextLevel, !.client.phase = "receiving"]

\* Mutant: DONE is taken for the end of the drawing.
DoneObserves(s, epoch) ==
    IF epoch < s.client.epoch THEN s
    ELSE IF epoch > s.client.epoch THEN ProtocolViolation(s)
    ELSE [s EXCEPT !.client.serverDone = TRUE, !.client.phase = "observing"]

OnDone(s, epoch) ==
    IF epoch < s.client.epoch THEN s
    ELSE IF epoch > s.client.epoch THEN ProtocolViolation(s)
    ELSE LET done == [s EXCEPT !.client.serverDone = TRUE]
         IN  [done EXCEPT !.client.phase = TransferPhase(done.client, @)]

\* epoch is 0 in an ERROR without one.
OnError(s, epoch) ==
    LET told == [s EXCEPT !.client.error = "remote"]
        ended == [told EXCEPT !.client.plan = NoPlan]
        idle == DOMAIN s.client.pending = {} /\ s.client.pendingPresentations = 0
    IN  IF epoch # 0 /\ epoch < s.client.epoch THEN s
        ELSE IF epoch > s.client.epoch THEN ProtocolViolation(s)
        ELSE IF ~s.client.welcome THEN [told EXCEPT !.client.phase = "error"]
        ELSE IF s.client.manifest = NoImage THEN [told EXCEPT !.client.phase = "ready"]
        ELSE [ended EXCEPT !.client.phase = IF idle THEN "observing" ELSE "processing"]

ClassifyTile(s, tile) ==
    IF Level[tile] = 0 \/ Level[tile] <= s.client.plan THEN "context" ELSE "detail"

\* The tile has room: it waits for its bitmap.
SendToWorker(s, job) ==
    LET kind == ClassifyTile(s, job.tile)
    IN  [s EXCEPT
            !.budget = Reserve(@, job, Bytes[job.tile]),
            !.client.pending = [j \in DOMAIN @ \cup {job} |-> IF j = job THEN kind ELSE @[j]],
            !.client.phase = "processing",
            !.worker = PostDecode(@, job)]

\* onBinary, once the delivery is in the ledger.
OnRegistered(s, job) ==
    IF job.epoch < s.client.epoch THEN Discard(s, job)
    ELSE IF job.epoch > s.client.epoch THEN ProtocolViolation(s)
    ELSE IF ~MayReserve(s.budget, job, Bytes[job.tile]) THEN Discard(s, job)
    ELSE SendToWorker(s, job)

\* What onBinary asks of a tile before it looks at its epoch: a known version
\* of an image, and an id that is new or whose retransmission was asked for.
IsExpected(s, job) ==
    /\ Contains(s.client.manifestHistory, job.image)
    /\ \/ ~IsKnown(s.ledger, job.delivery)
       \/ ExpectsRetry(s.ledger, job.delivery, job.connection)

OnBinary(s, job) ==
    LET received == [s EXCEPT !.client.received = @ + 1]
    IN  IF ~s.client.welcome THEN s
        ELSE IF ~IsExpected(s, job) THEN ProtocolViolation(s)
        ELSE IF IsKnown(s.ledger, job.delivery)
        THEN OnRegistered([received EXCEPT !.ledger = AcceptRetransmission(@, job.delivery)], job)
        ELSE OnRegistered([received EXCEPT
                !.ledger = Register(@, job.delivery, job.connection)], job)

--------------------------------------------------------------------------------
\* Answers of the worker

\* A bitmap of a view, of an image or of a connection that is over is closed.
IsOutdated(s, job) ==
    \/ job.connection # s.client.connectionId
    \/ job.epoch # s.client.epoch
    \/ job.image # s.client.manifest

OnDecoded(s, job, kind) ==
    LET committed == [s EXCEPT !.budget = Commit(@, job, kind)]
        counted == [committed EXCEPT !.client.pendingPresentations = @ + 1]
        refused == [committed EXCEPT !.budget = RemoveStored(@, kind, Bytes[job.tile])]
    IN  IF IsOutdated(s, job) THEN Discard([s EXCEPT !.budget = Cancel(@, job)], job)
        ELSE IF ~CommitFits(s.budget, job, kind) THEN Discard(committed, job)
        ELSE IF Accepts(s.canvas, job) THEN CompositorStore(counted, job, kind)
        ELSE Discard(refused, job)

\* Mutant: a tile that cannot be asked for again is not confirmed.
FailedForgotten(s, job) ==
    LET failed == [s EXCEPT !.client.terminal = @ + 1]
    IN  IF MayAskAgain(failed, job) THEN RequestSelectiveRetry(failed, job) ELSE failed

OnFailed(s, job) ==
    LET failed == [s EXCEPT !.client.terminal = @ + 1]
    IN  IF MayAskAgain(failed, job) THEN RequestSelectiveRetry(failed, job)
        ELSE Release(failed, job)

\* onWorker: an answer nobody waits for is dropped.
OnAnswer(s, answer) ==
    LET job == answer.job
        kind == s.client.pending[job]
        taken == [s EXCEPT !.client.pending = Restrict(@, DOMAIN @ \ {job})]
        cancelled == [taken EXCEPT !.budget = Cancel(@, job)]
    IN  IF job \notin DOMAIN s.client.pending THEN s
        ELSE UpdateCompletionPhase(
            CASE answer.type = "decoded" -> OnDecoded(taken, job, kind)
              [] answer.type = "discarded" -> Discard(cancelled, job)
              [] answer.type = "failed" -> OnFailed(cancelled, job))

--------------------------------------------------------------------------------
\* Connections

\* cleanupConnection, of the current connection: what was pending is dropped.
CleanupConnection(s) ==
    LET reset == CompositorReset([s EXCEPT
            !.worker = ResetWorker(@, s.client.connectionId), !.client.pending = <<>>])
    IN  [reset EXCEPT
            !.budget = EmptyBudget, !.ledger = EmptyLedger,
            !.client.pendingPresentations = 0, !.client.manifest = NoImage,
            !.client.plan = NoPlan, !.client.welcome = FALSE, !.client.serverDone = FALSE]

\* onClose: an error already shown stays.
OnClose(s) ==
    LET clean == CleanupConnection(s)
    IN  IF clean.client.phase = "error" THEN clean
        ELSE [clean EXCEPT !.client.phase = "disconnected", !.client.error = "closed"]

\* connect.  The canvas is reset before pending is cleared, so the callbacks of
\* its entries may still change the phase.
OnConnect(s) ==
    LET connection == s.client.connectionId + 1
        fresh == FreshClient(connection, s.client.selected, s.client.viewport)
        begun == [CloseTransport(s) EXCEPT
            !.client = [fresh EXCEPT !.pending = s.client.pending,
                                     !.pendingPresentations = s.client.pendingPresentations],
            !.ledger = EmptyLedger,
            !.worker = ResetWorker(@, connection - 1)]
        reset == CompositorReset(begun)
    IN  [reset EXCEPT
            !.client = [fresh EXCEPT !.phase = reset.client.phase],
            !.budget = EmptyBudget,
            !.sockets[connection] = "connecting",
            !.server = FreshServer]

--------------------------------------------------------------------------------
\* The user

Connect ==
    /\ client.connectionId < MaxConnections
    /\ Becomes(OnConnect(Now))

SelectImage(image) ==
    LET selected == [Now EXCEPT !.client.selected = image]
        phase == IF client.phase \in {"connecting", "error"} THEN client.phase ELSE "disconnected"
    IN  Becomes(IF client.welcome /\ IsOpen(Now) THEN OpenSelected(selected)
                ELSE [selected EXCEPT !.client.phase = phase])

RetrySelectedImage ==
    /\ client.welcome
    /\ IsOpen(Now)
    /\ Becomes(OpenSelected(Now))

\* The first size of the stage.  The canvas takes the layout, but only a
\* MANIFEST starts it.
SetViewport ==
    LET sized == [Now EXCEPT !.client.viewport = TRUE]
    IN  /\ ~client.viewport
        /\ Becomes(IF client.manifest = NoImage THEN sized
                   ELSE RequestView([sized EXCEPT !.canvas = SchedulePaint(@)]))

\* Any navigation, and the timers it arms.
Navigate ==
    /\ client.manifest # NoImage
    /\ IsOpen(Now)
    /\ Becomes(RequestView(Now))

--------------------------------------------------------------------------------
\* The browser: sockets, worker, frames

TransportOpens ==
    LET c == client.connectionId
    IN  /\ sockets[c] = "connecting"
        /\ sockets' = [sockets EXCEPT ![c] = "open"]
        /\ UNCHANGED <<client, ledger, budget, canvas, worker, server>>

\* The server closes: nothing more comes, and the close event comes later.
PeerCloses ==
    LET c == client.connectionId
    IN  /\ sockets[c] = "open"
        /\ sockets' = [sockets EXCEPT ![c] = "closing"]
        /\ UNCHANGED <<client, ledger, budget, canvas, worker, server>>

\* The close event of a connection, after an error event if it failed.
CloseEvent(c, failed) ==
    LET closed == [Now EXCEPT !.sockets[c] = "closed"]
    IN  /\ sockets[c] = "closing" \/ (failed /\ sockets[c] \in {"connecting", "open"})
        /\ Becomes(IF c # client.connectionId THEN closed
                   ELSE OnClose(IF failed THEN Fail(closed, "transport") ELSE closed))

DecodeEnds(job, ok) ==
    /\ job \in worker.active
    /\ worker' = DecodingEnds(worker, job, ok)
    /\ UNCHANGED <<client, ledger, budget, canvas, sockets, server>>

OnWorker ==
    /\ Len(worker.outbox) > 0
    /\ Becomes(OnAnswer([Now EXCEPT !.worker.outbox = Tail(@)], Head(worker.outbox)))

\* An animation frame: every entry is drawn, and those drawn first confirmed.
Paint ==
    /\ canvas.frame
    /\ Becomes([EndPresentations(Now, DOMAIN canvas.entries) EXCEPT !.canvas = PaintAll(@)])

--------------------------------------------------------------------------------
\* The server

\* What the server sends arrives while the socket is open.
Receives(s) == IsOpen(Now) /\ Becomes(s)

ServerSays(stage) == [Now EXCEPT !.server.stage = stage]

ServerAnswers(epoch, stage) == [ServerSays(stage) EXCEPT !.server.epoch = epoch]

\* A control the server did not take yet; taking it drops those before.
Untaken(epoch, type) ==
    /\ server.stage # "hello"
    /\ epoch > server.epoch
    /\ server.controls[epoch].type = type

ReceiveWelcome ==
    /\ server.stage = "hello"
    /\ Receives(OnWelcome(ServerSays("idle")))

ReceiveHelloError ==
    /\ server.stage = "hello"
    /\ Receives(OnError(ServerSays("over"), 0))

ReceiveManifest(e) ==
    /\ Untaken(e, "OPEN")
    /\ Receives(OnManifest(ServerAnswers(e, "idle"), e, server.controls[e].image))

ReceivePlan(e, contextLevel) ==
    /\ Untaken(e, "VIEW")
    /\ Receives(OnPlan(ServerAnswers(e, "sending"), e, contextLevel))

ReceiveRefusal(e) ==
    /\ Untaken(e, "OPEN") \/ Untaken(e, "VIEW")
    /\ Receives(OnError(ServerAnswers(e, "idle"), e))

ReceiveReadError ==
    /\ server.stage = "sending"
    /\ Receives(OnError(ServerSays("idle"), server.epoch))

ReceiveDone ==
    /\ server.stage = "sending"
    /\ Receives(OnDone(ServerSays("idle"), server.epoch))

JobOf(id, delivery) ==
    [connection |-> client.connectionId, delivery |-> id, epoch |-> delivery.epoch,
     image |-> delivery.image, tile |-> delivery.tile]

\* A tile of the plan, once in its epoch, under the next id.
ReceiveTile(tile) ==
    LET id == Len(server.deliveries) + 1
        delivery == [epoch |-> server.epoch, image |-> server.controls[server.epoch].image,
                     tile |-> tile, receipt |-> [copies |-> 1, asks |-> 0, acks |-> 0]]
    IN  /\ server.stage = "sending"
        /\ id <= MaxDeliveries[client.connectionId]
        /\ \A d \in ToSet(server.deliveries) : d.epoch # server.epoch \/ d.tile # tile
        /\ Receives(OnBinary([Now EXCEPT !.server.deliveries = Append(@, delivery)],
                             JobOf(id, delivery)))

CopyIsDue(id) ==
    server.deliveries[id].receipt.asks = server.deliveries[id].receipt.copies

\* One more copy of a tile that was asked for again.
ReceiveRetransmission(id) ==
    /\ CopyIsDue(id)
    /\ server.deliveries[id].receipt.acks = 0
    /\ Receives(OnBinary([Now EXCEPT !.server.deliveries[id].receipt.copies = @ + 1],
                         JobOf(id, server.deliveries[id])))

\* The server could not read a tile that was asked for again: it tells, and
\* goes on with its plan.
ReceiveRecoveryError(id) ==
    /\ CopyIsDue(id)
    /\ Receives(OnError(Now, server.deliveries[id].epoch))

--------------------------------------------------------------------------------
User ==
    \/ Connect
    \/ \E image \in Images : SelectImage(image)
    \/ RetrySelectedImage
    \/ SetViewport
    \/ Navigate

Browser ==
    \/ TransportOpens
    \/ PeerCloses
    \/ \E c \in Connections, failed \in BOOLEAN : CloseEvent(c, failed)
    \/ \E job \in worker.active, ok \in BOOLEAN : DecodeEnds(job, ok)
    \/ OnWorker
    \/ Paint

Server ==
    \/ ReceiveWelcome
    \/ ReceiveHelloError
    \/ \E e \in DOMAIN server.controls : ReceiveManifest(e) \/ ReceiveRefusal(e)
    \/ \E e \in DOMAIN server.controls, level \in 0..1 : ReceivePlan(e, level)
    \/ ReceiveReadError
    \/ ReceiveDone
    \/ \E tile \in Tiles : ReceiveTile(tile)
    \/ \E id \in DOMAIN server.deliveries : ReceiveRetransmission(id) \/ ReceiveRecoveryError(id)

Next == User \/ Browser \/ Server

Spec == Init /\ [][Next]_vars

--------------------------------------------------------------------------------
\* Properties

Jobs ==
    [connection : Connections, delivery : Deliveries, epoch : 1..MaxEpoch,
     image : Images, tile : Tiles]

\* The client and what it holds have their type.
TypeOK ==
    /\ client.connectionId \in Connections
    /\ client.epoch \in 0..MaxEpoch
    /\ {client.selected, client.manifest, canvas.manifest} \subseteq Images \cup {NoImage}
    /\ client.plan \in {NoPlan, 0, 1}
    /\ client.phase \in {"disconnected", "connecting", "ready", "opening", "receiving",
                         "processing", "observing", "error"}
    /\ client.error \in {"none", "remote", "exhausted", "violation", "transport", "closed"}
    /\ DOMAIN client.pending \subseteq Jobs
    /\ {client.received, client.terminal, client.releases, client.pendingPresentations} \subseteq Nat
    /\ DOMAIN ledger.active \subseteq Deliveries
    /\ Len(ledger.released) <= MaxReleasedHistory
    /\ DOMAIN budget.reservations \subseteq Jobs
    /\ {budget.transientBytes, budget.contextBytes, budget.detailBytes} \subseteq Nat
    /\ DOMAIN canvas.entries \subseteq Tiles
    /\ worker.active \subseteq Jobs
    /\ Cardinality(worker.active) <= MaxActive
    /\ Len(worker.queue) <= MaxQueuedJobs
    /\ sockets \in [Connections -> {"none", "connecting", "open", "closing", "closed"}]

\* Deliveries that wait for the worker, for a frame, for a copy.
Decoding == {job.delivery : job \in DOMAIN client.pending}
Undrawn == {canvas.entries[t].job.delivery : t \in Unpresented(canvas, Tiles)}
Awaited == {d \in DOMAIN ledger.active : ledger.active[d].retryExpected}

\* Jobs the worker has: each is in one place only.
AtTheWorker ==
    worker.active \cup ToSet(worker.queue) \cup {answer.job : answer \in ToSet(worker.outbox)}

\* While the socket is open, a delivery that is not confirmed is in the hands of
\* exactly one of the worker, the canvas and the server, and what waits for the
\* worker is there: a tile nobody holds would keep its bytes of the server's
\* window for ever.
EveryTileHasAnOwner ==
    /\ DOMAIN client.pending \subseteq AtTheWorker
    /\ Cardinality(AtTheWorker) =
            Cardinality(worker.active) + Len(worker.queue) + Len(worker.outbox)
    /\ IsOpen(Now) =>
        /\ DOMAIN ledger.active = Decoding \cup Undrawn \cup Awaited
        /\ Decoding \cap Undrawn = {}
        /\ Awaited \cap (Decoding \cup Undrawn) = {}

\* The counters of the budget are what is reserved and what the canvas keeps,
\* over reconnections, openings and late answers; no budget is exceeded, and no
\* reservation outlives the job it was made for.
BudgetExact ==
    LET Kept(kind) == {t \in DOMAIN canvas.entries : canvas.entries[t].kind = kind}
        BytesOf(tiles) == MapThenSumSet(LAMBDA t : Bytes[t], tiles)
    IN  /\ budget.transientBytes = SumFunction(budget.reservations)
        /\ budget.contextBytes = BytesOf(Kept("context"))
        /\ budget.detailBytes = BytesOf(Kept("detail"))
        /\ budget.contextBytes + budget.transientBytes <= TransientBudgetBytes
        /\ budget.detailBytes <= DetailBudgetBytes
        /\ DOMAIN budget.reservations \subseteq DOMAIN client.pending

\* The account of the trace: each tile received is pending or has ended (drawn,
\* discarded or failed), and those that ended are the confirmations and the
\* requests to send a tile again.  docs/A22.md:148-149 leaves the requests out: its
\* RELEASE = drawn + discarded + failed holds of a connection that made none, and
\* is off by their number otherwise, for requestSelectiveRetry counts a failure
\* and confirms nothing.  Those that wait for a frame of the canvas are counted
\* as its callbacks come, and a frame was requested.
AccountsBalance ==
    /\ client.welcome =>
        /\ client.received = client.terminal + Cardinality(DOMAIN client.pending)
                                + client.pendingPresentations
        /\ IsOpen(Now) => client.terminal = client.releases
                + MapThenSumSet(LAMBDA d : server.deliveries[d].receipt.asks, DOMAIN server.deliveries)
    /\ client.pendingPresentations = Cardinality(Undrawn)
    /\ Undrawn # {} => canvas.frame

\* A server that follows the protocol is never accused of violating it, however
\* late its answers are.  There are two exceptions.  Once the epochs are
\* exhausted, another image can be selected without an OPEN, and MANIFEST is of
\* the one before.  And manifestHistory is bounded: a copy that was asked for may
\* come when its image is forgotten.
SelectedWithoutOpen ==
    LET opens == {e \in DOMAIN server.controls : server.controls[e].type = "OPEN"}
    IN  /\ EpochsExhausted(Now)
        /\ opens # {} /\ server.controls[Max(opens)].image # client.selected

ForgottenImage ==
    \E id \in DOMAIN server.deliveries :
        /\ CopyIsDue(id)
        /\ ~Contains(client.manifestHistory, server.deliveries[id].image)

Accuses == client.error # "violation" /\ client'.error = "violation"

NoFalseViolation == [][Accuses => SelectedWithoutOpen \/ ForgottenImage]_vars

\* What the canvas shows is of the image and the connection of today, and its
\* detail of the view of today.
NothingStaleOnCanvas ==
    /\ canvas.manifest \in {NoImage, client.manifest}
    /\ \A t \in DOMAIN canvas.entries :
        LET job == canvas.entries[t].job
        IN  /\ job.connection = client.connectionId
            /\ job.image = client.manifest
            /\ Level[t] # 0 => job.epoch = client.epoch

\* "observing" is only said when nothing waits to be decoded or drawn.
ObservingIsSettled ==
    client.phase = "observing" =>
        DOMAIN client.pending = {} /\ client.pendingPresentations = 0

\* The client implements the receipts a server can count on.
ReceiptOf(d) ==
    IF d \in DOMAIN server.deliveries THEN server.deliveries[d].receipt
    ELSE [copies |-> 0, asks |-> 0, acks |-> 0]

Receipts == INSTANCE TileReceipts WITH receipts <- [d \in Deliveries |-> ReceiptOf(d)]

ImplementsReceipts == Receipts!Spec

================================================================================
