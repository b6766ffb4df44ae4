-------------------------- MODULE LupaClientInvariant --------------------------
(***************************************************************************)
(* The inductive invariant of LupaClient.                                  *)
(*                                                                         *)
(* A callback is a chain of operators on a record s of all the variables,  *)
(* and half way through it a tile may be in no place but the hands of the  *)
(* callback: the invariant is stated of a state s while the jobs J are in  *)
(* hands.  Between two callbacks J is empty.                               *)
(***************************************************************************)
EXTENDS LupaClient

--------------------------------------------------------------------------------
\* How often copies of the deliveries were asked for.
AsksOf(deliveries) == [d \in DOMAIN deliveries |-> deliveries[d].receipt.asks]
SumOfAsks(deliveries) == SumFunctionOnSet(AsksOf(deliveries), DOMAIN deliveries)
Elements(seq) == {seq[i] : i \in 1..Len(seq)}

--------------------------------------------------------------------------------
\* The worker: every job it was given is in one place, and stays until it is
\* answered

AnswerTypes == {"decoded", "discarded", "failed"}
Answers == [type : AnswerTypes, job : Jobs]

IsWorker(w) ==
    /\ w = [queue |-> w.queue, active |-> w.active, minimumEpoch |-> w.minimumEpoch,
            outbox |-> w.outbox]
    /\ w.queue \in Seq(Jobs)
    /\ w.active \in SUBSET Jobs
    /\ IsFiniteSet(w.active)
    /\ w.outbox \in Seq(Answers)

\* No job is in two places.
OneEach(w) ==
    /\ \A i, k \in 1..Len(w.queue) : w.queue[i] = w.queue[k] => i = k
    /\ \A i, k \in 1..Len(w.outbox) : w.outbox[i].job = w.outbox[k].job => i = k
    /\ \A i \in 1..Len(w.queue) : w.queue[i] \notin w.active
    /\ \A k \in 1..Len(w.outbox) : w.outbox[k].job \notin w.active
    /\ \A i \in 1..Len(w.queue), k \in 1..Len(w.outbox) : w.queue[i] # w.outbox[k].job

InQueue(w) == {w.queue[i] : i \in 1..Len(w.queue)}
InOutbox(w) == {w.outbox[k].job : k \in 1..Len(w.outbox)}
JobsOf(w) == w.active \cup InQueue(w) \cup InOutbox(w)
InLimits(w) == Cardinality(w.active) <= MaxActive /\ Len(w.queue) <= MaxQueuedJobs
WorkerOK(w) == IsWorker(w) /\ OneEach(w) /\ InLimits(w)

--------------------------------------------------------------------------------
\* Types

StateFields == {"client", "ledger", "budget", "canvas", "worker", "sockets", "server"}

ClientFields ==
    {"connectionId", "epoch", "selected", "manifest", "manifestHistory", "plan", "welcome",
     "viewport", "pending", "phase", "error", "received", "terminal", "releases",
     "pendingPresentations", "serverDone"}

IsState(s) == s = [f \in StateFields |-> s[f]]
IsClient(c) == c = [f \in ClientFields |-> c[f]]
Kinds == {"context", "detail"}

Phases == {"disconnected", "connecting", "ready", "opening", "receiving", "processing",
           "observing", "error"}

Errors == {"none", "remote", "exhausted", "violation", "transport", "closed"}
SocketStates == {"none", "connecting", "open", "closing", "closed"}

ClientOK(c) ==
    /\ IsClient(c)
    /\ c.connectionId \in Connections
    /\ c.epoch \in 0..MaxEpoch
    /\ c.selected \in Images \cup {NoImage}
    /\ c.manifest \in Images \cup {NoImage}
    /\ c.manifestHistory \in Seq(Images)
    /\ c.plan \in {NoPlan, 0, 1}
    /\ c.phase \in Phases
    /\ c.error \in Errors
    /\ DOMAIN c.pending \in SUBSET Jobs
    /\ IsFiniteSet(DOMAIN c.pending)
    /\ c.pending \in [DOMAIN c.pending -> Kinds]
    /\ c.received \in Nat /\ c.terminal \in Nat /\ c.releases \in Nat
    /\ c.pendingPresentations \in Nat

Expectation == [connection : Connections, retryExpected : BOOLEAN, retryRequests : Nat]

LedgerOK(l) ==
    /\ l = [active |-> l.active, released |-> l.released]
    /\ DOMAIN l.active \in SUBSET Deliveries
    /\ l.active \in [DOMAIN l.active -> Expectation]
    /\ l.released \in Seq(Deliveries)
    /\ Len(l.released) <= MaxReleasedHistory

IsBudget(b) ==
    /\ b = [reservations |-> b.reservations, transientBytes |-> b.transientBytes,
            contextBytes |-> b.contextBytes, detailBytes |-> b.detailBytes]
    /\ b.transientBytes \in Nat /\ b.contextBytes \in Nat /\ b.detailBytes \in Nat

Entry == [job : Jobs, kind : Kinds, presented : BOOLEAN]

CanvasOK(v) ==
    /\ v = [manifest |-> v.manifest, currentEpoch |-> v.currentEpoch, entries |-> v.entries,
            frame |-> v.frame]
    /\ DOMAIN v.entries \in SUBSET Tiles
    /\ IsFiniteSet(DOMAIN v.entries)
    /\ v.entries \in [DOMAIN v.entries -> Entry]

Control == [type : {"OPEN", "VIEW"}, image : Images]
Counts == [copies : Nat, asks : Nat, acks : Nat]
Sent == [epoch : 1..MaxEpoch, image : Images, tile : Tiles, receipt : Counts]

ServerOK(e) ==
    /\ e = [stage |-> e.stage, epoch |-> e.epoch, controls |-> e.controls,
            deliveries |-> e.deliveries]
    /\ e.stage \in {"hello", "idle", "sending", "over"}
    /\ e.epoch \in 0..MaxEpoch
    /\ e.controls \in Seq(Control)
    /\ e.deliveries \in Seq(Sent)

Typed(s) ==
    /\ IsState(s)
    /\ ClientOK(s.client)
    /\ LedgerOK(s.ledger)
    /\ IsBudget(s.budget)
    /\ CanvasOK(s.canvas)
    /\ WorkerOK(s.worker)
    /\ s.sockets \in [Connections -> SocketStates]
    /\ ServerOK(s.server)

--------------------------------------------------------------------------------
\* The inductive invariant

Pending(s) == DOMAIN s.client.pending
UndrawnTiles(s) == Unpresented(s.canvas, Tiles)
UndrawnJobs(s) == {s.canvas.entries[t].job : t \in UndrawnTiles(s)}
Held(s, J) == Pending(s) \cup UndrawnJobs(s) \cup J

\* Every job is of the connection of today, and in one place.
Placed(s, J) ==
    /\ J \in SUBSET Jobs /\ IsFiniteSet(J)
    /\ \A j \in Pending(s) \cup J : j.connection = s.client.connectionId
    /\ \A t \in DOMAIN s.canvas.entries :
        /\ s.canvas.entries[t].job.tile = t
        /\ s.canvas.entries[t].job.connection = s.client.connectionId
    /\ \A j \in Held(s, J) : j.delivery \in DOMAIN s.server.deliveries
    /\ \A j, k \in Held(s, J) : j.delivery = k.delivery => j = k
    /\ Pending(s) \cap UndrawnJobs(s) = {}
    /\ J \cap (Pending(s) \cup UndrawnJobs(s)) = {}

\* What is pending is at the worker, and while the socket lives nothing else of
\* this connection is.
AtWork(s, J) ==
    /\ Pending(s) \subseteq JobsOf(s.worker)
    /\ J \cap JobsOf(s.worker) = {}
    /\ \A j \in JobsOf(s.worker) : j.connection <= s.client.connectionId
    /\ IsOpen(s) =>
        \A j \in JobsOf(s.worker) : j.connection = s.client.connectionId => j \in Pending(s)

\* A delivery that is not confirmed is held here, or a copy of it is awaited.
Owned(s, J) ==
    IsOpen(s) =>
        /\ \A d \in DOMAIN s.ledger.active :
            /\ s.ledger.active[d].connection = s.client.connectionId
            /\ s.ledger.active[d].retryExpected \/ \E j \in Held(s, J) : j.delivery = d
        /\ \A j \in Held(s, J) :
            /\ j.delivery \in DOMAIN s.ledger.active
            /\ ~s.ledger.active[j.delivery].retryExpected

\* The ledger and the server agree on every delivery.
Agreed(s) ==
    IsOpen(s) =>
        /\ DOMAIN s.ledger.active \cup Elements(s.ledger.released) \subseteq DOMAIN s.server.deliveries
        /\ \A d \in DOMAIN s.server.deliveries :
            LET receipt == s.server.deliveries[d].receipt
            IN  IF d \in DOMAIN s.ledger.active
                THEN /\ receipt.acks = 0
                     /\ receipt.asks = s.ledger.active[d].retryRequests
                     /\ receipt.asks <= MaxSelectiveRetries
                     /\ receipt.copies =
                            IF s.ledger.active[d].retryExpected THEN receipt.asks
                            ELSE receipt.asks + 1
                ELSE receipt.acks = 1 /\ receipt.copies = receipt.asks + 1

\* The account of the trace: a tile in hands is counted neither as pending nor as ended.
Accounts(s, J) ==
    /\ s.client.welcome =>
        /\ s.client.received = s.client.terminal + Cardinality(Pending(s))
                                + s.client.pendingPresentations + Cardinality(J)
        /\ IsOpen(s) =>
            s.client.terminal = s.client.releases + SumOfAsks(s.server.deliveries)
    /\ s.client.pendingPresentations = Cardinality(UndrawnTiles(s))
    /\ UndrawnTiles(s) # {} => s.canvas.frame

\* What the canvas keeps, and what is reserved.
KeptTiles(entries, kind) == {t \in DOMAIN entries : entries[t].kind = kind}
KeptBytes(entries, kind) == SumFunctionOnSet(Bytes, KeptTiles(entries, kind))
ReservedBytes(b) == SumFunctionOnSet(b.reservations, DOMAIN b.reservations)

\* The counters of the budget are sums, and a reservation is of a job that is not over.
Budgets(s, J) ==
    /\ DOMAIN s.budget.reservations \subseteq Pending(s) \cup J
    /\ \A j \in DOMAIN s.budget.reservations : s.budget.reservations[j] = Bytes[j.tile]
    /\ s.budget.transientBytes = ReservedBytes(s.budget)
    /\ s.budget.contextBytes = KeptBytes(s.canvas.entries, "context")
    /\ s.budget.detailBytes = KeptBytes(s.canvas.entries, "detail")
    /\ s.budget.contextBytes + s.budget.transientBytes <= TransientBudgetBytes
    /\ s.budget.detailBytes <= DetailBudgetBytes

\* What the canvas shows is of today.
Fresh(s) ==
    /\ s.canvas.manifest \in {NoImage, s.client.manifest}
    /\ s.canvas.manifest = NoImage => DOMAIN s.canvas.entries = {}
    /\ s.canvas.manifest # NoImage => s.client.viewport
    /\ \A t \in DOMAIN s.canvas.entries :
        LET job == s.canvas.entries[t].job
        IN  job.image = s.client.manifest /\ (Level[t] # 0 => job.epoch = s.client.epoch)

\* "observing" is only said when nothing waits.
Settled(s) ==
    s.client.phase = "observing" => Pending(s) = {} /\ s.client.pendingPresentations = 0

\* What was said to the server, and what it took.
Spoken(s) ==
    /\ Len(s.server.controls) = s.client.epoch
    /\ s.server.epoch <= s.client.epoch
    /\ s.server.stage = "sending" =>
            s.server.epoch # 0 /\ s.server.controls[s.server.epoch].type = "VIEW"
    /\ \A d \in DOMAIN s.server.deliveries : s.server.deliveries[d].epoch <= s.server.epoch

LastOf(seq) == seq[Len(seq)]

\* A view the server did not finish is of the image the client knows best.
Known(s) ==
    /\ \A e \in DOMAIN s.server.controls :
        /\ s.server.controls[e].type = "VIEW"
        /\ e > s.server.epoch \/ (e = s.server.epoch /\ s.server.stage = "sending")
        => /\ s.client.manifestHistory # <<>>
           /\ s.server.controls[e].image = LastOf(s.client.manifestHistory)
    /\ s.client.manifest # NoImage =>
        /\ s.client.manifestHistory # <<>>
        /\ s.client.manifest = LastOf(s.client.manifestHistory)

\* The last control is about what the client waits for.
Asked(s) ==
    IsOpen(s) /\ s.server.controls # <<>> =>
        IF LastOf(s.server.controls).type = "VIEW" THEN s.client.manifest # NoImage
        ELSE LastOf(s.server.controls).image = s.client.selected \/ EpochsExhausted(s)

IsLive(s) == s.sockets[s.client.connectionId] \in {"connecting", "open"}

\* Nothing happened before WELCOME, and nothing is left after the close.
Quiet(s) ==
    ~s.client.welcome =>
        /\ Pending(s) = {} /\ s.client.pendingPresentations = 0 /\ s.client.manifest = NoImage
        /\ DOMAIN s.canvas.entries = {} /\ s.canvas.manifest = NoImage
        /\ s.ledger = EmptyLedger /\ s.budget = EmptyBudget
        /\ IsLive(s) =>
            /\ s.client.received = 0 /\ s.client.terminal = 0 /\ s.client.releases = 0
            /\ s.server.controls = <<>> /\ s.server.deliveries = <<>>
            /\ \A j \in JobsOf(s.worker) : j.connection # s.client.connectionId

\* The connections are opened in their order, and WELCOME comes after the open event.
Sockets(s) ==
    /\ s.sockets[0] = "none"
    /\ \A c \in Connections : c > s.client.connectionId => s.sockets[c] = "none"
    /\ s.sockets[s.client.connectionId] = "connecting" => ~s.client.welcome

\* What holds in the midst of a callback.
Core(s, J) ==
    /\ Typed(s)
    /\ Placed(s, J)
    /\ AtWork(s, J)
    /\ Owned(s, J)
    /\ Agreed(s)
    /\ Accounts(s, J)
    /\ Budgets(s, J)
    /\ Spoken(s)
    /\ Known(s)
    /\ Asked(s)
    /\ Quiet(s)
    /\ Sockets(s)

\* Between two callbacks no job is in hands.
Sound(s) == Core(s, {}) /\ Fresh(s) /\ Settled(s)
Inv == Sound(Now)

================================================================================
