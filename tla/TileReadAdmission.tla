---------------------------- MODULE TileReadAdmission ----------------------------
(***************************************************************************)
(* Deficit Round Robin admission of tile reads                             *)
(* (gt.lupa.concurrent.TileReadAdmission).                                 *)
(*                                                                         *)
(* Sessions ("owners") compete for MaxInFlight read permits.  An owner has *)
(* at most one turn, active or queued.  When a turn ends its permit is     *)
(* handed to the first waiter whose deficit, one quantum richer at every   *)
(* visit, covers the cost of its previous tile.                            *)
(*                                                                         *)
(* Every method runs under the monitor of the object.  The only one that   *)
(* loops is release(): it is split into one step per visited waiter, and   *)
(* "monitor" says whether the releasing thread is inside, which keeps      *)
(* every other method out.  The callback of the granted waiter runs        *)
(* after the monitor is left, so it interleaves with everything.           *)
(*                                                                         *)
(* Left out: the counters of snapshot(), and the rejections of             *)
(* acquireOrQueue() (DUPLICATE_OWNER, QUEUE_FULL), which change only those *)
(* counters.                                                               *)
(***************************************************************************)
EXTENDS Integers, Sequences, FiniteSets, SequencesExt

CONSTANTS
    Owners,        \* session ids that ever ask for a turn
    MaxInFlight,   \* maxInFlight
    MaxWaiters,    \* maxWaiters
    Quantum,       \* quantumBytes
    Costs          \* actualBytes a turn can be completed with; 0 is close()

ASSUME ConstantsAssumption ==
    /\ MaxInFlight \in Nat \ {0}
    /\ MaxWaiters \in Nat \ {0}
    /\ Quantum \in Nat \ {0}
    /\ Costs \subseteq Nat

VARIABLES
    waiters,            \* Deque<Waiter>, head first
    outstandingOwners,  \* owners with an active or queued turn
    deficitBytes,       \* FlowState.deficitBytes
    lastCostBytes,      \* FlowState.lastCostBytes
    inFlight,           \* permits taken
    leases,             \* owners whose Lease has not been completed
    delivering,         \* leases whose onGranted callback has not returned
    monitor,            \* "free", or "selecting": a release() is choosing a waiter
    skips               \* history: visits that passed over the owner while it waits

vars == <<waiters, outstandingOwners, deficitBytes, lastCostBytes, inFlight,
          leases, delivering, monitor, skips>>

flows == <<deficitBytes, lastCostBytes>>

MAX_COST_MULTIPLIER == 4

\* The largest cost, and the largest credit or debt, of a flow.
MaxCost == MAX_COST_MULTIPLIER * Quantum

AtMost(bound, n) == IF n > bound THEN bound ELSE n
AtLeast(bound, n) == IF n < bound THEN bound ELSE n

TypeOK ==
    /\ waiters \in Seq(Owners)
    /\ outstandingOwners \subseteq Owners
    /\ deficitBytes \in [Owners -> Int]
    /\ lastCostBytes \in [Owners -> Nat]
    /\ inFlight \in Int
    /\ leases \subseteq Owners
    /\ delivering \subseteq Owners
    /\ monitor \in {"free", "selecting"}
    /\ skips \in [Owners -> Nat]

\* The flow of an owner is created on demand; its initial values are those of
\* FlowState(quantumBytes), and nothing ever removes it.
Init ==
    /\ waiters = <<>>
    /\ outstandingOwners = {}
    /\ deficitBytes = [o \in Owners |-> 0]
    /\ lastCostBytes = [o \in Owners |-> Quantum]
    /\ inFlight = 0
    /\ leases = {}
    /\ delivering = {}
    /\ monitor = "free"
    /\ skips = [o \in Owners |-> 0]

--------------------------------------------------------------------------------
\* acquireOrQueue

\* The deficit after grantAccounting: an uncontended turn is topped up with
\* one quantum when the deficit does not cover it.
GrantAccounting(o) ==
    IF deficitBytes[o] < lastCostBytes[o]
    THEN AtMost(MaxCost, deficitBytes[o] + Quantum)
    ELSE deficitBytes[o]

\* Mutants: the comparison is off by one, one way or the other.
FreePermitOneTooMany == inFlight <= MaxInFlight /\ waiters = <<>>
FreePermitOneTooFew == inFlight + 1 < MaxInFlight /\ waiters = <<>>

FreePermit == inFlight < MaxInFlight /\ waiters = <<>>

\* Mutant: the duplicate-owner check is dropped.
MayAskAgain(o) == monitor = "free"

\* The monitor is free and the owner has no turn (else DUPLICATE_OWNER).
MayAsk(o) == monitor = "free" /\ o \notin outstandingOwners

AcquireGranted(o) ==
    /\ MayAsk(o)
    /\ FreePermit
    /\ outstandingOwners' = outstandingOwners \cup {o}
    /\ inFlight' = inFlight + 1
    /\ deficitBytes' = [deficitBytes EXCEPT ![o] = GrantAccounting(o)]
    /\ leases' = leases \cup {o}
    /\ UNCHANGED <<waiters, lastCostBytes, delivering, monitor, skips>>

\* Mutant: the newest waiter goes first.
EnqueuedFirst(o) == <<o>> \o waiters

Enqueued(o) == Append(waiters, o)

AcquireQueued(o) ==
    /\ MayAsk(o)
    /\ ~FreePermit
    /\ Len(waiters) < MaxWaiters        \* else QUEUE_FULL
    /\ outstandingOwners' = outstandingOwners \cup {o}
    /\ waiters' = Enqueued(o)
    /\ UNCHANGED <<flows, inFlight, leases, delivering, monitor, skips>>

--------------------------------------------------------------------------------
\* Lease.complete, Lease.close and release

\* Mutants: the estimate of the next cost is confused with the deficit; the
\* debt of an expensive turn is not floored.
ChargeSwapped(o, bytes) ==
    IF bytes > 0
    THEN LET deficit == AtLeast(-MaxCost, deficitBytes[o] - AtMost(MaxCost, bytes)) IN
         /\ lastCostBytes' = [lastCostBytes EXCEPT ![o] = deficit]
         /\ deficitBytes' = [deficitBytes EXCEPT ![o] = deficit]
    ELSE UNCHANGED flows

ChargeUnbounded(o, bytes) ==
    IF bytes > 0
    THEN LET cost == AtMost(MaxCost, bytes) IN
         /\ lastCostBytes' = [lastCostBytes EXCEPT ![o] = cost]
         /\ deficitBytes' = [deficitBytes EXCEPT ![o] = @ - cost]
    ELSE UNCHANGED flows

\* The turn is charged what it read: the cost is capped, the debt floored.
Charge(o, bytes) ==
    IF bytes > 0
    THEN LET cost == AtMost(MaxCost, bytes) IN
         /\ lastCostBytes' = [lastCostBytes EXCEPT ![o] = cost]
         /\ deficitBytes' = [deficitBytes EXCEPT ![o] = AtLeast(-MaxCost, @ - cost)]
    ELSE UNCHANGED flows

\* The compareAndSet of Lease.released succeeds and release() enters the
\* monitor: the permit of o is now in the hand of the releasing thread.
Release(o, bytes) ==
    /\ monitor = "free"
    /\ o \in leases
    /\ leases' = leases \ {o}
    /\ delivering' = delivering \ {o}
    /\ outstandingOwners' = outstandingOwners \ {o}
    /\ Charge(o, bytes)
    /\ monitor' = "selecting"
    /\ UNCHANGED <<waiters, inFlight, skips>>

Complete(o) == \E bytes \in Costs : Release(o, bytes)

\* Mutants: a visit is worth nothing; the queue is not looked at.
NotReplenished(o) == AtMost(MaxCost, deficitBytes[o])
NobodyLooked == TRUE

\* The deficit of the waiter being visited, with its new quantum.
Replenished(o) == AtMost(MaxCost, deficitBytes[o] + Quantum)

\* A visit that grants: the permit moves to the head of the queue, inFlight
\* stays, the monitor is left and the callback is about to run.  (The deficit
\* covers the cost, so grantAccounting adds nothing.)
VisitGrant ==
    /\ monitor = "selecting"
    /\ waiters # <<>>
    /\ LET w == Head(waiters) IN
       /\ Replenished(w) >= lastCostBytes[w]
       /\ deficitBytes' = [deficitBytes EXCEPT ![w] = Replenished(w)]
       /\ leases' = leases \cup {w}
       /\ delivering' = delivering \cup {w}
       /\ skips' = [skips EXCEPT ![w] = 0]
    /\ waiters' = Tail(waiters)
    /\ monitor' = "free"
    /\ UNCHANGED <<outstandingOwners, lastCostBytes, inFlight>>

\* A visit that passes over: the head keeps its quantum and goes to the tail.
VisitRotate ==
    /\ monitor = "selecting"
    /\ waiters # <<>>
    /\ LET w == Head(waiters) IN
       /\ Replenished(w) < lastCostBytes[w]
       /\ deficitBytes' = [deficitBytes EXCEPT ![w] = Replenished(w)]
       /\ waiters' = Append(Tail(waiters), w)
       /\ skips' = [skips EXCEPT ![w] = @ + 1]
    /\ UNCHANGED <<outstandingOwners, lastCostBytes, inFlight, leases, delivering, monitor>>

NobodyWaits == waiters = <<>>

\* Nobody is waiting: the permit goes back to the pool.
ReturnPermit ==
    /\ monitor = "selecting"
    /\ NobodyWaits
    /\ inFlight' = inFlight - 1
    /\ monitor' = "free"
    /\ UNCHANGED <<waiters, outstandingOwners, flows, leases, delivering, skips>>

\* onGranted.accept returns normally; the owner may have completed the lease
\* on another thread before that.
Deliver(o) ==
    /\ o \in delivering
    /\ delivering' = delivering \ {o}
    /\ UNCHANGED <<waiters, outstandingOwners, flows, inFlight, leases, monitor, skips>>

\* onGranted.accept throws: the catch block closes the transferred lease.
DeliverThrows(o) == o \in delivering /\ Release(o, 0)

--------------------------------------------------------------------------------
\* WaitHandle.cancel

\* A waiter that is still queued leaves.  Cancelling one that was granted
\* meanwhile changes nothing: the turn reaches its callback.  A cancelled
\* waiter is never left in the queue, so the "cancelled" branch of the
\* selection loop is not taken.
Cancel(o) ==
    /\ monitor = "free"
    /\ \E i \in 1..Len(waiters) : waiters[i] = o /\ waiters' = RemoveAt(waiters, i)
    /\ outstandingOwners' = outstandingOwners \ {o}
    /\ skips' = [skips EXCEPT ![o] = 0]
    /\ UNCHANGED <<flows, inFlight, leases, delivering, monitor>>

--------------------------------------------------------------------------------
Next ==
    \/ \E o \in Owners :
        \/ AcquireGranted(o)
        \/ AcquireQueued(o)
        \/ Complete(o)
        \/ Deliver(o)
        \/ DeliverThrows(o)
        \/ Cancel(o)
    \/ VisitGrant
    \/ VisitRotate
    \/ ReturnPermit

Spec == Init /\ [][Next]_vars

\* The releasing thread never blocks inside the monitor, and some active turn
\* always ends: a tile read returns or fails, and both complete the lease.
Fairness ==
    /\ WF_vars(VisitGrant \/ VisitRotate \/ ReturnPermit)
    /\ WF_vars(\E o \in Owners : Complete(o))

FairSpec == Spec /\ Fairness

--------------------------------------------------------------------------------
\* What the policy implements

\* The permit a releasing thread is about to pass on.
PermitInHand == IF monitor = "selecting" THEN 1 ELSE 0

Pool == INSTANCE TurnPool WITH
    Capacity <- MaxInFlight, held <- leases, waiting <- ToSet(waiters),
    inTransit <- PermitInHand

\* DRR admission implements the pool of permits of TurnPool: rotations of the
\* queue are invisible, and a permit is neither lost, duplicated nor idle.
ImplementsTurnPool == Pool!PoolSpec

--------------------------------------------------------------------------------
\* Properties

\* The permits counted by inFlight are exactly those somebody has: the owners
\* with an open lease and, during a release, the releasing thread.  A permit
\* counted twice starves the server for ever; one not counted lets more reads
\* run than maxInFlight.
PermitsAccounted ==
    /\ Cardinality(leases) + PermitInHand = inFlight
    /\ inFlight <= MaxInFlight

\* outstandingOwners is exactly the owners with an open lease or in the queue,
\* never both and never twice: an owner left in the set by mistake is refused
\* every later turn as DUPLICATE_OWNER, and one missing from it gets two turns.
OneTurnPerOwner ==
    /\ outstandingOwners = leases \cup ToSet(waiters)
    /\ leases \cap ToSet(waiters) = {}
    /\ \A i, j \in 1..Len(waiters) : waiters[i] = waiters[j] => i = j

\* Nobody waits while a permit is free, and the queue is within its bound.
\* acquireOrQueue relies on it: it never looks at the queue to use a free permit.
WorkConserving ==
    /\ waiters # <<>> => inFlight = MaxInFlight
    /\ Len(waiters) <= MaxWaiters

\* Credit and debt of a flow stay within four quanta and so does the cost
\* estimate, whatever sizes the tiles had; the estimate is never zero.
FlowsBounded ==
    \A o \in Owners :
        /\ -MaxCost <= deficitBytes[o] /\ deficitBytes[o] <= MaxCost
        /\ 1 <= lastCostBytes[o] /\ lastCostBytes[o] <= MaxCost

\* A queued owner is passed over at most seven times, however many owners
\* compete and whatever they read: its debt is at most four quanta, its cost
\* at most four, and every visit is worth one.  It bounds the work of one
\* release() under the monitor, which the comment in selectNextWaiterLocked
\* only says is finite.
PassedOverAtMostSevenTimes ==
    \A o \in Owners : o \in ToSet(waiters) => skips[o] <= 2 * MAX_COST_MULTIPLIER - 1

\* No starvation: a queued owner gets its turn or is cancelled.
WaiterServed ==
    \A o \in Owners : o \in ToSet(waiters) ~> o \notin ToSet(waiters)

================================================================================
