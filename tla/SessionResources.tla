---------------------------- MODULE SessionResources ----------------------------
(***************************************************************************)
(* The two budgets that sessions share, SessionAdmission and               *)
(* TransientBufferBudget, between the handlers of a session, on its        *)
(* serial executor, and onClosed, on the thread that found the transport   *)
(* closed.                                                                 *)
(*                                                                         *)
(* LupaSession takes a handler as one step.  Here handleHello and          *)
(* trySendPending are cut where another thread can come between: a check   *)
(* of "closed", the call that takes from a budget, the assignment that     *)
(* lets onClosed find what was taken.  onClosed is cut the same way.       *)
(*                                                                         *)
(* Left out: onSelectiveTileRead, which takes room the same way but does   *)
(* not look at "closed" before it sends, so that its envelope is given     *)
(* back when the send is refused.                                          *)
(***************************************************************************)
EXTENDS Integers, FiniteSets

CONSTANTS
    Sessions,     \* sessions of the server
    MaxSessions,  \* slots of SessionAdmission
    MaxBuffers    \* envelopes TransientBufferBudget has room for

ASSUME ResourcesAssumption ==
    /\ MaxSessions \in Nat \ {0}
    /\ MaxBuffers \in Nat \ {0}

VARIABLES
    handler,    \* where the handler that runs in the session is
    transport,  \* "open", where onClosed is, "closed"
    closed,     \* the AtomicBoolean of the session
    admitted,   \* HELLO was accepted: state is past ESPERA_HELLO
    slotTaken,  \* the session took a slot it has not given back
    slotKnown,  \* admissionLease # null
    envelopes,  \* envelopes of the session that take room in the budget
    live,       \* those in liveTransientBuffers
    queued      \* those of live whose frame the write queue accepted

resourceVars ==
    <<handler, transport, closed, admitted, slotTaken, slotKnown, envelopes, live, queued>>

slots == <<slotTaken, slotKnown>>
buffers == <<envelopes, live, queued>>

ResourcesInit ==
    /\ handler = [s \in Sessions |-> "idle"]
    /\ transport = [s \in Sessions |-> "open"]
    /\ closed = [s \in Sessions |-> FALSE]
    /\ admitted = [s \in Sessions |-> FALSE]
    /\ slotTaken = [s \in Sessions |-> FALSE]
    /\ slotKnown = [s \in Sessions |-> FALSE]
    /\ envelopes = [s \in Sessions |-> 0]
    /\ live = [s \in Sessions |-> 0]
    /\ queued = [s \in Sessions |-> 0]

SlotsTaken == Cardinality({s \in Sessions : slotTaken[s]})

\* The room that is taken, one member for each envelope of each session.
RoomTaken(counts) == UNION {{s} \X (1..counts[s]) : s \in Sessions}
EnvelopesReserved == Cardinality(RoomTaken(envelopes))

HandlerAt(s, here) == handler[s] = here
Goes(s, there) == handler' = [handler EXCEPT ![s] = there]

--------------------------------------------------------------------------------
\* handleHello

\* handleText found the session open, and HELLO is valid.
HelloBegins(s) ==
    /\ HandlerAt(s, "idle")
    /\ ~closed[s]
    /\ ~admitted[s]
    /\ Goes(s, "tryAcquire")
    /\ UNCHANGED <<transport, closed, admitted, slots, buffers>>

HelloAcquires(s) ==
    /\ HandlerAt(s, "tryAcquire")
    /\ SlotsTaken < MaxSessions
    /\ slotTaken' = [slotTaken EXCEPT ![s] = TRUE]
    /\ Goes(s, "assignLease")
    /\ UNCHANGED <<transport, closed, admitted, slotKnown, buffers>>

\* No slot: ERROR, and close 1013.
HelloRefused(s) ==
    /\ HandlerAt(s, "tryAcquire")
    /\ SlotsTaken = MaxSessions
    /\ closed' = [closed EXCEPT ![s] = TRUE]
    /\ Goes(s, "idle")
    /\ UNCHANGED <<transport, admitted, slots, buffers>>

\* admissionLease = lease; nothing checks whether the session closed meanwhile.
HelloAssigns(s) ==
    /\ HandlerAt(s, "assignLease")
    /\ slotKnown' = [slotKnown EXCEPT ![s] = TRUE]
    /\ admitted' = [admitted EXCEPT ![s] = TRUE]
    /\ Goes(s, "idle")
    /\ UNCHANGED <<transport, closed, slotTaken, buffers>>

--------------------------------------------------------------------------------
\* trySendPending

SendBegins(s) ==
    /\ HandlerAt(s, "idle")
    /\ ~closed[s]
    /\ admitted[s]
    /\ Goes(s, "tryReserve")
    /\ UNCHANGED <<transport, closed, admitted, slots, buffers>>

SendReserves(s) ==
    /\ HandlerAt(s, "tryReserve")
    /\ EnvelopesReserved < MaxBuffers
    /\ envelopes' = [envelopes EXCEPT ![s] = @ + 1]
    /\ Goes(s, "addLive")
    /\ UNCHANGED <<transport, closed, admitted, slots, live, queued>>

\* No room: failPlan.
SendRefused(s) ==
    /\ HandlerAt(s, "tryReserve")
    /\ EnvelopesReserved = MaxBuffers
    /\ Goes(s, "idle")
    /\ UNCHANGED <<transport, closed, admitted, slots, buffers>>

SendRegisters(s) ==
    /\ HandlerAt(s, "addLive")
    /\ live' = [live EXCEPT ![s] = @ + 1]
    /\ Goes(s, "checkClosed")
    /\ UNCHANGED <<transport, closed, admitted, slots, envelopes, queued>>

\* closed after the reservation: the method returns and leaves the envelope to
\* onClosed.
SendAbandons(s) ==
    /\ HandlerAt(s, "checkClosed")
    /\ closed[s]
    /\ Goes(s, "idle")
    /\ UNCHANGED <<transport, closed, admitted, slots, buffers>>

SendContinues(s) ==
    /\ HandlerAt(s, "checkClosed")
    /\ ~closed[s]
    /\ Goes(s, "send")
    /\ UNCHANGED <<transport, closed, admitted, slots, buffers>>

\* sendBinaryTracked accepts the frame.
SendAccepted(s) ==
    /\ HandlerAt(s, "send")
    /\ transport[s] = "open"
    /\ queued' = [queued EXCEPT ![s] = @ + 1]
    /\ Goes(s, "idle")
    /\ UNCHANGED <<transport, closed, admitted, slots, envelopes, live>>

\* releaseTransientBuffer of n envelopes: Lease.close gives each back once.
Releases(s, n) ==
    /\ envelopes' = [envelopes EXCEPT ![s] = @ - n]
    /\ live' = [live EXCEPT ![s] = @ - n]

\* Mutants: the envelope of a refused frame is left to onClosed; the lease is
\* given back without looking whether onClosed did.
SendRejectedKeeps(s) ==
    /\ HandlerAt(s, "send")
    /\ closed' = [closed EXCEPT ![s] = TRUE]
    /\ Goes(s, "idle")
    /\ UNCHANGED <<transport, admitted, slots, buffers>>

SendRejectedTwice(s) ==
    /\ HandlerAt(s, "send")
    /\ Releases(s, 1)
    /\ closed' = [closed EXCEPT ![s] = TRUE]
    /\ Goes(s, "idle")
    /\ UNCHANGED <<transport, admitted, slots, queued>>

\* The transport is finished, or its queue is full: the room is given back,
\* unless onClosed did it first, and the session closes.
SendRejected(s) ==
    /\ HandlerAt(s, "send")
    /\ Releases(s, IF live[s] > queued[s] THEN 1 ELSE 0)
    /\ closed' = [closed EXCEPT ![s] = TRUE]
    /\ Goes(s, "idle")
    /\ UNCHANGED <<transport, admitted, slots, queued>>

\* onWritten, or cancelIfNotCommitted.
FrameEnds(s) ==
    /\ transport[s] = "open"
    /\ queued[s] > 0
    /\ queued' = [queued EXCEPT ![s] = @ - 1]
    /\ Releases(s, 1)
    /\ UNCHANGED <<handler, transport, closed, admitted, slots>>

--------------------------------------------------------------------------------
\* onClosed

ReleasesSlot(s) ==
    /\ slotTaken' = [slotTaken EXCEPT ![s] = @ /\ ~slotKnown[s]]
    /\ slotKnown' = [slotKnown EXCEPT ![s] = FALSE]

TransportCloses(s) ==
    /\ transport[s] = "open"
    /\ transport' = [transport EXCEPT ![s] = "releaseAdmission"]
    /\ closed' = [closed EXCEPT ![s] = TRUE]
    /\ queued' = [queued EXCEPT ![s] = 0]
    /\ UNCHANGED <<handler, admitted, slots, envelopes, live>>

ReleaseAdmission(s) ==
    /\ transport[s] = "releaseAdmission"
    /\ ReleasesSlot(s)
    /\ transport' = [transport EXCEPT ![s] = "releaseBuffers"]
    /\ UNCHANGED <<handler, closed, admitted, buffers>>

\* Mutant: only one of the live envelopes is released.
ReleaseOneTransientBuffer(s) ==
    /\ transport[s] = "releaseBuffers"
    /\ Releases(s, IF live[s] > 0 THEN 1 ELSE 0)
    /\ transport' = [transport EXCEPT ![s] = "closed"]
    /\ UNCHANGED <<handler, closed, admitted, slots, queued>>

ReleaseAllTransientBuffers(s) ==
    /\ transport[s] = "releaseBuffers"
    /\ Releases(s, live[s])
    /\ transport' = [transport EXCEPT ![s] = "closed"]
    /\ UNCHANGED <<handler, closed, admitted, slots, queued>>

\* closeForTimeout runs as a handler: nothing of the session is half way.
CloseForTimeout(s) ==
    /\ HandlerAt(s, "idle")
    /\ ~closed[s]
    /\ closed' = [closed EXCEPT ![s] = TRUE]
    /\ Releases(s, live[s])
    /\ queued' = [queued EXCEPT ![s] = 0]
    /\ ReleasesSlot(s)
    /\ UNCHANGED <<handler, transport, admitted>>

--------------------------------------------------------------------------------
ResourcesNext ==
    \E s \in Sessions :
        \/ HelloBegins(s)
        \/ HelloAcquires(s)
        \/ HelloRefused(s)
        \/ HelloAssigns(s)
        \/ SendBegins(s)
        \/ SendReserves(s)
        \/ SendRefused(s)
        \/ SendRegisters(s)
        \/ SendAbandons(s)
        \/ SendContinues(s)
        \/ SendAccepted(s)
        \/ SendRejected(s)
        \/ FrameEnds(s)
        \/ TransportCloses(s)
        \/ ReleaseAdmission(s)
        \/ ReleaseAllTransientBuffers(s)
        \/ CloseForTimeout(s)

ResourcesSpec == ResourcesInit /\ [][ResourcesNext]_resourceVars

--------------------------------------------------------------------------------
\* Properties

HandlerPlaces == {"idle", "tryAcquire", "assignLease", "tryReserve", "addLive", "checkClosed", "send"}

\* The budgets are never exceeded, and never given back more than was taken
\* ("transient buffer accounting underflow").
ResourcesTypeOK ==
    /\ handler \in [Sessions -> HandlerPlaces]
    /\ transport \in [Sessions -> {"open", "releaseAdmission", "releaseBuffers", "closed"}]
    /\ closed \in [Sessions -> BOOLEAN] /\ admitted \in [Sessions -> BOOLEAN]
    /\ slotTaken \in [Sessions -> BOOLEAN] /\ slotKnown \in [Sessions -> BOOLEAN]
    /\ envelopes \in [Sessions -> 0..MaxBuffers]
    /\ live \in [Sessions -> 0..MaxBuffers]
    /\ queued \in [Sessions -> 0..MaxBuffers]
    /\ SlotsTaken <= MaxSessions
    /\ EnvelopesReserved <= MaxBuffers

\* Between two handlers, a session whose transport is open takes exactly what
\* its frames in the write queue need, and onClosed would find all of it, the
\* slot included.
TakenIsKnown ==
    \A s \in Sessions : transport[s] = "open" /\ handler[s] = "idle" =>
        /\ slotTaken[s] = slotKnown[s]
        /\ envelopes[s] = live[s]
        /\ live[s] = queued[s]

\* onClosed has run and no handler is half way: no handler will run again,
\* because each begins by finding the session closed.
Ended(s) == transport[s] = "closed" /\ handler[s] = "idle"

\* A session that ended leaves at most one envelope behind, the one a handler
\* had in hand: onClosed releases the rest.
EndedSessionLeavesAtMostOneEnvelope == \A s \in Sessions : Ended(s) => envelopes[s] <= 1

\* A session that ended occupies no slot ("A valid HELLO acquires one slot and
\* transport termination releases it").  The code breaks it: a HELLO handled
\* while onClosed runs takes a slot, or assigns its lease, after onClosed
\* looked for one, and the server has one session less until it restarts.
EndedSessionHasNoSlot == \A s \in Sessions : Ended(s) => ~slotTaken[s]

================================================================================
