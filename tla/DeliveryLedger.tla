----------------------------- MODULE DeliveryLedger -----------------------------
(***************************************************************************)
(* The deliveries of a connection as the browser accounts for them         *)
(* (DeliveryLedger.ts): "active" are those received and not confirmed,     *)
(* with what was asked about each; "released" remembers, oldest first, a   *)
(* bounded number of those confirmed, so that a duplicate is recognised.   *)
(***************************************************************************)
EXTENDS Naturals, Sequences, SequencesExt, Functions

CONSTANTS
    MaxReleasedHistory,     \* MAX_RELEASED_HISTORY
    MaxSelectiveRetries     \* MAX_SELECTIVE_RETRIES

ASSUME LedgerAssumption == MaxReleasedHistory \in Nat /\ MaxSelectiveRetries \in Nat

EmptyLedger == [active |-> <<>>, released |-> <<>>]

IsKnown(ledger, id) == id \in DOMAIN ledger.active \/ Contains(ledger.released, id)

\* register, of an id that is not known.
Register(ledger, id, connection) ==
    LET fresh == [connection |-> connection, retryExpected |-> FALSE, retryRequests |-> 0]
    IN  [ledger EXCEPT !.active =
            [d \in DOMAIN @ \cup {id} |-> IF d = id THEN fresh ELSE @[d]]]

IsActive(ledger, id, connection) ==
    /\ id \in DOMAIN ledger.active
    /\ ledger.active[id].connection = connection

\* The two halves of acceptRetransmission: its guard and its effect.
ExpectsRetry(ledger, id, connection) ==
    /\ IsActive(ledger, id, connection)
    /\ ledger.active[id].retryExpected

AcceptRetransmission(ledger, id) == [ledger EXCEPT !.active[id].retryExpected = FALSE]

\* Mutant: as many retries as one likes.
RequestRetryAgain(ledger, id, connection) ==
    IsActive(ledger, id, connection) /\ ~ledger.active[id].retryExpected

\* The two halves of requestRetry.
MayRequestRetry(ledger, id, connection) ==
    /\ IsActive(ledger, id, connection)
    /\ ~ledger.active[id].retryExpected
    /\ ledger.active[id].retryRequests < MaxSelectiveRetries

RequestRetry(ledger, id) ==
    [ledger EXCEPT !.active[id].retryExpected = TRUE, !.active[id].retryRequests = @ + 1]

\* releaseOnce, of an active id: the oldest of a full history is forgotten.
ReleaseOnce(ledger, id) ==
    LET released == Append(ledger.released, id)
    IN  [active |-> Restrict(ledger.active, DOMAIN ledger.active \ {id}),
         released |-> IF Len(released) > MaxReleasedHistory THEN Tail(released) ELSE released]

================================================================================
