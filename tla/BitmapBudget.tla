------------------------------ MODULE BitmapBudget ------------------------------
(***************************************************************************)
(* The memory of decoded tiles (BitmapBudget.ts).  A job reserves its      *)
(* bytes before it is sent to the decoder; the bitmap that comes back      *)
(* turns the reservation into stored bytes of the context or of the        *)
(* detail.  Context and reservations share the transient budget.           *)
(***************************************************************************)
EXTENDS Naturals, Functions

CONSTANTS
    TransientBudgetBytes,   \* TRANSIENT_BUDGET_BYTES
    BitmapBudgetBytes       \* BITMAP_BUDGET_BYTES

ASSUME BudgetAssumption ==
    /\ TransientBudgetBytes \in Nat
    /\ BitmapBudgetBytes \in Nat
    /\ TransientBudgetBytes <= BitmapBudgetBytes

DetailBudgetBytes == BitmapBudgetBytes - TransientBudgetBytes

EmptyBudget == [reservations |-> <<>>, transientBytes |-> 0, contextBytes |-> 0, detailBytes |-> 0]

\* The two halves of reserve: its guard and its effect.
MayReserve(budget, job, bytes) ==
    /\ bytes > 0
    /\ job \notin DOMAIN budget.reservations
    /\ budget.contextBytes + budget.transientBytes + bytes <= TransientBudgetBytes
    /\ budget.transientBytes + budget.contextBytes + budget.detailBytes + bytes <= BitmapBudgetBytes

Reserve(budget, job, bytes) ==
    [budget EXCEPT
        !.reservations = [j \in DOMAIN @ \cup {job} |-> IF j = job THEN bytes ELSE @[j]],
        !.transientBytes = @ + bytes]

\* cancel: nothing for a job without a reservation.
Cancel(budget, job) ==
    IF job \notin DOMAIN budget.reservations THEN budget
    ELSE [budget EXCEPT
            !.reservations = Restrict(@, DOMAIN @ \ {job}),
            !.transientBytes = @ - budget.reservations[job]]

\* commit returns null without a reservation, or when the bytes do not fit; the
\* reservation is gone in both cases.
CommitFits(budget, job, kind) ==
    /\ job \in DOMAIN budget.reservations
    /\ IF kind = "context"
       THEN budget.contextBytes + budget.reservations[job] <= TransientBudgetBytes
       ELSE budget.detailBytes + budget.reservations[job] <= DetailBudgetBytes

Commit(budget, job, kind) ==
    LET freed == Cancel(budget, job)
    IN  IF ~CommitFits(budget, job, kind) THEN freed
        ELSE IF kind = "context"
        THEN [freed EXCEPT !.contextBytes = @ + budget.reservations[job]]
        ELSE [freed EXCEPT !.detailBytes = @ + budget.reservations[job]]

AtLeastZero(a, b) == IF a > b THEN a - b ELSE 0

RemoveStored(budget, kind, bytes) ==
    IF kind = "context"
    THEN [budget EXCEPT !.contextBytes = AtLeastZero(@, bytes)]
    ELSE [budget EXCEPT !.detailBytes = AtLeastZero(@, bytes)]

================================================================================
