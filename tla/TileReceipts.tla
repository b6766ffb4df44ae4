------------------------------ MODULE TileReceipts ------------------------------
(***************************************************************************)
(* What the browser promises a server about the tiles of a connection: it  *)
(* confirms each at most once, and only one it received; it asks for a     *)
(* copy at most MaxSelectiveRetries times, only of a tile it has not       *)
(* confirmed, and never while the copy it asked for is to come.            *)
(*                                                                         *)
(* One step of the browser may concern several tiles: those a new view     *)
(* drops are confirmed together.  A new connection starts over.            *)
(***************************************************************************)
EXTENDS Naturals

CONSTANTS
    Deliveries,             \* ids of deliveries
    MaxSelectiveRetries     \* copies that may be asked for, beyond the first

\* receipts[d] counts the copies of d received, those asked for beyond the
\* first, and the confirmations sent.
VARIABLE receipts

Receipt == [copies : Nat, asks : Nat, acks : Nat]
Nothing == [copies |-> 0, asks |-> 0, acks |-> 0]

Init == receipts = [d \in Deliveries |-> Nothing]

\* A first copy, or the one that was asked for.
Arrives(now, then) ==
    /\ now.acks = 0
    /\ now.copies = now.asks
    /\ then.copies = now.copies + 1

\* What is said of a delivery, once its copy arrived: it is confirmed, or asked
\* for again, or nothing is said.
Confirms(now, then) ==
    /\ now.acks = 0
    /\ then.copies > now.asks
    /\ then.acks = 1
    /\ then.asks = now.asks

Asks(now, then) ==
    /\ now.acks = 0
    /\ then.copies > now.asks
    /\ now.asks < MaxSelectiveRetries
    /\ then.asks = now.asks + 1
    /\ then.acks = 0

Silent(now, then) == then.asks = now.asks /\ then.acks = now.acks

Continues(now, then) ==
    /\ Arrives(now, then) \/ then.copies = now.copies
    /\ Confirms(now, then) \/ Asks(now, then) \/ Silent(now, then)

Exchange ==
    /\ receipts' # receipts
    /\ receipts' \in [Deliveries -> Receipt]
    /\ \A d \in Deliveries : Continues(receipts[d], receipts'[d])

\* The connection ends, and another begins.
StartOver == receipts' = [d \in Deliveries |-> Nothing]

Next == Exchange \/ StartOver

Spec == Init /\ [][Next]_receipts

================================================================================
