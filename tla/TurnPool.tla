-------------------------------- MODULE TurnPool --------------------------------
(***************************************************************************)
(* What admission to the disk promises, whatever the policy that picks the *)
(* next session: a pool of Capacity permits, each permit held by one owner *)
(* or in transit from the owner that returned it to one that waits.        *)
(*                                                                         *)
(*   - never more than Capacity permits out;                               *)
(*   - no barging: an owner that finds others waiting waits as well;       *)
(*   - no idle permit: one returned while somebody waits is handed over,   *)
(*     and an owner waits only when no permit is left;                     *)
(*   - an owner waits for, or holds, one permit at a time.                 *)
(***************************************************************************)
EXTENDS Integers, FiniteSets

CONSTANTS Owners, Capacity

VARIABLES
    held,      \* owners with a permit
    waiting,   \* owners waiting for one
    inTransit  \* permits returned and not yet passed on

poolVars == <<held, waiting, inTransit>>

PermitsOut == Cardinality(held) + inTransit

PoolInit ==
    /\ held = {}
    /\ waiting = {}
    /\ inTransit = 0

Take(o) ==
    /\ o \notin held \cup waiting
    /\ waiting = {}
    /\ PermitsOut < Capacity
    /\ held' = held \cup {o}
    /\ UNCHANGED <<waiting, inTransit>>

Wait(o) ==
    /\ o \notin held \cup waiting
    /\ PermitsOut = Capacity
    /\ waiting' = waiting \cup {o}
    /\ UNCHANGED <<held, inTransit>>

GiveUp(o) ==
    /\ o \in waiting
    /\ waiting' = waiting \ {o}
    /\ UNCHANGED <<held, inTransit>>

Return(o) ==
    /\ inTransit = 0
    /\ o \in held
    /\ held' = held \ {o}
    /\ inTransit' = 1
    /\ UNCHANGED waiting

HandOver(o) ==
    /\ inTransit = 1
    /\ o \in waiting
    /\ waiting' = waiting \ {o}
    /\ held' = held \cup {o}
    /\ inTransit' = 0

Keep ==
    /\ inTransit = 1
    /\ waiting = {}
    /\ inTransit' = 0
    /\ UNCHANGED <<held, waiting>>

PoolNext ==
    \/ \E o \in Owners : Take(o) \/ Wait(o) \/ GiveUp(o) \/ Return(o) \/ HandOver(o)
    \/ Keep

PoolSpec == PoolInit /\ [][PoolNext]_poolVars

================================================================================
