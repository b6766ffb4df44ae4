------------------------------- MODULE ViewStream -------------------------------
(***************************************************************************)
(* What a LUPA session promises to put on the wire, whatever the client    *)
(* asks for and however its threads interleave.                            *)
(*                                                                         *)
(* MANIFEST and PLAN announce strictly increasing epochs.  Between a PLAN  *)
(* and the next announcement come the TILEs of that epoch only, with fresh *)
(* delivery ids, and one DONE, only after every tile of the plan, counting *)
(* them, and with nothing after it but tiles sent again.  A plan may stop  *)
(* half way.  A tile that is sent again (RETRY) is of an epoch already     *)
(* announced, the current one or one before it, and comes at any time,     *)
(* after a newer PLAN too.                                                 *)
(***************************************************************************)
EXTENDS Naturals

VARIABLES
    epoch,      \* the last epoch announced
    size,       \* tiles of the current plan
    sent,       \* how many of them were sent
    streaming,  \* a PLAN was announced and its DONE was not sent
    lastId,     \* the last fresh delivery id
    last        \* the last frame: its kind, its epoch and the count of a DONE

streamVars == <<epoch, size, sent, streaming, lastId, last>>

StreamInit ==
    /\ epoch = 0
    /\ size = 0
    /\ sent = 0
    /\ streaming = FALSE
    /\ lastId = 0
    /\ last = [kind |-> "NONE", epoch |-> 0, count |-> 0]

Manifest ==
    /\ epoch' > epoch
    /\ streaming' = FALSE
    /\ last' = [kind |-> "MANIFEST", epoch |-> epoch', count |-> 0]
    /\ UNCHANGED <<size, sent, lastId>>

Plan ==
    /\ epoch' > epoch
    /\ size' > 0
    /\ sent' = 0
    /\ streaming' = TRUE
    /\ last' = [kind |-> "PLAN", epoch |-> epoch', count |-> 0]
    /\ UNCHANGED lastId

Tile ==
    /\ streaming
    /\ sent < size
    /\ sent' = sent + 1
    /\ lastId' > lastId
    /\ last' = [kind |-> "TILE", epoch |-> epoch, count |-> 0]
    /\ UNCHANGED <<epoch, size, streaming>>

Done ==
    /\ streaming
    /\ sent = size
    /\ streaming' = FALSE
    /\ last' = [kind |-> "DONE", epoch |-> epoch, count |-> size]
    /\ UNCHANGED <<epoch, size, sent, lastId>>

\* onSelectiveTileRead does not compare the epoch of the tile with the current one.
Retry ==
    /\ lastId > 0
    /\ \E e \in 1..epoch : last' = [kind |-> "RETRY", epoch |-> e, count |-> 0]
    /\ UNCHANGED <<epoch, size, sent, streaming, lastId>>

StreamNext == Manifest \/ Plan \/ Tile \/ Done \/ Retry

StreamSpec == StreamInit /\ [][StreamNext]_streamVars

================================================================================
