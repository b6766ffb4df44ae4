------------------------------ MODULE DecodeWorker ------------------------------
(***************************************************************************)
(* The Worker that decodes tiles (decodeWorker.ts): a bounded queue, at    *)
(* most MaxActive decodings at a time, and per connection the first epoch  *)
(* that is still of interest.  Every job gets one answer: "decoded",       *)
(* "discarded" or "failed".  The answers wait in "outbox" until the main   *)
(* thread takes them.                                                      *)
(*                                                                         *)
(* A message of the main thread takes effect when it is posted: between    *)
(* the two the worker can only append answers, which commutes with all     *)
(* the main thread does.  The limit in bytes of the queue is another way   *)
(* to the same refusal as its limit in jobs, and is left out; so are the   *)
(* diagnostic switches.                                                    *)
(***************************************************************************)
EXTENDS Naturals, FiniteSets, Sequences, SequencesExt

CONSTANTS
    MaxActive,          \* MAX_ACTIVE
    MaxQueuedJobs,      \* MAX_QUEUED_JOBS
    MaxSafeInteger      \* Number.MAX_SAFE_INTEGER, above every epoch

ASSUME WorkerAssumption == MaxActive \in Nat /\ MaxQueuedJobs \in Nat

NewWorker(connections) ==
    [queue |-> <<>>, active |-> {}, minimumEpoch |-> [c \in connections |-> 0], outbox |-> <<>>]

Answer(type, job) == [type |-> type, job |-> job]

Post(worker, type, job) == [worker EXCEPT !.outbox = Append(@, Answer(type, job))]

IsObsolete(worker, job) == job.epoch < worker.minimumEpoch[job.connection]

\* Mutant: one decoding too many at a time.
PumpOneMore(worker) ==
    IF Len(worker.queue) = 0 \/ Cardinality(worker.active) > MaxActive THEN worker
    ELSE [worker EXCEPT !.queue = Tail(@), !.active = @ \cup {Head(worker.queue)}]

\* pump and the synchronous start of decode.  A call starts one job at most: a
\* job was just queued or a decoding just ended.  A job still in the queue is
\* not obsolete, for discardQueued would have taken it out.
PumpQueue(worker) ==
    IF Len(worker.queue) = 0 \/ Cardinality(worker.active) >= MaxActive THEN worker
    ELSE [worker EXCEPT !.queue = Tail(@), !.active = @ \cup {Head(worker.queue)}]

\* onmessage of a "decode".
PostDecode(worker, job) ==
    IF Len(worker.queue) >= MaxQueuedJobs THEN Post(worker, "failed", job)
    ELSE IF IsObsolete(worker, job) THEN Post(worker, "discarded", job)
    ELSE PumpQueue([worker EXCEPT !.queue = Append(@, job)])

\* The elements of seq that are not in "out", in their order.
Without(seq, out) ==
    LET kept[n \in 0..Len(seq)] ==
            IF n = 0 THEN <<>>
            ELSE IF seq[n] \in out THEN kept[n - 1]
            ELSE Append(kept[n - 1], seq[n])
    IN  kept[Len(seq)]

\* discardQueued, from the tail of the queue to its head.
DiscardQueued(worker, connection) ==
    LET obsolete == {job \in ToSet(worker.queue) :
                        job.connection = connection /\ IsObsolete(worker, job)}
        doomed == Without(Reverse(worker.queue), ToSet(worker.queue) \ obsolete)
    IN  [worker EXCEPT
            !.queue = Without(@, obsolete),
            !.outbox = @ \o [i \in 1..Len(doomed) |-> Answer("discarded", doomed[i])]]

\* onmessage of an "invalidate", and of a "reset".
Invalidate(worker, connection, minEpoch) ==
    DiscardQueued([worker EXCEPT !.minimumEpoch[connection] = minEpoch], connection)

ResetWorker(worker, connection) == Invalidate(worker, connection, MaxSafeInteger)

\* The rest of decode, once createImageBitmap ended: a failure is told whatever
\* the epoch, a bitmap is dropped if its epoch passed in the meantime.
DecodingEnds(worker, job, ok) ==
    LET type == IF ~ok THEN "failed" ELSE IF IsObsolete(worker, job) THEN "discarded" ELSE "decoded"
    IN  PumpQueue(Post([worker EXCEPT !.active = @ \ {job}], type, job))

================================================================================
