---------------------------- MODULE CanvasCompositor ----------------------------
(***************************************************************************)
(* The tiles on the canvas (CanvasCompositor.ts), one entry per tile of    *)
(* the image shown.  An entry is "presented" once a frame has drawn it.    *)
(* "frame" says that an animation frame was requested.                     *)
(*                                                                         *)
(* Where tiles are drawn is left out: see ViewNavigation for the           *)
(* rectangles.  An entry that leaves before it was presented calls         *)
(* onDiscarded, one that is drawn calls onPresented; those callbacks       *)
(* belong to LupaClient, which is told here which entries they concern.    *)
(***************************************************************************)
EXTENDS Naturals, Functions

CONSTANTS
    NoImage,        \* manifest == null
    Level           \* the level z of each tile

EmptyCanvas(frame) == [manifest |-> NoImage, currentEpoch |-> 0, entries |-> <<>>, frame |-> frame]

SchedulePaint(canvas) == [canvas EXCEPT !.frame = TRUE]

\* startImage, after its reset.
StartImage(image) == SchedulePaint([EmptyCanvas(FALSE) EXCEPT !.manifest = image])

\* Mutant: the detail of the old view stays.
NoneOfOldEpoch(canvas) == {}

\* The entries a new epoch drops: all but those of the lowest level.
OfOldEpoch(canvas) == {t \in DOMAIN canvas.entries : Level[t] # 0}

BeginEpoch(canvas, epoch) ==
    SchedulePaint([canvas EXCEPT
        !.currentEpoch = epoch,
        !.entries = Restrict(@, DOMAIN @ \ OfOldEpoch(canvas))])

\* store refuses a tile of another image, and a tile of detail of another epoch.
Accepts(canvas, job) ==
    /\ canvas.manifest # NoImage
    /\ job.image = canvas.manifest
    /\ Level[job.tile] = 0 \/ job.epoch = canvas.currentEpoch

StoreEntry(canvas, job, kind) ==
    LET entry == [job |-> job, kind |-> kind, presented |-> FALSE]
    IN  SchedulePaint([canvas EXCEPT !.entries =
            [t \in DOMAIN @ \cup {job.tile} |-> IF t = job.tile THEN entry ELSE @[t]]])

Unpresented(canvas, tiles) == {t \in tiles \cap DOMAIN canvas.entries : ~canvas.entries[t].presented}

\* paint draws every entry.  There is none without an image.
PaintAll(canvas) ==
    [canvas EXCEPT
        !.frame = FALSE,
        !.entries = [t \in DOMAIN @ |-> [@[t] EXCEPT !.presented = TRUE]]]

================================================================================
