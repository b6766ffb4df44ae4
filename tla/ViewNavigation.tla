----------------------------- MODULE ViewNavigation -----------------------------
(***************************************************************************)
(* Which views LupaClient asks for, and when: the user pans, zooms, moves  *)
(* the focus and resizes the stage (handlers of App.tsx), every change     *)
(* moves activeViewRect at once, and VIEWs follow through three timers.    *)
(*                                                                         *)
(* A navigation asks for a coarse, transient view at most every            *)
(* NavigationInterval, and for the view at the selected detail once the    *)
(* user stops for NavigationSettle.  A resize waits ResizeDelay.           *)
(*                                                                         *)
(* Timers hold what remains of their delay.  Time passes (Tick) when none  *)
(* is due, so they fire in the order of their deadlines; that the browser  *)
(* runs them late makes no difference, for the user may act at any time.   *)
(* Rectangles have one axis, see ViewMath.  What the server does with a    *)
(* VIEW is the subject of LupaClient and LupaSession; its epoch is left    *)
(* out, except that a VIEW replaces the one before.                        *)
(***************************************************************************)
EXTENDS Integers, ViewMath

CONSTANTS
    ImageWidths,        \* widths of the images of the catalog
    Sizes,              \* widths the stage can have
    Strides,            \* pixels of the stage a pointer can move between two events
    Radii,              \* radii the focus slider offers
    NavigationInterval, \* NAVIGATION_INTERVAL_MS
    NavigationSettle,   \* NAVIGATION_SETTLE_MS
    ResizeDelay,        \* the delay of resizeTimer
    MaxInputs,          \* bound: actions of the user
    NoView              \* null: no rectangle, no focus, no signature

Modes == {"uniform", "focus"}
Offsets == -2..0
Segments == [x : Nat, width : Nat]
Points == [x : Nat, radius : Nat]
Views == [rect : Segments, viewport : Sizes, detailOffset : Offsets, mode : Modes,
          focus : Points \cup {NoView}]

ASSUME NavigationAssumption ==
    /\ ImageWidths \subseteq Nat \ {0}
    /\ Sizes \subseteq Nat \ {0}
    /\ Strides \subseteq Int
    /\ Radii \subseteq Nat
    /\ {NavigationInterval, NavigationSettle} \subseteq Nat
    /\ 0 < NavigationInterval /\ NavigationInterval < NavigationSettle
    /\ ResizeDelay \in Nat
    /\ MaxInputs \in Nat
    /\ NoView \notin Segments /\ NoView \notin Points /\ NoView \notin Views

VARIABLES
    client,     \* the fields of LupaClient that decide the views
    timers,     \* what remains of each timer, or Unarmed
    elapsed,    \* since lastNavigationSentAt, up to NavigationInterval
    connection, \* "connecting", "open", "closing" or "closed"
    opening,    \* OPEN was said and MANIFEST did not come
    asked,      \* history: the last VIEW said of this image
    drag,       \* dragRef: whether a pointer is down, moved, and how far if it did not
    inputs      \* actions of the user so far, the first size of the stage apart

vars == <<client, timers, elapsed, connection, opening, asked, drag, inputs>>

Unarmed == -1
Idle == [navigation |-> Unarmed, settle |-> Unarmed, resize |-> Unarmed]

Up == [down |-> FALSE, moved |-> FALSE, offset |-> 0]

Init ==
    /\ client = [image |-> 0, viewport |-> 0, layout |-> 0, rect |-> NoView, mode |-> "uniform",
                 detailOffset |-> 0, focus |-> NoView, signature |-> NoView]
    /\ timers = Idle
    /\ elapsed = NavigationInterval
    /\ connection = "connecting"
    /\ opening = FALSE
    /\ asked = NoView
    /\ drag = Up
    /\ inputs = 0

--------------------------------------------------------------------------------
\* Focus

DefaultRadius == 144

RadiusOf(c) == IF c.focus = NoView THEN DefaultRadius ELSE c.focus.radius

\* centerFocus
CenterFocus(c, rect) == [x |-> PixelAt(c.image, rect, <<1, 2>>), radius |-> RadiusOf(c)]

\* The focus of a view that does not have one yet.
FocusOf(c, rect) == IF c.focus = NoView THEN CenterFocus(c, rect) ELSE c.focus

--------------------------------------------------------------------------------
\* Views.  The operators take and return s, the client and what it asked for.

MayAsk(c) == c.image # 0 /\ c.layout # 0 /\ connection = "open"

\* requestView: nothing is said of a view equal to the last one.
RequestView(s, rect, detailOffset) ==
    LET c == s.client
        focus == IF c.mode = "focus" THEN FocusOf(c, rect) ELSE NoView
        signature == [rect |-> rect, viewport |-> c.layout, detailOffset |-> detailOffset,
                      mode |-> c.mode, focus |-> focus]
        focused == [c EXCEPT !.focus = IF c.mode = "focus" THEN focus ELSE @]
    IN  IF ~MayAsk(c) THEN s
        ELSE IF signature = c.signature THEN [s EXCEPT !.client = focused]
        ELSE [s EXCEPT
                !.client = [focused EXCEPT !.signature = signature, !.rect = rect],
                !.asked = signature]

\* Math.min(detailOffset, -1)
Transient(c) == Smaller(c.detailOffset, -1)

\* sendTransient
SendTransient(s) ==
    LET sent == [s EXCEPT !.timers.navigation = Unarmed, !.elapsed = 0]
    IN  IF s.client.rect = NoView THEN sent
        ELSE RequestView(sent, s.client.rect, Transient(s.client))

\* Mutant: each input puts the view off by a whole interval.
Debounced(s) ==
    IF s.elapsed >= NavigationInterval THEN SendTransient(s)
    ELSE [s EXCEPT !.timers.navigation = NavigationInterval]

\* A view now, or when the interval is over.
Throttled(s) ==
    IF s.elapsed >= NavigationInterval THEN SendTransient(s)
    ELSE [s EXCEPT !.timers.navigation = NavigationInterval - s.elapsed]

\* Mutant: the settled view is forgotten when a transient one goes out at once.
SettlesOnlyLater(s) ==
    IF s.elapsed >= NavigationInterval THEN SendTransient(s)
    ELSE [Throttled(s) EXCEPT !.timers.settle = NavigationSettle]

\* queueNavigationView: and the settled view later, whatever was due.
QueueNavigationView(s) == [Throttled(s) EXCEPT !.timers.settle = NavigationSettle]

\* updateNavigationRect
UpdateNavigationRect(s, segment) ==
    QueueNavigationView([s EXCEPT !.client.rect = IntegerView(s.client.image, segment)])

Now == [client |-> client, timers |-> timers, elapsed |-> elapsed, asked |-> asked]

Becomes(s) ==
    /\ client' = s.client
    /\ timers' = s.timers
    /\ elapsed' = s.elapsed
    /\ asked' = s.asked

--------------------------------------------------------------------------------
\* The user

Acts == inputs < MaxInputs /\ inputs' = inputs + 1

\* A handler that moves the view, or asks for another one.
Handles(guard, s) ==
    /\ Acts
    /\ guard
    /\ Becomes(s)
    /\ UNCHANGED <<connection, opening, drag>>

Shown == client.image # 0 /\ client.rect # NoView

PanByFraction(direction) ==
    Handles(Shown, UpdateNavigationRect(Now,
        PanView(client.image, client.rect, direction * client.rect.width, 10)))

\* zoomAtCss is about a point of the canvas; zoomBy is about the centre, and
\* needs no layout.
ZoomAt(anchor, factor) ==
    Handles(Shown /\ (client.layout # 0 \/ anchor = <<1, 2>>), UpdateNavigationRect(Now,
        ZoomView(client.image, client.rect, anchor, factor)))

ResetView ==
    LET rect == FullView(client.image)
        focus == IF client.mode = "focus" THEN CenterFocus(client, rect) ELSE client.focus
    IN  Handles(client.image # 0,
            RequestView([Now EXCEPT !.client = [client EXCEPT !.rect = rect, !.focus = focus]],
                        rect, client.detailOffset))

RequestCenteredIntegrationRegion ==
    LET rect == CenteredTestRegion(client.image)
    IN  Handles(client.image # 0,
            RequestView([Now EXCEPT !.client = [client EXCEPT !.rect = rect]],
                        rect, client.detailOffset))

SetViewMode(mode) ==
    LET changed == [client EXCEPT !.mode = mode]
        focused == [changed EXCEPT !.focus =
                        IF mode = "focus" THEN FocusOf(client, client.rect) ELSE @]
    IN  Handles(TRUE,
            IF ~Shown THEN [Now EXCEPT !.client = changed]
            ELSE RequestView([Now EXCEPT !.client = focused], client.rect, client.detailOffset))

SetDetailOffset(offset) ==
    LET changed == [Now EXCEPT !.client = [client EXCEPT !.detailOffset = offset]]
    IN  Handles(TRUE,
            IF ~Shown THEN changed ELSE RequestView(changed, client.rect, offset))

\* The radius is kept between 32 and 512; in uniform mode it waits for the focus.
SetFocusRadius(wanted) ==
    LET radius == Clamp(wanted, 32, 512)
        focus == [x |-> FocusOf(client, client.rect).x, radius |-> radius]
        resized == [Now EXCEPT !.client = [client EXCEPT !.focus = focus]]
    IN  Handles(TRUE,
            IF client.rect = NoView
            THEN IF client.focus = NoView THEN Now ELSE [Now EXCEPT !.client.focus.radius = radius]
            ELSE IF client.mode = "focus" THEN QueueNavigationView(resized) ELSE resized)

\* setViewport: the layout follows at once, the view later, and only when the
\* size changed by two pixels since the size before.
SetViewport(size) ==
    LET previous == client.viewport
        laidOut == [Now EXCEPT !.client =
                        [client EXCEPT !.viewport = size,
                                       !.layout = IF client.image = 0 THEN @ ELSE size]]
        rect == IF client.rect = NoView THEN FullView(client.image) ELSE client.rect
        changed == size - previous >= 2 \/ previous - size >= 2
    IN  /\ size # previous
        /\ IF previous = 0 THEN UNCHANGED inputs ELSE Acts
        /\ Becomes(IF client.image = 0 THEN laidOut
                   ELSE IF previous = 0 THEN RequestView(laidOut, rect, client.detailOffset)
                   ELSE IF changed THEN [laidOut EXCEPT !.timers.resize = ResizeDelay]
                   ELSE laidOut)
        /\ UNCHANGED <<connection, opening, drag>>

\* The pointer of App.tsx: a drag pans once it is more than four pixels from
\* where it began, a click in focus mode moves the focus.
PointerDown ==
    /\ Acts
    /\ client.image # 0 /\ ~drag.down
    /\ drag' = [Up EXCEPT !.down = TRUE]
    /\ UNCHANGED <<client, timers, elapsed, connection, opening, asked>>

\* panByCss, by delta pixels of the stage.
PanByCss(s, delta) ==
    IF ~Shown \/ client.layout = 0 THEN s
    ELSE UpdateNavigationRect(s,
            PanView(client.image, client.rect, -delta * client.rect.width, client.layout))

PointerMove(delta) ==
    LET offset == drag.offset + delta
        moved == drag.moved \/ offset > 4 \/ offset < -4
    IN  /\ Acts
        /\ drag.down
        /\ drag' = [drag EXCEPT !.moved = moved, !.offset = IF moved THEN 0 ELSE offset]
        /\ Becomes(IF moved THEN PanByCss(Now, delta) ELSE Now)
        /\ UNCHANGED <<connection, opening>>

\* focusAtCss
FocusAtCss(s, at) ==
    LET focus == [x |-> PixelAt(client.image, client.rect, at), radius |-> RadiusOf(client)]
    IN  IF client.mode # "focus" \/ ~Shown \/ client.layout = 0 THEN s
        ELSE RequestView([s EXCEPT !.client = [s.client EXCEPT !.focus = focus]],
                         client.rect, client.detailOffset)

FinishPointer(at) ==
    /\ Acts
    /\ drag.down
    /\ drag' = Up
    /\ Becomes(IF drag.moved THEN Now ELSE FocusAtCss(Now, at))
    /\ UNCHANGED <<connection, opening>>

--------------------------------------------------------------------------------
\* Timers

Tick ==
    LET Sooner(timer) == IF timer > 0 THEN timer - 1 ELSE timer
    IN  /\ 0 \notin {timers.navigation, timers.settle, timers.resize}
        /\ elapsed < NavigationInterval \/ timers # Idle
        /\ timers' = [navigation |-> Sooner(timers.navigation),
                      settle |-> Sooner(timers.settle), resize |-> Sooner(timers.resize)]
        /\ elapsed' = Smaller(elapsed + 1, NavigationInterval)
        /\ UNCHANGED <<client, connection, opening, asked, drag, inputs>>

NavigationTimer ==
    /\ timers.navigation = 0
    /\ Becomes(SendTransient(Now))
    /\ UNCHANGED <<connection, opening, drag, inputs>>

\* Mutant: the settled view is a coarse one too.
SettleTimerCoarse ==
    LET fired == [Now EXCEPT !.timers.settle = Unarmed]
    IN  /\ timers.settle = 0
        /\ Becomes(IF client.rect = NoView THEN fired
                   ELSE RequestView(fired, client.rect, Transient(client)))
        /\ UNCHANGED <<connection, opening, drag, inputs>>

SettleTimer ==
    LET fired == [Now EXCEPT !.timers.settle = Unarmed]
    IN  /\ timers.settle = 0
        /\ Becomes(IF client.rect = NoView THEN fired
                   ELSE RequestView(fired, client.rect, client.detailOffset))
        /\ UNCHANGED <<connection, opening, drag, inputs>>

\* Nothing clears this timer when the image leaves: the callback then throws
\* for want of a manifest, and has no effect.
ResizeTimer ==
    LET fired == [Now EXCEPT !.timers.resize = Unarmed]
    IN  /\ timers.resize = 0
        /\ Becomes(IF client.rect = NoView THEN fired
                   ELSE RequestView(fired, client.rect, client.detailOffset))
        /\ UNCHANGED <<connection, opening, drag, inputs>>

--------------------------------------------------------------------------------
\* Images and connections

\* The fields openSelected, cleanupConnection and connect forget.
WithoutImage(s) ==
    [client |-> [s.client EXCEPT !.image = 0, !.rect = NoView, !.focus = NoView,
                                 !.signature = NoView],
     timers |-> [Idle EXCEPT !.resize = s.timers.resize],
     elapsed |-> s.elapsed,
     asked |-> NoView]

OpenSelected ==
    /\ Acts
    /\ connection = "open"
    /\ opening' = TRUE
    /\ Becomes(WithoutImage(Now))
    /\ UNCHANGED <<connection, drag>>

\* MANIFEST: the whole image, at the size of the stage if it is known.
ReceiveManifest(image) ==
    LET rect == FullView(image)
        shown == [client EXCEPT !.image = image, !.rect = rect]
        focused == [shown EXCEPT !.focus =
                        IF client.mode = "focus" THEN CenterFocus(shown, rect) ELSE @]
        laidOut == [focused EXCEPT !.layout = client.viewport]
    IN  /\ connection = "open" /\ opening
        /\ opening' = FALSE
        /\ Becomes(IF client.viewport = 0 THEN [Now EXCEPT !.client = focused]
                   ELSE RequestView([Now EXCEPT !.client = laidOut], rect, client.detailOffset))
        /\ UNCHANGED <<connection, drag, inputs>>

\* WELCOME: OPEN follows if an image is selected.
Welcome ==
    /\ connection = "connecting"
    /\ connection' = "open"
    /\ opening' \in BOOLEAN
    /\ Becomes(WithoutImage(Now))
    /\ UNCHANGED <<drag, inputs>>

\* The server or the client closes; the close event cleans up later.
Closes ==
    /\ connection = "open"
    /\ connection' = "closing"
    /\ UNCHANGED <<client, timers, elapsed, opening, asked, drag, inputs>>

CloseEvent ==
    /\ connection = "closing"
    /\ connection' = "closed"
    /\ opening' = FALSE
    /\ Becomes(WithoutImage(Now))
    /\ UNCHANGED <<drag, inputs>>

\* connect clears the timer of the resize too.
Connect ==
    /\ Acts
    /\ connection' = "connecting"
    /\ opening' = FALSE
    /\ Becomes([WithoutImage(Now) EXCEPT !.timers = Idle, !.elapsed = NavigationInterval])
    /\ UNCHANGED drag

--------------------------------------------------------------------------------
\* Where the pointer can be on the canvas: a bound.
Fractions == {<<1, 2>>, <<1, 1>>}
ZoomIn == \E anchor \in Fractions : ZoomAt(anchor, <<4, 5>>)
ZoomOut == \E anchor \in Fractions : ZoomAt(anchor, <<5, 4>>)

User ==
    \/ \E direction \in {-1, 1} : PanByFraction(direction)
    \/ ZoomIn
    \/ ZoomOut
    \/ ResetView
    \/ RequestCenteredIntegrationRegion
    \/ \E mode \in Modes : SetViewMode(mode)
    \/ \E offset \in Offsets : SetDetailOffset(offset)
    \/ \E radius \in Radii : SetFocusRadius(radius)
    \/ \E size \in Sizes : SetViewport(size)
    \/ PointerDown
    \/ \E delta \in Strides : PointerMove(delta)
    \/ \E at \in Fractions : FinishPointer(at)
    \/ OpenSelected
    \/ Connect

Timer == Tick \/ NavigationTimer \/ SettleTimer \/ ResizeTimer

Network ==
    \/ \E image \in ImageWidths : ReceiveManifest(image)
    \/ Welcome
    \/ Closes
    \/ CloseEvent

Next == User \/ Timer \/ Network

\* Time passes and timers fire; the user and the network owe nothing.
Fairness ==
    /\ WF_vars(Tick)
    /\ WF_vars(NavigationTimer)
    /\ WF_vars(SettleTimer)
    /\ WF_vars(ResizeTimer)

Spec == Init /\ [][Next]_vars /\ Fairness

--------------------------------------------------------------------------------
\* Properties

Rects(image) == {r \in [x : 0..image - 1, width : 1..image] : r.x + r.width <= image}

\* The client has its type; and the view on the canvas, a VIEW and its focus lie
\* in the image of the MANIFEST, whatever the roundings: a server answers
\* BAD_VIEW to any other, and nothing would be drawn.
TypeOK ==
    /\ client.image \in ImageWidths \cup {0}
    /\ {client.viewport, client.layout} \subseteq Sizes \cup {0}
    /\ client.rect # NoView => client.rect \in Rects(client.image)
    /\ client.mode \in Modes
    /\ client.detailOffset \in Offsets
    /\ timers.navigation \in Unarmed..NavigationInterval
    /\ timers.settle \in Unarmed..NavigationSettle
    /\ timers.resize \in Unarmed..ResizeDelay
    /\ elapsed \in 0..NavigationInterval
    /\ asked # NoView =>
        /\ asked.rect \in Rects(client.image)
        /\ asked.viewport \in Sizes
        /\ asked.mode = "focus" =>
            asked.focus.x \in 0..client.image - 1 /\ asked.focus.radius \in 32..512
    /\ connection \in {"connecting", "open", "closing", "closed"}
    /\ drag \in [down : BOOLEAN, moved : BOOLEAN, offset : -4..4]

\* The view on the canvas, at the detail selected.
ViewOfNow ==
    [rect |-> client.rect, detailOffset |-> client.detailOffset, mode |-> client.mode,
     focus |-> IF client.mode = "focus" THEN client.focus ELSE NoView]

ViewAsked ==
    [rect |-> asked.rect, detailOffset |-> asked.detailOffset, mode |-> asked.mode,
     focus |-> asked.focus]

Unasked ==
    /\ connection = "open" /\ Shown /\ client.layout # 0
    /\ asked = NoView \/ ViewAsked # ViewOfNow

\* A view that was not asked for has a timer that will: no order of inputs,
\* timers and images leaves the canvas at a coarse or at an older view.  The
\* size of the stage is left out: see SetViewport.
UnaskedHasATimer == Unasked => timers.navigation # Unarmed \/ timers.settle # Unarmed

\* While the user keeps moving, transient views go on: a new input does not put
\* off the one that is due.
InputsDoNotPostpone ==
    timers.navigation # Unarmed => timers.navigation + elapsed = NavigationInterval

\* Zooming in shows part of what was shown, zooming out all of it, whatever the
\* roundings of the two ends.
Within(inner, outer) ==
    outer.x <= inner.x /\ inner.x + inner.width <= outer.x + outer.width


\* The canvas does not stay at a view that was not asked for.
ViewsAreAsked == Unasked ~> ~Unasked

================================================================================
