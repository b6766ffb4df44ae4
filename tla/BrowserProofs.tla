----------------------------- MODULE BrowserProofs -----------------------------
(***************************************************************************)
(* Proofs about the browser.  Of ViewNavigation, for images and stages of  *)
(* any width, any delays and any limit of the zoom: every view is inside   *)
(* its image, and every view that was not asked for has a timer that will. *)
(* Of TileReceipts, for any number of deliveries and any bound of the      *)
(* copies: a server that counts knows that what it sends again, and the    *)
(* RELEASE it awaits, are bounded.                                         *)
(***************************************************************************)
EXTENDS ViewNavigation, TLAPS

--------------------------------------------------------------------------------
\* Arithmetic of views

LEMMA ClampInRange ==
    ASSUME NEW v \in Int, NEW lo \in Int, NEW hi \in Int, lo <= hi
    PROVE  Clamp(v, lo, hi) \in lo..hi
BY DEF Clamp, Smaller, Greater

LEMMA RoundOfIsInt ==
    ASSUME NEW num \in Int, NEW den \in Nat \ {0}
    PROVE  RoundOf(num, den) \in Int
<1>1. 2 * num + den \in Int /\ 2 * den \in Nat \ {0}
    OBVIOUS
<1>2. QED
    BY <1>1 DEF RoundOf

Fraction == [x : Int, width : Int, den : Nat \ {0}]

LEMMA RectsAreSegments ==
    ASSUME NEW image \in Nat \ {0}, NEW r \in Rects(image)
    PROVE  /\ r \in Segments /\ r.x \in Nat /\ r.width \in Nat \ {0}
           /\ r.x + r.width <= image
BY DEF Rects, Segments

LEMMA IntegerViewInside ==
    ASSUME NEW image \in Nat \ {0}, NEW s \in Fraction
    PROVE  IntegerView(image, s) \in Rects(image)
<1> DEFINE rx == RoundOf(s.x, s.den)
           rw == RoundOf(s.width, s.den)
           w == Clamp(rw, 1, image)
           room == image - w
           y == Clamp(rx, 0, room)
<1>1. rw \in Int /\ rx \in Int
    BY RoundOfIsInt DEF Fraction
<1>2. IntegerView(image, s) = [x |-> y, width |-> w]
    BY DEF IntegerView
<1> HIDE DEF rx, rw
<1>3. w \in 1..image
    BY <1>1, ClampInRange
<1> HIDE DEF w
<1>4. room \in Int /\ 0 <= room /\ w + room = image
    BY <1>3
<1> HIDE DEF room
<1>5. y \in 0..room
    BY <1>1, <1>4 DEF Clamp, Smaller, Greater
<1> HIDE DEF y
<1>6. y \in 0..image - 1 /\ y + w <= image
    BY <1>3, <1>4, <1>5
<1>7. QED
    BY <1>2, <1>3, <1>6 DEF Rects

LEMMA ClampViewIsFraction ==
    ASSUME NEW image \in Nat \ {0}, NEW s \in Fraction
    PROVE  ClampView(image, s) \in Fraction
<1> DEFINE w == Clamp(s.width, s.den, image * s.den)
           y == Clamp(s.x, 0, image * s.den - w)
<1>1. image * s.den \in Int
    BY DEF Fraction
<1>2. w \in Int /\ y \in Int
    BY <1>1 DEF Fraction, Clamp, Smaller, Greater
<1>3. ClampView(image, s) = [x |-> y, width |-> w, den |-> s.den]
    BY DEF ClampView
<1>4. QED
    BY <1>2, <1>3 DEF Fraction

LEMMA PanViewIsFraction ==
    ASSUME NEW image \in Nat \ {0}, NEW r \in Rects(image), NEW delta \in Int,
           NEW den \in Nat \ {0}
    PROVE  PanView(image, r, delta, den) \in Fraction
<1>1. r.x * den + delta \in Int /\ r.width * den \in Int
    BY RectsAreSegments
<1>2. [x |-> r.x * den + delta, width |-> r.width * den, den |-> den] \in Fraction
    BY <1>1 DEF Fraction
<1>3. QED
    BY <1>2, ClampViewIsFraction DEF PanView

\* Where the pointer is, and what the wheel and the keys zoom by.
LEMMA FractionsAreFractions ==
    ASSUME NEW at \in Fractions
    PROVE  at[1] \in Nat /\ at[2] \in Nat \ {0}
BY DEF Fractions

LEMMA ZoomViewIsFraction ==
    ASSUME NEW image \in Nat \ {0}, NEW r \in Rects(image), NEW anchor \in Fractions,
           NEW factor \in {<<4, 5>>, <<5, 4>>}
    PROVE  ZoomView(image, r, anchor, factor) \in Fraction
<1> DEFINE den == factor[2] * anchor[2] * MaxViewZoom
           minWidth == Greater(den, image * factor[2] * anchor[2])
           wanted == r.width * factor[1] * anchor[2] * MaxViewZoom
           w == Clamp(wanted, minWidth, image * den)
           product == anchor[1] * (r.width * den - w)
           shift == product \div anchor[2]
<1>1. /\ factor[1] \in Nat \ {0} /\ factor[2] \in Nat \ {0}
      /\ anchor[1] \in Nat /\ anchor[2] \in Nat \ {0}
      /\ MaxViewZoom \in Nat \ {0}
      /\ r.x \in Int /\ r.width \in Int
    BY FractionsAreFractions, RectsAreSegments, ViewMathAssumption
<1> HIDE DEF den, minWidth, wanted, w, product, shift
<1>2. factor[2] * anchor[2] \in Nat \ {0}
    BY <1>1
<1>3. den \in Nat \ {0}
    BY <1>1, <1>2 DEF den
<1>4. image * factor[2] * anchor[2] \in Int /\ image * den \in Int /\ wanted \in Int
    BY <1>1, <1>3 DEF wanted
<1>5. minWidth \in Int
    BY <1>3, <1>4 DEF minWidth, Greater
<1>6. w \in Int
    BY <1>4, <1>5 DEF w, Clamp, Smaller, Greater
<1>7. r.width * den \in Int /\ r.x * den \in Int
    BY <1>1, <1>3
<1>8. product \in Int
    BY <1>1, <1>6, <1>7 DEF product
<1>9. shift \in Int
    BY <1>1, <1>8 DEF shift
<1>10. [x |-> r.x * den + shift, width |-> w, den |-> den] \in Fraction
    BY <1>3, <1>6, <1>7, <1>9 DEF Fraction
<1>11. QED
    BY <1>10, ClampViewIsFraction DEF ZoomView, den, minWidth, wanted, w, product, shift

LEMMA PixelAtInside ==
    ASSUME NEW image \in Nat \ {0}, NEW r \in Rects(image), NEW at \in Fractions
    PROVE  PixelAt(image, r, at) \in 0..image - 1
<1>1. at[1] \in Nat /\ at[2] \in Nat \ {0} /\ r.x \in Nat /\ r.width \in Nat
    BY FractionsAreFractions, RectsAreSegments
<1>2. r.x * at[2] + at[1] * r.width \in Int
    BY <1>1
<1> DEFINE pixel == RoundOf(r.x * at[2] + at[1] * r.width, at[2])
<1>3. pixel \in Int
    BY <1>1, <1>2, RoundOfIsInt
<1>4. PixelAt(image, r, at) = Clamp(pixel, 0, image - 1)
    BY DEF PixelAt
<1> HIDE DEF pixel
<1>5. image - 1 \in Int /\ 0 <= image - 1
    OBVIOUS
<1>6. QED
    BY <1>3, <1>4, <1>5, ClampInRange

LEMMA FullViewInside ==
    ASSUME NEW image \in Nat \ {0}
    PROVE  FullView(image) \in Rects(image)
BY DEF FullView, Rects

LEMMA CenteredTestRegionInside ==
    ASSUME NEW image \in Nat \ {0}
    PROVE  CenteredTestRegion(image) \in Rects(image)
<1> DEFINE w == Greater(1, image \div 2)
<1>1. w \in 1..image
    BY DEF Greater
<1> HIDE DEF w
<1>2. (image - w) \div 2 \in 0..image - w
    BY <1>1
<1>3. QED
    BY <1>1, <1>2 DEF CenteredTestRegion, Rects, w

--------------------------------------------------------------------------------
\* States of the client.  These are the variables that a handler changes, as
\* the record it computes.

Clients ==
    [image : Nat, viewport : Nat, layout : Nat, rect : Segments \cup {NoView}, mode : Modes,
     detailOffset : Offsets, focus : Points \cup {NoView}, signature : Views \cup {NoView}]

Timeouts ==
    [navigation : Unarmed..NavigationInterval, settle : Unarmed..NavigationSettle,
     resize : Unarmed..ResizeDelay]

States ==
    [client : Clients, timers : Timeouts, elapsed : 0..NavigationInterval,
     asked : Views \cup {NoView}]

FocusInside(focus, image) == focus.x < image /\ focus.radius \in 32..512

ViewInside(view, image) ==
    /\ view.rect \in Rects(image)
    /\ view.mode = "focus" => view.focus \in Points /\ FocusInside(view.focus, image)
    /\ view.mode = "uniform" => view.focus = NoView

ClientOK(c) ==
    /\ c.image \in ImageWidths \cup {0}
    /\ c.viewport \in Sizes \cup {0} /\ c.layout \in Sizes \cup {0}
    /\ c.image = 0 => c.rect = NoView /\ c.focus = NoView /\ c.signature = NoView
    /\ c.image # 0 => c.rect \in Rects(c.image)
    /\ c.image # 0 /\ c.viewport # 0 => c.layout # 0
    /\ c.viewport = 0 => c.layout = 0
    /\ c.focus # NoView => FocusInside(c.focus, c.image)
    /\ c.signature # NoView => ViewInside(c.signature, c.image)

\* The view that is due comes before the settled one.
TimersOK(timeouts, since) ==
    timeouts.navigation # Unarmed =>
        /\ timeouts.navigation + since = NavigationInterval
        /\ timeouts.navigation < timeouts.settle

StateOK(s) ==
    /\ s \in States
    /\ ClientOK(s.client)
    /\ s.asked = s.client.signature
    /\ TimersOK(s.timers, s.elapsed)

\* The view on the canvas was asked for, or there is none, or nobody to ask.
AskedFor(c) ==
    /\ c.signature # NoView
    /\ c.signature.rect = c.rect
    /\ c.signature.detailOffset = c.detailOffset
    /\ c.signature.mode = c.mode
    /\ c.signature.focus = IF c.mode = "focus" THEN c.focus ELSE NoView

Waits(s) == s.timers.navigation # Unarmed \/ s.timers.settle # Unarmed

Settled(s) == MayAsk(s.client) => AskedFor(s.client) \/ Waits(s)

LEMMA StateFields ==
    ASSUME NEW s, StateOK(s)
    PROVE  /\ s.client \in Clients /\ s.timers \in Timeouts
           /\ s.elapsed \in 0..NavigationInterval
           /\ s.asked \in Views \cup {NoView}
BY DEF StateOK, States

LEMMA CenterFocusInside ==
    ASSUME NEW c \in Clients, ClientOK(c), c.image # 0, NEW rect \in Rects(c.image)
    PROVE  /\ CenterFocus(c, rect) \in Points
           /\ FocusInside(CenterFocus(c, rect), c.image)
           /\ FocusOf(c, rect) \in Points
           /\ FocusInside(FocusOf(c, rect), c.image)
<1>1. c.image \in Nat \ {0}
    BY DEF Clients
<1>2. PixelAt(c.image, rect, <<1, 2>>) \in 0..c.image - 1
    BY <1>1, PixelAtInside DEF Fractions
<1>3. RadiusOf(c) \in 32..512
    BY DEF RadiusOf, DefaultRadius, ClientOK, FocusInside
<1>4. /\ CenterFocus(c, rect) \in Points
      /\ FocusInside(CenterFocus(c, rect), c.image)
    BY <1>1, <1>2, <1>3 DEF CenterFocus, Points, FocusInside
<1>5. QED
    BY <1>4 DEF FocusOf, Clients, ClientOK

\* requestView keeps the invariant, whatever the view.
LEMMA RequestViewOK ==
    ASSUME NEW s, StateOK(s), s.client.image # 0,
           NEW rect \in Rects(s.client.image), NEW d \in Offsets
    PROVE  LET r == RequestView(s, rect, d)
           IN  /\ StateOK(r)
               /\ r.timers = s.timers /\ r.elapsed = s.elapsed
               /\ r.client.image = s.client.image /\ r.client.viewport = s.client.viewport
               /\ r.client.layout = s.client.layout /\ r.client.mode = s.client.mode
               /\ r.client.detailOffset = s.client.detailOffset
               /\ r.client.rect = s.client.rect \/ r.client.rect = rect
               /\ rect = s.client.rect /\ d = s.client.detailOffset /\ MayAsk(s.client)
                    => AskedFor(r.client)
<1> DEFINE c == s.client
           focus == IF c.mode = "focus" THEN FocusOf(c, rect) ELSE NoView
           signature == [rect |-> rect, viewport |-> c.layout, detailOffset |-> d,
                         mode |-> c.mode, focus |-> focus]
           focused == [c EXCEPT !.focus = IF c.mode = "focus" THEN focus ELSE @]
           moved == [focused EXCEPT !.signature = signature, !.rect = rect]
           r == RequestView(s, rect, d)
<1>1. /\ c \in Clients /\ ClientOK(c) /\ s \in States /\ c.image # 0 /\ s.asked = c.signature
      /\ TimersOK(s.timers, s.elapsed)
    BY DEF StateOK, States
<1>2. r = IF ~MayAsk(c) THEN s
          ELSE IF signature = c.signature THEN [s EXCEPT !.client = focused]
          ELSE [s EXCEPT !.client = moved, !.asked = signature]
    BY DEF RequestView
<1> HIDE DEF c, r
<1>3. FocusOf(c, rect) \in Points /\ FocusInside(FocusOf(c, rect), c.image)
    BY <1>1, CenterFocusInside DEF c
<1>4. /\ focus \in Points \cup {NoView}
      /\ c.mode = "focus" => focus \in Points /\ FocusInside(focus, c.image)
      /\ c.mode = "uniform" => focus = NoView
      /\ c.mode \in Modes
    BY <1>1, <1>3 DEF Clients, Modes
<1> HIDE DEF focus
<1>5. /\ focused \in Clients /\ ClientOK(focused)
      /\ focused = [c EXCEPT !.focus = focused.focus]
      /\ focused.focus = IF c.mode = "focus" THEN focus ELSE c.focus
    BY <1>1, <1>4 DEF Clients, ClientOK
<1>6. rect \in Segments
    BY <1>1, RectsAreSegments DEF c, Clients
<1>7. ASSUME MayAsk(c)
      PROVE  /\ signature \in Views /\ signature # NoView
             /\ ViewInside(signature, c.image)
  <2>1. c.layout \in Sizes
      BY <1>1, <1>7 DEF MayAsk, ClientOK
  <2>2. signature \in Views
      BY <2>1, <1>1, <1>4, <1>6 DEF Views, Clients
  <2>3. ViewInside(signature, c.image)
      BY <1>4 DEF ViewInside, c
  <2>4. QED
      BY <2>2, <2>3, NavigationAssumption
<1>8. /\ moved.image = c.image /\ moved.viewport = c.viewport /\ moved.layout = c.layout
      /\ moved.mode = c.mode /\ moved.detailOffset = c.detailOffset
      /\ moved.rect = rect /\ moved.signature = signature /\ moved.focus = focused.focus
    BY <1>5 DEF Clients
<1>9. ASSUME MayAsk(c)
      PROVE  moved \in Clients /\ ClientOK(moved)
  <2>1. moved \in Clients
      BY <1>5, <1>6, <1>7, <1>9 DEF Clients
  <2>2. focused.image = c.image
      BY <1>1, <1>5 DEF Clients
  <2>3. ClientOK(moved)
      BY <1>1, <1>5, <1>7, <1>8, <1>9, <2>2 DEF ClientOK, c
  <2>4. QED
      BY <2>1, <2>3
<1>9a. /\ signature.rect = rect /\ signature.detailOffset = d
       /\ signature.mode = c.mode /\ signature.focus = focus
    OBVIOUS
<1>9b. c.mode = "focus" \/ c.mode = "uniform"
    BY <1>4 DEF Modes
<1> HIDE DEF signature, focused, moved
<1>10. CASE ~MayAsk(c)
    BY <1>1, <1>2, <1>10 DEF r, c, StateOK
<1>11. CASE MayAsk(c) /\ signature = c.signature
  <2>1. r = [s EXCEPT !.client = focused]
      BY <1>2, <1>11
  <2>2. /\ r \in States /\ r.client = focused /\ r.timers = s.timers /\ r.elapsed = s.elapsed
        /\ r.asked = s.asked
      BY <2>1, <1>1, <1>5 DEF States
  <2>3. /\ focused.image = c.image /\ focused.viewport = c.viewport
        /\ focused.layout = c.layout /\ focused.mode = c.mode
        /\ focused.detailOffset = c.detailOffset /\ focused.rect = c.rect
        /\ focused.signature = c.signature
      BY <1>1, <1>5 DEF Clients
  <2>4. StateOK(r)
      BY <2>2, <2>3, <1>1, <1>5 DEF StateOK
  <2>5. rect = c.rect /\ d = c.detailOffset => AskedFor(focused)
      BY <2>3, <1>4, <1>5, <1>7, <1>11, <1>9a, <1>9b DEF AskedFor
  <2>6. QED
      BY <2>2, <2>3, <2>4, <2>5 DEF r, c
<1>12. CASE MayAsk(c) /\ signature # c.signature
  <2>1. r = [s EXCEPT !.client = moved, !.asked = signature]
      BY <1>2, <1>12
  <2>2. /\ r \in States /\ r.client = moved /\ r.timers = s.timers /\ r.elapsed = s.elapsed
        /\ r.asked = signature
      BY <2>1, <1>1, <1>7, <1>9, <1>12 DEF States
  <2>3. StateOK(r)
      BY <2>2, <1>1, <1>8, <1>9, <1>12 DEF StateOK
  <2>4. rect = c.rect /\ d = c.detailOffset => AskedFor(moved)
      BY <1>4, <1>5, <1>7, <1>8, <1>12, <1>9a, <1>9b DEF AskedFor
  <2>5. QED
      BY <2>2, <2>3, <2>4, <1>8 DEF r, c
<1>13. QED
    BY <1>10, <1>11, <1>12

Connections == {"connecting", "open", "closing", "closed"}
Drags == [down : BOOLEAN, moved : BOOLEAN, offset : -4..4]

IInv ==
    /\ StateOK(Now)
    /\ Settled(Now)
    /\ opening => client.image = 0
    /\ opening \in BOOLEAN
    /\ connection \in Connections
    /\ drag \in Drags

\* What a handler leaves: the invariant, and the image it found.
Keeps(s) == StateOK(s) /\ Settled(s) /\ s.client.image = client.image

LEMMA StateFromFields ==
    ASSUME NEW c \in Clients, NEW t \in Timeouts, NEW e \in 0..NavigationInterval,
           ClientOK(c), TimersOK(t, e),
           NEW s, s = [client |-> c, timers |-> t, elapsed |-> e, asked |-> c.signature]
    PROVE  StateOK(s)
<1>1. c.signature \in Views \cup {NoView}
    BY DEF Clients
<1>2. QED
    BY <1>1 DEF StateOK, States

\* A state with another client, or with other timers.
LEMMA WithClient ==
    ASSUME NEW s, StateOK(s), NEW c \in Clients, ClientOK(c), c.signature = s.client.signature
    PROVE  StateOK([s EXCEPT !.client = c])
<1>1. /\ s.timers \in Timeouts /\ s.elapsed \in 0..NavigationInterval
      /\ TimersOK(s.timers, s.elapsed)
      /\ s.asked = c.signature
    BY DEF StateOK, States
<1>2. [s EXCEPT !.client = c] =
        [client |-> c, timers |-> s.timers, elapsed |-> s.elapsed, asked |-> c.signature]
    BY <1>1 DEF StateOK, States
<1>3. QED
    BY <1>1, <1>2, StateFromFields

LEMMA WithTimers ==
    ASSUME NEW s, StateOK(s), NEW t \in Timeouts, NEW e \in 0..NavigationInterval,
           TimersOK(t, e)
    PROVE  StateOK([s EXCEPT !.timers = t, !.elapsed = e])
<1>1. s.client \in Clients /\ ClientOK(s.client) /\ s.asked = s.client.signature
    BY DEF StateOK, States
<1>2. s \in States
    BY DEF StateOK
<1>3. [s EXCEPT !.timers = t] =
        [client |-> s.client, timers |-> t, elapsed |-> s.elapsed, asked |-> s.asked]
    BY <1>2 DEF States
<1>4. [[client |-> s.client, timers |-> t, elapsed |-> s.elapsed, asked |-> s.asked]
            EXCEPT !.elapsed = e] =
        [client |-> s.client, timers |-> t, elapsed |-> e, asked |-> s.client.signature]
    BY <1>1
<1>5. [s EXCEPT !.timers = t, !.elapsed = e] =
        [client |-> s.client, timers |-> t, elapsed |-> e, asked |-> s.client.signature]
    BY ONLY <1>3, <1>4, Zenon
<1>6. QED
    BY <1>1, <1>5, StateFromFields

LEMMA TransientIsOffset ==
    ASSUME NEW c \in Clients
    PROVE  Transient(c) \in Offsets
BY DEF Transient, Smaller, Clients, Offsets

\* sendTransient keeps the invariant, and starts another interval.
LEMMA SendTransientOK ==
    ASSUME NEW s, StateOK(s)
    PROVE  LET r == SendTransient(s)
           IN  /\ StateOK(r)
               /\ r.timers.navigation = Unarmed /\ r.timers.settle = s.timers.settle
               /\ r.client.image = s.client.image
<1> DEFINE sent == [s EXCEPT !.timers.navigation = Unarmed, !.elapsed = 0]
           t == [s.timers EXCEPT !.navigation = Unarmed]
<1>1. s \in States /\ s.client \in Clients /\ s.timers \in Timeouts /\ ClientOK(s.client)
    BY DEF StateOK, States
<1>2. t \in Timeouts /\ t.navigation = Unarmed /\ t.settle = s.timers.settle
    BY <1>1, NavigationAssumption DEF Timeouts, Unarmed
<1>3. sent = [s EXCEPT !.timers = t, !.elapsed = 0]
    BY <1>1 DEF States
<1>4. 0 \in 0..NavigationInterval /\ TimersOK(t, 0)
    BY <1>2, NavigationAssumption DEF TimersOK
<1>5. StateOK(sent)
    BY <1>2, <1>3, <1>4, WithTimers
<1>6. sent.client = s.client /\ sent.timers = t
    BY <1>1, <1>3 DEF States
<1>7. SendTransient(s) = IF s.client.rect = NoView THEN sent
                         ELSE RequestView(sent, s.client.rect, Transient(s.client))
    BY DEF SendTransient
<1> HIDE DEF sent, t
<1>8. CASE s.client.rect = NoView
    BY <1>2, <1>5, <1>6, <1>7, <1>8
<1>9. CASE s.client.rect # NoView
  <2>1. s.client.image # 0 /\ s.client.rect \in Rects(s.client.image)
      BY <1>1, <1>9 DEF ClientOK
  <2>2. Transient(s.client) \in Offsets
      BY <1>1, TransientIsOffset
  <2>3. QED
      BY <1>2, <1>5, <1>6, <1>7, <1>9, <2>1, <2>2, RequestViewOK
<1>10. QED
    BY <1>8, <1>9

\* A navigation leaves the settled view due.
LEMMA QueueNavigationViewOK ==
    ASSUME NEW s, StateOK(s)
    PROVE  LET r == QueueNavigationView(s)
           IN  StateOK(r) /\ Settled(r) /\ r.client.image = s.client.image
<1> DEFINE q == Throttled(s)
           t == [q.timers EXCEPT !.settle = NavigationSettle]
           r == QueueNavigationView(s)
<1>1. r = [q EXCEPT !.timers.settle = NavigationSettle]
    BY DEF QueueNavigationView
<1>2. /\ s \in States /\ s.timers \in Timeouts /\ s.elapsed \in 0..NavigationInterval
    BY DEF StateOK, States
<1>3. /\ q \in States /\ q.timers \in Timeouts
      /\ ClientOK(q.client) /\ q.asked = q.client.signature
      /\ q.client.image = s.client.image
      /\ TimersOK(t, q.elapsed)
  <2>1. CASE s.elapsed >= NavigationInterval
    <3>1. q = SendTransient(s)
        BY <2>1 DEF Throttled
    <3>2. StateOK(q) /\ q.timers.navigation = Unarmed /\ q.client.image = s.client.image
        BY <3>1, SendTransientOK
    <3>3. q.timers \in Timeouts
        BY <3>2 DEF StateOK, States
    <3>4. t.navigation = Unarmed
        BY <3>2, <3>3 DEF Timeouts
    <3>5. QED
        BY <3>2, <3>3, <3>4 DEF StateOK, TimersOK
  <2>2. CASE ~(s.elapsed >= NavigationInterval)
    <3> DEFINE due == NavigationInterval - s.elapsed
    <3>1. due \in Unarmed..NavigationInterval /\ due + s.elapsed = NavigationInterval
          /\ due < NavigationSettle
        BY <1>2, <2>2, NavigationAssumption DEF Unarmed
    <3>2. q = [s EXCEPT !.timers.navigation = due]
        BY <2>2 DEF Throttled
    <3> HIDE DEF due
    <3>3. /\ q \in States /\ q.timers = [s.timers EXCEPT !.navigation = due]
          /\ q.client = s.client /\ q.asked = s.asked /\ q.elapsed = s.elapsed
        BY <1>2, <3>1, <3>2 DEF States, Timeouts
    <3>4. q.timers \in Timeouts
        BY <1>2, <3>1, <3>3 DEF Timeouts
    <3> HIDE DEF q
    <3>5. t.navigation = due /\ t.settle = NavigationSettle
        BY <1>2, <3>3 DEF Timeouts
    <3>6. TimersOK(t, q.elapsed)
        BY <3>1, <3>3, <3>5 DEF TimersOK
    <3>7. QED
        BY <3>3, <3>4, <3>6 DEF StateOK
  <2>3. QED
      BY <2>1, <2>2
<1> HIDE DEF q
<1>4. t \in Timeouts /\ t.settle = NavigationSettle
    BY <1>3, NavigationAssumption DEF Timeouts, Unarmed
<1>5. r = [client |-> q.client, timers |-> t, elapsed |-> q.elapsed,
           asked |-> q.client.signature]
    BY <1>1, <1>3 DEF States
<1> HIDE DEF t, r
<1>6. q.client \in Clients /\ q.elapsed \in 0..NavigationInterval
    BY <1>3 DEF States
<1>7. StateOK(r)
    BY <1>3, <1>4, <1>5, <1>6, StateFromFields
<1>8. Settled(r)
    BY <1>4, <1>5, NavigationAssumption DEF Settled, Waits, Unarmed
<1>9. QED
    BY <1>3, <1>5, <1>7, <1>8 DEF r

LEMMA UpdateNavigationRectOK ==
    ASSUME NEW s, StateOK(s), s.client.image # 0, NEW segment \in Fraction
    PROVE  LET r == UpdateNavigationRect(s, segment)
           IN  StateOK(r) /\ Settled(r) /\ r.client.image = s.client.image
<1> DEFINE rect == IntegerView(s.client.image, segment)
           c == [s.client EXCEPT !.rect = rect]
           moved == [s EXCEPT !.client.rect = rect]
<1>1. s \in States /\ s.client \in Clients /\ ClientOK(s.client)
    BY DEF StateOK, States
<1>2. s.client.image \in Nat \ {0}
    BY <1>1 DEF Clients
<1>3. rect \in Rects(s.client.image) /\ rect \in Segments
    BY <1>2, IntegerViewInside, RectsAreSegments
<1> HIDE DEF rect
<1>4. c \in Clients /\ ClientOK(c) /\ c.signature = s.client.signature
      /\ c.image = s.client.image
    BY <1>1, <1>3 DEF Clients, ClientOK
<1>5. moved = [s EXCEPT !.client = c]
    BY <1>1 DEF States
<1>6. StateOK(moved) /\ moved.client.image = s.client.image
    BY <1>1, <1>4, <1>5, WithClient DEF States
<1>7. UpdateNavigationRect(s, segment) = QueueNavigationView(moved)
    BY DEF UpdateNavigationRect, rect
<1>8. QED
    BY <1>6, <1>7, QueueNavigationViewOK

\* The view of now, asked for at the detail selected: nothing is left to ask.
LEMMA RequestViewSettles ==
    ASSUME NEW s, StateOK(s), s.client.image # 0
    PROVE  LET r == RequestView(s, s.client.rect, s.client.detailOffset)
           IN  StateOK(r) /\ Settled(r) /\ r.client.image = s.client.image
<1>1. /\ s.client.rect \in Rects(s.client.image) /\ s.client.detailOffset \in Offsets
    BY DEF StateOK, States, ClientOK, Clients
<1>2. QED
    BY <1>1, RequestViewOK DEF Settled, MayAsk

--------------------------------------------------------------------------------
\* The steps

LEMMA BecomesOK ==
    ASSUME NEW s, StateOK(s), Becomes(s)
    PROVE  StateOK(Now)'
<1>1. s \in States /\ Now' = s
    BY DEF StateOK, States, Becomes, Now
<1>2. QED
    BY <1>1 DEF StateOK, ClientOK, TimersOK

LEMMA BecomesKeeps ==
    ASSUME NEW s, Keeps(s), Becomes(s), connection' = connection
    PROVE  StateOK(Now)' /\ Settled(Now)' /\ client'.image = client.image
<1>1. StateOK(s) /\ Settled(s) /\ s.client.image = client.image
    BY DEF Keeps
<1>2. StateOK(Now)'
    BY <1>1, BecomesOK
<1>3. s \in States /\ Now' = s
    BY <1>1 DEF StateOK, States, Becomes, Now
<1>4. Settled(Now)'
    BY <1>1, <1>3 DEF Settled, MayAsk, AskedFor, Waits
<1>5. QED
    BY <1>1, <1>2, <1>4 DEF Becomes

LEMMA NowFields ==
    ASSUME IInv
    PROVE  /\ Keeps(Now) /\ Now.client = client /\ Now.timers = timers
           /\ Now.elapsed = elapsed /\ Now.asked = asked
           /\ client \in Clients /\ timers \in Timeouts /\ ClientOK(client)
           /\ elapsed \in 0..NavigationInterval /\ TimersOK(timers, elapsed)
           /\ asked = client.signature /\ Now \in States
BY DEF IInv, Keeps, Now, StateOK, States

\* A shown view has an image.
LEMMA ShownInside ==
    ASSUME IInv, client.rect # NoView
    PROVE  /\ client.image \in Nat \ {0} /\ client.rect \in Rects(client.image)
           /\ client.rect.width \in Nat
<1>1. client.image \in Nat \ {0} /\ client.rect \in Rects(client.image)
    BY NowFields DEF ClientOK, Clients
<1>2. QED
    BY <1>1, RectsAreSegments

LEMMA PanByFractionKeeps ==
    ASSUME IInv, NEW direction \in {-1, 1}, PanByFraction(direction)
    PROVE  StateOK(Now)' /\ Settled(Now)' /\ client'.image = client.image
<1> DEFINE segment == PanView(client.image, client.rect, direction * client.rect.width, 10)
<1>1. /\ Shown /\ Becomes(UpdateNavigationRect(Now, segment)) /\ connection' = connection
    BY DEF PanByFraction, Handles
<1>2. direction * client.rect.width \in Int
    BY <1>1, ShownInside DEF Shown
<1>3. segment \in Fraction
    BY <1>1, <1>2, ShownInside, PanViewIsFraction DEF Shown
<1> HIDE DEF segment
<1>4. Keeps(UpdateNavigationRect(Now, segment))
    BY <1>1, <1>3, NowFields, UpdateNavigationRectOK DEF Keeps, Shown
<1>5. QED
    BY <1>1, <1>4, BecomesKeeps

LEMMA ZoomKeeps ==
    ASSUME IInv, NEW anchor \in Fractions, NEW factor \in {<<4, 5>>, <<5, 4>>},
           ZoomAt(anchor, factor)
    PROVE  StateOK(Now)' /\ Settled(Now)' /\ client'.image = client.image
<1> DEFINE segment == ZoomView(client.image, client.rect, anchor, factor)
<1>1. /\ Shown /\ Becomes(UpdateNavigationRect(Now, segment)) /\ connection' = connection
    BY DEF ZoomAt, Handles
<1>2. segment \in Fraction
    BY <1>1, ShownInside, ZoomViewIsFraction DEF Shown
<1> HIDE DEF segment
<1>3. Keeps(UpdateNavigationRect(Now, segment))
    BY <1>1, <1>2, NowFields, UpdateNavigationRectOK DEF Keeps, Shown
<1>4. QED
    BY <1>1, <1>3, BecomesKeeps

\* A handler changes the client, then asks for the view of then.
LEMMA AsksForTheChanged ==
    ASSUME IInv, client.image # 0, NEW c \in Clients, ClientOK(c),
           c.signature = client.signature, c.image = client.image
    PROVE  Keeps(RequestView([Now EXCEPT !.client = c], c.rect, c.detailOffset))
<1> DEFINE s == [Now EXCEPT !.client = c]
<1>1. StateOK(s)
    BY NowFields, WithClient DEF Keeps
<1>2. s.client = c
    BY NowFields DEF States
<1> HIDE DEF s
<1>3. QED
    BY <1>1, <1>2, RequestViewSettles DEF Keeps, s

LEMMA ResetViewKeeps ==
    ASSUME IInv, ResetView
    PROVE  StateOK(Now)' /\ Settled(Now)' /\ client'.image = client.image
<1> DEFINE rect == FullView(client.image)
           focus == IF client.mode = "focus" THEN CenterFocus(client, rect) ELSE client.focus
           c == [client EXCEPT !.rect = rect, !.focus = focus]
           s == [Now EXCEPT !.client = c]
<1>1. /\ client.image # 0 /\ Becomes(RequestView(s, rect, client.detailOffset))
      /\ connection' = connection
    BY DEF ResetView, Handles
<1>2. client \in Clients /\ ClientOK(client) /\ client.image \in Nat \ {0}
    BY <1>1, NowFields DEF Clients
<1>3. rect \in Rects(client.image) /\ rect \in Segments
    BY <1>2, FullViewInside, RectsAreSegments
<1> HIDE DEF rect
<1>4. /\ focus \in Points \cup {NoView}
      /\ focus # NoView => FocusInside(focus, client.image)
    BY <1>2, <1>3, CenterFocusInside DEF Clients, ClientOK
<1> HIDE DEF focus
<1>5. /\ c.image = client.image /\ c.viewport = client.viewport /\ c.layout = client.layout
      /\ c.rect = rect /\ c.detailOffset = client.detailOffset /\ c.focus = focus
      /\ c.signature = client.signature /\ c \in Clients
    BY <1>2, <1>3, <1>4 DEF Clients
<1> HIDE DEF c
<1>6. ClientOK(c)
    BY <1>2, <1>3, <1>4, <1>5 DEF ClientOK
<1>7. Keeps(RequestView(s, rect, client.detailOffset))
    BY <1>1, <1>5, <1>6, AsksForTheChanged
<1> HIDE DEF s
<1>8. QED
    BY <1>1, <1>7, BecomesKeeps

LEMMA CenteredRegionKeeps ==
    ASSUME IInv, RequestCenteredIntegrationRegion
    PROVE  StateOK(Now)' /\ Settled(Now)' /\ client'.image = client.image
<1> DEFINE rect == CenteredTestRegion(client.image)
           c == [client EXCEPT !.rect = rect]
           s == [Now EXCEPT !.client = c]
<1>1. /\ client.image # 0 /\ Becomes(RequestView(s, rect, client.detailOffset))
      /\ connection' = connection
    BY DEF RequestCenteredIntegrationRegion, Handles
<1>2. client \in Clients /\ ClientOK(client) /\ client.image \in Nat \ {0}
    BY <1>1, NowFields DEF Clients
<1>3. rect \in Rects(client.image) /\ rect \in Segments
    BY <1>2, CenteredTestRegionInside, RectsAreSegments
<1> HIDE DEF rect
<1>4. /\ c.image = client.image /\ c.rect = rect /\ c.detailOffset = client.detailOffset
      /\ c.signature = client.signature /\ c \in Clients /\ ClientOK(c)
    BY <1>2, <1>3 DEF Clients, ClientOK
<1> HIDE DEF c
<1>5. Keeps(RequestView(s, rect, client.detailOffset))
    BY <1>1, <1>4, AsksForTheChanged
<1> HIDE DEF s
<1>6. QED
    BY <1>1, <1>5, BecomesKeeps

\* Without an image there is nothing to ask for.
LEMMA NotShownKeeps ==
    ASSUME IInv, client.image = 0, NEW c \in Clients, ClientOK(c),
           c.signature = client.signature, c.image = 0
    PROVE  Keeps([Now EXCEPT !.client = c])
<1>1. StateOK([Now EXCEPT !.client = c])
    BY NowFields, WithClient DEF Keeps
<1>2. [Now EXCEPT !.client = c].client = c
    BY NowFields DEF States
<1>3. QED
    BY <1>1, <1>2 DEF Keeps, Settled, MayAsk

LEMMA NotShown ==
    ASSUME IInv, ~Shown
    PROVE  client.image = 0
<1>1. client.image # 0 => client.rect \in Rects(client.image) /\ client.image \in Nat \ {0}
    BY NowFields DEF ClientOK, Clients
<1>2. client.image # 0 => client.rect # NoView
    BY <1>1, RectsAreSegments, NavigationAssumption
<1>3. QED
    BY <1>2 DEF Shown

LEMMA SetViewModeKeeps ==
    ASSUME IInv, NEW mode \in Modes, SetViewMode(mode)
    PROVE  StateOK(Now)' /\ Settled(Now)' /\ client'.image = client.image
<1> DEFINE changed == [client EXCEPT !.mode = mode]
           focus == IF mode = "focus" THEN FocusOf(client, client.rect) ELSE client.focus
           focused == [changed EXCEPT !.focus = focus]
<1>1. /\ client \in Clients /\ ClientOK(client)
      /\ changed \in Clients /\ ClientOK(changed) /\ changed.image = client.image
      /\ changed.signature = client.signature /\ changed.rect = client.rect
      /\ changed.detailOffset = client.detailOffset /\ changed.focus = client.focus
    BY NowFields DEF Clients, ClientOK
<1>2. /\ Becomes(IF ~Shown THEN [Now EXCEPT !.client = changed]
                  ELSE RequestView([Now EXCEPT !.client = focused], client.rect,
                                   client.detailOffset))
      /\ connection' = connection
    BY <1>1 DEF SetViewMode, Handles
<1>3. CASE ~Shown
  <2>1. Keeps([Now EXCEPT !.client = changed])
      BY <1>1, <1>3, NotShown, NotShownKeeps
  <2>2. QED
      BY <1>2, <1>3, <2>1, BecomesKeeps
<1>4. CASE Shown
  <2>1. client.image # 0 /\ client.rect \in Rects(client.image)
      BY <1>4, ShownInside DEF Shown
  <2>2. /\ focus \in Points \cup {NoView}
        /\ focus # NoView => FocusInside(focus, client.image)
      BY <1>1, <2>1, CenterFocusInside DEF Clients, ClientOK
  <2> HIDE DEF focus, changed
  <2>3. /\ focused \in Clients /\ ClientOK(focused) /\ focused.image = client.image
        /\ focused.signature = client.signature /\ focused.rect = client.rect
        /\ focused.detailOffset = client.detailOffset
      BY <1>1, <2>1, <2>2 DEF Clients, ClientOK
  <2> HIDE DEF focused
  <2>4. Keeps(RequestView([Now EXCEPT !.client = focused], client.rect, client.detailOffset))
      BY <2>1, <2>3, AsksForTheChanged
  <2>5. QED
      BY <1>2, <1>4, <2>4, BecomesKeeps
<1>5. QED
    BY <1>3, <1>4

LEMMA SetDetailOffsetKeeps ==
    ASSUME IInv, NEW offset \in Offsets, SetDetailOffset(offset)
    PROVE  StateOK(Now)' /\ Settled(Now)' /\ client'.image = client.image
<1> DEFINE changed == [client EXCEPT !.detailOffset = offset]
<1>1. /\ changed \in Clients /\ ClientOK(changed) /\ changed.image = client.image
      /\ changed.signature = client.signature /\ changed.rect = client.rect
      /\ changed.detailOffset = offset
    BY NowFields DEF Clients, ClientOK
<1>2. /\ Becomes(IF ~Shown THEN [Now EXCEPT !.client = changed]
                  ELSE RequestView([Now EXCEPT !.client = changed], client.rect, offset))
      /\ connection' = connection
    BY DEF SetDetailOffset, Handles
<1> HIDE DEF changed
<1>3. CASE ~Shown
  <2>1. Keeps([Now EXCEPT !.client = changed])
      BY <1>1, <1>3, NotShown, NotShownKeeps
  <2>2. QED
      BY <1>2, <1>3, <2>1, BecomesKeeps
<1>4. CASE Shown
  <2>1. Keeps(RequestView([Now EXCEPT !.client = changed], client.rect, offset))
      BY <1>1, <1>4, AsksForTheChanged DEF Shown
  <2>2. QED
      BY <1>2, <1>4, <2>1, BecomesKeeps
<1>5. QED
    BY <1>3, <1>4

LEMMA SetFocusRadiusKeeps ==
    ASSUME IInv, NEW wanted \in Radii, SetFocusRadius(wanted)
    PROVE  StateOK(Now)' /\ Settled(Now)' /\ client'.image = client.image
<1> DEFINE radius == Clamp(wanted, 32, 512)
           focus == [x |-> FocusOf(client, client.rect).x, radius |-> radius]
           c == [client EXCEPT !.focus = focus]
           resized == [Now EXCEPT !.client = c]
<1>1. /\ Becomes(IF client.rect = NoView
                  THEN IF client.focus = NoView THEN Now
                       ELSE [Now EXCEPT !.client.focus.radius = radius]
                  ELSE IF client.mode = "focus" THEN QueueNavigationView(resized) ELSE resized)
      /\ connection' = connection
    BY DEF SetFocusRadius, Handles
<1>2. /\ client \in Clients /\ ClientOK(client) /\ client.mode \in Modes
    BY NowFields DEF Clients
<1>3. CASE client.rect = NoView
  <2>1. client.focus = NoView
      BY <1>2, <1>3, NotShown DEF Shown, ClientOK
  <2>2. QED
      BY <1>1, <1>3, <2>1, NowFields, BecomesKeeps
<1>4. CASE client.rect # NoView
  <2>1. radius \in 32..512
      BY NavigationAssumption DEF Clamp, Smaller, Greater
  <2>2. client.image # 0 /\ client.rect \in Rects(client.image)
      BY <1>4, ShownInside
  <2>3. FocusOf(client, client.rect) \in Points
        /\ FocusInside(FocusOf(client, client.rect), client.image)
      BY <1>2, <2>2, CenterFocusInside
  <2> HIDE DEF radius
  <2>4. focus \in Points /\ FocusInside(focus, client.image)
      BY <2>1, <2>3 DEF Points, FocusInside
  <2> HIDE DEF focus
  <2>5. /\ c \in Clients /\ ClientOK(c) /\ c.signature = client.signature
        /\ c.image = client.image /\ c.layout = client.layout /\ c.mode = client.mode
        /\ c.rect = client.rect /\ c.detailOffset = client.detailOffset
      BY <1>2, <2>2, <2>4 DEF Clients, ClientOK
  <2> HIDE DEF c
  <2>6. /\ StateOK(resized) /\ resized.client = c /\ resized.timers = timers
      BY <2>5, NowFields, WithClient DEF Keeps, States
  <2> HIDE DEF resized
  <2>7. CASE client.mode = "focus"
    <3>1. Keeps(QueueNavigationView(resized))
        BY <2>5, <2>6, QueueNavigationViewOK DEF Keeps
    <3>2. QED
        BY <1>1, <1>4, <2>7, <3>1, BecomesKeeps
  <2>8. CASE client.mode # "focus"
    <3>1. Settled(resized)
        BY <2>5, <2>6, <2>8, NowFields DEF Keeps, Settled, MayAsk, AskedFor, Waits
    <3>2. Keeps(resized)
        BY <2>5, <2>6, <3>1 DEF Keeps
    <3>3. QED
        BY <1>1, <1>4, <2>8, <3>2, BecomesKeeps
  <2>9. QED
      BY <2>7, <2>8
<1>5. QED
    BY <1>3, <1>4

LEMMA SetViewportKeeps ==
    ASSUME IInv, NEW size \in Sizes, SetViewport(size)
    PROVE  StateOK(Now)' /\ Settled(Now)' /\ client'.image = client.image
<1> DEFINE layout == IF client.image = 0 THEN client.layout ELSE size
           c == [client EXCEPT !.viewport = size, !.layout = layout]
           laidOut == [Now EXCEPT !.client = c]
           rect == IF client.rect = NoView THEN FullView(client.image) ELSE client.rect
           later == [laidOut EXCEPT !.timers.resize = ResizeDelay]
<1>1. /\ \/ client.image = 0 /\ Becomes(laidOut)
         \/ /\ client.image # 0 /\ client.viewport = 0
            /\ Becomes(RequestView(laidOut, rect, client.detailOffset))
         \/ client.image # 0 /\ client.viewport # 0 /\ Becomes(later)
         \/ client.image # 0 /\ client.viewport # 0 /\ Becomes(laidOut)
      /\ connection' = connection
    BY DEF SetViewport
<1>2. client \in Clients /\ ClientOK(client) /\ size \in Nat \ {0}
    BY NowFields, NavigationAssumption
<1>3. layout \in Nat /\ layout \in Sizes \cup {0} /\ (client.image # 0 => layout = size)
    BY <1>2 DEF Clients, ClientOK
<1> HIDE DEF layout
<1>4. /\ c \in Clients /\ c.image = client.image /\ c.rect = client.rect
      /\ c.signature = client.signature /\ c.detailOffset = client.detailOffset
      /\ c.mode = client.mode /\ c.focus = client.focus
      /\ c.viewport = size /\ c.layout = layout
    BY <1>2, <1>3 DEF Clients
<1> HIDE DEF c
<1>5. ClientOK(c)
    BY <1>2, <1>3, <1>4 DEF ClientOK
<1>6. CASE client.image = 0 /\ Becomes(laidOut)
    BY <1>1, <1>4, <1>5, <1>6, NotShownKeeps, BecomesKeeps
<1>7. CASE /\ client.image # 0 /\ client.viewport = 0
           /\ Becomes(RequestView(laidOut, rect, client.detailOffset))
  <2>1. rect = c.rect
      BY <1>4, <1>7, NotShown DEF Shown
  <2>2. Keeps(RequestView(laidOut, rect, client.detailOffset))
      BY <1>4, <1>5, <1>7, <2>1, AsksForTheChanged
  <2>3. QED
      BY <1>1, <1>7, <2>2, BecomesKeeps
<1>8. ASSUME client.image # 0, client.viewport # 0
      PROVE  Keeps(laidOut) /\ Keeps(later)
  <2>1. /\ StateOK(laidOut) /\ laidOut.client = c /\ laidOut.timers = timers
        /\ laidOut.elapsed = elapsed /\ laidOut.asked = asked
      BY <1>4, <1>5, NowFields, WithClient DEF Keeps, States
  <2>2. client.layout # 0
      BY <1>2, <1>8 DEF ClientOK
  <2>3. Settled(laidOut)
      BY <1>4, <2>1, <2>2, NowFields DEF Keeps, Settled, MayAsk, AskedFor, Waits
  <2> HIDE DEF laidOut
  <2>4. /\ laidOut \in States /\ timers \in Timeouts /\ ResizeDelay \in Unarmed..ResizeDelay
      BY <2>1, NowFields, NavigationAssumption DEF StateOK, Unarmed
  <2>5. /\ [timers EXCEPT !.resize = ResizeDelay] \in Timeouts
        /\ [timers EXCEPT !.resize = ResizeDelay].navigation = timers.navigation
        /\ [timers EXCEPT !.resize = ResizeDelay].settle = timers.settle
      BY <2>4 DEF Timeouts
  <2>6. later = [laidOut EXCEPT !.timers = [timers EXCEPT !.resize = ResizeDelay]]
      BY <2>1, <2>4 DEF States
  <2>6a. /\ later \in States /\ later.client = c /\ later.elapsed = elapsed
         /\ later.asked = asked /\ later.timers \in Timeouts
         /\ later.timers.navigation = timers.navigation
         /\ later.timers.settle = timers.settle
      BY <2>1, <2>4, <2>5, <2>6 DEF States
  <2> HIDE DEF later
  <2>7. StateOK(later)
      BY <1>4, <1>5, <2>1, <2>6a, NowFields DEF StateOK, TimersOK
  <2>8. Settled(later)
      BY <2>1, <2>3, <2>6a DEF Settled, Waits
  <2>9. QED
      BY <1>4, <2>1, <2>3, <2>6a, <2>7, <2>8 DEF Keeps
<1>9. QED
    BY <1>1, <1>6, <1>7, <1>8, BecomesKeeps

--------------------------------------------------------------------------------
\* The pointer

PointerStays == drag' \in Drags

LEMMA PointerDownKeeps ==
    ASSUME IInv, PointerDown
    PROVE  StateOK(Now)' /\ Settled(Now)' /\ client'.image = client.image /\ PointerStays
<1>1. Becomes(Now) /\ connection' = connection
    BY NowFields DEF PointerDown, Becomes
<1>2. drag' = [down |-> TRUE, moved |-> FALSE, offset |-> 0]
    BY DEF PointerDown, Up
<1>3. PointerStays
    BY <1>2 DEF PointerStays, Drags
<1>4. QED
    BY <1>1, <1>3, NowFields, BecomesKeeps

LEMMA PointerMoveKeeps ==
    ASSUME IInv, NEW delta \in Strides, PointerMove(delta)
    PROVE  StateOK(Now)' /\ Settled(Now)' /\ client'.image = client.image /\ PointerStays
<1> DEFINE offset == drag.offset + delta
           moved == drag.moved \/ offset > 4 \/ offset < -4
           segment == PanView(client.image, client.rect, -delta * client.rect.width,
                              client.layout)
<1>1. /\ drag' = [drag EXCEPT !.moved = moved, !.offset = IF moved THEN 0 ELSE offset]
      /\ Becomes(Now) \/ Becomes(PanByCss(Now, delta))
      /\ connection' = connection /\ drag \in Drags /\ delta \in Int
    BY NavigationAssumption DEF PointerMove, IInv
<1>2. PointerStays
  <2>1. offset \in Int /\ moved \in BOOLEAN
      BY <1>1 DEF Drags
  <2>2. (IF moved THEN 0 ELSE offset) \in -4..4
      BY <2>1
  <2> HIDE DEF moved, offset
  <2>3. QED
      BY <1>1, <2>1, <2>2 DEF PointerStays, Drags
<1>3. Keeps(PanByCss(Now, delta))
  <2>1. CASE ~Shown \/ client.layout = 0
      BY <2>1, NowFields DEF PanByCss
  <2>2. CASE Shown /\ client.layout # 0
    <3>1. PanByCss(Now, delta) = UpdateNavigationRect(Now, segment)
        BY <2>2 DEF PanByCss
    <3>2. client.layout \in Nat \ {0}
        BY <2>2, NowFields DEF Clients
    <3>3. /\ client.image \in Nat \ {0} /\ client.rect \in Rects(client.image)
          /\ client.rect.width \in Nat
        BY <2>2, ShownInside DEF Shown
    <3>4. -delta * client.rect.width \in Int
        BY <1>1, <3>3
    <3>5. segment \in Fraction
        BY <3>2, <3>3, <3>4, PanViewIsFraction
    <3> HIDE DEF segment
    <3>6. QED
        BY <3>1, <3>3, <3>5, NowFields, UpdateNavigationRectOK DEF Keeps
  <2>3. QED
      BY <2>1, <2>2
<1>4. QED
    BY <1>1, <1>2, <1>3, NowFields, BecomesKeeps

LEMMA FocusAtCssKeeps ==
    ASSUME IInv, NEW at \in Fractions
    PROVE  Keeps(FocusAtCss(Now, at))
<1> DEFINE focus == [x |-> PixelAt(client.image, client.rect, at), radius |-> RadiusOf(client)]
           c == [client EXCEPT !.focus = focus]
<1>1. CASE client.mode # "focus" \/ ~Shown \/ client.layout = 0
    BY <1>1, NowFields DEF FocusAtCss
<1>2. CASE ~(client.mode # "focus" \/ ~Shown \/ client.layout = 0)
  <2>1. /\ client.image \in Nat \ {0} /\ client.rect \in Rects(client.image)
        /\ client \in Clients /\ ClientOK(client)
      BY <1>2, ShownInside, NowFields DEF Shown
  <2>2. PixelAt(client.image, client.rect, at) \in 0..client.image - 1
      BY <2>1, PixelAtInside
  <2>3. RadiusOf(client) \in 32..512
      BY <2>1 DEF RadiusOf, DefaultRadius, ClientOK, FocusInside
  <2>4. focus \in Points /\ FocusInside(focus, client.image)
      BY <2>1, <2>2, <2>3 DEF Points, FocusInside
  <2>5. FocusAtCss(Now, at) =
            RequestView([Now EXCEPT !.client = c], client.rect, client.detailOffset)
      BY <1>2, NowFields DEF FocusAtCss
  <2> HIDE DEF focus
  <2>6. /\ c \in Clients /\ ClientOK(c) /\ c.signature = client.signature
        /\ c.image = client.image /\ c.rect = client.rect
        /\ c.detailOffset = client.detailOffset
      BY <2>1, <2>4 DEF Clients, ClientOK
  <2> HIDE DEF c
  <2>7. QED
      BY <2>1, <2>5, <2>6, AsksForTheChanged
<1>3. QED
    BY <1>1, <1>2

LEMMA FinishPointerKeeps ==
    ASSUME IInv, NEW at \in Fractions, FinishPointer(at)
    PROVE  StateOK(Now)' /\ Settled(Now)' /\ client'.image = client.image /\ PointerStays
<1>1. /\ Becomes(Now) \/ Becomes(FocusAtCss(Now, at))
      /\ drag' = Up /\ connection' = connection
    BY DEF FinishPointer
<1>2. PointerStays
    BY <1>1 DEF PointerStays, Drags, Up
<1>3. QED
    BY <1>1, <1>2, NowFields, FocusAtCssKeeps, BecomesKeeps

--------------------------------------------------------------------------------
\* The timers

LEMMA TickKeeps ==
    ASSUME IInv, Tick
    PROVE  StateOK(Now)' /\ Settled(Now)' /\ client'.image = client.image
<1> DEFINE Sooner(timer) == IF timer > 0 THEN timer - 1 ELSE timer
           t == [navigation |-> Sooner(timers.navigation), settle |-> Sooner(timers.settle),
                 resize |-> Sooner(timers.resize)]
           e == Smaller(elapsed + 1, NavigationInterval)
<1>1. /\ timers.navigation # 0 /\ timers.settle # 0 /\ timers.resize # 0
      /\ client' = client /\ timers' = t /\ elapsed' = e /\ asked' = asked
      /\ connection' = connection
    BY DEF Tick
<1>2. /\ client \in Clients /\ ClientOK(client) /\ asked = client.signature
      /\ elapsed \in 0..NavigationInterval /\ NavigationInterval \in Nat
      /\ NavigationSettle \in Nat /\ ResizeDelay \in Nat
      /\ timers.navigation \in Unarmed..NavigationInterval
      /\ timers.settle \in Unarmed..NavigationSettle
      /\ timers.resize \in Unarmed..ResizeDelay
      /\ TimersOK(timers, elapsed)
    BY NowFields, NavigationAssumption DEF Timeouts
<1>3. /\ t.navigation \in Unarmed..NavigationInterval
      /\ t.settle \in Unarmed..NavigationSettle /\ t.resize \in Unarmed..ResizeDelay
      /\ (t.navigation # Unarmed <=> timers.navigation # Unarmed)
      /\ (t.settle # Unarmed <=> timers.settle # Unarmed)
    BY <1>1, <1>2 DEF Unarmed
<1>4. e \in 0..NavigationInterval
    BY <1>2 DEF Smaller
<1>5. t \in Timeouts
    BY <1>3 DEF Timeouts
<1>6. TimersOK(t, e)
    BY <1>1, <1>2 DEF TimersOK, Smaller, Unarmed
<1> DEFINE s == [client |-> client, timers |-> t, elapsed |-> e, asked |-> client.signature]
<1>7. StateOK(s)
    BY <1>2, <1>4, <1>5, <1>6, StateFromFields
<1>8. Settled(Now)
    BY DEF IInv
<1> HIDE DEF t, e
<1>9. Settled(s)
    BY <1>3, <1>8, NowFields DEF Settled, Waits
<1>10. Becomes(s)
    BY <1>1, <1>2 DEF Becomes
<1>11. QED
    BY <1>1, <1>7, <1>9, <1>10, BecomesKeeps DEF Keeps

\* The view that is due goes out, and the settled one stays due.
LEMMA NavigationTimerKeeps ==
    ASSUME IInv, NavigationTimer
    PROVE  StateOK(Now)' /\ Settled(Now)' /\ client'.image = client.image
<1>1. /\ timers.navigation = 0 /\ Becomes(SendTransient(Now)) /\ connection' = connection
    BY DEF NavigationTimer
<1>2. timers.settle # Unarmed
    BY <1>1, NowFields DEF TimersOK, Timeouts, Unarmed
<1>3. /\ StateOK(SendTransient(Now)) /\ SendTransient(Now).timers.settle = timers.settle
      /\ SendTransient(Now).client.image = client.image
    BY NowFields, SendTransientOK DEF Keeps
<1>4. Keeps(SendTransient(Now))
    BY <1>2, <1>3 DEF Keeps, Settled, Waits
<1>5. QED
    BY <1>1, <1>4, BecomesKeeps

\* A timer is disarmed, and asks for the view of now at the detail selected.
LEMMA AsksWhenFired ==
    ASSUME IInv, NEW t \in Timeouts, TimersOK(t, elapsed),
           NEW fired, fired = [Now EXCEPT !.timers = t]
    PROVE  Keeps(IF client.rect = NoView THEN fired
                 ELSE RequestView(fired, client.rect, client.detailOffset))
<1>1. /\ fired.client = client /\ fired.elapsed = elapsed /\ fired.timers = t
      /\ fired.asked = asked /\ fired \in States
    BY NowFields DEF States
<1>2. StateOK(fired)
    BY <1>1, NowFields DEF StateOK
<1>3. CASE client.rect = NoView
  <2>1. client.image = 0
      BY <1>3, NotShown DEF Shown
  <2>2. Keeps(fired)
      BY <1>1, <1>2, <2>1 DEF Keeps, Settled, MayAsk
  <2>3. QED
      BY <1>3, <2>2
<1>4. CASE client.rect # NoView
  <2>1. client.image # 0
      BY <1>4, ShownInside
  <2>2. Keeps(RequestView(fired, client.rect, client.detailOffset))
      BY <1>1, <1>2, <2>1, RequestViewSettles DEF Keeps
  <2>3. QED
      BY <1>4, <2>2
<1>5. QED
    BY <1>3, <1>4

LEMMA SettleTimerKeeps ==
    ASSUME IInv, SettleTimer
    PROVE  StateOK(Now)' /\ Settled(Now)' /\ client'.image = client.image
<1> DEFINE t == [timers EXCEPT !.settle = Unarmed]
           fired == [Now EXCEPT !.timers = t]
<1>1. fired = [Now EXCEPT !.timers.settle = Unarmed]
    BY NowFields
<1>2. /\ timers.settle = 0 /\ connection' = connection
      /\ Becomes(IF client.rect = NoView THEN fired
                 ELSE RequestView(fired, client.rect, client.detailOffset))
    BY <1>1 DEF SettleTimer
<1>3. timers.navigation = Unarmed
    BY <1>2, NowFields DEF TimersOK, Timeouts, Unarmed
<1>4. t \in Timeouts /\ t.navigation = Unarmed
    BY <1>3, NowFields, NavigationAssumption DEF Timeouts, Unarmed
<1>5. TimersOK(t, elapsed)
    BY <1>4 DEF TimersOK
<1> HIDE DEF t
<1>6. Keeps(IF client.rect = NoView THEN fired
            ELSE RequestView(fired, client.rect, client.detailOffset))
    BY <1>4, <1>5, AsksWhenFired
<1>7. QED
    BY <1>2, <1>6, BecomesKeeps

LEMMA ResizeTimerKeeps ==
    ASSUME IInv, ResizeTimer
    PROVE  StateOK(Now)' /\ Settled(Now)' /\ client'.image = client.image
<1> DEFINE t == [timers EXCEPT !.resize = Unarmed]
           fired == [Now EXCEPT !.timers = t]
<1>1. fired = [Now EXCEPT !.timers.resize = Unarmed]
    BY NowFields
<1>2. /\ connection' = connection
      /\ Becomes(IF client.rect = NoView THEN fired
                 ELSE RequestView(fired, client.rect, client.detailOffset))
    BY <1>1 DEF ResizeTimer
<1>3. t \in Timeouts /\ t.navigation = timers.navigation /\ t.settle = timers.settle
    BY NowFields, NavigationAssumption DEF Timeouts, Unarmed
<1>4. TimersOK(t, elapsed)
    BY <1>3, NowFields DEF TimersOK
<1> HIDE DEF t
<1>5. Keeps(IF client.rect = NoView THEN fired
            ELSE RequestView(fired, client.rect, client.detailOffset))
    BY <1>3, <1>4, AsksWhenFired
<1>6. QED
    BY <1>2, <1>5, BecomesKeeps

--------------------------------------------------------------------------------
\* Images and connections

\* The client that forgot its image.
LEMMA WithoutImageOK ==
    ASSUME IInv
    PROVE  /\ StateOK(WithoutImage(Now)) /\ WithoutImage(Now).client.image = 0
           /\ WithoutImage(Now) \in States
<1> DEFINE c == [client EXCEPT !.image = 0, !.rect = NoView, !.focus = NoView,
                               !.signature = NoView]
           t == [Idle EXCEPT !.resize = timers.resize]
           s == WithoutImage(Now)
<1>1. /\ c \in Clients /\ c.image = 0 /\ c.rect = NoView /\ c.focus = NoView
      /\ c.signature = NoView /\ c.viewport = client.viewport /\ c.layout = client.layout
    BY NowFields DEF Clients
<1>2. ClientOK(c)
    BY <1>1, NowFields DEF ClientOK
<1>3. t = [navigation |-> Unarmed, settle |-> Unarmed, resize |-> timers.resize]
    BY DEF Idle
<1>4. t \in Timeouts /\ t.navigation = Unarmed
    BY <1>3, NowFields, NavigationAssumption DEF Timeouts, Unarmed
<1>5. TimersOK(t, elapsed)
    BY <1>4 DEF TimersOK
<1>6. s = [client |-> c, timers |-> t, elapsed |-> elapsed, asked |-> c.signature]
    BY <1>1, NowFields DEF WithoutImage
<1> HIDE DEF c, t, s
<1>7. StateOK(s)
    BY <1>1, <1>2, <1>4, <1>5, <1>6, NowFields, StateFromFields
<1>8. QED
    BY <1>1, <1>6, <1>7 DEF StateOK, s

\* Without an image nothing is waited for, whatever the connection becomes.
LEMMA ForgetsKeeps ==
    ASSUME IInv, Becomes(WithoutImage(Now))
    PROVE  StateOK(Now)' /\ Settled(Now)' /\ client'.image = 0
<1>1. StateOK(Now)' /\ client'.image = 0
    BY WithoutImageOK, BecomesOK DEF Becomes
<1>2. Now.client' = client'
    BY DEF Now
<1>3. Settled(Now)'
    BY <1>1, <1>2 DEF Settled, MayAsk
<1>4. QED
    BY <1>1, <1>3

LEMMA ConnectKeeps ==
    ASSUME IInv, Connect
    PROVE  StateOK(Now)' /\ Settled(Now)' /\ client'.image = 0
<1> DEFINE s == WithoutImage(Now)
           r == [s EXCEPT !.timers = Idle, !.elapsed = NavigationInterval]
<1>1. Becomes(r)
    BY DEF Connect
<1>2. StateOK(s) /\ s.client.image = 0
    BY WithoutImageOK
<1> HIDE DEF s
<1>3. /\ Idle \in Timeouts /\ Idle.navigation = Unarmed
      /\ NavigationInterval \in 0..NavigationInterval
    BY NavigationAssumption DEF Idle, Timeouts, Unarmed
<1>4. TimersOK(Idle, NavigationInterval)
    BY <1>3 DEF TimersOK
<1>5. StateOK(r)
    BY <1>2, <1>3, <1>4, WithTimers
<1>6. r.client = s.client
    BY <1>2 DEF StateOK, States
<1> HIDE DEF r
<1>7. StateOK(Now)' /\ client'.image = 0
    BY <1>1, <1>2, <1>5, <1>6, BecomesOK DEF Becomes
<1>8. Now.client' = client'
    BY DEF Now
<1>9. QED
    BY <1>7, <1>8 DEF Settled, MayAsk

\* The whole of the image of the MANIFEST is shown, and asked for if the size of
\* the stage is known.
LEMMA ReceiveManifestKeeps ==
    ASSUME IInv, NEW image \in ImageWidths, ReceiveManifest(image)
    PROVE  StateOK(Now)' /\ Settled(Now)'
<1> DEFINE rect == FullView(image)
           shown == [client EXCEPT !.image = image, !.rect = rect]
           focus == IF client.mode = "focus" THEN CenterFocus(shown, rect) ELSE client.focus
           c == [shown EXCEPT !.focus = focus]
           d == [c EXCEPT !.layout = client.viewport]
           quiet == [Now EXCEPT !.client = c]
           laidOut == [Now EXCEPT !.client = d]
<1>1. /\ client \in Clients /\ ClientOK(client) /\ client.image = 0
      /\ client.signature = NoView /\ client.focus = NoView /\ image \in Nat \ {0}
      /\ connection' = connection
    BY NowFields, NavigationAssumption DEF ReceiveManifest, IInv, ClientOK
<1>2. rect \in Rects(image) /\ rect \in Segments
    BY <1>1, FullViewInside, RectsAreSegments
<1>3. /\ shown \in Clients /\ shown.image = image /\ shown.rect = rect
      /\ shown.focus = NoView /\ shown.signature = NoView
      /\ shown.layout = client.layout /\ shown.viewport = client.viewport
      /\ shown.detailOffset = client.detailOffset /\ shown.mode = client.mode
    BY <1>1, <1>2 DEF Clients
<1>4. Becomes(IF client.viewport = 0 THEN quiet
              ELSE RequestView(laidOut, rect, client.detailOffset))
    BY <1>1, <1>3 DEF ReceiveManifest
<1> HIDE DEF rect, shown
<1>5. CenterFocus(shown, rect) \in Points /\ FocusInside(CenterFocus(shown, rect), image)
  <2>1. PixelAt(image, rect, <<1, 2>>) \in 0..image - 1
      BY <1>1, <1>2, PixelAtInside DEF Fractions
  <2>2. QED
      BY <1>1, <1>3, <2>1 DEF CenterFocus, RadiusOf, DefaultRadius, Points, FocusInside
<1>6. focus \in Points \cup {NoView} /\ (focus # NoView => FocusInside(focus, image))
    BY <1>1, <1>5
<1> HIDE DEF focus
<1>7. /\ c \in Clients /\ c.image = image /\ c.rect = rect /\ c.focus = focus
      /\ c.signature = NoView /\ c.layout = client.layout /\ c.viewport = client.viewport
      /\ c.detailOffset = client.detailOffset
    BY <1>3, <1>6 DEF Clients
<1> HIDE DEF c
<1>8. CASE client.viewport = 0
  <2>1. ClientOK(c) /\ c.layout = 0
      BY <1>1, <1>2, <1>6, <1>7, <1>8 DEF ClientOK
  <2>2. StateOK(quiet) /\ quiet.client = c
      BY <1>1, <1>7, <2>1, NowFields, WithClient DEF Keeps, States
  <2> HIDE DEF quiet
  <2>3. Becomes(quiet)
      BY <1>4, <1>8
  <2>4. StateOK(Now)' /\ client' = c
      BY <2>2, <2>3, BecomesOK DEF Becomes
  <2>5. Now.client' = c
      BY <2>4 DEF Now
  <2>6. QED
      BY <2>1, <2>4, <2>5 DEF Settled, MayAsk
<1>9. CASE client.viewport # 0
  <2>1. client.viewport \in Nat /\ client.viewport \in Sizes
      BY <1>1, <1>9 DEF Clients, ClientOK
  <2>2. /\ d \in Clients /\ d.image = image /\ d.rect = rect /\ d.focus = focus
        /\ d.signature = NoView /\ d.layout = client.viewport
        /\ d.viewport = client.viewport /\ d.detailOffset = client.detailOffset
      BY <1>7, <2>1 DEF Clients
  <2> HIDE DEF d
  <2>3. ClientOK(d)
      BY <1>1, <1>2, <1>6, <1>9, <2>1, <2>2 DEF ClientOK
  <2>4. StateOK(laidOut) /\ laidOut.client = d
      BY <1>1, <2>2, <2>3, NowFields, WithClient DEF Keeps, States
  <2> HIDE DEF laidOut
  <2> DEFINE r == RequestView(laidOut, rect, client.detailOffset)
  <2>5. StateOK(r) /\ Settled(r)
      BY <1>1, <2>2, <2>4, RequestViewSettles
  <2> HIDE DEF r
  <2>6. Becomes(r)
      BY <1>4, <1>9 DEF r
  <2>7. StateOK(Now)' /\ Now' = r
      BY <2>5, <2>6, BecomesOK DEF StateOK, States, Becomes, Now
  <2>8. QED
      BY <1>1, <2>5, <2>7 DEF Settled, MayAsk, AskedFor, Waits
<1>10. QED
    BY <1>8, <1>9

--------------------------------------------------------------------------------
\* The theorems

LEMMA InitIInv == Init => IInv
<1> SUFFICES ASSUME Init PROVE IInv
    OBVIOUS
<1>1. client \in Clients
    BY DEF Init, Clients, Modes, Offsets
<1>2. timers \in Timeouts /\ timers.navigation = Unarmed
    BY NavigationAssumption DEF Init, Idle, Timeouts, Unarmed
<1>3. elapsed \in 0..NavigationInterval
    BY NavigationAssumption DEF Init
<1>4. ClientOK(client) /\ asked = client.signature
    BY DEF Init, ClientOK
<1>5. TimersOK(timers, elapsed)
    BY <1>2 DEF TimersOK
<1>6. StateOK(Now)
    BY <1>1, <1>2, <1>3, <1>4, <1>5, StateFromFields DEF Now
<1>7. Settled(Now)
    BY DEF Init, Settled, MayAsk
<1>8. drag \in Drags
    BY DEF Init, Up, Drags
<1>9. QED
    BY <1>6, <1>7, <1>8 DEF Init, IInv, Connections

\* Where the invariant stands after a step that keeps the image.
LEMMA SameImage ==
    ASSUME IInv, StateOK(Now)', Settled(Now)', client'.image = client.image,
           opening' = opening, connection' = connection, drag' \in Drags
    PROVE  IInv'
BY DEF IInv

LEMMA UserKeeps ==
    ASSUME IInv, User
    PROVE  IInv'
<1>1. drag \in Drags /\ connection \in Connections
    BY DEF IInv
<1>2. ASSUME NEW direction \in {-1, 1}, PanByFraction(direction)
      PROVE  IInv'
    BY <1>1, <1>2, PanByFractionKeeps, SameImage DEF PanByFraction, Handles
<1>3. ASSUME NEW anchor \in Fractions, NEW factor \in {<<4, 5>>, <<5, 4>>},
             ZoomAt(anchor, factor)
      PROVE  IInv'
    BY <1>1, <1>3, ZoomKeeps, SameImage DEF ZoomAt, Handles
<1>4. CASE ResetView
    BY <1>1, <1>4, ResetViewKeeps, SameImage DEF ResetView, Handles
<1>5. CASE RequestCenteredIntegrationRegion
    BY <1>1, <1>5, CenteredRegionKeeps, SameImage
       DEF RequestCenteredIntegrationRegion, Handles
<1>6. ASSUME NEW mode \in Modes, SetViewMode(mode)
      PROVE  IInv'
    BY <1>1, <1>6, SetViewModeKeeps, SameImage DEF SetViewMode, Handles
<1>7. ASSUME NEW offset \in Offsets, SetDetailOffset(offset)
      PROVE  IInv'
    BY <1>1, <1>7, SetDetailOffsetKeeps, SameImage DEF SetDetailOffset, Handles
<1>8. ASSUME NEW radius \in Radii, SetFocusRadius(radius)
      PROVE  IInv'
    BY <1>1, <1>8, SetFocusRadiusKeeps, SameImage DEF SetFocusRadius, Handles
<1>9. ASSUME NEW size \in Sizes, SetViewport(size)
      PROVE  IInv'
    BY <1>1, <1>9, SetViewportKeeps, SameImage DEF SetViewport
<1>10. CASE PointerDown
    BY <1>10, PointerDownKeeps, SameImage DEF PointerDown, PointerStays
<1>11. ASSUME NEW delta \in Strides, PointerMove(delta)
       PROVE  IInv'
    BY <1>11, PointerMoveKeeps, SameImage DEF PointerMove, PointerStays
<1>12. ASSUME NEW at \in Fractions, FinishPointer(at)
       PROVE  IInv'
    BY <1>12, FinishPointerKeeps, SameImage DEF FinishPointer, PointerStays
<1>13. CASE OpenSelected
  <2>1. Becomes(WithoutImage(Now)) /\ opening' = TRUE
        /\ connection' = connection /\ drag' = drag
      BY <1>13 DEF OpenSelected
  <2>2. QED
      BY <1>1, <2>1, ForgetsKeeps DEF IInv
<1>14. CASE Connect
  <2>1. opening' = FALSE /\ connection' = "connecting" /\ drag' = drag
      BY <1>14 DEF Connect
  <2>2. QED
      BY <1>1, <1>14, <2>1, ConnectKeeps DEF IInv, Connections
<1>15. QED
    BY <1>2, <1>3, <1>4, <1>5, <1>6, <1>7, <1>8, <1>9, <1>10, <1>11, <1>12, <1>13, <1>14
       DEF User, ZoomIn, ZoomOut

LEMMA TimerKeeps ==
    ASSUME IInv, Timer
    PROVE  IInv'
<1>1. drag \in Drags
    BY DEF IInv
<1>2. CASE Tick
    BY <1>1, <1>2, TickKeeps, SameImage DEF Tick
<1>3. CASE NavigationTimer
    BY <1>1, <1>3, NavigationTimerKeeps, SameImage DEF NavigationTimer
<1>4. CASE SettleTimer
    BY <1>1, <1>4, SettleTimerKeeps, SameImage DEF SettleTimer
<1>5. CASE ResizeTimer
    BY <1>1, <1>5, ResizeTimerKeeps, SameImage DEF ResizeTimer
<1>6. QED
    BY <1>2, <1>3, <1>4, <1>5 DEF Timer

LEMMA NetworkKeeps ==
    ASSUME IInv, Network
    PROVE  IInv'
<1>1. drag \in Drags /\ connection \in Connections /\ opening \in BOOLEAN
    BY DEF IInv
<1>2. ASSUME NEW image \in ImageWidths, ReceiveManifest(image)
      PROVE  IInv'
  <2>1. opening' = FALSE /\ connection' = connection /\ drag' = drag
      BY <1>2 DEF ReceiveManifest
  <2>2. QED
      BY <1>1, <1>2, <2>1, ReceiveManifestKeeps DEF IInv
<1>3. CASE Welcome
  <2>1. /\ Becomes(WithoutImage(Now)) /\ opening' \in BOOLEAN
        /\ connection' = "open" /\ drag' = drag
      BY <1>3 DEF Welcome
  <2>2. QED
      BY <1>1, <2>1, ForgetsKeeps DEF IInv, Connections
<1>4. CASE Closes
  <2>1. /\ Now' = Now /\ client' = client /\ opening' = opening /\ drag' = drag
        /\ connection' = "closing"
      BY <1>4 DEF Closes, Now
  <2>2. StateOK(Now)'
      BY <2>1 DEF IInv, StateOK, ClientOK, TimersOK
  <2>3. Settled(Now)'
      BY <2>1 DEF Settled, MayAsk
  <2>4. QED
      BY <1>1, <2>1, <2>2, <2>3 DEF IInv, Connections
<1>5. CASE CloseEvent
  <2>1. /\ Becomes(WithoutImage(Now)) /\ opening' = FALSE
        /\ connection' = "closed" /\ drag' = drag
      BY <1>5 DEF CloseEvent
  <2>2. QED
      BY <1>1, <2>1, ForgetsKeeps DEF IInv, Connections
<1>6. QED
    BY <1>2, <1>3, <1>4, <1>5 DEF Network

LEMMA NextIInv == IInv /\ [Next]_vars => IInv'
<1> SUFFICES ASSUME IInv, [Next]_vars PROVE IInv'
    OBVIOUS
<1>1. CASE Next
    BY <1>1, UserKeeps, TimerKeeps, NetworkKeeps DEF Next
<1>2. CASE UNCHANGED vars
  <2>1. /\ Now' = Now /\ client' = client /\ opening' = opening /\ drag' = drag
        /\ connection' = connection
      BY <1>2 DEF vars, Now
  <2>2. Becomes(Now)
      BY <1>2, NowFields DEF vars, Becomes
  <2>3. QED
      BY <2>1, <2>2, NowFields, BecomesKeeps, SameImage DEF IInv
<1>3. QED
    BY <1>1, <1>2

LEMMA IInvImpliesTypeOK == IInv => TypeOK
<1> SUFFICES ASSUME IInv PROVE TypeOK
    OBVIOUS
<1>1. /\ client \in Clients /\ ClientOK(client) /\ timers \in Timeouts
      /\ elapsed \in 0..NavigationInterval /\ asked = client.signature
    BY NowFields
<1>2. asked # NoView =>
        /\ asked \in Views /\ ViewInside(asked, client.image)
        /\ client.image # 0 /\ client.image \in Nat
    BY <1>1 DEF Clients, ClientOK
<1>3. asked # NoView =>
        /\ asked.rect \in Rects(client.image)
        /\ asked.viewport \in Sizes
        /\ asked.mode = "focus" =>
            asked.focus.x \in 0..client.image - 1 /\ asked.focus.radius \in 32..512
    BY <1>2 DEF ViewInside, FocusInside, Views, Points
<1>4. client.rect # NoView => client.rect \in Rects(client.image)
    BY ShownInside
<1>5. /\ client.image \in ImageWidths \cup {0}
      /\ {client.viewport, client.layout} \subseteq Sizes \cup {0}
      /\ client.mode \in Modes /\ client.detailOffset \in Offsets
      /\ timers.navigation \in Unarmed..NavigationInterval
      /\ timers.settle \in Unarmed..NavigationSettle
      /\ timers.resize \in Unarmed..ResizeDelay
    BY <1>1 DEF Clients, ClientOK, Timeouts
<1>6. QED
    BY <1>1, <1>3, <1>4, <1>5 DEF TypeOK, IInv, Connections, Drags

LEMMA IInvImpliesATimer == IInv => UnaskedHasATimer
<1> SUFFICES ASSUME IInv, Unasked
             PROVE  timers.navigation # Unarmed \/ timers.settle # Unarmed
    BY DEF UnaskedHasATimer
<1>1. /\ asked = client.signature /\ Settled(Now) /\ MayAsk(client)
      /\ client \in Clients
    BY NowFields DEF Keeps, Unasked, Shown, MayAsk
<1>2. ~AskedFor(client)
    BY <1>1 DEF AskedFor, Unasked, ViewAsked, ViewOfNow
<1>3. QED
    BY <1>1, <1>2, NowFields DEF Settled, Waits

LEMMA InvariantHolds == Spec => []IInv
BY InitIInv, NextIInv, PTL DEF Spec

\* Every state has its type, and every view that the browser shows or asks for,
\* and its focus, is inside the image of the MANIFEST: for any width of image
\* and stage, any stride of the pointer and any limit of the zoom.
THEOREM ViewsAlwaysInsideImage == Spec => []TypeOK
BY InvariantHolds, IInvImpliesTypeOK, PTL

\* No order of inputs, timers and images leaves the canvas at a view that was
\* not asked for, and that no timer will ask for.
THEOREM UnaskedAlwaysHasATimer == Spec => []UnaskedHasATimer
BY InvariantHolds, IInvImpliesATimer, PTL

\* Inputs that keep coming never put off the transient view that is due.
THEOREM InputsNeverPostpone == Spec => []InputsDoNotPostpone
<1>1. IInv => InputsDoNotPostpone
    BY NowFields DEF TimersOK, InputsDoNotPostpone
<1>2. QED
    BY <1>1, InvariantHolds, PTL

--------------------------------------------------------------------------------
\* Receipts

CONSTANTS Deliveries, MaxSelectiveRetries

VARIABLE receipts

Receipts == INSTANCE TileReceipts

\* A delivery is confirmed at most once, asked again at most
\* MaxSelectiveRetries times, and never has two copies to come.
Bounded(r) ==
    /\ r.acks <= 1
    /\ r.asks <= MaxSelectiveRetries
    /\ r.asks <= r.copies /\ r.copies <= r.asks + 1

ReceiptsBounded == \A d \in Deliveries : Bounded(receipts[d])

\* What was confirmed arrived.
ConfirmedArrived ==
    \A d \in Deliveries : receipts[d].acks = 1 => receipts[d].copies = receipts[d].asks + 1

ReceiptsInv ==
    /\ receipts \in [Deliveries -> Receipts!Receipt]
    /\ ReceiptsBounded
    /\ ConfirmedArrived

\* A tile is confirmed at most once, after it arrived, and the copies sent of it
\* are at most one more than MaxSelectiveRetries: releaseOnce and requestRetry.
THEOREM ReceiptsAlwaysBounded ==
    ASSUME MaxSelectiveRetries \in Nat
    PROVE  Receipts!Spec => [](ReceiptsBounded /\ ConfirmedArrived)
<1> DEFINE Sound(r) == Bounded(r) /\ (r.acks = 1 => r.copies = r.asks + 1)
<1>1. Receipts!Nothing \in Receipts!Receipt /\ Sound(Receipts!Nothing)
    BY DEF Receipts!Nothing, Receipts!Receipt, Bounded
<1>2. ASSUME NEW now \in Receipts!Receipt, NEW then \in Receipts!Receipt, Sound(now),
             Receipts!Continues(now, then)
      PROVE  Sound(then)
  <2>1. /\ now.copies \in Nat /\ now.asks \in Nat /\ now.acks \in Nat
        /\ then.copies \in Nat /\ then.asks \in Nat /\ then.acks \in Nat
      BY <1>2 DEF Receipts!Receipt
  <2>2. QED
      BY <1>2, <2>1 DEF Receipts!Continues, Receipts!Arrives, Receipts!Confirms, Receipts!Asks,
                        Receipts!Silent, Bounded
<1>3. Receipts!Init => ReceiptsInv
    BY <1>1 DEF Receipts!Init, ReceiptsInv, ReceiptsBounded, ConfirmedArrived
<1>4. ReceiptsInv /\ [Receipts!Next]_receipts => ReceiptsInv'
  <2> SUFFICES ASSUME ReceiptsInv, [Receipts!Next]_receipts
               PROVE  ReceiptsInv'
      OBVIOUS
  <2>1. CASE Receipts!Exchange
    <3>1. ASSUME NEW d \in Deliveries
          PROVE  Sound(receipts'[d])
      <4>1. receipts[d] \in Receipts!Receipt /\ receipts'[d] \in Receipts!Receipt
          BY <2>1 DEF Receipts!Exchange, ReceiptsInv
      <4>2. Sound(receipts[d]) /\ Receipts!Continues(receipts[d], receipts'[d])
          BY <2>1 DEF Receipts!Exchange, ReceiptsInv, ReceiptsBounded, ConfirmedArrived
      <4>3. QED
          BY <4>1, <4>2, <1>2
    <3>2. QED
        BY <2>1, <3>1 DEF Receipts!Exchange, ReceiptsInv, ReceiptsBounded, ConfirmedArrived
  <2>2. CASE Receipts!StartOver
      BY <2>2, <1>1 DEF Receipts!StartOver, ReceiptsInv, ReceiptsBounded, ConfirmedArrived
  <2>3. CASE UNCHANGED receipts
      BY <2>3 DEF ReceiptsInv, ReceiptsBounded, ConfirmedArrived
  <2>4. QED
      BY <2>1, <2>2, <2>3 DEF Receipts!Next
<1>5. ReceiptsInv => ReceiptsBounded /\ ConfirmedArrived
    BY DEF ReceiptsInv
<1>6. QED
    BY <1>3, <1>4, <1>5, PTL DEF Receipts!Spec

================================================================================
