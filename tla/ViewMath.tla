-------------------------------- MODULE ViewMath --------------------------------
(***************************************************************************)
(* The arithmetic of rectangles of viewMath.ts, on one axis: the code      *)
(* computes the two axes apart, by the same operations.                    *)
(*                                                                         *)
(* The numbers of the code are floating point, and the rectangles it       *)
(* keeps are integer.  What happens in between is done here on exact       *)
(* fractions: [x, width, den] is the segment that begins at x/den and      *)
(* has width/den pixels.                                                   *)
(***************************************************************************)
EXTENDS Integers

CONSTANT MaxViewZoom    \* MAX_VIEW_ZOOM

ASSUME ViewMathAssumption == MaxViewZoom \in Nat \ {0}

Smaller(a, b) == IF a < b THEN a ELSE b
Greater(a, b) == IF a > b THEN a ELSE b

\* clamp
Clamp(value, minimum, maximum) == Smaller(maximum, Greater(minimum, value))

\* Math.round: halves go up, also below zero.
RoundOf(num, den) == (2 * num + den) \div (2 * den)

\* fullViewRect, and centeredTestRegion.
FullView(image) == [x |-> 0, width |-> image]

CenteredTestRegion(image) ==
    LET width == Greater(1, image \div 2)
    IN  [x |-> (image - width) \div 2, width |-> width]

\* clampViewRect
ClampView(image, s) ==
    LET width == Clamp(s.width, s.den, image * s.den)
    IN  [x |-> Clamp(s.x, 0, image * s.den - width), width |-> width, den |-> s.den]

\* integerViewRect
IntegerView(image, s) ==
    LET width == Clamp(RoundOf(s.width, s.den), 1, image)
    IN  [x |-> Clamp(RoundOf(s.x, s.den), 0, image - width), width |-> width]

\* panViewRect, by delta/den pixels.
PanView(image, rect, delta, den) ==
    ClampView(image, [x |-> rect.x * den + delta, width |-> rect.width * den, den |-> den])


\* zoomViewRect, by factor[1]/factor[2], about the point at anchor[1]/anchor[2]
\* of the width of rect.
ZoomView(image, rect, anchor, factor) ==
    LET den == factor[2] * anchor[2] * MaxViewZoom
        minWidth == Greater(den, image * factor[2] * anchor[2])
        width == Clamp(rect.width * factor[1] * anchor[2] * MaxViewZoom, minWidth, image * den)
        shift == (anchor[1] * (rect.width * den - width)) \div anchor[2]
    IN  ClampView(image, [x |-> rect.x * den + shift, width |-> width, den |-> den])

\* Mutant: the right border of the canvas is a pixel further.
PixelBeyond(image, rect, at) == RoundOf(rect.x * at[2] + at[1] * rect.width, at[2])

\* canvasPointToImage: the pixel of the image under the fraction at[1]/at[2] of
\* the canvas, rounded and kept inside as focusAtCss does.
PixelAt(image, rect, at) ==
    Clamp(RoundOf(rect.x * at[2] + at[1] * rect.width, at[2]), 0, image - 1)

================================================================================
