---------------------------- MODULE ViewGeometry ----------------------------
(***************************************************************************)
(* score_renderer.c's arithmetic: where the score goes in the viewport and *)
(* where the active step's region goes in the score.  Sizes are unsigned,  *)
(* rectangles are of int, products are of 64 bits and never overflow.      *)
(***************************************************************************)
EXTENDS Integers

CONSTANT MaxInt  \* INT_MAX: 2^31 - 1

ASSUME MaxIntAssumption == MaxInt \in Nat \ {0}

Word == 2 * (MaxInt + 1)
MaxUnsigned == Word - 1

\* The casts the compilers in use give: the value modulo the word.
ToUnsigned(n) == n % Word
ToInt(n) == ((n + MaxInt + 1) % Word) - (MaxInt + 1)

AtLeastOne(n) == IF n <= 0 THEN 1 ELSE n

Rect(x, y, width, height) == [x |-> x, y |-> y, width |-> width, height |-> height]

NoRect == Rect(0, 0, 0, 0)

RectIsInsideAsset(rect, width, height) ==
    /\ rect.x >= 0 /\ rect.y >= 0 /\ rect.width > 0 /\ rect.height > 0
    /\ rect.x + rect.width <= width
    /\ rect.y + rect.height <= height

\* Size and position of the score: as wide as the viewport or as high as it,
\* the other side scaled down and floored, centred.
Centred(width, height, viewWidth, viewHeight) ==
    Rect(ToInt(ToUnsigned(viewWidth - ToUnsigned(width)) \div 2),
         ToInt(ToUnsigned(viewHeight - ToUnsigned(height)) \div 2), width, height)

\* Mutant: the comparison is the wrong way round.
FitRect_Fills(sourceWidth, sourceHeight, viewWidth, viewHeight) ==
    LET byWidth == viewWidth * sourceHeight
        byHeight == viewHeight * sourceWidth
    IN  IF byWidth > byHeight
        THEN Centred(ToInt(viewWidth), AtLeastOne(ToInt(byWidth \div sourceWidth)),
                     viewWidth, viewHeight)
        ELSE Centred(AtLeastOne(ToInt(byHeight \div sourceHeight)), ToInt(viewHeight),
                     viewWidth, viewHeight)

FitRect(sourceWidth, sourceHeight, viewWidth, viewHeight) ==
    LET byWidth == viewWidth * sourceHeight
        byHeight == viewHeight * sourceWidth
    IN  IF byWidth <= byHeight
        THEN Centred(ToInt(viewWidth), AtLeastOne(ToInt(byWidth \div sourceWidth)),
                     viewWidth, viewHeight)
        ELSE Centred(AtLeastOne(ToInt(byHeight \div sourceHeight)), ToInt(viewHeight),
                     viewWidth, viewHeight)

\* Mutant: the sides are scaled, instead of the edges.
ProjectRect_Sides(rect, width, height, fitted) ==
    LET X(n) == (n * ToUnsigned(fitted.width)) \div width
        Y(n) == (n * ToUnsigned(fitted.height)) \div height
    IN  Rect(fitted.x + X(rect.x), fitted.y + Y(rect.y),
             AtLeastOne(X(rect.width)), AtLeastOne(Y(rect.height)))

\* The edges are scaled and floored; no side vanishes.
ProjectRect(rect, width, height, fitted) ==
    LET X(n) == (n * ToUnsigned(fitted.width)) \div width
        Y(n) == (n * ToUnsigned(fitted.height)) \div height
    IN  Rect(fitted.x + ToInt(X(rect.x)), fitted.y + ToInt(Y(rect.y)),
             ToInt(AtLeastOne(X(rect.x + rect.width) - X(rect.x))),
             ToInt(AtLeastOne(Y(rect.y + rect.height) - Y(rect.y))))

\* render_score_pixels: the source column, or row, that a column of the
\* fitted score shows.
SourceOf(n, sourceSide, fittedSide) == (n * sourceSide) \div fittedSide
=============================================================================
