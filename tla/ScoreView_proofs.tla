--------------------------- MODULE ScoreView_proofs --------------------------
(***************************************************************************)
(* What a run of ht_viewer_snapshot shows and says, for every corpus and   *)
(* every edit of it, every viewport whose sides are ints, and every int.   *)
(***************************************************************************)
EXTENDS ScoreView, SequenceTheorems, WellFoundedInduction, TLAPS

-----------------------------------------------------------------------------
(* Multiplication and division.                                            *)

LEMMA MulOrder ==
    ASSUME NEW a \in Int, NEW b \in Int, NEW c \in Nat, a <= b
    PROVE  a * c <= b * c
OBVIOUS

LEMMA MulCancel ==
    ASSUME NEW a \in Int, NEW b \in Int, NEW c \in Nat, a * c < b * c
    PROVE  a < b
<1>1. a >= b => a * c >= b * c
  OBVIOUS
<1> QED BY <1>1

LEMMA MulDistributes ==
    ASSUME NEW a \in Int, NEW b \in Int, NEW c \in Int
    PROVE  (a + b) * c = a * c + b * c /\ a * c \in Int
OBVIOUS

\* The quotient of n by d is the one integer with n between its multiples.
LEMMA DivBounds ==
    ASSUME NEW n \in Int, NEW d \in Nat \ {0}
    PROVE  /\ n \div d \in Int
           /\ (n \div d) * d <= n /\ n < (n \div d) * d + d
OBVIOUS

LEMMA DivIs ==
    ASSUME NEW n \in Int, NEW d \in Nat \ {0}, NEW q \in Int, q * d <= n, n < q * d + d
    PROVE  n \div d = q
OBVIOUS

LEMMA DivAtMost ==
    ASSUME NEW n \in Int, NEW d \in Nat \ {0}, NEW q \in Int, n <= q * d
    PROVE  n \div d <= q
OBVIOUS

LEMMA DivAtLeast ==
    ASSUME NEW n \in Int, NEW d \in Nat \ {0}, NEW q \in Int, q * d <= n
    PROVE  q <= n \div d
OBVIOUS

LEMMA ModSmall ==
    ASSUME NEW w \in Nat, NEW n \in Nat, n < w
    PROVE  n % w = n
OBVIOUS

LEMMA Casts ==
    ASSUME NEW n \in Nat, n <= MaxInt
    PROVE  ToInt(n) = n /\ ToUnsigned(n) = n
<1>1. MaxInt \in Nat /\ Word \in Nat /\ Word = 2 * (MaxInt + 1)
  BY MaxIntAssumption DEF Word
<1>2. n + MaxInt + 1 \in Nat /\ n + MaxInt + 1 < Word /\ n < Word
  BY <1>1
<1>3. (n + MaxInt + 1) % Word = n + MaxInt + 1 /\ n % Word = n
  BY <1>1, <1>2, ModSmall
<1> QED BY <1>1, <1>3 DEF ToInt, ToUnsigned

LEMMA IntsAreInts ==
    ASSUME NEW n \in Int
    PROVE  ToInt(n) \in Int
<1>1. MaxInt \in Nat /\ Word \in Nat \ {0}
  BY MaxIntAssumption DEF Word
<1>2. (n + MaxInt + 1) % Word \in Int
  BY <1>1
<1> QED BY <1>1, <1>2 DEF ToInt

-----------------------------------------------------------------------------
(* fit_rect                                                                *)

\* A side in the middle of a side of the viewport.
LEMMA CentredInts ==
    ASSUME NEW v \in 1 .. MaxInt, NEW s \in 1 .. v
    PROVE  /\ ToInt(ToUnsigned(v - ToUnsigned(s)) \div 2) \in Nat
           /\ v - s - 2 * ToInt(ToUnsigned(v - ToUnsigned(s)) \div 2) \in {0, 1}
<1>1. MaxInt \in Nat /\ v \in Nat /\ s \in Nat /\ s <= MaxInt
  BY MaxIntAssumption
<1>2. PICK r \in Nat : r = v - s /\ r <= MaxInt
  BY <1>1
<1>3. ToUnsigned(s) = s /\ ToUnsigned(r) = r
  BY <1>1, <1>2, Casts
<1>4. PICK q \in Nat : q = r \div 2 /\ q <= MaxInt /\ r - 2 * q \in {0, 1}
  BY <1>1, <1>2
<1>5. ToInt(q) = q
  BY <1>4, Casts
<1>6. ToInt(ToUnsigned(v - ToUnsigned(s)) \div 2) = q
  BY <1>2, <1>3, <1>4, <1>5
<1> QED BY <1>2, <1>4, <1>6

\* The sides of the score at scale n, which fits one side of the viewport.
LEMMA ScaledSides ==
    ASSUME NEW n \in Nat, NEW d \in Nat \ {0}, NEW v \in 1 .. MaxInt, n <= v * d
    PROVE  /\ AtLeastOne(ToInt(n \div d)) = AtLeastOne(n \div d)
           /\ AtLeastOne(n \div d) \in 1 .. v
<1>1. MaxInt \in Nat /\ v \in Nat /\ v <= MaxInt
  BY MaxIntAssumption
<1>2. PICK q \in Int : q = n \div d
  BY DivBounds
<1>3. q <= v
  BY <1>1, <1>2, DivAtMost
<1>4. 0 <= q
  <2>1. 0 * d <= n
    OBVIOUS
  <2> QED BY <1>2, <2>1, DivAtLeast
<1>5. ToInt(q) = q
  BY <1>1, <1>2, <1>3, <1>4, Casts
<1> QED BY <1>1, <1>2, <1>3, <1>4, <1>5 DEF AtLeastOne

LEMMA WholeSide ==
    ASSUME NEW d \in Nat \ {0}, NEW v \in 1 .. MaxInt
    PROVE  ToInt(v) = v /\ AtLeastOne((v * d) \div d) = v
<1>1. MaxInt \in Nat /\ v \in Nat /\ v <= MaxInt /\ v > 0
  BY MaxIntAssumption
<1>2. ToInt(v) = v
  BY <1>1, Casts
<1>3. PICK n \in Int : n = v * d
  BY <1>1
<1>4. n < v * d + d /\ v * d <= n
  BY <1>3, <1>1
<1>5. n \div d = v
  BY <1>1, <1>3, <1>4, DivIs
<1> QED BY <1>1, <1>2, <1>3, <1>5 DEF AtLeastOne

\* The score is as large as fits the viewport, and in its middle.
Fitted(f, n, width, height, viewWidth, viewHeight) ==
    /\ n \in 1 .. viewWidth * height /\ n <= viewHeight * width
    /\ ~(n + 1 <= viewWidth * height /\ n + 1 <= viewHeight * width)
    /\ f.width = AtLeastOne(n \div height) /\ f.height = AtLeastOne(n \div width)
    /\ f.width \in 1 .. viewWidth /\ f.height \in 1 .. viewHeight
    /\ f.x \in Nat /\ viewWidth - f.width - 2 * f.x \in {0, 1}
    /\ f.y \in Nat /\ viewHeight - f.height - 2 * f.y \in {0, 1}

LEMMA CentredFits ==
    ASSUME NEW W \in Nat \ {0}, NEW H \in Nat \ {0},
           NEW vw \in 1 .. MaxInt, NEW vh \in 1 .. MaxInt, NEW n \in Nat,
           n \in 1 .. vw * H, n <= vh * W, ~(n + 1 <= vw * H /\ n + 1 <= vh * W),
           NEW w, w = AtLeastOne(n \div H), NEW h, h = AtLeastOne(n \div W)
    PROVE  Fitted(Centred(w, h, vw, vh), n, W, H, vw, vh)
<1>1. w \in 1 .. vw /\ h \in 1 .. vh
  <2>1. n <= vw * H
    OBVIOUS
  <2>2. AtLeastOne(n \div H) \in 1 .. vw
    BY <2>1, ScaledSides
  <2>3. AtLeastOne(n \div W) \in 1 .. vh
    BY ScaledSides
  <2> QED BY <2>2, <2>3
<1> DEFINE f == Centred(w, h, vw, vh)
<1>2. /\ f.width = w /\ f.height = h
      /\ f.x = ToInt(ToUnsigned(vw - ToUnsigned(w)) \div 2)
      /\ f.y = ToInt(ToUnsigned(vh - ToUnsigned(h)) \div 2)
  BY DEF Centred, Rect
<1>3. /\ f.x \in Nat /\ vw - w - 2 * f.x \in {0, 1}
      /\ f.y \in Nat /\ vh - h - 2 * f.y \in {0, 1}
  BY <1>1, <1>2, CentredInts
<1> HIDE DEF f
<1> QED BY <1>1, <1>2, <1>3 DEF Fitted, f

LEMMA FitRectFits ==
    ASSUME NEW W \in Nat \ {0}, NEW H \in Nat \ {0},
           NEW vw \in 1 .. MaxInt, NEW vh \in 1 .. MaxInt
    PROVE  \E n \in Nat : Fitted(FitRect(W, H, vw, vh), n, W, H, vw, vh)
<1>1. MaxInt \in Nat /\ vw \in Nat \ {0} /\ vh \in Nat \ {0}
  BY MaxIntAssumption
<1>2. PICK bw \in Nat \ {0}, bh \in Nat \ {0} : bw = vw * H /\ bh = vh * W
  <2>1. 1 * H <= vw * H /\ 1 * W <= vh * W
    BY <1>1, MulOrder
  <2>2. vw * H \in Int /\ vh * W \in Int
    BY <1>1
  <2> QED BY <2>1, <2>2
<1>3. CASE bw <= bh
  <2>1. bw \in 1 .. vw * H /\ bw <= vh * W /\ ~(bw + 1 <= vw * H)
    BY <1>2, <1>3
  <2>2. PICK w, h : w = AtLeastOne(bw \div H) /\ h = AtLeastOne(bw \div W)
    OBVIOUS
  <2>3. ToInt(vw) = w
    BY <1>2, <2>2, WholeSide
  <2>4. AtLeastOne(ToInt(bw \div W)) = h
    BY <1>3, <1>2, <2>1, <2>2, ScaledSides
  <2>5. FitRect(W, H, vw, vh) = Centred(w, h, vw, vh)
    BY <1>2, <1>3, <2>3, <2>4 DEF FitRect
  <2>6. Fitted(Centred(w, h, vw, vh), bw, W, H, vw, vh)
    BY <2>1, <2>2, CentredFits
  <2> QED BY <2>5, <2>6
<1>4. CASE ~(bw <= bh)
  <2>1. /\ bh \in 1 .. vw * H /\ bh <= vw * H
        /\ bh <= vh * W /\ ~(bh + 1 <= vh * W)
    BY <1>2, <1>4
  <2>2. PICK w, h : w = AtLeastOne(bh \div H) /\ h = AtLeastOne(bh \div W)
    OBVIOUS
  <2>3. ToInt(vh) = h
    BY <1>2, <2>2, WholeSide
  <2>4. AtLeastOne(ToInt(bh \div H)) = w
    BY <2>1, <2>2, ScaledSides
  <2>5. FitRect(W, H, vw, vh) = Centred(w, h, vw, vh)
    BY <1>2, <1>4, <2>3, <2>4 DEF FitRect
  <2>6. Fitted(Centred(w, h, vw, vh), bh, W, H, vw, vh)
    BY <2>1, <2>2, CentredFits
  <2> QED BY <2>5, <2>6
<1> QED BY <1>3, <1>4

-----------------------------------------------------------------------------
(* project_rect along one axis: `from' and `to' are edges of the region in *)
(* an image of `side' pixels, which is shown in `fitted' pixels.           *)

Edge(n, side, fitted) == (n * fitted) \div side

LEMMA EdgesInside ==
    ASSUME NEW side \in Nat \ {0}, NEW fitted \in Nat \ {0},
           NEW from \in Nat, NEW to \in Nat, from < to, to <= side
    PROVE  /\ Edge(from, side, fitted) \in 0 .. fitted - 1
           /\ Edge(to, side, fitted) \in Edge(from, side, fitted) .. fitted
<1>1. PICK A \in Int, B \in Int, T \in Int :
        A = from * fitted /\ B = to * fitted /\ T = fitted * side
  OBVIOUS
<1>2. 0 <= A /\ A <= B
  <2>1. 0 * fitted <= from * fitted /\ from * fitted <= to * fitted
    BY MulOrder
  <2> QED BY <1>1, <2>1
<1>3. B <= T
  <2>1. to * fitted <= side * fitted
    BY MulOrder
  <2> QED BY <1>1, <2>1
<1>4. A < T
  <2>1. (from + 1) * fitted <= side * fitted
    BY MulOrder
  <2>2. (from + 1) * fitted = A + fitted
    BY <1>1
  <2> QED BY <1>1, <2>1, <2>2
<1>5. PICK lo \in Int, hi \in Int : lo = A \div side /\ hi = B \div side
  BY DivBounds
<1>6. lo * side <= A /\ A < lo * side + side /\ hi * side <= B /\ B < hi * side + side
  BY <1>5, DivBounds
<1>7. 0 <= lo
  <2>1. 0 * side <= A
    BY <1>2
  <2> QED BY <1>5, <2>1, DivAtLeast
<1>8. hi <= fitted
  BY <1>1, <1>3, <1>5, DivAtMost
<1>9. lo < fitted
  <2>1. lo * side < fitted * side
    <3>1. PICK x \in Int : x = lo * side
      OBVIOUS
    <3> QED BY <1>1, <1>4, <1>6, <3>1
  <2> QED BY <2>1, MulCancel
<1>10. lo <= hi
  <2>1. lo * side <= B
    <3>1. PICK x \in Int : x = lo * side
      OBVIOUS
    <3> QED BY <1>2, <1>6, <3>1
  <2> QED BY <1>5, <2>1, DivAtLeast
<1> QED BY <1>1, <1>5, <1>7, <1>8, <1>9, <1>10 DEF Edge

\* The pixels that show the region.
Shows(p, side, fitted, from, to) == from * fitted <= p * side /\ p * side < to * fitted

LEMMA ShownIs ==
    ASSUME NEW side \in Nat \ {0}, NEW fitted \in Nat \ {0}, NEW p \in Nat,
           NEW from \in Nat, NEW to \in Nat
    PROVE  SourceOf(p, side, fitted) \in from .. to - 1 <=> Shows(p, side, fitted, from, to)
<1>1. PICK P \in Int, s \in Int :
        P = p * side /\ s = P \div fitted /\ s * fitted <= P /\ P < s * fitted + fitted
  <2>1. PICK P \in Int : P = p * side
    OBVIOUS
  <2> QED BY <2>1, DivBounds
<1>2. SourceOf(p, side, fitted) = s
  BY <1>1 DEF SourceOf
<1>3. from <= s <=> from * fitted <= P
  <2>1. from * fitted <= P => from <= s
    BY <1>1, DivAtLeast
  <2>2. ASSUME from <= s PROVE from * fitted <= P
    <3>1. from * fitted <= s * fitted
      BY <2>2, MulOrder
    <3>2. PICK x \in Int, y \in Int : x = from * fitted /\ y = s * fitted
      OBVIOUS
    <3> QED BY <1>1, <3>1, <3>2
  <2> QED BY <2>1, <2>2
<1>4. s < to <=> P < to * fitted
  <2>1. ~(s < to) => to * fitted <= P
    <3>1. ASSUME ~(s < to) PROVE to * fitted <= s * fitted
      BY <3>1, MulOrder
    <3>2. PICK x \in Int, y \in Int : x = to * fitted /\ y = s * fitted
      OBVIOUS
    <3> QED BY <1>1, <3>1, <3>2
  <2>2. to * fitted <= P => to <= s
    BY <1>1, DivAtLeast
  <2>3. to * fitted \in Int
    OBVIOUS
  <2> QED BY <1>1, <2>1, <2>2, <2>3
<1> QED BY <1>1, <1>2, <1>3, <1>4 DEF Shows

\* Every pixel that shows the region is between the projected edges, and every
\* pixel between them, but not on the first, shows it.
LEMMA EdgesFrame ==
    ASSUME NEW side \in Nat \ {0}, NEW fitted \in Nat \ {0}, NEW p \in Nat,
           NEW from \in Nat, NEW to \in Nat,
           NEW lo \in Int, lo = Edge(from, side, fitted),
           NEW hi \in Int, hi = Edge(to, side, fitted)
    PROVE  /\ Shows(p, side, fitted, from, to) => lo <= p /\ p <= hi
           /\ lo < p /\ p < hi => Shows(p, side, fitted, from, to)
<1>1. PICK A \in Int, B \in Int, P \in Int :
        A = from * fitted /\ B = to * fitted /\ P = p * side
  OBVIOUS
<1>2. PICK L \in Int, H \in Int :
        /\ L = lo * side /\ H = hi * side
        /\ L <= A /\ A < L + side /\ H <= B /\ B < H + side
  <2>1. lo * side <= A /\ A < lo * side + side /\ hi * side <= B /\ B < hi * side + side
    BY <1>1, DivBounds DEF Edge
  <2>2. PICK L \in Int, H \in Int : L = lo * side /\ H = hi * side
    OBVIOUS
  <2> QED BY <2>1, <2>2
<1>3. ASSUME A <= P PROVE lo <= p
  <2>1. p < lo => (p + 1) * side <= lo * side
    BY MulOrder
  <2>2. (p + 1) * side = P + side
    BY <1>1
  <2> QED BY <1>2, <1>3, <2>1, <2>2
<1>4. ASSUME P < B PROVE p <= hi
  <2>1. hi < p => (hi + 1) * side <= p * side
    BY MulOrder
  <2>2. (hi + 1) * side = H + side
    BY <1>2
  <2> QED BY <1>1, <1>2, <1>4, <2>1, <2>2
<1>5. ASSUME lo < p PROVE A <= P
  <2>1. (lo + 1) * side <= p * side
    BY <1>5, MulOrder
  <2>2. (lo + 1) * side = L + side
    BY <1>2
  <2> QED BY <1>1, <1>2, <2>1, <2>2
<1>6. ASSUME p < hi PROVE P < B
  <2>1. (p + 1) * side <= hi * side
    BY <1>6, MulOrder
  <2>2. (p + 1) * side = P + side
    BY <1>1
  <2> QED BY <1>1, <1>2, <2>1, <2>2
<1> QED BY <1>1, <1>3, <1>4, <1>5, <1>6 DEF Shows

\* The frame along one axis, as project_rect computes it.
LEMMA AxisFramed ==
    ASSUME NEW side \in Nat \ {0}, NEW fitted \in 1 .. MaxInt, NEW at \in Nat,
           NEW from \in Nat, NEW length \in Nat \ {0}, from + length <= side,
           NEW lo, lo = Edge(from, side, fitted),
           NEW hi, hi = Edge(from + length, side, fitted)
    PROVE  Frames(at + ToInt(lo), ToInt(AtLeastOne(hi - lo)), at, fitted, from, length, side)
<1>1. MaxInt \in Nat /\ fitted \in Nat \ {0} /\ fitted <= MaxInt
  BY MaxIntAssumption
<1>2. PICK to \in Nat : to = from + length /\ from < to /\ to <= side
  OBVIOUS
<1>3. lo \in 0 .. fitted - 1 /\ hi \in lo .. fitted
  BY <1>1, <1>2, EdgesInside
<1>4. PICK n \in Nat : n = AtLeastOne(hi - lo) /\ n <= fitted /\ lo + n <= fitted /\ n > 0
                       /\ (n = hi - lo \/ (n = 1 /\ hi = lo))
  BY <1>1, <1>3 DEF AtLeastOne
<1>5. ToInt(lo) = lo /\ ToInt(n) = n
  <2>1. lo \in Nat /\ lo <= MaxInt /\ n <= MaxInt
    BY <1>1, <1>3, <1>4
  <2> QED BY <1>4, <2>1, Casts
<1> DEFINE framed == at + lo .. at + lo + n - 1
           shown == {p \in at .. at + fitted - 1 :
                       SourceOf(p - at, side, fitted) \in from .. from + length - 1}
<1>6. framed # {} /\ framed \subseteq at .. at + fitted - 1
  <2>1. at + lo \in framed
    BY <1>3, <1>4
  <2> QED BY <1>3, <1>4, <2>1
<1>7. ASSUME NEW p \in Nat
      PROVE  SourceOf(p, side, fitted) \in from .. from + length - 1
               <=> Shows(p, side, fitted, from, to)
  BY <1>1, <1>2, ShownIs
<1>8. ASSUME NEW p \in Nat
      PROVE  /\ Shows(p, side, fitted, from, to) => lo <= p /\ p <= hi
             /\ lo < p /\ p < hi => Shows(p, side, fitted, from, to)
  <2>1. lo \in Int /\ hi \in Int
    BY <1>1, <1>3
  <2> QED BY <1>1, <1>2, <2>1, EdgesFrame
<1>9. ASSUME NEW p \in shown, p \notin framed PROVE p = at + lo + n
  <2>1. PICK q \in Nat : q = p - at /\ p = at + q /\ Shows(q, side, fitted, from, to)
    BY <1>1, <1>7
  <2>2. lo <= q /\ q <= hi
    BY <1>8, <2>1
  <2>3. ~(at + lo <= at + q /\ at + q <= at + lo + n - 1)
    BY <1>3, <1>4, <1>9, <2>1
  <2> QED BY <1>3, <1>4, <2>1, <2>2, <2>3
<1>10. ASSUME NEW p \in framed, p \notin shown PROVE p = at + lo
  <2>1. PICK q \in Nat : q = p - at /\ p = at + q /\ lo <= q /\ q < lo + n
    BY <1>3, <1>4, <1>10
  <2>2. p \in at .. at + fitted - 1
    BY <1>6
  <2>3. ~Shows(q, side, fitted, from, to)
    BY <1>7, <1>10, <2>1, <2>2
  <2>4. ~(lo < q /\ q < hi)
    BY <1>8, <2>1, <2>3
  <2>5. lo \in Int /\ hi \in Int
    BY <1>1, <1>3
  <2>6. q = lo
    BY <1>4, <2>1, <2>4, <2>5
  <2> QED BY <2>1, <2>6
<1>11. shown \ framed \subseteq {at + lo + n} /\ framed \ shown \subseteq {at + lo}
  BY <1>9, <1>10
<1> HIDE DEF framed, shown
<1>12. /\ framed # {} /\ framed \subseteq at .. at + fitted - 1
       /\ shown \ framed \subseteq {at + lo + n} /\ framed \ shown \subseteq {at + lo}
  BY <1>6, <1>11
<1> QED BY <1>4, <1>5, <1>12 DEF Frames, framed, shown

-----------------------------------------------------------------------------
(* The files.                                                              *)

LEMMA SmallestIn ==
    ASSUME NEW T, T \subseteq Nat, T # {}
    PROVE  Min(T) \in T
<1>1. PICK m \in T : \A n \in T : ~ (<<n, m>> \in OpToRel(<, Nat))
  BY WFMin, NatLessThanWellFounded, Zenon
<1>2. ASSUME NEW n \in T PROVE m <= n
  <2>1. m \in Nat /\ n \in Nat
    OBVIOUS
  <2>2. ~ (n < m)
    BY <1>1, <2>1, Zenon DEF OpToRel
  <2> QED BY <2>1, <2>2
<1> QED BY <1>2 DEF Min

TableFits(file) ==
    /\ file.there \in BOOLEAN
    /\ file.lines \in Seq({file.lines[i] : i \in DOMAIN file.lines})
    /\ \A i \in DOMAIN file.lines : file.lines[i].fault \in Fault

\* Line n below the header.
LEMMA LinesAre ==
    ASSUME NEW file, TableFits(file), file.there => file.lines # <<>>
    PROVE  /\ Len(Lines(file)) \in Nat
           /\ \A n \in 1 .. Len(Lines(file)) :
                /\ n + 1 \in DOMAIN file.lines /\ Lines(file)[n] = file.lines[n + 1]
                /\ Lines(file)[n].fault \in Fault
<1>1. CASE ~file.there
  BY <1>1 DEF Lines
<1>2. CASE file.there
  <2>1. file.lines \in Seq({file.lines[i] : i \in DOMAIN file.lines}) /\ file.lines # <<>>
    BY <1>2 DEF TableFits
  <2>2. /\ Len(Tail(file.lines)) = Len(file.lines) - 1 /\ Len(file.lines) \in Nat \ {0}
        /\ DOMAIN file.lines = 1 .. Len(file.lines)
        /\ \A n \in 1 .. Len(Tail(file.lines)) : Tail(file.lines)[n] = file.lines[n + 1]
    BY <2>1, HeadTailProperties, LenProperties, EmptySeq
  <2>3. Lines(file) = Tail(file.lines)
    BY <1>2 DEF Lines
  <2> QED BY <2>2, <2>3 DEF TableFits
<1> QED BY <1>1, <1>2 DEF TableFits

LEMMA LoadStatusIs ==
    ASSUME NEW file, TableFits(file), NEW absent
    PROVE  LoadStatus(file, absent) \in
             {absent, "HT_OK", "HT_ERR_CORRUPT_DATA", "HT_ERR_BUFFER_TOO_SMALL"}
<1>1. CASE ~file.there \/ file.lines = <<>>
  BY <1>1 DEF LoadStatus
<1>2. CASE file.there /\ file.lines # <<>>
  <2> DEFINE bad == {n \in 1 .. Len(Lines(file)) : LineStatus(Lines(file)[n]) # "HT_OK"}
  <2>1. LoadStatus(file, absent) =
          IF (IF bad # {} THEN Min(bad) ELSE 0) = 0 THEN "HT_OK"
          ELSE LineStatus(Lines(file)[IF bad # {} THEN Min(bad) ELSE 0])
    BY <1>2 DEF LoadStatus, SelectInSeq
  <2>2. \A n \in 1 .. Len(Lines(file)) : Lines(file)[n].fault \in Fault
    BY <1>2, LinesAre
  <2>3. ASSUME bad # {}
        PROVE  LineStatus(Lines(file)[Min(bad)]) \in
                 {"HT_OK", "HT_ERR_CORRUPT_DATA", "HT_ERR_BUFFER_TOO_SMALL"}
    <3>1. Min(bad) \in bad
      <4>1. Len(Lines(file)) \in Nat
        BY <1>2, LinesAre
      <4>2. bad \subseteq Nat
        BY <4>1
      <4> HIDE DEF bad
      <4> QED BY <2>3, <4>2, SmallestIn
    <3>2. Lines(file)[Min(bad)].fault \in Fault
      BY <2>2, <3>1
    <3> QED BY <3>2 DEF LineStatus, Fault
  <2> HIDE DEF bad
  <2> QED BY <2>1, <2>3
<1> QED BY <1>1, <1>2

LEMMA ImageStatusIs ==
    ASSUME NEW file, file.kind \in ImageKinds
    PROVE  ImageStatus(file) \in
             {"HT_OK", "HT_ERR_NOT_FOUND", "HT_ERR_IO", "HT_ERR_CORRUPT_DATA",
              "HT_ERR_UNSUPPORTED"}
BY DEF ImageStatus, ImageKinds

\* A row that is found is one.
LEMMA VariantFound ==
    ASSUME NEW file, TableFits(file), file.there => file.lines # <<>>, NEW id,
           LookupVariant(file, id) # 0
    PROVE  \E i \in DOMAIN file.lines :
             /\ file.lines[i].fault = "none"
             /\ RowAt(file, LookupVariant(file, id)) = file.lines[i].row
<1> DEFINE found == {n \in 1 .. Len(Lines(file)) :
                       Lines(file)[n].fault = "none" /\ Lines(file)[n].row.variant_id = id}
<1>1. LookupVariant(file, id) = IF found # {} THEN Min(found) ELSE 0
  BY DEF LookupVariant, SelectInSeq
<1>2. PICK n \in found : n = LookupVariant(file, id)
  <2>1. found \subseteq Nat
    BY LinesAre
  <2> HIDE DEF found
  <2> QED BY <1>1, <2>1, SmallestIn
<1>3. n + 1 \in DOMAIN file.lines /\ Lines(file)[n] = file.lines[n + 1]
  BY LinesAre
<1> QED BY <1>2, <1>3 DEF RowAt

LEMMA StepFound ==
    ASSUME NEW file, TableFits(file), file.there => file.lines # <<>>, NEW id, NEW k,
           GetStep(file, id, k) # 0
    PROVE  \E i \in DOMAIN file.lines :
             /\ file.lines[i].fault = "none"
             /\ RowAt(file, GetStep(file, id, k)) = file.lines[i].row
<1> DEFINE found == {n \in 1 .. Len(Lines(file)) :
                       /\ Lines(file)[n].fault = "none"
                       /\ Lines(file)[n].row.overlay_id = id /\ Lines(file)[n].row.step_index = k}
<1>1. GetStep(file, id, k) = IF found # {} THEN Min(found) ELSE 0
  BY DEF GetStep, SelectInSeq
<1>2. PICK n \in found : n = GetStep(file, id, k)
  <2>1. found \subseteq Nat
    BY LinesAre
  <2> HIDE DEF found
  <2> QED BY <1>1, <2>1, SmallestIn
<1>3. n + 1 \in DOMAIN file.lines /\ Lines(file)[n] = file.lines[n + 1]
  BY LinesAre
<1> QED BY <1>2, <1>3 DEF RowAt

-----------------------------------------------------------------------------
(* The invariant of a run.                                                 *)

FilesFit ==
    /\ desk \in DOMAIN Desks
    /\ files \in [catalog : Desks[desk].catalog, metadata : Desks[desk].metadata,
                  steps : Desks[desk].steps, image : Desks[desk].image]

Running == pc \in {"catalog", "metadata", "steps", "image", "surface", "write"}

\* What has been computed belongs to the request and to the row that was read,
\* whatever the files hold by now.
Sizes ==
    /\ Running => {request.width, request.height} \subseteq Nat \ {0}
    /\ pc \in {"metadata", "steps", "image", "surface", "write"} =>
         {variant.width, variant.height} \subseteq Nat \ {0}
    /\ pc \in {"catalog", "metadata", "steps"} => result.fitted = NoRect
    /\ result.fitted # NoRect =>
         /\ {request.width, request.height, variant.width, variant.height} \subseteq Nat \ {0}
         /\ result.fitted = FitRect(variant.width, variant.height, request.width, request.height)
    /\ pc \in {"image", "surface", "write"} =>
         /\ {region.x, region.y, region.width, region.height} \subseteq Int
         /\ RectIsInsideAsset(region, variant.width, variant.height)
         /\ result.fitted = FitRect(variant.width, variant.height, request.width, request.height)
         /\ result.active = ProjectRect(region, variant.width, variant.height, result.fitted)
    /\ pc \in {"surface", "write"} =>
         image.width = variant.width /\ image.height = variant.height

Unset == {"HT_ERR_IO", "HT_ERR_CORRUPT_DATA", "HT_ERR_BUFFER_TOO_SMALL"}

\* Every way a stage can stop.
Problems ==
    {Problem("catalog", status, "catalog") : status \in Unset}
    \cup {Problem("overlay", status, "overlay files") : status \in Unset}
    \cup {Problem("asset", "HT_ERR_IO", "image"), Problem("asset", "HT_ERR_CORRUPT_DATA", "image"),
          Problem("asset", "HT_ERR_UNSUPPORTED", "image"),
          Problem("catalog", "HT_ERR_NOT_FOUND", "no variant"),
          Problem("render", "HT_ERR_BUFFER_TOO_SMALL", "path"),
          Problem("overlay", "HT_ERR_UNSUPPORTED", "no overlay"),
          Problem("overlay", "HT_ERR_NOT_FOUND", "no overlay"),
          Problem("overlay", "HT_ERR_NOT_FOUND", "no step"),
          Problem("overlay", "HT_ERR_CORRUPT_DATA", "wrong overlay"),
          Problem("asset", "HT_ERR_NOT_FOUND", "no image"),
          Problem("render", "HT_ERR_IO", "output")}

\* What the result says of the problem p.
Reports(p) ==
    /\ result.catalog = (IF p.stage = "catalog" THEN p.status ELSE "HT_OK")
    /\ result.overlay = (IF p.stage = "overlay" THEN p.status ELSE "HT_OK")
    /\ result.asset = (IF p.stage = "asset" THEN p.status ELSE "HT_OK")
    /\ result.render = p.status
    /\ result.call = IF \/ p.status = "HT_ERR_NOT_FOUND"
                        \/ p.stage = "overlay" /\ p.status = "HT_ERR_UNSUPPORTED"
                     THEN "HT_OK" ELSE p.status
    /\ cause = p.why

Clean ==
    /\ result.catalog = "HT_OK" /\ result.overlay = "HT_OK" /\ result.asset = "HT_OK"
    /\ result.render = "HT_OK" /\ result.call = "HT_OK" /\ cause = "none"

\* A run that has not ended has met no problem, one that has met one reports
\* that one, and only one that has met none wrote a whole snapshot.
Ends ==
    /\ DOMAIN result = DOMAIN Zeroed
    /\ request.tool => request.out
    /\ Running => Clean
    /\ pc \in {"catalog", "metadata", "steps", "image", "surface"} => ~fresh
    /\ pc = "write" => output = "part" /\ fresh
    /\ pc = "done" =>
         \/ Clean /\ (request.out => output = "whole" /\ fresh)
         \/ ~request.tool
         \/ /\ \E p \in Problems : Reports(p)
            /\ ~(output = "whole" /\ fresh)

ViewInv == FilesFit /\ (Running \/ pc \in {"idle", "done"}) /\ Sizes /\ Ends

-----------------------------------------------------------------------------
(* The stages.                                                             *)

LEMMA FilesAre ==
    ASSUME FilesFit
    PROVE  /\ files.catalog \in Desks[desk].catalog /\ TableFits(files.catalog)
           /\ files.metadata \in Desks[desk].metadata /\ TableFits(files.metadata)
           /\ files.steps \in Desks[desk].steps /\ TableFits(files.steps)
           /\ files.image \in Desks[desk].image /\ files.image.kind \in ImageKinds
<1>1. /\ files.catalog \in Desks[desk].catalog /\ files.metadata \in Desks[desk].metadata
      /\ files.steps \in Desks[desk].steps /\ files.image \in Desks[desk].image
      /\ desk \in DOMAIN Desks
  BY DEF FilesFit
<1>2. ASSUME NEW file \in Desks[desk].catalog \cup Desks[desk].metadata \cup Desks[desk].steps
      PROVE  TableFits(file)
  BY <1>1, DesksAssumption DEF TableFits
<1>3. files.image.kind \in ImageKinds
  BY <1>1, DesksAssumption
<1> QED BY <1>1, <1>2, <1>3

LEMMA LoadedIsThere ==
    ASSUME NEW file, NEW absent, LoadStatus(file, absent) = "HT_OK"
    PROVE  file.there => file.lines # <<>>
BY DEF LoadStatus

LEMMA CatalogProblems ==
    ASSUME FilesFit
    PROVE  CatalogProblem = Fine \/ CatalogProblem \in Problems
<1> DEFINE status == LoadStatus(files.catalog, "HT_ERR_IO")
<1>1. status \in {"HT_ERR_IO", "HT_OK", "HT_ERR_CORRUPT_DATA", "HT_ERR_BUFFER_TOO_SMALL"}
  BY FilesAre, LoadStatusIs
<1> HIDE DEF status
<1> DEFINE row == RowAt(files.catalog, LookupVariant(files.catalog, request.variant_id))
<1>2. CatalogProblem =
        IF status # "HT_OK" THEN Problem("catalog", status, "catalog")
        ELSE IF LookupVariant(files.catalog, request.variant_id) = 0
             THEN Problem("catalog", "HT_ERR_NOT_FOUND", "no variant")
        ELSE IF row.path = "too long" THEN Problem("render", "HT_ERR_BUFFER_TOO_SMALL", "path")
        ELSE IF row.width = 0 \/ row.height = 0
             THEN Problem("catalog", "HT_ERR_CORRUPT_DATA", "catalog")
        ELSE IF row.overlay_id = "" THEN Problem("overlay", "HT_ERR_UNSUPPORTED", "no overlay")
        ELSE Fine
  BY DEF CatalogProblem, status
<1> HIDE DEF row
<1> QED BY <1>1, <1>2 DEF Problems, Unset

LEMMA MetadataProblems ==
    ASSUME FilesFit
    PROVE  MetadataProblem = Fine \/ MetadataProblem \in Problems
<1> DEFINE status == LoadStatus(files.metadata, "HT_OK")
<1>1. status \in {"HT_OK", "HT_ERR_CORRUPT_DATA", "HT_ERR_BUFFER_TOO_SMALL"}
  BY FilesAre, LoadStatusIs
<1> HIDE DEF status
<1>2. MetadataProblem =
        IF status # "HT_OK" THEN Problem("overlay", status, "overlay files") ELSE Fine
  BY DEF MetadataProblem, status
<1> QED BY <1>1, <1>2 DEF Problems, Unset

LEMMA StepsProblems ==
    ASSUME FilesFit
    PROVE  StepsProblem = Fine \/ StepsProblem \in Problems
<1> DEFINE status == LoadStatus(files.steps, "HT_OK")
<1>1. status \in {"HT_OK", "HT_ERR_CORRUPT_DATA", "HT_ERR_BUFFER_TOO_SMALL"}
  BY FilesAre, LoadStatusIs
<1> HIDE DEF status
<1> DEFINE Outside == ~RectIsInsideAsset(CursorRegion(RowAt(files.steps, FoundStep)),
                                         variant.width, variant.height)
<1>2. StepsProblem =
        IF status # "HT_OK" THEN Problem("overlay", status, "overlay files")
        ELSE IF overlay = NoOverlay THEN Problem("overlay", "HT_ERR_NOT_FOUND", "no overlay")
        ELSE IF <<overlay.width, overlay.height>> # <<variant.width, variant.height>>
             THEN Problem("overlay", "HT_ERR_CORRUPT_DATA", "wrong overlay")
        ELSE IF FoundStep = 0 THEN Problem("overlay", "HT_ERR_NOT_FOUND", "no step")
        ELSE IF Outside THEN Problem("overlay", "HT_ERR_CORRUPT_DATA", "wrong overlay")
        ELSE Fine
  BY DEF StepsProblem, status
<1> HIDE DEF Outside
<1> QED BY <1>1, <1>2 DEF Problems, Unset

LEMMA ImageProblems ==
    ASSUME FilesFit
    PROVE  ImageProblem = Fine \/ ImageProblem \in Problems
<1> DEFINE status == ImageStatus(files.image)
<1>1. status \in {"HT_OK", "HT_ERR_NOT_FOUND", "HT_ERR_IO", "HT_ERR_CORRUPT_DATA",
                  "HT_ERR_UNSUPPORTED"}
  BY FilesAre, ImageStatusIs
<1> HIDE DEF status
<1>2. ImageProblem =
        IF status = "HT_ERR_NOT_FOUND" THEN Problem("asset", status, "no image")
        ELSE IF status # "HT_OK" THEN Problem("asset", status, "image")
        ELSE IF <<files.image.width, files.image.height>> # <<variant.width, variant.height>>
             THEN Problem("asset", "HT_ERR_CORRUPT_DATA", "image")
        ELSE Fine
  BY DEF ImageProblem, status
<1> QED BY <1>1, <1>2 DEF Problems

LEMMA ProblemsStop ==
    /\ Problem("catalog", "HT_ERR_NOT_FOUND", "no variant") # Fine
    /\ Problem("render", "HT_ERR_BUFFER_TOO_SMALL", "path") # Fine
    /\ \A status, why : /\ Problem("catalog", status, why) # Fine
                        /\ Problem("overlay", status, why) # Fine
                        /\ Problem("asset", status, why) # Fine
<1>1. ASSUME NEW stage, NEW status, NEW why, stage # ""
      PROVE  Problem(stage, status, why) # Fine
  <2>1. Problem(stage, status, why).stage # Fine.stage
    BY <1>1 DEF Fine, Problem
  <2> QED BY <2>1, Zenon
<1> QED BY <1>1

\* The variant that passed the catalog's checks has a size.
LEMMA VariantSized ==
    ASSUME FilesFit, CatalogProblem = Fine,
           NEW row, row = RowAt(files.catalog, LookupVariant(files.catalog, request.variant_id))
    PROVE  row.width \in Nat \ {0} /\ row.height \in Nat \ {0}
<1>1. /\ LoadStatus(files.catalog, "HT_ERR_IO") = "HT_OK"
      /\ LookupVariant(files.catalog, request.variant_id) # 0
      /\ row.width # 0 /\ row.height # 0
  BY ProblemsStop DEF CatalogProblem
<1>2. PICK i \in DOMAIN files.catalog.lines :
        files.catalog.lines[i].fault = "none" /\ row = files.catalog.lines[i].row
  BY <1>1, FilesAre, LoadedIsThere, VariantFound
<1>3. row.width \in Nat /\ row.height \in Nat
  BY <1>2, FilesAre, DesksAssumption DEF FilesFit
<1> QED BY <1>1, <1>3

\* The region that passed the step's checks lies in the score.
LEMMA RegionInside ==
    ASSUME FilesFit, StepsProblem = Fine,
           NEW r, r = CursorRegion(RowAt(files.steps, FoundStep))
    PROVE  /\ {r.x, r.y, r.width, r.height} \subseteq Int
           /\ RectIsInsideAsset(r, variant.width, variant.height)
<1>1. /\ LoadStatus(files.steps, "HT_OK") = "HT_OK"
      /\ FoundStep # 0
      /\ RectIsInsideAsset(r, variant.width, variant.height)
  BY ProblemsStop DEF StepsProblem
<1>2. PICK i \in DOMAIN files.steps.lines :
        /\ files.steps.lines[i].fault = "none"
        /\ RowAt(files.steps, FoundStep) = files.steps.lines[i].row
  BY <1>1, FilesAre, LoadedIsThere, StepFound DEF FoundStep
<1>3. PICK row : row = RowAt(files.steps, FoundStep)
  OBVIOUS
<1>4. {row.x, row.y, row.width, row.height} \subseteq Int
  BY <1>2, <1>3, FilesAre, DesksAssumption DEF FilesFit
<1>5. /\ r.x = ToInt(row.x) /\ r.y = ToInt(row.y)
      /\ r.width = ToInt(row.width) /\ r.height = ToInt(row.height)
  BY <1>3 DEF CursorRegion, Rect
<1>6. {r.x, r.y, r.width, r.height} \subseteq Int
  BY <1>4, <1>5, IntsAreInts
<1> QED BY <1>1, <1>6

Stops == StageStops \/ OutOfMemory \/ OutputFails \/ WriteFails

LEMMA StopsReport ==
    ASSUME FilesFit, Stops
    PROVE  Running /\ \E p \in Problems : Stop(p)
<1>1. CASE StageStops
  <2>1. CASE pc = "catalog" /\ CatalogProblem # Fine /\ Stop(CatalogProblem)
    BY <2>1, CatalogProblems DEF Running
  <2>2. CASE pc = "metadata" /\ MetadataProblem # Fine /\ Stop(MetadataProblem)
    BY <2>2, MetadataProblems DEF Running
  <2>3. CASE pc = "steps" /\ StepsProblem # Fine /\ Stop(StepsProblem)
    BY <2>3, StepsProblems DEF Running
  <2>4. CASE pc = "image" /\ ImageProblem # Fine /\ Stop(ImageProblem)
    BY <2>4, ImageProblems DEF Running
  <2> QED BY <1>1, <2>1, <2>2, <2>3, <2>4 DEF StageStops
<1>2. /\ Problem("catalog", "HT_ERR_IO", "catalog") \in Problems
      /\ Problem("overlay", "HT_ERR_IO", "overlay files") \in Problems
      /\ Problem("asset", "HT_ERR_IO", "image") \in Problems
      /\ Problem("render", "HT_ERR_IO", "output") \in Problems
  BY DEF Problems, Unset
<1>3. CASE OutOfMemory
  BY <1>2, <1>3, Zenon DEF OutOfMemory, Running
<1>4. CASE OutputFails \/ WriteFails
  BY <1>2, <1>4 DEF OutputFails, WriteFails, Running
<1> QED BY <1>1, <1>3, <1>4 DEF Stops

\* The result of a problem, met by a run that had met none.
LEMMA ProblemReported ==
    ASSUME NEW p \in Problems, Stop(p), Clean, DOMAIN result = DOMAIN Zeroed
    PROVE  /\ DOMAIN result' = DOMAIN Zeroed /\ Reports(p)'
           /\ result'.fitted = result.fitted /\ result'.active = result.active
<1>1. p.stage \in {"catalog", "overlay", "asset", "render"}
  <2>1. PICK stage \in {"catalog", "overlay", "asset", "render"} :
          \E status, why : p = Problem(stage, status, why)
    BY Zenon DEF Problems
  <2> QED BY <2>1 DEF Problem
<1>2. DOMAIN result =
        {"catalog", "overlay", "asset", "render", "call", "fitted", "active"}
  BY DEF Zeroed
<1>3. cause' = p.why
  BY DEF Stop
<1>4. CASE p.stage = "overlay" /\ p.status = "HT_ERR_UNSUPPORTED"
  <2>1. result' = [Stopped("overlay", p.status) EXCEPT !.call = "HT_OK"]
    BY <1>4 DEF Stop
  <2> QED BY <1>2, <1>3, <1>4, <2>1 DEF Stopped, Clean, Reports, Zeroed
<1>5. CASE ~(p.stage = "overlay" /\ p.status = "HT_ERR_UNSUPPORTED")
  <2>1. result' = Stopped(p.stage, p.status)
    BY <1>5 DEF Stop
  <2> QED BY <1>1, <1>2, <1>3, <1>5, <2>1 DEF Stopped, Clean, Reports, Zeroed
<1> QED BY <1>4, <1>5

LEMMA StopsKeep ==
    ASSUME ViewInv, Stops
    PROVE  ViewInv'
<1>1. PICK p \in Problems : Running /\ Stop(p)
  BY StopsReport DEF ViewInv
<1>2. Clean /\ DOMAIN result = DOMAIN Zeroed
  BY <1>1 DEF ViewInv, Ends
<1>3. /\ DOMAIN result' = DOMAIN Zeroed /\ Reports(p)'
      /\ result'.fitted = result.fitted /\ result'.active = result.active
  BY <1>1, <1>2, ProblemReported
<1>4. /\ pc' = "done" /\ UNCHANGED <<desk, files, output, fresh, request, variant, region, image>>
  BY <1>1 DEF Stop
<1>5. FilesFit'
  BY <1>4 DEF ViewInv, FilesFit
<1>6. Sizes'
  BY <1>3, <1>4 DEF ViewInv, Sizes, Running
<1>7. ~(output = "whole" /\ fresh)
  BY <1>1 DEF ViewInv, Ends, Running
<1>8. Ends'
  <2>1. (\E q \in Problems : Reports(q)) '
    BY <1>3
  <2>2. Problems' = Problems
    OBVIOUS
  <2> QED BY <1>3, <1>4, <1>7, <2>1 DEF ViewInv, Ends, Running
<1> QED BY <1>4, <1>5, <1>6, <1>8 DEF ViewInv

LEMMA RenderViewKeeps ==
    ASSUME ViewInv, NEW r \in Desks[desk].requests, RenderView(r)
    PROVE  ViewInv'
<1>1. {r.tool, r.out} \subseteq BOOLEAN /\ {r.width, r.height} \subseteq Nat
  BY DesksAssumption DEF ViewInv, FilesFit
<1>2. /\ request' = r /\ ~fresh'
      /\ r.tool => Complete(r) /\ r.out
      /\ UNCHANGED <<desk, files, output, variant, overlay, region, image>>
  BY DEF RenderView
<1>3. FilesFit'
  BY <1>2 DEF ViewInv, FilesFit
<1>4. CASE Complete(r)
  <2>1. result' = Zeroed /\ cause' = "none" /\ pc' = "catalog"
    BY <1>4 DEF RenderView
  <2>2. {r.width, r.height} \subseteq Nat \ {0}
    <3>1. r.width > 0 /\ r.height > 0
      BY <1>4 DEF Complete
    <3> QED BY <1>1, <3>1
  <2>3. /\ Zeroed.fitted = NoRect
        /\ Zeroed.catalog = "HT_OK" /\ Zeroed.overlay = "HT_OK" /\ Zeroed.asset = "HT_OK"
        /\ Zeroed.render = "HT_OK" /\ Zeroed.call = "HT_OK"
    BY DEF Zeroed
  <2>4. Sizes'
    BY <1>2, <2>1, <2>2, <2>3 DEF Sizes, Running
  <2>5. Ends'
    <3>1. (request.tool => request.out)'
      BY <1>2
    <3>2. Clean'
      BY <2>1, <2>3 DEF Clean
    <3> QED BY <1>2, <2>1, <3>1, <3>2 DEF Ends, Running
  <2> QED BY <1>3, <2>1, <2>4, <2>5 DEF ViewInv, Running
<1>5. CASE ~Complete(r)
  <2>1. /\ pc' = "done"
        /\ result' = [Zeroed EXCEPT !.render = "HT_ERR_INVALID_ARG",
                                    !.call = "HT_ERR_INVALID_ARG"]
    BY <1>5 DEF RenderView
  <2>2. result'.fitted = NoRect /\ DOMAIN result' = DOMAIN Zeroed
    BY <2>1 DEF Zeroed
  <2>3. Sizes'
    BY <2>1, <2>2 DEF Sizes, Running
  <2>4. Ends'
    <3>1. (request.tool => request.out)' /\ ~request'.tool
      BY <1>2, <1>5
    <3> QED BY <2>1, <2>2, <3>1 DEF Ends, Running
  <2> QED BY <1>3, <2>1, <2>3, <2>4 DEF ViewInv
<1> QED BY <1>4, <1>5

LEMMA OpenCatalogKeeps ==
    ASSUME ViewInv, OpenCatalog
    PROVE  ViewInv'
<1>1. /\ pc = "catalog" /\ pc' = "metadata"
      /\ UNCHANGED <<desk, files, output, fresh, request, overlay, region, image, result, cause>>
  BY DEF OpenCatalog
<1>2. variant'.width \in Nat \ {0} /\ variant'.height \in Nat \ {0}
  BY VariantSized DEF ViewInv, OpenCatalog
<1>3. FilesFit'
  BY <1>1 DEF ViewInv, FilesFit
<1>4. Sizes'
  BY <1>1, <1>2 DEF ViewInv, Sizes, Running
<1>5. Ends'
  BY <1>1 DEF ViewInv, Ends, Running, Clean
<1> QED BY <1>1, <1>3, <1>4, <1>5 DEF ViewInv, Running

LEMMA LoadOverlayMetadataKeeps ==
    ASSUME ViewInv, LoadOverlayMetadata
    PROVE  ViewInv'
<1>1. /\ pc = "metadata" /\ pc' = "steps"
      /\ UNCHANGED <<desk, files, output, fresh, request, variant, region, image, result, cause>>
  BY DEF LoadOverlayMetadata
<1>2. FilesFit'
  BY <1>1 DEF ViewInv, FilesFit
<1>3. Sizes'
  BY <1>1 DEF ViewInv, Sizes, Running
<1>4. Ends'
  BY <1>1 DEF ViewInv, Ends, Running, Clean
<1> QED BY <1>1, <1>2, <1>3, <1>4 DEF ViewInv, Running

LEMMA LoadOverlayStepsKeeps ==
    ASSUME ViewInv, LoadOverlaySteps
    PROVE  ViewInv'
<1>1. /\ pc = "steps" /\ pc' = (IF request.out THEN "image" ELSE "done")
      /\ UNCHANGED <<desk, files, output, fresh, request, variant, overlay, image, cause>>
      /\ StepsProblem = Fine /\ region' = CursorRegion(RowAt(files.steps, FoundStep))
  BY DEF LoadOverlaySteps
<1>2. DOMAIN result = {"catalog", "overlay", "asset", "render", "call", "fitted", "active"}
  BY DEF ViewInv, Ends, Zeroed
<1> DEFINE fitted == FitRect(variant.width, variant.height, request.width, request.height)
           active == ProjectRect(region', variant.width, variant.height, fitted)
<1>3. result' = [result EXCEPT !.fitted = fitted, !.active = active]
  BY DEF LoadOverlaySteps
<1>4. PICK f, a : f = fitted /\ a = active
  OBVIOUS
<1> HIDE DEF fitted, active
<1>5. /\ result'.fitted = fitted /\ result'.active = active /\ DOMAIN result' = DOMAIN result
      /\ result'.catalog = result.catalog /\ result'.overlay = result.overlay
      /\ result'.asset = result.asset /\ result'.render = result.render
      /\ result'.call = result.call
  BY <1>2, <1>3
<1>6. /\ {region'.x, region'.y, region'.width, region'.height} \subseteq Int
      /\ RectIsInsideAsset(region', variant.width, variant.height)
  BY <1>1, RegionInside DEF ViewInv
<1>7. FilesFit'
  BY <1>1 DEF ViewInv, FilesFit
<1>8. Sizes'
  <2>1. {request.width, request.height, variant.width, variant.height} \subseteq Nat \ {0}
    BY <1>1 DEF ViewInv, Sizes, Running
  <2> QED BY <1>1, <1>5, <1>6, <2>1 DEF Sizes, Running, fitted, active
<1>9. Ends'
  <2>1. Clean'
    BY <1>1, <1>5 DEF ViewInv, Ends, Running, Clean
  <2> QED BY <1>1, <1>5, <2>1 DEF ViewInv, Ends, Running
<1> QED BY <1>1, <1>7, <1>8, <1>9 DEF ViewInv, Running

LEMMA LoadImageKeeps ==
    ASSUME ViewInv, LoadImage
    PROVE  ViewInv'
<1>1. /\ pc = "image" /\ pc' = "surface"
      /\ UNCHANGED <<desk, files, output, fresh, request, variant, overlay, region, result, cause>>
  BY DEF LoadImage
<1>2. files.image.width = variant.width /\ files.image.height = variant.height
  <2>1. LoadImage => ImageProblem = Fine
    BY DEF LoadImage
  <2> QED BY <2>1, ProblemsStop DEF ImageProblem
<1>3. image'.width = variant.width /\ image'.height = variant.height
  BY <1>2 DEF LoadImage
<1>4. FilesFit'
  BY <1>1 DEF ViewInv, FilesFit
<1>5. Sizes'
  BY <1>1, <1>3 DEF ViewInv, Sizes, Running
<1>6. Ends'
  BY <1>1 DEF ViewInv, Ends, Running, Clean
<1> QED BY <1>1, <1>4, <1>5, <1>6 DEF ViewInv, Running

LEMMA OutputKeeps ==
    ASSUME ViewInv, OpenOutput \/ WriteDone
    PROVE  ViewInv'
<1>1. /\ UNCHANGED <<desk, files, view>>
      /\ \/ pc = "surface" /\ pc' = "write" /\ output' = "part" /\ fresh' = TRUE
         \/ pc = "write" /\ pc' = "done" /\ output' = "whole" /\ fresh' = fresh
  BY DEF OpenOutput, WriteDone
<1>2. FilesFit'
  BY <1>1 DEF ViewInv, FilesFit
<1>3. Sizes'
  BY <1>1 DEF ViewInv, Sizes, Running, view
<1>4. Ends'
  BY <1>1 DEF ViewInv, Ends, Running, Clean, view
<1> QED BY <1>1, <1>2, <1>3, <1>4 DEF ViewInv, Running

LEMMA ForgetKeeps ==
    ASSUME ViewInv, Forget
    PROVE  ViewInv'
<1>1. /\ pc' = "idle" /\ UNCHANGED <<desk, files, output>>
      /\ request' = NoRequest /\ result' = Zeroed
  BY DEF Forget
<1>2. FilesFit'
  BY <1>1 DEF ViewInv, FilesFit
<1>3. Sizes'
  <2>1. Zeroed.fitted = NoRect
    BY DEF Zeroed
  <2> QED BY <1>1, <2>1 DEF Sizes, Running
<1>4. Ends'
  <2>1. ~NoRequest.tool
    BY DEF NoRequest
  <2> QED BY <1>1, <2>1 DEF Ends, Running
<1> QED BY <1>1, <1>2, <1>3, <1>4 DEF ViewInv

LEMMA EditKeeps ==
    ASSUME ViewInv, NEW name \in DOMAIN files, Edit(name)
    PROVE  ViewInv'
<1>1. PICK version \in Desks[desk][name] :
        /\ files' = [files EXCEPT ![name] = version]
        /\ UNCHANGED <<desk, output, fresh, pc, view>>
  BY DEF Edit
<1>2. FilesFit'
  <2>1. /\ files \in [catalog : Desks[desk].catalog, metadata : Desks[desk].metadata,
                      steps : Desks[desk].steps, image : Desks[desk].image]
        /\ name \in {"catalog", "metadata", "steps", "image"}
    BY DEF ViewInv, FilesFit
  <2>2. files' \in [catalog : Desks[desk].catalog, metadata : Desks[desk].metadata,
                    steps : Desks[desk].steps, image : Desks[desk].image]
    BY <1>1, <2>1
  <2> QED BY <1>1, <2>2 DEF ViewInv, FilesFit
<1>3. Sizes'
  BY <1>1 DEF ViewInv, Sizes, Running, view
<1>4. Ends'
  BY <1>1 DEF ViewInv, Ends, Running, Clean, Reports, view
<1> QED BY <1>1, <1>2, <1>3, <1>4 DEF ViewInv, Running

LEMMA ViewStutters ==
    ASSUME ViewInv, UNCHANGED vars
    PROVE  ViewInv'
BY DEF vars, view, ViewInv, FilesFit, Sizes, Ends, Running, Clean, Reports

LEMMA ViewInvHolds == Spec => []ViewInv
<1>1. Init => ViewInv
  <2> SUFFICES ASSUME Init PROVE ViewInv
    OBVIOUS
  <2>1. FilesFit /\ pc = "idle" /\ request = NoRequest /\ result = Zeroed
    BY DEF Init, FilesFit
  <2>2. Zeroed.fitted = NoRect /\ ~NoRequest.tool
    BY DEF Zeroed, NoRequest
  <2>3. Sizes /\ Ends
    BY <2>1, <2>2 DEF Sizes, Ends, Running
  <2> QED BY <2>1, <2>3 DEF ViewInv
<1>2. ViewInv /\ [Next]_vars => ViewInv'
  <2> SUFFICES ASSUME ViewInv, [Next]_vars PROVE ViewInv'
    OBVIOUS
  <2>1. CASE \E r \in Desks[desk].requests : RenderView(r)
    BY <2>1, RenderViewKeeps
  <2>2. CASE Stops
    BY <2>2, StopsKeep
  <2>3. CASE OpenCatalog
    BY <2>3, OpenCatalogKeeps
  <2>4. CASE LoadOverlayMetadata
    BY <2>4, LoadOverlayMetadataKeeps
  <2>5. CASE LoadOverlaySteps
    BY <2>5, LoadOverlayStepsKeeps
  <2>6. CASE LoadImage
    BY <2>6, LoadImageKeeps
  <2>7. CASE OpenOutput \/ WriteDone
    BY <2>7, OutputKeeps
  <2>8. CASE Exit
    BY <2>8, ForgetKeeps DEF Exit
  <2>9. CASE \E name \in DOMAIN files : Edit(name)
    BY <2>9, EditKeeps
  <2>10. CASE UNCHANGED vars
    BY <2>10, ViewStutters
  <2> QED BY <2>1, <2>2, <2>3, <2>4, <2>5, <2>6, <2>7, <2>8, <2>9, <2>10 DEF Next, Stops
<1> QED BY <1>1, <1>2, PTL DEF Spec

-----------------------------------------------------------------------------
(* The theorems.                                                           *)

\* For every size of score and every viewport whose sides are ints, fit_rect
\* shows the whole score, in its ratio, as large as it can and in the middle.
THEOREM ViewFitsCorrect == Spec => []ViewFits
<1>1. ViewInv => ViewFits
  <2> SUFFICES ASSUME ViewInv, result.fitted # NoRect,
                      request.width <= MaxInt, request.height <= MaxInt
               PROVE  ViewFits
    BY DEF ViewFits
  <2> DEFINE W == variant.width
             H == variant.height
             vw == request.width
             vh == request.height
             f == result.fitted
  <2>1. W \in Nat \ {0} /\ H \in Nat \ {0} /\ vw \in 1 .. MaxInt /\ vh \in 1 .. MaxInt
    <3>1. {vw, vh, W, H} \subseteq Nat \ {0}
      BY DEF ViewInv, Sizes
    <3> QED BY <3>1, MaxIntAssumption
  <2>2. f = FitRect(W, H, vw, vh)
    BY DEF ViewInv, Sizes
  <2> HIDE DEF W, H, vw, vh, f
  <2>3. PICK n \in Nat : Fitted(f, n, W, H, vw, vh)
    BY <2>1, <2>2, FitRectFits
  <2>4. /\ n \in 1 .. vw * H /\ n <= vw * H /\ n <= vh * W
        /\ ~(n + 1 <= vw * H /\ n + 1 <= vh * W)
        /\ f.width = AtLeastOne(n \div H) /\ f.height = AtLeastOne(n \div W)
        /\ f.x >= 0 /\ vw - f.width - 2 * f.x \in {0, 1}
        /\ f.y >= 0 /\ vh - f.height - 2 * f.y \in {0, 1}
    <3>1. n \in 1 .. vw * H => n <= vw * H
      BY <2>1
    <3> QED BY <2>3, <3>1 DEF Fitted
  <2>5. FitsAt(n) /\ ~FitsAt(n + 1)
    BY <2>4 DEF FitsAt, W, H, vw, vh
  <2> QED BY <2>4, <2>5, Zenon DEF ViewFits, W, H, vw, vh, f
<1> QED BY <1>1, ViewInvHolds, PTL

\* When the pixels are written, the outline that project_rect computed frames
\* those in which render_score_pixels shows the step, to a pixel, whatever was
\* done to the files since they were read.
THEOREM OverlayFramesCorrect == Spec => []OverlayFramesItsStep
<1>1. ViewInv => OverlayFramesItsStep
  <2> SUFFICES ASSUME ViewInv, pc = "write",
                      request.width <= MaxInt, request.height <= MaxInt
               PROVE  OverlayFramesItsStep
    BY DEF OverlayFramesItsStep
  <2> DEFINE W == variant.width
             H == variant.height
             vw == request.width
             vh == request.height
             f == result.fitted
             a == result.active
  <2>1. W \in Nat \ {0} /\ H \in Nat \ {0} /\ vw \in 1 .. MaxInt /\ vh \in 1 .. MaxInt
    <3>1. {vw, vh} \subseteq Nat \ {0} /\ {W, H} \subseteq Nat \ {0}
      BY DEF ViewInv, Sizes, Running
    <3> QED BY <3>1, MaxIntAssumption
  <2>2. /\ {region.x, region.y, region.width, region.height} \subseteq Int
        /\ RectIsInsideAsset(region, W, H)
        /\ f = FitRect(W, H, vw, vh) /\ a = ProjectRect(region, W, H, f)
        /\ image.width = W /\ image.height = H
    BY DEF ViewInv, Sizes
  <2> HIDE DEF W, H, vw, vh, f, a
  <2>3. f.width \in 1 .. vw /\ f.height \in 1 .. vh /\ f.x \in Nat /\ f.y \in Nat
    BY <2>1, <2>2, FitRectFits DEF Fitted
  <2>4. /\ f.width \in 1 .. MaxInt /\ f.height \in 1 .. MaxInt
        /\ ToUnsigned(f.width) = f.width /\ ToUnsigned(f.height) = f.height
    <3>1. /\ f.width \in 1 .. MaxInt /\ f.height \in 1 .. MaxInt
          /\ f.width \in Nat /\ f.width <= MaxInt /\ f.height \in Nat /\ f.height <= MaxInt
      BY <2>1, <2>3, MaxIntAssumption
    <3> QED BY <3>1, Casts
  <2>5. /\ region.x \in Nat /\ region.y \in Nat
        /\ region.width \in Nat \ {0} /\ region.height \in Nat \ {0}
        /\ region.x + region.width <= W /\ region.y + region.height <= H
    BY <2>2 DEF RectIsInsideAsset
  <2>6. PICK left, right, top, bottom :
          /\ left = Edge(region.x, W, f.width)
          /\ right = Edge(region.x + region.width, W, f.width)
          /\ top = Edge(region.y, H, f.height)
          /\ bottom = Edge(region.y + region.height, H, f.height)
    OBVIOUS
  <2>7. /\ a.x = f.x + ToInt(left) /\ a.width = ToInt(AtLeastOne(right - left))
        /\ a.y = f.y + ToInt(top) /\ a.height = ToInt(AtLeastOne(bottom - top))
    BY <2>2, <2>4, <2>6 DEF ProjectRect, Rect, Edge
  <2>8. Frames(a.x, a.width, f.x, f.width, region.x, region.width, W)
    BY <2>1, <2>3, <2>4, <2>5, <2>6, <2>7, AxisFramed
  <2>9. Frames(a.y, a.height, f.y, f.height, region.y, region.height, H)
    BY <2>1, <2>3, <2>4, <2>5, <2>6, <2>7, AxisFramed
  <2> QED BY <2>2, <2>8, <2>9 DEF OverlayFramesItsStep, f, a
<1> QED BY <1>1, ViewInvHolds, PTL

\* The tool exits with 0 exactly when this run wrote a whole snapshot, and
\* otherwise its code names the cause, whichever files were replaced while it
\* ran and whatever failed.
THEOREM ExitCodeCorrect == Spec => []ExitCodeTells
<1>1. ViewInv => ExitCodeTells
  <2> SUFFICES ASSUME ViewInv, pc = "done", request.tool
               PROVE  ExitZeroMeansSnapshot /\ ExitNamesCause
    BY DEF ExitCodeTells, Ended
  <2>1. CASE Clean /\ (request.out => output = "whole" /\ fresh)
    <3>1. output = "whole" /\ fresh
      BY <2>1 DEF ViewInv, Ends
    <3>2. ExitCode = "OK" /\ cause = "none"
      BY <2>1 DEF ExitCode, MapResultToExit, Clean
    <3> QED BY <3>1, <3>2 DEF ExitZeroMeansSnapshot, ExitNamesCause
  <2>2. CASE (\E p \in Problems : Reports(p)) /\ ~(output = "whole" /\ fresh)
    <3>1. PICK p \in Problems : Reports(p)
      BY <2>2
    <3>2. PICK stage, status : stage = p.stage /\ status = p.status
      OBVIOUS
    <3>3. \/ /\ stage = "catalog" /\ status \in Unset /\ cause = "catalog"
          \/ /\ stage = "overlay" /\ status \in Unset /\ cause = "overlay files"
          \/ /\ stage = "asset" /\ cause = "image"
             /\ status \in {"HT_ERR_IO", "HT_ERR_CORRUPT_DATA", "HT_ERR_UNSUPPORTED"}
          \/ /\ stage = "catalog" /\ status = "HT_ERR_NOT_FOUND" /\ cause = "no variant"
          \/ /\ stage = "render" /\ status = "HT_ERR_BUFFER_TOO_SMALL" /\ cause = "path"
          \/ /\ stage = "overlay" /\ status \in {"HT_ERR_UNSUPPORTED", "HT_ERR_NOT_FOUND"}
             /\ cause \in {"no overlay", "no step"}
          \/ /\ stage = "overlay" /\ status = "HT_ERR_CORRUPT_DATA" /\ cause = "wrong overlay"
          \/ /\ stage = "asset" /\ status = "HT_ERR_NOT_FOUND" /\ cause = "no image"
          \/ /\ stage = "render" /\ status = "HT_ERR_IO" /\ cause = "output"
      <4>1. PICK q : /\ q \in Problems /\ q.stage = stage /\ q.status = status
                     /\ q.why = cause
        BY <3>1, <3>2 DEF Reports
      <4>2. ASSUME NEW a, NEW b, NEW c, q = Problem(a, b, c)
            PROVE  stage = a /\ status = b /\ cause = c
        <5>1. q.stage = a /\ q.status = b /\ q.why = c
          BY <4>2 DEF Problem
        <5> QED BY <4>1, <5>1
      <4>3. CASE \E s \in Unset : q = Problem("catalog", s, "catalog")
        BY <4>2, <4>3
      <4>4. CASE \E s \in Unset : q = Problem("overlay", s, "overlay files")
        BY <4>2, <4>4
      <4>5. CASE \/ q = Problem("asset", "HT_ERR_IO", "image")
                 \/ q = Problem("asset", "HT_ERR_CORRUPT_DATA", "image")
                 \/ q = Problem("asset", "HT_ERR_UNSUPPORTED", "image")
                 \/ q = Problem("asset", "HT_ERR_NOT_FOUND", "no image")
        BY <4>2, <4>5
      <4>6. CASE \/ q = Problem("catalog", "HT_ERR_NOT_FOUND", "no variant")
                 \/ q = Problem("render", "HT_ERR_BUFFER_TOO_SMALL", "path")
                 \/ q = Problem("render", "HT_ERR_IO", "output")
        BY <4>2, <4>6
      <4>7. CASE \/ q = Problem("overlay", "HT_ERR_UNSUPPORTED", "no overlay")
                 \/ q = Problem("overlay", "HT_ERR_NOT_FOUND", "no overlay")
                 \/ q = Problem("overlay", "HT_ERR_NOT_FOUND", "no step")
                 \/ q = Problem("overlay", "HT_ERR_CORRUPT_DATA", "wrong overlay")
        BY <4>2, <4>7
      <4> QED BY <4>1, <4>3, <4>4, <4>5, <4>6, <4>7, Zenon DEF Problems
    <3>4. /\ result.catalog = (IF stage = "catalog" THEN status ELSE "HT_OK")
          /\ result.overlay = (IF stage = "overlay" THEN status ELSE "HT_OK")
          /\ result.asset = (IF stage = "asset" THEN status ELSE "HT_OK")
          /\ result.render = status
          /\ result.call = IF \/ status = "HT_ERR_NOT_FOUND"
                              \/ stage = "overlay" /\ status = "HT_ERR_UNSUPPORTED"
                           THEN "HT_OK" ELSE status
      BY <3>1, <3>2 DEF Reports
    <3>5. ExitCode # "OK"
      BY <3>3, <3>4 DEF ExitCode, MapResultToExit, Unset
    <3>6. ExitNamesCause
      BY <3>3, <3>4 DEF ExitCode, MapResultToExit, Unset, ExitNamesCause
    <3> QED BY <2>2, <3>5, <3>6 DEF ExitZeroMeansSnapshot
  <2> QED BY <2>1, <2>2 DEF ViewInv, Ends
<1> QED BY <1>1, ViewInvHolds, PTL
=============================================================================
