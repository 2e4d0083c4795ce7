---------------------- MODULE PerformanceAnalysis_proofs ---------------------
(***************************************************************************)
(* What a run of ht_analysis_run_session stores, for every take and every  *)
(* overlay, any number of runs, and every unit of time.                    *)
(***************************************************************************)
EXTENDS PerformanceAnalysis, FiniteSetTheorems, FunctionTheorems, SequenceTheorems,
        WellFoundedInduction, TLAPS

-----------------------------------------------------------------------------
(* The arithmetic and the slots.                                           *)

LEMMA SmallestIn ==
    ASSUME NEW T, T \subseteq Nat, T # {}
    PROVE  \E m \in T : \A n \in T : m <= n
<1>1. PICK m \in T : \A n \in T : ~ (<<n, m>> \in OpToRel(<, Nat))
  BY WFMin, NatLessThanWellFounded, Zenon
<1>2. ASSUME NEW n \in T PROVE m <= n
  <2>1. m \in Nat /\ n \in Nat
    OBVIOUS
  <2>2. ~ (n < m)
    BY <1>1, <2>1 DEF OpToRel
  <2> QED BY <2>1, <2>2
<1> QED BY <1>2

LEMMA FirstSlotIn ==
    ASSUME NEW slots, slots \subseteq Nat, slots # {}
    PROVE  FirstSlot(slots) \in slots
<1>1. \E s \in slots : \A t \in slots : s <= t
  BY SmallestIn
<1> QED BY <1>1 DEF FirstSlot

LEMMA Arithmetic ==
    ASSUME NEW n \in Int
    PROVE  /\ ExpectedTime(n) \in Int /\ LowerBound(n) \in Int /\ UpperBound(n) \in Int
           /\ Milliseconds(n) \in Int /\ Magnitude(n) \in Nat
<1>1. StepNs \in Int /\ MsNs \in Int /\ MsNs # 0 /\ MsNs > 0
  BY UnitsAssumption
<1>2. ExpectedTime(n) \in Int
  BY <1>1 DEF ExpectedTime
<1>3. HalfStep \in Int
  BY <1>1 DEF HalfStep
<1>4. n \div MsNs \in Int /\ (-n) \div MsNs \in Int
  BY <1>1
<1> QED BY <1>2, <1>3, <1>4 DEF LowerBound, UpperBound, Milliseconds, Magnitude

-----------------------------------------------------------------------------
(* The scan of score_step_group: step n, which is `part', and the first m  *)
(* events of a take.                                                       *)

Notes == [noteOn : BOOLEAN, ns : Int, pitch : Int]
Parts == [expected : Seq(Int), window : Int]

Owned(take, n, m) == {j \in 1 .. m : OwnedByStep(take[j], n)}
Played(take, n, m, p) == {j \in Owned(take, n, m) : take[j].pitch = p}
Slots(part, p) == {s \in DOMAIN part.expected : part.expected[s] = p}
Matched(part, g, p) == {s \in g.matched : part.expected[s] = p}

\* The notes of a pitch that can be matched, and one pair for each of them.
Common(take, part, n, m, p) ==
    LesserOf(Cardinality(Played(take, n, m, p)), Cardinality(Slots(part, p)))
Pairs(take, part, n, m) ==
    {q \in Int \X Nat : 1 <= q[2] /\ q[2] <= Common(take, part, n, m, q[1])}

\* No pitch has been played more often than the step expects it.
NoSurplus(take, part, n, m) ==
    \A p \in Int : Cardinality(Played(take, n, m, p)) <= Cardinality(Slots(part, p))

\* Matches are counted pitch by pitch, so that the order of events and of slots
\* makes no difference.
MatchesScan(take, part, n, m, g) ==
    /\ \A p \in Int : Cardinality(Matched(part, g, p)) = Common(take, part, n, m, p)
    /\ IsFiniteSet(Pairs(take, part, n, m))
    /\ Cardinality(g.matched) = Cardinality(Pairs(take, part, n, m))
    /\ g.candidates = Cardinality(Owned(take, n, m))
    /\ Cardinality(g.matched) <= g.candidates
    /\ Cardinality(g.matched) = g.candidates <=> NoSurplus(take, part, n, m)

\* The earliest onset and its error.
OnsetScan(take, n, m, g) ==
    /\ g.has <=> Owned(take, n, m) # {}
    /\ g.has =>
         /\ \A j \in Owned(take, n, m) : g.earliest <= take[j].ns
         /\ \E j \in Owned(take, n, m) :
              /\ g.earliest = take[j].ns
              /\ g.error = Milliseconds(take[j].ns - ExpectedTime(n))

GroupFits(part, g) == g \in Groups /\ g.matched \subseteq DOMAIN part.expected

Scan(take, part, n, m, g) ==
    GroupFits(part, g) /\ MatchesScan(take, part, n, m, g) /\ OnsetScan(take, n, m, g)

\* Everything counted here is finite.
LEMMA NotesFinite ==
    ASSUME NEW take, NEW n, NEW m \in Nat
    PROVE  /\ IsFiniteSet(Owned(take, n, m)) /\ Cardinality(Owned(take, n, m)) \in Nat
           /\ \A p : /\ IsFiniteSet(Played(take, n, m, p))
                     /\ Cardinality(Played(take, n, m, p)) \in Nat
<1>1. IsFiniteSet(1 .. m)
  BY FS_Interval
<1>2. IsFiniteSet(Owned(take, n, m))
  <2>1. Owned(take, n, m) \in SUBSET (1 .. m)
    BY DEF Owned
  <2> QED BY <1>1, <2>1, FS_Subset
<1>3. ASSUME NEW p PROVE IsFiniteSet(Played(take, n, m, p))
  <2>1. Played(take, n, m, p) \in SUBSET Owned(take, n, m)
    BY DEF Played
  <2> QED BY <1>2, <2>1, FS_Subset
<1> QED BY <1>2, <1>3, FS_CardinalityType

LEMMA SlotsFinite ==
    ASSUME NEW part \in Parts
    PROVE  /\ DOMAIN part.expected = 1 .. Len(part.expected) /\ Len(part.expected) \in Nat
           /\ IsFiniteSet(DOMAIN part.expected)
           /\ Cardinality(DOMAIN part.expected) = Len(part.expected)
           /\ \A p : IsFiniteSet(Slots(part, p)) /\ Cardinality(Slots(part, p)) \in Nat
<1>1. /\ DOMAIN part.expected = 1 .. Len(part.expected) /\ Len(part.expected) \in Nat
  BY LenProperties DEF Parts
<1>2. /\ IsFiniteSet(DOMAIN part.expected)
      /\ Cardinality(DOMAIN part.expected) = Len(part.expected)
  <2>1. /\ IsFiniteSet(1 .. Len(part.expected))
        /\ Cardinality(1 .. Len(part.expected)) =
             IF 1 > Len(part.expected) THEN 0 ELSE Len(part.expected) - 1 + 1
    BY <1>1, FS_Interval
  <2> QED BY <1>1, <2>1
<1>3. ASSUME NEW p PROVE IsFiniteSet(Slots(part, p))
  <2>1. Slots(part, p) \in SUBSET DOMAIN part.expected
    BY DEF Slots
  <2> QED BY <1>2, <2>1, FS_Subset
<1> QED BY <1>1, <1>2, <1>3, FS_CardinalityType

LEMMA MatchedFinite ==
    ASSUME NEW part \in Parts, NEW g, GroupFits(part, g)
    PROVE  /\ IsFiniteSet(g.matched) /\ Cardinality(g.matched) \in Nat
           /\ \A p : /\ IsFiniteSet(Matched(part, g, p))
                     /\ Cardinality(Matched(part, g, p)) \in Nat
<1>1. IsFiniteSet(g.matched)
  <2>1. g.matched \in SUBSET DOMAIN part.expected
    BY DEF GroupFits
  <2> QED BY <2>1, SlotsFinite, FS_Subset
<1>2. ASSUME NEW p PROVE IsFiniteSet(Matched(part, g, p))
  <2>1. Matched(part, g, p) \in SUBSET g.matched
    BY DEF Matched
  <2> QED BY <1>1, <2>1, FS_Subset
<1> QED BY <1>1, <1>2, FS_CardinalityType

\* Before the first event.
LEMMA ScanStart ==
    ASSUME NEW take, NEW part \in Parts, NEW n
    PROVE  Scan(take, part, n, 0, ZeroGroup)
<1>1. GroupFits(part, ZeroGroup)
  BY DEF GroupFits, Groups, ZeroGroup
<1>2. Owned(take, n, 0) = {} /\ \A p : Played(take, n, 0, p) = {}
  BY DEF Owned, Played
<1>3. Cardinality({}) = 0 /\ IsFiniteSet({})
  BY FS_EmptySet
<1>4. \A p : Cardinality(Slots(part, p)) \in Nat
  BY SlotsFinite
<1>5. \A p : Common(take, part, n, 0, p) = 0
  BY <1>2, <1>3, <1>4 DEF Common, LesserOf
<1>6. Pairs(take, part, n, 0) = {}
  BY <1>5 DEF Pairs
<1>7. \A p : Matched(part, ZeroGroup, p) = {}
  BY DEF Matched, ZeroGroup
<1>8. NoSurplus(take, part, n, 0)
  BY <1>2, <1>3, <1>4 DEF NoSurplus
<1>9. MatchesScan(take, part, n, 0, ZeroGroup)
  <2>1. ZeroGroup.matched = {} /\ ZeroGroup.candidates = 0
    BY DEF ZeroGroup
  <2> QED BY <1>2, <1>3, <1>5, <1>6, <1>7, <1>8, <2>1 DEF MatchesScan
<1>10. OnsetScan(take, n, 0, ZeroGroup)
  BY <1>2 DEF OnsetScan, ZeroGroup
<1> QED BY <1>1, <1>9, <1>10 DEF Scan

\* An event the step does not own changes nothing.
LEMMA ScanSkip ==
    ASSUME NEW take, NEW part, NEW n, NEW m \in Nat, NEW l, l = m + 1, NEW g, Scan(take, part, n, m, g),
           ~OwnedByStep(take[l], n)
    PROVE  Scan(take, part, n, l, g)
<1>1. Owned(take, n, l) = Owned(take, n, m)
  BY DEF Owned
<1>2. \A p : Played(take, n, l, p) = Played(take, n, m, p)
  BY <1>1 DEF Played
<1>3. \A p : Common(take, part, n, l, p) = Common(take, part, n, m, p)
  BY <1>2 DEF Common
<1>4. Pairs(take, part, n, l) = Pairs(take, part, n, m)
  BY <1>3 DEF Pairs
<1>5. NoSurplus(take, part, n, l) <=> NoSurplus(take, part, n, m)
  BY <1>2 DEF NoSurplus
<1> QED BY <1>1, <1>3, <1>4, <1>5 DEF Scan, MatchesScan, OnsetScan

\* The group stays one of the step's.
LEMMA ScoredFits ==
    ASSUME NEW part \in Parts, NEW n \in Nat, NEW e \in Notes, NEW g, GroupFits(part, g)
    PROVE  GroupFits(part, Scored(g, part, n, e))
<1> DEFINE open == OpenSlots(part, g.matched, e.pitch)
<1>1. g.candidates \in Nat /\ g.matched \subseteq DOMAIN part.expected /\ g.earliest \in Int
      /\ g.error \in Int /\ g.matched \subseteq Nat
  BY DEF GroupFits, Groups
<1>2. DOMAIN part.expected \subseteq Nat
  BY LenProperties DEF Parts
<1>3. open \subseteq DOMAIN part.expected
  BY DEF OpenSlots
<1>4. open # {} => FirstSlot(open) \in open
  BY <1>2, <1>3, FirstSlotIn
<1>5. e.ns \in Int /\ ExpectedTime(n) \in Int
  BY Arithmetic DEF Notes
<1>6. e.ns - ExpectedTime(n) \in Int
  BY <1>5
<1>7. Milliseconds(e.ns - ExpectedTime(n)) \in Int
  BY <1>6, Arithmetic
<1> HIDE DEF open
<1>8. LET new == IF open = {} THEN g.matched ELSE g.matched \cup {FirstSlot(open)}
      IN  new \subseteq DOMAIN part.expected /\ new \in SUBSET Nat
  BY <1>1, <1>2, <1>3, <1>4
<1>9. Scored(g, part, n, e).matched =
        IF open = {} THEN g.matched ELSE g.matched \cup {FirstSlot(open)}
  BY DEF Scored, open
<1>10. Scored(g, part, n, e) \in Groups
  BY <1>1, <1>5, <1>7, <1>8 DEF Scored, Groups, open
<1> QED BY <1>8, <1>9, <1>10 DEF GroupFits

\* What the counts become with an event the step owns.
LEMMA OwnedNext ==
    ASSUME NEW take, NEW n, NEW m \in Nat, NEW l, l = m + 1, OwnedByStep(take[l], n)
    PROVE  /\ Owned(take, n, l) = Owned(take, n, m) \cup {l}
           /\ l \notin Owned(take, n, m)
           /\ Cardinality(Owned(take, n, l)) = Cardinality(Owned(take, n, m)) + 1
<1>1. Owned(take, n, l) = Owned(take, n, m) \cup {l} /\ l \notin Owned(take, n, m)
  BY DEF Owned
<1>2. Cardinality(Owned(take, n, l)) = Cardinality(Owned(take, n, m)) + 1
  BY <1>1, NotesFinite, FS_AddElement
<1> QED BY <1>1, <1>2

LEMMA PlayedNext ==
    ASSUME NEW take, NEW n, NEW m \in Nat, NEW l, l = m + 1, OwnedByStep(take[l], n),
           NEW p, p = take[l].pitch
    PROVE  Cardinality(Played(take, n, l, p)) = Cardinality(Played(take, n, m, p)) + 1
<1>1. /\ Played(take, n, l, p) = Played(take, n, m, p) \cup {l}
      /\ l \notin Played(take, n, m, p)
  <2>1. Owned(take, n, l) = Owned(take, n, m) \cup {l} /\ l \notin Owned(take, n, m)
    BY OwnedNext
  <2> QED BY <2>1 DEF Played
<1>2. IsFiniteSet(Played(take, n, m, p))
  BY NotesFinite
<1> QED BY <1>1, <1>2, FS_AddElement

LEMMA OthersNext ==
    ASSUME NEW take, NEW n, NEW m \in Nat, NEW l, l = m + 1, OwnedByStep(take[l], n),
           NEW p, p # take[l].pitch
    PROVE  /\ Played(take, n, l, p) = Played(take, n, m, p)
           /\ \A part : Common(take, part, n, l, p) = Common(take, part, n, m, p)
<1>1. Played(take, n, l, p) = Played(take, n, m, p)
  <2>1. Owned(take, n, l) = Owned(take, n, m) \cup {l}
    BY OwnedNext
  <2> QED BY <2>1 DEF Played
<1> QED BY <1>1 DEF Common

\* No slot is open: the pitch has been played as often as it is expected.
LEMMA NoSlotOpen ==
    ASSUME NEW take, NEW part \in Parts, NEW n \in Nat, NEW m \in Nat, NEW l, l = m + 1, NEW g,
           take[l] \in Notes, Scan(take, part, n, m, g), OwnedByStep(take[l], n),
           OpenSlots(part, g.matched, take[l].pitch) = {}
    PROVE  MatchesScan(take, part, n, l, Scored(g, part, n, take[l]))
<1> DEFINE p0 == take[l].pitch
           h == Scored(g, part, n, take[l])
<1>1. h.matched = g.matched /\ h.candidates = g.candidates + 1
  BY DEF Scored
<1> HIDE DEF h
<1>2. GroupFits(part, g) /\ MatchesScan(take, part, n, m, g) /\ p0 \in Int
  BY DEF Scan, Notes
<1>3. Slots(part, p0) = Matched(part, g, p0)
  BY <1>2 DEF GroupFits, Slots, Matched, OpenSlots
<1>4. /\ Cardinality(Slots(part, p0)) \in Nat
      /\ Cardinality(Played(take, n, m, p0)) \in Nat
      /\ Cardinality(Slots(part, p0)) = Common(take, part, n, m, p0)
  BY <1>2, <1>3, NotesFinite, SlotsFinite DEF MatchesScan
<1>5. Cardinality(Slots(part, p0)) <= Cardinality(Played(take, n, m, p0))
  BY <1>4 DEF Common, LesserOf
<1>6. Cardinality(Played(take, n, l, p0)) = Cardinality(Played(take, n, m, p0)) + 1
  <2> DEFINE p == p0
  <2>1. p = take[l].pitch
    OBVIOUS
  <2> HIDE DEF p
  <2>2. Cardinality(Played(take, n, l, p)) = Cardinality(Played(take, n, m, p)) + 1
    BY <2>1, PlayedNext
  <2> QED BY <2>2 DEF p
<1>7. \A p : Common(take, part, n, l, p) = Common(take, part, n, m, p)
  <2>1. Common(take, part, n, l, p0) = Common(take, part, n, m, p0)
    BY <1>4, <1>5, <1>6 DEF Common, LesserOf
  <2> QED BY <2>1, OthersNext
<1>8. Pairs(take, part, n, l) = Pairs(take, part, n, m)
  BY <1>7 DEF Pairs
<1>9. ~NoSurplus(take, part, n, l)
  BY <1>2, <1>4, <1>5, <1>6 DEF NoSurplus
<1>10. \A p : Matched(part, h, p) = Matched(part, g, p)
  BY <1>1 DEF Matched
<1>11. Cardinality(Owned(take, n, l)) = Cardinality(Owned(take, n, m)) + 1
       /\ Cardinality(Owned(take, n, m)) \in Nat /\ Cardinality(g.matched) \in Nat
  BY <1>2, OwnedNext, NotesFinite, MatchedFinite
<1>12. /\ h.candidates = Cardinality(Owned(take, n, l))
       /\ Cardinality(h.matched) <= h.candidates /\ Cardinality(h.matched) # h.candidates
  BY <1>1, <1>2, <1>11 DEF MatchesScan
<1>13. MatchesScan(take, part, n, l, h)
  BY <1>1, <1>2, <1>7, <1>8, <1>9, <1>10, <1>12 DEF MatchesScan
<1> QED BY <1>13 DEF h

\* The first open slot is taken: there is one match more.
LEMMA SlotOpen ==
    ASSUME NEW take, NEW part \in Parts, NEW n \in Nat, NEW m \in Nat, NEW l, l = m + 1, NEW g,
           take[l] \in Notes, Scan(take, part, n, m, g), OwnedByStep(take[l], n),
           OpenSlots(part, g.matched, take[l].pitch) # {}
    PROVE  MatchesScan(take, part, n, l, Scored(g, part, n, take[l]))
<1> DEFINE p0 == take[l].pitch
           open == OpenSlots(part, g.matched, p0)
           h == Scored(g, part, n, take[l])
           c == Common(take, part, n, m, p0)
<1>1. /\ h.matched = g.matched \cup {FirstSlot(open)}
      /\ h.candidates = g.candidates + 1
  BY DEF Scored
<1> HIDE DEF h
<1>2. GroupFits(part, g) /\ MatchesScan(take, part, n, m, g) /\ p0 \in Int
  BY DEF Scan, Notes
<1>3. PICK s \in open : s = FirstSlot(open)
  <2>1. open \subseteq Nat
    BY LenProperties DEF OpenSlots, Parts
  <2> QED BY <2>1, FirstSlotIn
<1>4. s \in Slots(part, p0) /\ s \notin g.matched /\ part.expected[s] = p0
  BY DEF OpenSlots, Slots
<1>5. Matched(part, h, p0) = Matched(part, g, p0) \cup {s} /\ s \notin Matched(part, g, p0)
  BY <1>1, <1>3, <1>4 DEF Matched
<1>6. Cardinality(Matched(part, h, p0)) = c + 1
  <2>1. Cardinality(Matched(part, g, p0)) = c
    BY <1>2 DEF MatchesScan
  <2>2. IsFiniteSet(Matched(part, g, p0))
    BY <1>2, MatchedFinite
  <2> QED BY <1>5, <2>1, <2>2, FS_AddElement
<1>7. ASSUME NEW p, p # p0 PROVE Matched(part, h, p) = Matched(part, g, p)
  BY <1>1, <1>3, <1>4, <1>7 DEF Matched
<1>8. c < Cardinality(Slots(part, p0))
  <2>1. Matched(part, g, p0) \in SUBSET Slots(part, p0) /\ Matched(part, g, p0) # Slots(part, p0)
    BY <1>2, <1>4 DEF GroupFits, Matched, Slots
  <2>2. /\ IsFiniteSet(Slots(part, p0)) /\ Cardinality(Slots(part, p0)) \in Nat
        /\ Cardinality(Matched(part, g, p0)) \in Nat
    BY <1>2, SlotsFinite, MatchedFinite
  <2>3. /\ Cardinality(Matched(part, g, p0)) <= Cardinality(Slots(part, p0))
        /\ Cardinality(Matched(part, g, p0)) # Cardinality(Slots(part, p0))
    BY <2>1, <2>2, FS_Subset
  <2>4. Cardinality(Matched(part, g, p0)) = c
    BY <1>2 DEF MatchesScan
  <2> QED BY <2>2, <2>3, <2>4
<1>9. /\ Cardinality(Played(take, n, m, p0)) \in Nat /\ Cardinality(Slots(part, p0)) \in Nat
      /\ c \in Nat
  BY NotesFinite, SlotsFinite DEF Common, LesserOf
<1>10. c = Cardinality(Played(take, n, m, p0))
  BY <1>8, <1>9 DEF Common, LesserOf
<1>11. Cardinality(Played(take, n, l, p0)) = Cardinality(Played(take, n, m, p0)) + 1
  <2> DEFINE p == p0
  <2>1. p = take[l].pitch
    OBVIOUS
  <2> HIDE DEF p
  <2>2. Cardinality(Played(take, n, l, p)) = Cardinality(Played(take, n, m, p)) + 1
    BY <2>1, PlayedNext
  <2> QED BY <2>2 DEF p
<1>12. Common(take, part, n, l, p0) = c + 1
  <2>1. Cardinality(Played(take, n, l, p0)) = c + 1
    BY <1>10, <1>11
  <2> HIDE DEF c
  <2> QED BY <1>8, <1>9, <2>1 DEF Common, LesserOf
<1>13. \A p : p # p0 => Common(take, part, n, l, p) = Common(take, part, n, m, p)
  BY OthersNext
<1>14. /\ Pairs(take, part, n, l) = Pairs(take, part, n, m) \cup {<<p0, c + 1>>}
       /\ <<p0, c + 1>> \notin Pairs(take, part, n, m)
  <2>1. ASSUME NEW q \in Int \X Nat
        PROVE  q \in Pairs(take, part, n, l) <=>
                 q \in Pairs(take, part, n, m) \cup {<<p0, c + 1>>}
    <3>1. PICK p \in Int, d \in Nat : q = <<p, d>>
      OBVIOUS
    <3> HIDE DEF c, p0
    <3>2. /\ q \in Pairs(take, part, n, l) <=>
               1 <= d /\ d <= Common(take, part, n, l, p)
          /\ q \in Pairs(take, part, n, m) <=> 1 <= d /\ d <= Common(take, part, n, m, p)
      BY <3>1 DEF Pairs
    <3>3. CASE p # p0
      BY <1>13, <3>1, <3>2, <3>3
    <3>4. CASE p = p0
      <4>1. /\ q \in Pairs(take, part, n, l) <=> 1 <= d /\ d <= c + 1
            /\ q \in Pairs(take, part, n, m) <=> 1 <= d /\ d <= c
        BY <1>12, <3>2, <3>4 DEF c
      <4>2. q = <<p0, c + 1>> <=> d = c + 1
        BY <3>1, <3>4
      <4> QED BY <1>9, <4>1, <4>2
    <3> QED BY <3>3, <3>4
  <2>2. <<p0, c + 1>> \in Int \X Nat
    BY <1>2, <1>9
  <2>3. /\ Pairs(take, part, n, l) \subseteq Int \X Nat
        /\ Pairs(take, part, n, m) \subseteq Int \X Nat
    BY DEF Pairs
  <2>4. <<p0, c + 1>> \notin Pairs(take, part, n, m)
    BY <1>9 DEF Pairs
  <2> HIDE DEF c, p0
  <2> QED BY <2>1, <2>2, <2>3, <2>4
<1>15. /\ IsFiniteSet(Pairs(take, part, n, l))
       /\ Cardinality(Pairs(take, part, n, l)) = Cardinality(Pairs(take, part, n, m)) + 1
  BY <1>2, <1>14, FS_AddElement DEF MatchesScan
<1>16. Cardinality(h.matched) = Cardinality(g.matched) + 1
  BY <1>1, <1>2, <1>3, <1>4, MatchedFinite, FS_AddElement
<1>17. NoSurplus(take, part, n, l) <=> NoSurplus(take, part, n, m)
  <2>1. /\ Cardinality(Played(take, n, l, p0)) <= Cardinality(Slots(part, p0))
        /\ Cardinality(Played(take, n, m, p0)) <= Cardinality(Slots(part, p0))
    BY <1>8, <1>9, <1>10, <1>11
  <2>2. \A p : p # p0 => Played(take, n, l, p) = Played(take, n, m, p)
    BY OthersNext
  <2> QED BY <2>1, <2>2 DEF NoSurplus
<1>18. Cardinality(Owned(take, n, l)) = Cardinality(Owned(take, n, m)) + 1
       /\ Cardinality(Owned(take, n, m)) \in Nat /\ Cardinality(g.matched) \in Nat
  BY <1>2, OwnedNext, NotesFinite, MatchedFinite
<1>19. \A p \in Int : Cardinality(Matched(part, h, p)) = Common(take, part, n, l, p)
  BY <1>2, <1>6, <1>7, <1>12, <1>13 DEF MatchesScan
<1>20. /\ h.candidates = Cardinality(Owned(take, n, l))
       /\ Cardinality(h.matched) <= h.candidates
       /\ Cardinality(h.matched) = h.candidates <=> Cardinality(g.matched) = g.candidates
  BY <1>1, <1>2, <1>16, <1>18 DEF MatchesScan
<1>21. MatchesScan(take, part, n, l, h)
  BY <1>2, <1>15, <1>16, <1>17, <1>19, <1>20 DEF MatchesScan
<1> QED BY <1>21 DEF h

LEMMA OnsetNext ==
    ASSUME NEW take, NEW part \in Parts, NEW n \in Nat, NEW m \in Nat, NEW l, l = m + 1, NEW g,
           \A j \in 1 .. l : take[j] \in Notes,
           Scan(take, part, n, m, g), OwnedByStep(take[l], n)
    PROVE  OnsetScan(take, n, l, Scored(g, part, n, take[l]))
<1> DEFINE e == take[l]
           h == Scored(g, part, n, e)
           first == ~g.has \/ e.ns < g.earliest
<1>1. /\ h.has = TRUE
      /\ h.earliest = IF first THEN e.ns ELSE g.earliest
      /\ h.error = IF first THEN Milliseconds(e.ns - ExpectedTime(n)) ELSE g.error
  BY DEF Scored
<1>2. Owned(take, n, l) = Owned(take, n, m) \cup {l}
  BY OwnedNext
<1>3. e.ns \in Int /\ g.earliest \in Int /\ \A j \in Owned(take, n, m) : take[j].ns \in Int
  BY DEF Notes, Scan, GroupFits, Groups, Owned
<1>4. OnsetScan(take, n, m, g)
  BY DEF Scan
<1> HIDE DEF h
<1>5. CASE first
  <2>1. \A j \in Owned(take, n, m) : e.ns <= take[j].ns
    BY <1>3, <1>4, <1>5 DEF OnsetScan
  <2> QED BY <1>1, <1>2, <1>3, <1>5, <2>1 DEF OnsetScan, h
<1>6. CASE ~first
  BY <1>1, <1>2, <1>3, <1>4, <1>6 DEF OnsetScan, h
<1> QED BY <1>5, <1>6

LEMMA ScanTake ==
    ASSUME NEW take, NEW part \in Parts, NEW n \in Nat, NEW m \in Nat, NEW l, l = m + 1, NEW g,
           \A j \in 1 .. l : take[j] \in Notes,
           Scan(take, part, n, m, g), OwnedByStep(take[l], n)
    PROVE  Scan(take, part, n, l, Scored(g, part, n, take[l]))
<1>1. take[l] \in Notes
  OBVIOUS
<1> QED BY <1>1, ScoredFits, NoSlotOpen, SlotOpen, OnsetNext DEF Scan

-----------------------------------------------------------------------------
(* The types, and the scan as an invariant of the run.                     *)

Tallies ==
    [wrong : Nat, missed : Nat, extra : Nat, weak : Nat,
     timed : Nat, error : Nat, early : Nat, late : Nat]

TypeInv ==
    /\ TypeOK
    /\ totals \in Tallies
    /\ at = "step" => k <= passage.stepCount

ScanInv == at = "score" => Scan(events, Step, k, i - 1, group)

LEMMA InputsAre ==
    ASSUME SomeInputs
    PROVE  /\ events \in Seq(Notes) /\ Len(events) \in Nat /\ DOMAIN events = 1 .. Len(events)
           /\ \A j \in 1 .. Len(events) : events[j] \in Notes
           /\ passage.stepCount \in Nat /\ passage.stepCount <= MaxSteps /\ MaxSteps \in Nat
           /\ passage.steps \in Seq(Parts) /\ Len(passage.steps) \in Nat
<1>1. events \in Seq(Notes)
  BY InputsAssumption DEF SomeInputs, Notes
<1>2. passage.stepCount \in 0 .. MaxSteps /\ MaxSteps \in Nat
  BY InputsAssumption DEF SomeInputs
<1>3. passage.steps \in Seq(Parts)
  BY InputsAssumption DEF SomeInputs, Parts
<1>4. Len(events) \in Nat /\ DOMAIN events = 1 .. Len(events) /\ Len(passage.steps) \in Nat
  BY <1>1, <1>3, LenProperties
<1>5. \A j \in 1 .. Len(events) : events[j] \in Notes
  BY <1>1, ElementOfSeq
<1> QED BY <1>1, <1>2, <1>3, <1>4, <1>5

LEMMA StepIs ==
    ASSUME SomeInputs, k \in Nat, k < Len(passage.steps)
    PROVE  Step \in Parts
<1>1. passage.steps \in Seq(Parts) /\ k + 1 \in 1 .. Len(passage.steps)
  BY InputsAre
<1> QED BY <1>1, ElementOfSeq DEF Step

LEMMA CountsAreNumbers ==
    ASSUME NEW part \in Parts, NEW g, GroupFits(part, g)
    PROVE  /\ WrongNotes(g, part) \in Nat /\ MissedNotes(g, part) \in Nat
           /\ ExtraNotes(g, part) \in Nat /\ Magnitude(g.error) \in Nat /\ g.error \in Int
<1>1. g.candidates \in Nat /\ g.error \in Int
  BY DEF GroupFits, Groups
<1>2. Len(part.expected) \in Nat /\ Cardinality(g.matched) \in Nat
  BY SlotsFinite, MatchedFinite
<1>3. Magnitude(g.error) \in Nat
  BY <1>1, Arithmetic
<1>4. \A a \in Nat, b \in Nat : Surplus(a, b) \in Nat /\ LesserOf(a, b) \in Nat
  BY DEF Surplus, LesserOf
<1> QED BY <1>1, <1>2, <1>3, <1>4 DEF WrongNotes, MissedNotes, ExtraNotes

LEMMA OutsideIsNumber ==
    ASSUME SomeInputs, NEW n
    PROVE  /\ IsFiniteSet(OutsidePassage(events, n))
           /\ Cardinality(OutsidePassage(events, n)) \in Nat
<1>1. IsFiniteSet(1 .. Len(events))
  BY InputsAre, FS_Interval
<1>2. OutsidePassage(events, n) \in SUBSET (1 .. Len(events))
  BY InputsAre DEF OutsidePassage
<1> QED BY <1>1, <1>2, FS_Subset, FS_CardinalityType

LEMMA ScoreIs ==
    ASSUME TypeInv, at = "score"
    PROVE  /\ k \in Nat /\ k < passage.stepCount /\ k < Len(passage.steps)
           /\ i \in Nat \ {0} /\ i <= Len(events) + 1
           /\ Step \in Parts /\ GroupFits(Step, group)
<1>1. k \in Nat /\ k < passage.stepCount /\ k < Len(passage.steps) /\ SomeInputs
      /\ i \in Nat \ {0} /\ i <= Len(events) + 1
      /\ group \in Groups /\ group.matched \subseteq DOMAIN Step.expected
  BY InputsAssumption DEF TypeInv, TypeOK
<1> QED BY <1>1, StepIs DEF GroupFits

LEMMA TypeInit == Init => TypeInv
<1> SUFFICES ASSUME Init PROVE TypeInv
  OBVIOUS
<1>1. SomeInputs /\ MaxSteps \in Nat /\ MaxRuns \in Nat
  BY InputsAssumption DEF Init
<1>2. ZeroGroup \in Groups /\ ZeroTotals \in Tallies
  BY DEF ZeroGroup, Groups, ZeroTotals, Tallies
<1>3. \A field \in {"wrong", "missed", "extra", "weak", "timed", "error", "early", "late"} :
        ZeroTotals[field] \in Nat
  BY DEF ZeroTotals
<1> QED BY <1>1, <1>2, <1>3 DEF Init, TypeInv, TypeOK, Statuses

\* The fields, as TypeOK lists them.
LEMMA TalliesAreNumbers ==
    ASSUME NEW t \in Tallies
    PROVE  \A field \in {"wrong", "missed", "extra", "weak", "timed", "error", "early", "late"} :
             t[field] \in Nat
BY DEF Tallies

LEMMA TypeStep == TypeInv /\ [Next]_vars => TypeInv'
<1> SUFFICES ASSUME TypeInv, [Next]_vars PROVE TypeInv'
  OBVIOUS
<1> USE DEF TypeInv
<1>1. /\ SomeInputs /\ runs \in Nat /\ MaxRuns \in Nat /\ runs <= MaxRuns
      /\ k \in 0 .. MaxSteps /\ i \in Nat \ {0} /\ totals \in Tallies
      /\ DOMAIN stepRows = 0 .. MaxSteps - 1 /\ group \in Groups /\ returned \in Statuses
  BY InputsAssumption DEF TypeOK
\* The record keeps its type in every step.
<1>2. ASSUME totals' \in Tallies PROVE
        \A field \in {"wrong", "missed", "extra", "weak", "timed", "error", "early", "late"} :
             totals'[field] \in Nat
  BY <1>2, TalliesAreNumbers
<1>3. CASE ReplaceInputs
  BY <1>1, <1>3 DEF ReplaceInputs, TypeOK, SomeInputs, database, locals, Statuses
<1>4. CASE BeginRun
  <2>1. totals' = ZeroTotals /\ ZeroTotals \in Tallies /\ k' = 0 /\ runs' = runs + 1
        /\ runs < MaxRuns /\ UNCHANGED <<inputs, database, i, group>>
    BY <1>4 DEF BeginRun, ZeroTotals, Tallies
  <2>2. \/ at' = "step" /\ returned' = "none"
        \/ at' = "idle" /\ returned' \in Statuses
    BY <1>4 DEF BeginRun, Return, RunStatus, Statuses
  <2>3. 0 \in 0 .. MaxSteps /\ 0 <= passage.stepCount
    BY <1>1, InputsAre
  <2> QED
    BY <1>1, <1>2, <2>1, <2>2, <2>3 DEF TypeOK, SomeInputs, inputs, database, Statuses
<1>5. CASE LoadFails
  BY <1>1, <1>5 DEF LoadFails, Return, TypeOK, SomeInputs, inputs, database, locals, Statuses
<1>6. CASE FindStep
  <2>1. k < passage.stepCount /\ k < Len(passage.steps) /\ at' = "score" /\ i' = 1
        /\ group' = ZeroGroup
        /\ UNCHANGED <<inputs, database, k, totals, returned, runs>>
    BY <1>6 DEF FindStep
  <2>2. ZeroGroup \in Groups /\ ZeroGroup.matched = {} /\ 1 <= Len(events) + 1
    BY <1>1, InputsAre DEF ZeroGroup, Groups
  <2> QED BY <1>1, <1>2, <2>1, <2>2 DEF TypeOK, SomeInputs, inputs, database, Step
<1>7. CASE StepNotFound \/ StoreStepFails \/ StoreAnalysisFails \/ Crash
  <2>1. at' = "idle" /\ returned' \in Statuses
        /\ UNCHANGED <<inputs, database, locals, runs>>
    BY <1>7 DEF StepNotFound, StoreStepFails, StoreAnalysisFails, Crash, Return, Statuses
  <2> QED BY <1>1, <2>1 DEF TypeOK, SomeInputs, inputs, database, locals
<1>8. CASE ScoreEvent
  <2>1. /\ at = "score" /\ i <= Len(events) /\ i' = i + 1
        /\ group' = IF OwnedByStep(events[i], k) THEN Scored(group, Step, k, events[i])
                    ELSE group
        /\ UNCHANGED <<inputs, database, at, k, totals, returned, runs>>
    BY <1>8 DEF ScoreEvent
  <2>2. Step' = Step
    BY <2>1 DEF Step, inputs
  <2>3. events[i] \in Notes
    BY <1>1, <2>1, InputsAre
  <2>4. GroupFits(Step, group')
    <3>1. GroupFits(Step, group) /\ Step \in Parts /\ k \in Nat
      BY <2>1, ScoreIs
    <3> QED BY <2>1, <2>3, <3>1, ScoredFits
  <2>5. i' \in Nat \ {0} /\ i' <= Len(events) + 1
    BY <1>1, <2>1, InputsAre
  <2> QED BY <1>1, <1>2, <2>1, <2>2, <2>4, <2>5
          DEF TypeOK, SomeInputs, inputs, database, GroupFits
<1>9. CASE StoreStep
  <2>1. at = "score" /\ totals' = TotalsAfterStep /\ k' = k + 1 /\ at' = "step"
        /\ stepRows' = [stepRows EXCEPT ![k] = StepRow]
        /\ UNCHANGED <<inputs, result, i, group, returned, runs>>
    BY <1>9 DEF StoreStep
  <2>2. Step \in Parts /\ GroupFits(Step, group) /\ k \in Nat /\ k < passage.stepCount
    BY <2>1, ScoreIs
  <2>3. TotalsAfterStep \in Tallies
    <3>1. /\ WrongNotes(group, Step) \in Nat /\ MissedNotes(group, Step) \in Nat
          /\ ExtraNotes(group, Step) \in Nat /\ Magnitude(group.error) \in Nat
          /\ group.error \in Int
      BY <2>2, CountsAreNumbers
    <3>2. \A b \in BOOLEAN : (IF b THEN 1 ELSE 0) \in Nat
      OBVIOUS
    <3>3. (IF StepRow.timing = "EARLY" /\ -group.error > totals.early
           THEN -group.error ELSE totals.early) \in Nat
      BY <1>1, <3>1 DEF Tallies
    <3>4. (IF StepRow.timing = "LATE" /\ group.error > totals.late
           THEN group.error ELSE totals.late) \in Nat
      BY <1>1, <3>1 DEF Tallies
    <3>5. /\ totals.wrong \in Nat /\ totals.missed \in Nat /\ totals.extra \in Nat
          /\ totals.weak \in Nat /\ totals.timed \in Nat /\ totals.error \in Nat
      BY <1>1 DEF Tallies
    <3>6. /\ totals.weak + (IF IsWeak(StepRow.pitch, StepRow.timing) THEN 1 ELSE 0) \in Nat
          /\ totals.timed + (IF group.has THEN 1 ELSE 0) \in Nat
          /\ totals.error + (IF group.has THEN Magnitude(group.error) ELSE 0) \in Nat
      BY <3>1, <3>5
    <3> QED BY <3>1, <3>3, <3>4, <3>5, <3>6 DEF TotalsAfterStep, Tallies
  <2>4. k' \in 0 .. MaxSteps /\ k' <= passage.stepCount
    BY <1>1, <2>1, <2>2, InputsAre
  <2> QED BY <1>1, <1>2, <2>1, <2>3, <2>4 DEF TypeOK, SomeInputs, inputs
<1>10. CASE StoreAnalysis
  <2>1. totals' = FinalTotals /\ at' = "idle" /\ returned' = "HT_OK"
        /\ UNCHANGED <<inputs, stepRows, k, i, group, runs>>
    BY <1>10 DEF StoreAnalysis, Return
  <2>2. FinalTotals \in Tallies
    BY <1>1, OutsideIsNumber DEF FinalTotals, Tallies
  <2> QED BY <1>1, <1>2, <2>1, <2>2 DEF TypeOK, SomeInputs, inputs, Statuses
<1>11. CASE UNCHANGED vars
  BY <1>11 DEF vars, TypeOK, SomeInputs, inputs, database, locals, Step
<1> QED
  BY <1>3, <1>4, <1>5, <1>6, <1>7, <1>8, <1>9, <1>10, <1>11 DEF Next

\* The counters, the slots and the indexes of a run keep their types.
THEOREM TypeCorrect == Spec => []TypeOK
<1>1. TypeInv => TypeOK
  BY DEF TypeInv
<1> QED BY <1>1, TypeInit, TypeStep, PTL DEF Spec

-----------------------------------------------------------------------------
(* The scan is optimal.                                                    *)

LEMMA ScanInit == Init => ScanInv
BY DEF Init, ScanInv

LEMMA ScanStep == TypeInv /\ ScanInv /\ [Next]_vars => ScanInv'
<1> SUFFICES ASSUME TypeInv, ScanInv, [Next]_vars PROVE ScanInv'
  OBVIOUS
<1>1. CASE FindStep
  <2>1. /\ k < passage.stepCount /\ k < Len(passage.steps) /\ at' = "score"
        /\ i' = 1 /\ group' = ZeroGroup /\ UNCHANGED <<inputs, k>>
    BY <1>1 DEF FindStep
  <2>2. SomeInputs /\ k \in Nat
    BY InputsAssumption DEF TypeInv, TypeOK
  <2>3. Scan(events, Step, k, 0, ZeroGroup)
    BY <2>1, <2>2, StepIs, ScanStart
  <2>4. i' - 1 = 0
    BY <2>1
  <2> QED BY <2>1, <2>3, <2>4 DEF ScanInv, Step, inputs
<1>2. CASE ScoreEvent
  <2>1. /\ at = "score" /\ i <= Len(events) /\ i' = i + 1
        /\ group' = IF OwnedByStep(events[i], k) THEN Scored(group, Step, k, events[i])
                    ELSE group
        /\ UNCHANGED <<inputs, at, k>>
    BY <1>2 DEF ScoreEvent
  <2>2. SomeInputs /\ k \in Nat /\ i \in Nat \ {0} /\ Step \in Parts
    BY <2>1, ScoreIs DEF TypeInv, TypeOK
  <2>3. PICK m \in Nat : m = i - 1 /\ i = m + 1 /\ i' - 1 = i
    BY <2>1, <2>2
  <2>4. Scan(events, Step, k, m, group)
    BY <2>1, <2>3 DEF ScanInv
  <2>5. \A j \in 1 .. i : events[j] \in Notes
    BY <2>1, <2>2, InputsAre
  <2>6. Scan(events, Step, k, i, group')
    <3>1. CASE OwnedByStep(events[i], k)
      BY <2>1, <2>2, <2>3, <2>4, <2>5, <3>1, ScanTake
    <3>2. CASE ~OwnedByStep(events[i], k)
      BY <2>1, <2>3, <2>4, <3>2, ScanSkip
    <3> QED BY <3>1, <3>2
  <2> QED BY <2>1, <2>3, <2>6 DEF ScanInv, Step, inputs
<1>3. CASE ReplaceInputs \/ BeginRun \/ LoadFails \/ StepNotFound \/ StoreStep
           \/ StoreStepFails \/ StoreAnalysis \/ StoreAnalysisFails \/ Crash
  BY <1>3 DEF ReplaceInputs, BeginRun, LoadFails, StepNotFound, StoreStep, StoreStepFails,
              StoreAnalysis, StoreAnalysisFails, Crash, Return, ScanInv
<1>4. CASE UNCHANGED vars
  BY <1>4 DEF vars, ScanInv, Step, inputs, locals
<1> QED BY <1>1, <1>2, <1>3, <1>4 DEF Next

\* When the scan is over it has seen the whole take.
LEMMA ScanDone ==
    ASSUME TypeInv, ScanInv, at = "score", i > Len(events)
    PROVE  Scan(events, Step, k, Len(events), group)
<1>1. i - 1 = Len(events)
  BY ScoreIs, InputsAre DEF TypeInv, TypeOK
<1> QED BY <1>1 DEF ScanInv

\* A common note has been played.
LEMMA CommonIsPlayed ==
    ASSUME NEW take, NEW part \in Parts, NEW n, NEW m \in Nat, NEW p,
           1 <= Common(take, part, n, m, p)
    PROVE  Played(take, n, m, p) # {}
<1>1. Cardinality(Played(take, n, m, p)) \in Nat /\ Cardinality(Slots(part, p)) \in Nat
  BY NotesFinite, SlotsFinite
<1>2. Cardinality(Played(take, n, m, p)) # 0
  BY <1>1 DEF Common, LesserOf
<1> QED BY <1>2, FS_EmptySet

\* The greedy scan of score_step_group finds as many matches as any pairing of
\* played with expected notes could, and the earliest onset, for every take, in
\* whatever order its events were captured, and for every step.
THEOREM ScanCorrect == Spec => []ScanIsOptimal
<1>1. TypeInv /\ ScanInv => ScanIsOptimal
  <2> SUFFICES ASSUME TypeInv, ScanInv, at = "score", i > Len(events) PROVE ScanIsOptimal
    BY DEF ScanIsOptimal
  <2> DEFINE owned == {j \in DOMAIN events : OwnedByStep(events[j], k)}
             C(pitch) ==
                LesserOf(Cardinality({j \in owned : events[j].pitch = pitch}),
                         Cardinality({s \in DOMAIN Step.expected : Step.expected[s] = pitch}))
             pairs == UNION {{events[j].pitch} \X (1 .. C(events[j].pitch)) : j \in owned}
  <2>1. PICK m \in Nat : m = Len(events) /\ DOMAIN events = 1 .. m
    BY InputsAre DEF TypeInv, TypeOK
  <2>2. Scan(events, Step, k, m, group) /\ Step \in Parts
    BY <2>1, ScanDone, ScoreIs
  <2>3. owned = Owned(events, k, m)
    BY <2>1 DEF Owned
  <2>4. ASSUME NEW p PROVE C(p) = Common(events, Step, k, m, p)
    BY <2>3 DEF Common, Played, Slots
  <2>5. \A j \in owned : events[j].pitch \in Int
    BY <2>1, InputsAre DEF TypeInv, TypeOK, Notes
  <2> HIDE DEF C
  <2>6. ASSUME NEW q PROVE q \in pairs <=> q \in Pairs(events, Step, k, m)
    <3>1. ASSUME q \in pairs PROVE q \in Pairs(events, Step, k, m)
      <4>1. PICK j \in owned : q \in {events[j].pitch} \X (1 .. C(events[j].pitch))
        BY <3>1
      <4>2. PICK p : p = events[j].pitch /\ p \in Int
        BY <2>5
      <4>3. PICK d \in 1 .. C(p) : q = <<p, d>>
        BY <4>1, <4>2
      <4>4. Common(events, Step, k, m, p) \in Nat /\ C(p) = Common(events, Step, k, m, p)
        BY <2>2, <2>4, NotesFinite, SlotsFinite DEF Common, LesserOf
      <4>5. d \in Nat /\ 1 <= d /\ d <= Common(events, Step, k, m, p)
        BY <4>3, <4>4
      <4> QED BY <4>2, <4>3, <4>5 DEF Pairs
    <3>2. ASSUME q \in Pairs(events, Step, k, m) PROVE q \in pairs
      <4>1. PICK p \in Int, d \in Nat :
              q = <<p, d>> /\ 1 <= d /\ d <= Common(events, Step, k, m, p)
        BY <3>2 DEF Pairs
      <4>2. Common(events, Step, k, m, p) \in Nat /\ C(p) = Common(events, Step, k, m, p)
        BY <2>2, <2>4, NotesFinite, SlotsFinite DEF Common, LesserOf
      <4>3. d \in 1 .. C(p) /\ 1 <= Common(events, Step, k, m, p)
        BY <4>1, <4>2
      <4>4. Played(events, k, m, p) # {}
        BY <2>2, <4>3, CommonIsPlayed
      <4>5. PICK j \in owned : events[j].pitch = p
        BY <2>3, <4>4 DEF Played
      <4> QED BY <4>1, <4>3, <4>5
    <3> QED BY <3>1, <3>2
  <2>7. pairs = Pairs(events, Step, k, m)
    BY <2>6
  <2>8. /\ group.candidates = Cardinality(owned)
        /\ Cardinality(group.matched) = Cardinality(pairs)
    BY <2>2, <2>3, <2>7 DEF Scan, MatchesScan
  <2>9. /\ group.has <=> owned # {}
        /\ group.has =>
             /\ \A j \in owned : group.earliest <= events[j].ns
             /\ \E j \in owned :
                  /\ group.earliest = events[j].ns
                  /\ group.error = Milliseconds(events[j].ns - ExpectedTime(k))
    BY <2>2, <2>3 DEF Scan, OnsetScan
  <2> HIDE DEF pairs
  <2> QED BY <2>8, <2>9 DEF ScanIsOptimal, pairs, C
<1>2. TypeInv /\ ScanInv /\ [Next]_vars => (TypeInv /\ ScanInv)'
  BY TypeStep, ScanStep
<1> QED BY <1>1, <1>2, TypeInit, ScanInit, PTL DEF Spec

-----------------------------------------------------------------------------
(* What a step's row says of it.                                           *)

\* "MATCH" is said of a step when every pitch was played as often as expected.
LEMMA MatchTells ==
    ASSUME NEW take, NEW part \in Parts, NEW n, NEW m \in Nat, NEW g, Scan(take, part, n, m, g)
    PROVE  PitchStatus(g, part) = "MATCH" <=>
             \A p \in Int : Cardinality(Played(take, n, m, p)) = Cardinality(Slots(part, p))
<1>1. GroupFits(part, g) /\ MatchesScan(take, part, n, m, g)
  BY DEF Scan
<1>2. /\ g.matched \in SUBSET DOMAIN part.expected /\ IsFiniteSet(DOMAIN part.expected)
      /\ Cardinality(DOMAIN part.expected) = Len(part.expected) /\ Len(part.expected) \in Nat
      /\ g.candidates \in Nat /\ Cardinality(g.matched) \in Nat
  BY <1>1, SlotsFinite, MatchedFinite DEF GroupFits, Groups
<1>3. PitchStatus(g, part) = "MATCH" <=>
        Cardinality(g.matched) = Len(part.expected) /\ g.candidates = Len(part.expected)
  BY <1>2 DEF PitchStatus
<1>4. ASSUME NEW p
      PROVE  /\ Cardinality(Played(take, n, m, p)) \in Nat
             /\ Cardinality(Slots(part, p)) \in Nat /\ IsFiniteSet(Slots(part, p))
             /\ Matched(part, g, p) \in SUBSET Slots(part, p)
  BY <1>1, NotesFinite, SlotsFinite DEF Matched, Slots, GroupFits
<1>5. ASSUME Cardinality(g.matched) = Len(part.expected), g.candidates = Len(part.expected),
             NEW p \in Int
      PROVE  Cardinality(Played(take, n, m, p)) = Cardinality(Slots(part, p))
  <2>1. g.matched = DOMAIN part.expected
    BY <1>2, <1>5, FS_Subset
  <2>2. Matched(part, g, p) = Slots(part, p)
    BY <2>1 DEF Matched, Slots
  <2>3. Cardinality(Slots(part, p)) = Common(take, part, n, m, p)
    BY <1>1, <2>2 DEF MatchesScan
  <2>4. Cardinality(Slots(part, p)) <= Cardinality(Played(take, n, m, p))
    BY <1>4, <2>3 DEF Common, LesserOf
  <2>5. Cardinality(Played(take, n, m, p)) <= Cardinality(Slots(part, p))
    BY <1>1, <1>5 DEF MatchesScan, NoSurplus
  <2> QED BY <1>4, <2>4, <2>5
<1>6. ASSUME \A p \in Int : Cardinality(Played(take, n, m, p)) = Cardinality(Slots(part, p))
      PROVE  Cardinality(g.matched) = Len(part.expected) /\ g.candidates = Len(part.expected)
  <2>1. Cardinality(g.matched) = g.candidates
    BY <1>1, <1>4, <1>6 DEF MatchesScan, NoSurplus
  <2>2. ASSUME NEW s \in DOMAIN part.expected PROVE s \in g.matched
    <3>1. PICK p \in Int : p = part.expected[s]
      BY SlotsFinite, ElementOfSeq DEF Parts
    <3>2. Cardinality(Matched(part, g, p)) = Cardinality(Slots(part, p))
      <4>1. Cardinality(Matched(part, g, p)) = Common(take, part, n, m, p)
        BY <1>1 DEF MatchesScan
      <4>2. Cardinality(Played(take, n, m, p)) = Cardinality(Slots(part, p))
        BY <1>6
      <4> QED BY <1>4, <4>1, <4>2 DEF Common, LesserOf
    <3>3. Matched(part, g, p) = Slots(part, p)
      BY <1>4, <3>2, FS_Subset
    <3> QED BY <3>1, <3>3 DEF Matched, Slots
  <2>3. g.matched = DOMAIN part.expected
    BY <1>2, <2>2
  <2> QED BY <1>2, <2>1, <2>3
<1> QED BY <1>3, <1>5, <1>6

\* The row is weak unless the step was played as written.
LEMMA RowTells ==
    ASSUME TypeInv, ScanInv, at = "score", i > Len(events)
    PROVE  IsWeak(StepRow.pitch, StepRow.timing) <=> ~PlayedAsWritten(k)
<1> DEFINE owned == {j \in DOMAIN events : OwnedByStep(events[j], k)}
           Count(p) == Cardinality({j \in owned : events[j].pitch = p})
           Expected(p) ==
               Cardinality({s \in DOMAIN Step.expected : Step.expected[s] = p})
           pitches == {events[j].pitch : j \in owned}
                        \cup {Step.expected[s] : s \in DOMAIN Step.expected}
           Early(first) == \A j \in owned : events[first].ns <= events[j].ns
           Near(first) == Magnitude(Milliseconds(events[first].ns - ExpectedTime(k))) <= Step.window
<1>1. PICK m \in Nat : m = Len(events) /\ DOMAIN events = 1 .. m
  BY InputsAre DEF TypeInv, TypeOK
<1>2. Scan(events, Step, k, m, group) /\ Step \in Parts
  BY <1>1, ScanDone, ScoreIs
<1>3. owned = Owned(events, k, m)
  BY <1>1 DEF Owned
<1>4. \A j \in owned : events[j].pitch \in Int /\ events[j].ns \in Int
  BY <1>1, InputsAre DEF TypeInv, TypeOK, Notes
<1>5. \A s \in DOMAIN Step.expected : Step.expected[s] \in Int
  BY <1>2, SlotsFinite, ElementOfSeq DEF Parts
<1>6. ASSUME NEW p
      PROVE  /\ Count(p) = Cardinality(Played(events, k, m, p))
             /\ Expected(p) = Cardinality(Slots(Step, p))
             /\ p \notin pitches => Count(p) = Expected(p)
  <2>1. Count(p) = Cardinality(Played(events, k, m, p)) /\ Expected(p) = Cardinality(Slots(Step, p))
    BY <1>3 DEF Played, Slots
  <2>2. ASSUME p \notin pitches PROVE Count(p) = Expected(p)
    <3>1. /\ {j \in owned : events[j].pitch = p} = {}
          /\ {s \in DOMAIN Step.expected : Step.expected[s] = p} = {}
      BY <2>2
    <3> QED BY <3>1
  <2> QED BY <2>1, <2>2
<1> HIDE DEF Count, Expected
<1>7. PitchStatus(group, Step) = "MATCH" <=> \A p \in pitches : Count(p) = Expected(p)
  <2>1. PitchStatus(group, Step) = "MATCH" <=>
          \A p \in Int : Cardinality(Played(events, k, m, p)) = Cardinality(Slots(Step, p))
    BY <1>2, MatchTells
  <2>2. pitches \subseteq Int
    BY <1>4, <1>5
  <2> HIDE DEF pitches
  <2> QED BY <1>6, <2>1, <2>2
<1>8. OnsetScan(events, k, m, group)
  BY <1>2 DEF Scan
<1>9. group.has <=> owned # {}
  BY <1>3, <1>8 DEF OnsetScan
<1>10. ASSUME group.has
       PROVE  TimingStatus(group, Step) = "ON_TIME" <=>
                \E first \in owned : Early(first) /\ Near(first)
  <2>1. PICK f \in owned :
          /\ group.earliest = events[f].ns
          /\ group.error = Milliseconds(events[f].ns - ExpectedTime(k))
    BY <1>3, <1>8, <1>10 DEF OnsetScan
  <2>2. Early(f)
    BY <1>3, <1>8, <1>10, <2>1 DEF OnsetScan
  <2>3. TimingStatus(group, Step) = "ON_TIME" <=> Near(f)
    BY <1>10, <2>1 DEF TimingStatus
  <2>4. ASSUME NEW first \in owned, Early(first) PROVE events[first].ns = events[f].ns
    BY <1>4, <2>2, <2>4
  <2>5. ASSUME NEW first \in owned, Early(first) PROVE Near(first) <=> Near(f)
    BY <2>4, <2>5
  <2> HIDE DEF Early, Near
  <2> QED BY <2>2, <2>3, <2>5
<1>11. ~group.has => TimingStatus(group, Step) # "ON_TIME"
  BY DEF TimingStatus
<1>12. IsWeak(StepRow.pitch, StepRow.timing) <=>
         ~(PitchStatus(group, Step) = "MATCH" /\ TimingStatus(group, Step) = "ON_TIME")
  BY DEF IsWeak, StepRow
<1>13. PlayedAsWritten(k) <=>
         /\ owned # {} /\ \A p \in pitches : Count(p) = Expected(p)
         /\ \E first \in owned : Early(first) /\ Near(first)
  BY DEF PlayedAsWritten, Step, Count, Expected
<1> HIDE DEF Early, Near, pitches, owned
<1> QED BY <1>7, <1>9, <1>10, <1>11, <1>12, <1>13

-----------------------------------------------------------------------------
(* What a run has stored.                                                  *)

RowIsWeak(j) == IsWeak(stepRows[j].pitch, stepRows[j].timing)
WeakRows(n) == {j \in 0 .. n - 1 : RowIsWeak(j)}

\* A run has stored a row of its own for every step before step k, each weak
\* unless the step was played as written, and has counted the weak ones.
RowsInv ==
    at # "idle" =>
        /\ returned = "none"
        /\ \A j \in 0 .. k - 1 : stepRows[j].run = runs
        /\ \A j \in 0 .. k - 1 : RowIsWeak(j) <=> ~PlayedAsWritten(j)
        /\ totals.weak = Cardinality(WeakRows(k))

StoredInv ==
    returned = "HT_OK" => at = "idle" /\ RowsAgreeWithResult /\ WeakStepsAreReal

\* No row is of a later run than the last; while a run is on, the rows it has
\* not reached are of earlier ones.
RowDatesInv ==
    /\ runs \in Nat
    /\ at # "idle" => runs > 0
    /\ \A j \in DOMAIN stepRows :
         /\ stepRows[j].run \in Nat /\ stepRows[j].run <= runs
         /\ at # "idle" /\ j >= k => stepRows[j].run < runs

RunInv == TypeInv /\ ScanInv /\ RowsInv /\ RowDatesInv /\ StoredInv

LEMMA RowsInit == Init => RowsInv /\ StoredInv
BY DEF Init, RowsInv, StoredInv

\* A step of a run that stores no row.
LEMMA RowsStay ==
    ASSUME RowsInv, at # "idle", UNCHANGED <<inputs, stepRows, k, totals, runs>>,
           at' # "idle" => returned' = returned
    PROVE  RowsInv'
<1>1. \A j : PlayedAsWritten(j)' <=> PlayedAsWritten(j)
  BY DEF PlayedAsWritten, inputs
<1>2. \A j : RowIsWeak(j)' <=> RowIsWeak(j)
  BY DEF RowIsWeak
<1>3. WeakRows(k)' = WeakRows(k)
  BY <1>2 DEF WeakRows
<1> QED BY <1>1, <1>2, <1>3 DEF RowsInv

LEMMA RowsStep == TypeInv /\ ScanInv /\ RowsInv /\ [Next]_vars => RowsInv'
<1> SUFFICES ASSUME TypeInv, ScanInv, RowsInv, [Next]_vars PROVE RowsInv'
  OBVIOUS
<1>1. CASE ReplaceInputs \/ LoadFails
  BY <1>1 DEF ReplaceInputs, LoadFails, Return, RowsInv
<1>2. CASE BeginRun
  <2>1. k' = 0 /\ totals'.weak = 0 /\ (at' # "idle" => returned' = "none")
    BY <1>2 DEF BeginRun, Return, ZeroTotals
  <2>2. 0 .. k' - 1 = {}
    BY <2>1
  <2>3. WeakRows(k)' = {} /\ Cardinality({}) = 0
    BY <2>2, FS_EmptySet DEF WeakRows
  <2> QED BY <2>1, <2>2, <2>3 DEF RowsInv
<1>3. CASE FindStep \/ ScoreEvent
  <2>1. /\ at # "idle" /\ returned' = returned
        /\ UNCHANGED <<inputs, stepRows, k, totals, runs>>
    BY <1>3 DEF FindStep, ScoreEvent, database
  <2> QED BY <2>1, RowsStay
<1>4. CASE StepNotFound \/ StoreStepFails \/ StoreAnalysis \/ StoreAnalysisFails \/ Crash
  BY <1>4 DEF StepNotFound, StoreStepFails, StoreAnalysis, StoreAnalysisFails, Crash, Return,
              RowsInv
<1>5. CASE StoreStep
  <2>1. /\ at = "score" /\ i > Len(events) /\ totals' = TotalsAfterStep
        /\ stepRows' = [stepRows EXCEPT ![k] = StepRow] /\ k' = k + 1 /\ at' = "step"
        /\ UNCHANGED <<inputs, returned, runs>>
    BY <1>5 DEF StoreStep
  <2>2. /\ k \in Nat /\ k \in 0 .. MaxSteps - 1 /\ DOMAIN stepRows = 0 .. MaxSteps - 1
    BY <2>1, ScoreIs, InputsAre DEF TypeInv, TypeOK
  <2>3. PICK q \in Nat : q = k /\ stepRows'[q] = StepRow /\ \A j \in 0 .. k - 1 : stepRows'[j] = stepRows[j]
    BY <2>1, <2>2
  <2>4. \A j : PlayedAsWritten(j)' <=> PlayedAsWritten(j)
    BY <2>1 DEF PlayedAsWritten, inputs
  <2>5. \A j \in 0 .. k - 1 : RowIsWeak(j)' <=> RowIsWeak(j)
    BY <2>3 DEF RowIsWeak
  <2>6. RowIsWeak(q)' <=> ~PlayedAsWritten(q)
    <3>1. IsWeak(StepRow.pitch, StepRow.timing) <=> ~PlayedAsWritten(k)
      BY <2>1, RowTells
    <3> QED BY <2>3, <3>1 DEF RowIsWeak
  <2>7. stepRows'[q].run = runs
    BY <2>3 DEF StepRow
  <2>8. 0 .. k' - 1 = (0 .. k - 1) \cup {k} /\ k \notin 0 .. k - 1
    BY <2>1, <2>2
  <2>9. /\ IsFiniteSet(WeakRows(k)) /\ k \notin WeakRows(k)
        /\ WeakRows(k) \in SUBSET (0 .. k - 1)
    <3>1. WeakRows(k) \in SUBSET (0 .. k - 1) /\ IsFiniteSet(0 .. k - 1)
      BY <2>2, FS_Interval DEF WeakRows
    <3> QED BY <2>8, <3>1, FS_Subset
  <2>10. WeakRows(k)' = IF RowIsWeak(q)' THEN WeakRows(k) \cup {k} ELSE WeakRows(k)
    <3>1. WeakRows(k)' = {j \in (0 .. k - 1) \cup {q} : RowIsWeak(j)'}
      BY <2>3, <2>8 DEF WeakRows
    <3> QED BY <2>3, <2>5, <2>8, <3>1 DEF WeakRows
  <2>11. RowIsWeak(q)' <=> IsWeak(StepRow.pitch, StepRow.timing)
    BY <2>3 DEF RowIsWeak
  <2>12. totals'.weak = Cardinality(WeakRows(k)')
    <3>1. totals.weak = Cardinality(WeakRows(k)) /\ totals.weak \in Nat
      BY <2>1 DEF RowsInv, TypeInv, Tallies
    <3>2. totals'.weak = totals.weak + IF RowIsWeak(q)' THEN 1 ELSE 0
      BY <2>1, <2>11 DEF TotalsAfterStep
    <3>3. CASE RowIsWeak(q)'
      <4>1. WeakRows(k)' = WeakRows(k) \cup {k}
        BY <2>10, <3>3
      <4>2. Cardinality(WeakRows(k) \cup {k}) = Cardinality(WeakRows(k)) + 1
        BY <2>9, FS_AddElement
      <4> QED BY <3>1, <3>2, <3>3, <4>1, <4>2
    <3>4. CASE ~RowIsWeak(q)'
      BY <2>10, <3>1, <3>2, <3>4
    <3> QED BY <3>3, <3>4
  <2>13. returned' = "none"
    BY <2>1 DEF RowsInv
  <2>14. ASSUME NEW j \in 0 .. k' - 1
         PROVE  stepRows'[j].run = runs' /\ (RowIsWeak(j)' <=> ~PlayedAsWritten(j)')
    <3>1. CASE j = q
      BY <2>1, <2>3, <2>4, <2>6, <2>7, <3>1
    <3>2. CASE j \in 0 .. k - 1
      BY <2>1, <2>3, <2>4, <2>5, <3>2 DEF RowsInv
    <3> QED BY <2>3, <2>8, <3>1, <3>2
  <2> QED BY <2>12, <2>13, <2>14 DEF RowsInv
<1>6. CASE UNCHANGED vars
  <2>1. UNCHANGED <<inputs, stepRows, k, totals, runs, at, returned>>
    BY <1>6 DEF vars, database, locals
  <2> QED BY <2>1, RowsStay DEF RowsInv
<1> QED BY <1>1, <1>2, <1>3, <1>4, <1>5, <1>6 DEF Next

LEMMA DatesInit == Init => RowDatesInv
<1> SUFFICES ASSUME Init PROVE RowDatesInv
  OBVIOUS
<1>1. \A j \in DOMAIN stepRows : stepRows[j].run = 0
  BY DEF Init, NoRow
<1> QED BY <1>1 DEF Init, RowDatesInv

LEMMA DatesStep == TypeInv /\ RowDatesInv /\ [Next]_vars => RowDatesInv'
<1> SUFFICES ASSUME TypeInv, RowDatesInv, [Next]_vars PROVE RowDatesInv'
  OBVIOUS
<1>1. CASE BeginRun \/ LoadFails
  <2>1. runs' = runs + 1 /\ stepRows' = stepRows
    BY <1>1 DEF BeginRun, LoadFails, database
  <2>2. runs' \in Nat /\ runs' > 0
    BY <2>1 DEF RowDatesInv
  <2>3. ASSUME NEW j \in DOMAIN stepRows PROVE stepRows[j].run \in Nat /\ stepRows[j].run < runs'
    BY <2>1 DEF RowDatesInv
  <2> QED BY <2>1, <2>2, <2>3 DEF RowDatesInv
<1>2. CASE StoreStep
  <2>1. /\ at # "idle" /\ stepRows' = [stepRows EXCEPT ![k] = StepRow] /\ k' = k + 1
        /\ runs' = runs /\ k \in Nat /\ StepRow.run = runs /\ runs \in Nat /\ runs > 0
        /\ DOMAIN stepRows = 0 .. MaxSteps - 1
    BY <1>2, InputsAssumption DEF StoreStep, StepRow, RowDatesInv, TypeInv, TypeOK
  <2>2. ASSUME NEW j \in DOMAIN stepRows'
        PROVE  /\ stepRows'[j].run \in Nat /\ stepRows'[j].run <= runs
               /\ j >= k + 1 => stepRows'[j].run < runs
    <3>1. j \in DOMAIN stepRows /\ j \in Int
      BY <2>1
    <3>2. CASE j = k
      BY <2>1, <3>1, <3>2
    <3>3. CASE j # k
      BY <2>1, <3>1, <3>3 DEF RowDatesInv
    <3> QED BY <3>2, <3>3
  <2> QED BY <2>1, <2>2 DEF RowDatesInv
<1>3. CASE \/ ReplaceInputs \/ FindStep \/ StepNotFound \/ ScoreEvent \/ StoreStepFails
           \/ StoreAnalysis \/ StoreAnalysisFails \/ Crash \/ UNCHANGED vars
  <2>1. /\ stepRows' = stepRows /\ runs' = runs
        /\ at' # "idle" => k' = k /\ at # "idle"
    BY <1>3 DEF ReplaceInputs, FindStep, StepNotFound, ScoreEvent, StoreStepFails, StoreAnalysis,
                StoreAnalysisFails, Crash, Return, vars, database, locals
  <2> QED BY <2>1 DEF RowDatesInv
<1> QED BY <1>1, <1>2, <1>3 DEF Next

LEMMA StoredStep ==
    TypeInv /\ RowsInv /\ RowDatesInv /\ StoredInv /\ [Next]_vars => StoredInv'
<1> SUFFICES ASSUME TypeInv, RowsInv, RowDatesInv, StoredInv, [Next]_vars PROVE StoredInv'
  OBVIOUS
<1>1. ASSUME returned' # "HT_OK" PROVE StoredInv'
  BY <1>1 DEF StoredInv
<1>2. CASE StoreAnalysis
  <2>1. /\ at = "step" /\ k >= passage.stepCount /\ result' = [run |-> runs, totals |-> FinalTotals]
        /\ at' = "idle" /\ UNCHANGED <<inputs, stepRows, k, runs>>
    BY <1>2 DEF StoreAnalysis, Return
  <2>2. k = passage.stepCount
    BY <2>1, InputsAre, InputsAssumption DEF TypeInv, TypeOK
  <2>3. FinalTotals.weak = totals.weak
    BY DEF FinalTotals, TypeInv, Tallies
  <2>4. /\ result'.run = runs /\ result'.totals.weak = totals.weak
    BY <2>1, <2>3
  <2>5. /\ \A j \in 0 .. k - 1 : stepRows[j].run = runs
        /\ \A j \in 0 .. k - 1 : RowIsWeak(j) <=> ~PlayedAsWritten(j)
        /\ totals.weak = Cardinality(WeakRows(k))
    BY <2>1 DEF RowsInv
  <2>6. WeakRows(k) = {n \in 0 .. passage.stepCount - 1 : ~PlayedAsWritten(n)}
    BY <2>2, <2>5 DEF WeakRows
  <2>7. \A n : PlayedAsWritten(n)' <=> PlayedAsWritten(n)
    BY <2>1 DEF PlayedAsWritten, inputs
  <2>8. {n \in 0 .. passage.stepCount - 1 : ~PlayedAsWritten(n)}' = WeakRows(k)
    BY <2>1, <2>6, <2>7 DEF inputs
  <2> DEFINE own == {n \in LoadedSteps : stepRows[n].run = runs}
  <2>9. own = 0 .. k - 1
    <3>1. /\ k \in Int /\ k <= MaxSteps /\ MaxSteps \in Nat /\ runs \in Nat /\ runs > 0
          /\ DOMAIN stepRows = 0 .. MaxSteps - 1
      BY <2>1, InputsAssumption DEF TypeInv, TypeOK, RowDatesInv
    <3>2. ASSUME NEW n, n \in own PROVE n \in 0 .. k - 1
      <4>1. n \in DOMAIN stepRows /\ stepRows[n].run = runs
        BY <3>2 DEF LoadedSteps
      <4>2. n \in Int /\ 0 <= n /\ ~(n >= k)
        BY <2>1, <3>1, <4>1 DEF RowDatesInv
      <4> QED BY <3>1, <4>2
    <3>3. ASSUME NEW n \in 0 .. k - 1 PROVE n \in own
      <4>1. n \in DOMAIN stepRows /\ stepRows[n].run = runs
        BY <2>5, <3>1
      <4>2. stepRows[n] # NoRow
        BY <3>1, <4>1 DEF NoRow
      <4> QED BY <4>1, <4>2 DEF LoadedSteps
    <3> QED BY <3>2, <3>3
  <2>10. RowsAgreeWithResult'
    <3>1. own' = own
      BY <2>1 DEF LoadedSteps
    <3>2. {n \in own : IsWeak(stepRows[n].pitch, stepRows[n].timing)}' = WeakRows(k)
      BY <2>1, <2>9, <3>1 DEF WeakRows, RowIsWeak
    <3> HIDE DEF own
    <3>3. RowsAgreeWithResult' <=>
            (returned' = "HT_OK" =>
               /\ result'.run = runs' /\ own' = 0 .. passage'.stepCount - 1
               /\ result'.totals.weak =
                    Cardinality({n \in own : IsWeak(stepRows[n].pitch, stepRows[n].timing)}'))
      BY DEF RowsAgreeWithResult, own
    <3> QED BY <2>1, <2>2, <2>4, <2>5, <2>9, <3>1, <3>2, <3>3 DEF inputs
  <2>11. WeakStepsAreReal'
    BY <2>4, <2>5, <2>8 DEF WeakStepsAreReal
  <2> QED BY <2>1, <2>10, <2>11 DEF StoredInv
<1>3. CASE ReplaceInputs \/ BeginRun \/ LoadFails \/ StepNotFound \/ StoreStepFails
           \/ StoreAnalysisFails \/ Crash
  BY <1>1, <1>3 DEF ReplaceInputs, BeginRun, LoadFails, StepNotFound, StoreStepFails,
                    StoreAnalysisFails, Crash, Return
<1>4. CASE FindStep \/ ScoreEvent \/ StoreStep
  BY <1>1, <1>4 DEF FindStep, ScoreEvent, StoreStep, RowsInv
<1>5. CASE UNCHANGED vars
  <2>1. \A n : PlayedAsWritten(n)' <=> PlayedAsWritten(n)
    BY <1>5 DEF PlayedAsWritten, vars, inputs
  <2>2. {n \in 0 .. passage.stepCount - 1 : ~PlayedAsWritten(n)}'
          = {n \in 0 .. passage.stepCount - 1 : ~PlayedAsWritten(n)}
    BY <1>5, <2>1 DEF vars, inputs
  <2>3. WeakStepsAreReal' <=> WeakStepsAreReal
    BY <1>5, <2>2 DEF vars, database, WeakStepsAreReal
  <2> QED BY <1>5, <2>3 DEF vars, inputs, database, LoadedSteps, RowsAgreeWithResult, StoredInv
<1> QED BY <1>2, <1>3, <1>4, <1>5 DEF Next

LEMMA RunInvariance == Spec => []RunInv
<1>1. Init => RunInv
  BY TypeInit, ScanInit, RowsInit, DatesInit DEF RunInv
<1>2. RunInv /\ [Next]_vars => RunInv'
  BY TypeStep, ScanStep, RowsStep, DatesStep, StoredStep DEF RunInv
<1> QED BY <1>1, <1>2, PTL DEF Spec

\* Of the step rows loaded beside a successful run's aggregate, the first
\* step_count and no other are that run's, one per step, and agree with its
\* weak_step_count, whatever rows earlier runs left and wherever they ended.
THEOREM RowsAgreeCorrect == Spec => []RowsAgreeWithResult
<1>1. RunInv => RowsAgreeWithResult
  BY DEF RunInv, StoredInv, RowsAgreeWithResult
<1> QED BY <1>1, RunInvariance, PTL

\* weak_step_count counts exactly the steps that were not played as written:
\* each pitch as often as the step expects it and no other, the first note
\* within the step's timing window.
THEOREM WeakStepsCorrect == Spec => []WeakStepsAreReal
<1>1. RunInv => WeakStepsAreReal
  BY DEF RunInv, StoredInv, WeakStepsAreReal
<1> QED BY <1>1, RunInvariance, PTL

\* The aggregate row changes only once every step row of the same run is in
\* the database: the order of statements in ht_analysis_run_session.
THEOREM ResultStoredLastCorrect == Spec => ResultStoredLast
<1>1. RunInv /\ [Next]_vars =>
        [result' # result =>
           \A n \in 0 .. passage.stepCount - 1 : stepRows[n].run = result'.run]_vars
  <2> SUFFICES ASSUME RunInv, Next, result' # result, NEW n \in 0 .. passage.stepCount - 1
               PROVE  stepRows[n].run = result'.run
    BY DEF vars, database
  <2>1. StoreAnalysis
    BY DEF Next, ReplaceInputs, BeginRun, LoadFails, FindStep, StepNotFound, ScoreEvent,
           StoreStep, StoreStepFails, StoreAnalysisFails, Crash, database
  <2>2. at = "step" /\ k >= passage.stepCount /\ result'.run = runs
    BY <2>1 DEF StoreAnalysis
  <2>3. n \in 0 .. k - 1
    BY <2>2, InputsAre, InputsAssumption DEF RunInv, TypeInv, TypeOK
  <2> QED BY <2>2, <2>3 DEF RunInv, RowsInv
<1> QED BY <1>1, RunInvariance, PTL DEF Spec, ResultStoredLast

-----------------------------------------------------------------------------
(* The balance of notes.                                                   *)

\* The windows of the steps lie end to end, from the start of the take.
LEMMA WindowsMeet ==
    ASSUME NEW n \in Nat
    PROVE  /\ LowerBound(n) \in Int /\ UpperBound(n) \in Int
           /\ LowerBound(0) = 0 /\ 0 <= LowerBound(n)
           /\ LowerBound(n) <= UpperBound(n) /\ LowerBound(n + 1) = UpperBound(n)
<1>1. PICK S \in Nat, h \in Int : S = StepNs /\ h = HalfStep /\ S = 2 * h /\ S > 0
  BY UnitsAssumption DEF HalfStep
<1>2. PICK t \in Int : t = n * S
  OBVIOUS
<1>3. (n + 1) * S = t + S
  BY <1>2
<1>4. n # 0 => t >= S
  BY <1>2, <1>1
<1>5. t >= 0
  BY <1>2
<1>6. /\ LowerBound(n) = IF n = 0 THEN 0 ELSE t - h
      /\ UpperBound(n) = t + h /\ LowerBound(n + 1) = t + S - h
  BY <1>1, <1>2, <1>3 DEF LowerBound, UpperBound, ExpectedTime
<1>7. LowerBound(0) = 0
  BY DEF LowerBound
<1> QED BY <1>1, <1>4, <1>5, <1>6, <1>7

LEMMA PlayedFinite ==
    ASSUME SomeInputs
    PROVE  /\ IsFiniteSet(NoteOns) /\ Cardinality(NoteOns) \in Nat
           /\ \A n : IsFiniteSet(PlayedBefore(n)) /\ Cardinality(PlayedBefore(n)) \in Nat
<1>1. IsFiniteSet(1 .. Len(events)) /\ NoteOns \in SUBSET (1 .. Len(events))
  BY InputsAre, FS_Interval DEF NoteOns
<1>2. IsFiniteSet(NoteOns)
  BY <1>1, FS_Subset
<1>3. ASSUME NEW n PROVE IsFiniteSet(PlayedBefore(n))
  <2>1. PlayedBefore(n) \in SUBSET NoteOns
    BY DEF PlayedBefore
  <2> QED BY <1>2, <2>1, FS_Subset
<1> QED BY <1>2, <1>3, FS_CardinalityType

\* The note-ons before the next step are those before this one and its own.
LEMMA PlayedGrows ==
    ASSUME SomeInputs, NEW n \in Nat
    PROVE  /\ PlayedBefore(0) = {}
           /\ Cardinality(PlayedBefore(n + 1)) =
                Cardinality(PlayedBefore(n)) + Cardinality(Owned(events, n, Len(events)))
<1>1. DOMAIN events = 1 .. Len(events) /\ Len(events) \in Nat
      /\ \A j \in 1 .. Len(events) : events[j].ns \in Int
  BY InputsAre DEF Notes
<1>2. /\ LowerBound(n) \in Int /\ UpperBound(n) \in Int
      /\ LowerBound(0) = 0 /\ 0 <= LowerBound(n)
      /\ LowerBound(n) <= UpperBound(n) /\ LowerBound(n + 1) = UpperBound(n)
  BY WindowsMeet
<1>3. PlayedBefore(0) = {}
  BY <1>1, <1>2 DEF PlayedBefore, NoteOns
<1> DEFINE own == Owned(events, n, Len(events))
<1>4. PlayedBefore(n + 1) = PlayedBefore(n) \cup own /\ PlayedBefore(n) \cap own = {}
  <2>1. ASSUME NEW j \in 1 .. Len(events)
        PROVE  /\ j \in PlayedBefore(n + 1) <=>
                    events[j].noteOn /\ 0 <= events[j].ns /\ events[j].ns < UpperBound(n)
               /\ j \in PlayedBefore(n) <=>
                    events[j].noteOn /\ 0 <= events[j].ns /\ events[j].ns < LowerBound(n)
               /\ j \in own <=>
                    events[j].noteOn /\ LowerBound(n) <= events[j].ns
                                     /\ events[j].ns < UpperBound(n)
    BY <1>1, <1>2 DEF PlayedBefore, NoteOns, Owned, OwnedByStep
  <2>2. /\ PlayedBefore(n + 1) \subseteq 1 .. Len(events)
        /\ PlayedBefore(n) \subseteq 1 .. Len(events) /\ own \subseteq 1 .. Len(events)
    BY <1>1 DEF PlayedBefore, NoteOns, Owned
  <2> HIDE DEF own
  <2>3. ASSUME NEW j \in 1 .. Len(events)
        PROVE  /\ j \in PlayedBefore(n + 1) <=> j \in PlayedBefore(n) \/ j \in own
               /\ ~(j \in PlayedBefore(n) /\ j \in own)
    BY <1>1, <1>2, <2>1
  <2> QED BY <2>2, <2>3
<1>5. /\ IsFiniteSet(PlayedBefore(n)) /\ Cardinality(PlayedBefore(n)) \in Nat
      /\ IsFiniteSet(own) /\ Cardinality(own) \in Nat
  BY <1>1, PlayedFinite, NotesFinite
<1> HIDE DEF own
<1>6. Cardinality(PlayedBefore(n) \cup own) = Cardinality(PlayedBefore(n)) + Cardinality(own)
  <2>1. Cardinality(PlayedBefore(n) \cup own) =
          Cardinality(PlayedBefore(n)) + Cardinality(own) - Cardinality(PlayedBefore(n) \cap own)
    BY <1>5, FS_Union
  <2>2. Cardinality(PlayedBefore(n) \cap own) = 0
    BY <1>4, FS_EmptySet
  <2> QED BY <1>5, <2>1, <2>2
<1> QED BY <1>3, <1>4, <1>6 DEF own

\* The notes outside every window are the others.
LEMMA OutsideAreOthers ==
    ASSUME SomeInputs, NEW n \in Nat, n > 0
    PROVE  Cardinality(NoteOns) =
             Cardinality(PlayedBefore(n)) + Cardinality(OutsidePassage(events, n))
<1>1. PICK q \in Nat : n = q + 1 /\ n - 1 = q
  OBVIOUS
<1>2. UpperBound(n - 1) = LowerBound(n)
  BY <1>1, WindowsMeet
<1>3. OutsidePassage(events, n) = NoteOns \ PlayedBefore(n)
  BY <1>2 DEF OutsidePassage, OwnedByAnyStep, NoteOns, PlayedBefore
<1>4. NoteOns \cap PlayedBefore(n) = PlayedBefore(n)
  BY DEF PlayedBefore
<1>5. Cardinality(NoteOns \ PlayedBefore(n)) =
        Cardinality(NoteOns) - Cardinality(PlayedBefore(n))
  BY <1>4, PlayedFinite, FS_Difference
<1>6. Cardinality(NoteOns) \in Nat /\ Cardinality(PlayedBefore(n)) \in Nat
  BY PlayedFinite
<1> QED BY <1>3, <1>5, <1>6

\* The note slots before the next step are those before this one and its own.
LEMMA ExpectedGrows ==
    ASSUME SomeInputs, NEW n \in Nat, n < Len(passage.steps), IsFiniteSet(ExpectedBefore(n))
    PROVE  /\ IsFiniteSet(ExpectedBefore(n + 1))
           /\ Cardinality(ExpectedBefore(n + 1)) =
                Cardinality(ExpectedBefore(n)) + Len(passage.steps[n + 1].expected)
<1> DEFINE slots == DOMAIN passage.steps[n + 1].expected
           own == {n} \X slots
           before == ExpectedBefore(n)
<1>1. passage.steps[n + 1] \in Parts
  <2>1. passage.steps \in Seq(Parts) /\ n + 1 \in 1 .. Len(passage.steps)
    BY InputsAre
  <2> QED BY <2>1, ElementOfSeq
<1>2. PICK L \in Nat : L = Len(passage.steps[n + 1].expected)
  BY <1>1, SlotsFinite
<1>3. IsFiniteSet(slots) /\ Cardinality(slots) = L
  BY <1>1, <1>2, SlotsFinite
<1>4. ExpectedBefore(n + 1) = before \cup own /\ before \cap own = {}
  <2>1. 0 .. (n + 1) - 1 = (0 .. n - 1) \cup {n} /\ n \notin 0 .. n - 1
    OBVIOUS
  <2> QED BY <2>1 DEF ExpectedBefore
<1> HIDE DEF slots
<1>5. IsFiniteSet({n}) /\ Cardinality({n}) = 1
  BY FS_Singleton
<1>6. IsFiniteSet(own) /\ Cardinality(own) = L
  <2>1. IsFiniteSet(own) /\ Cardinality(own) = Cardinality({n}) * Cardinality(slots)
    BY <1>3, <1>5, FS_Product
  <2> QED BY <1>3, <1>5, <2>1
<1> HIDE DEF own, before
<1>7. IsFiniteSet(before) /\ Cardinality(before) \in Nat
  BY FS_CardinalityType DEF before
<1>8. /\ IsFiniteSet(before \cup own)
      /\ Cardinality(before \cup own) = Cardinality(before) + Cardinality(own)
                                          - Cardinality(before \cap own)
  BY <1>6, <1>7, FS_Union
<1>9. Cardinality(before \cap own) = 0
  BY <1>4, FS_EmptySet
<1>10. Cardinality(before \cup own) = Cardinality(before) + L
  BY <1>6, <1>7, <1>8, <1>9
<1> QED BY <1>2, <1>4, <1>8, <1>10 DEF before

\* One step's counters are its notes: the expected and the extra ones are the
\* played and the missed ones, and a wrong note is neither missed nor extra.
LEMMA CountsBalance ==
    ASSUME NEW part \in Parts, NEW g, GroupFits(part, g)
    PROVE  /\ Len(part.expected) + ExtraNotes(g, part) = g.candidates + MissedNotes(g, part)
           /\ WrongNotes(g, part) + MissedNotes(g, part) <= Len(part.expected)
           /\ WrongNotes(g, part) + ExtraNotes(g, part) <= g.candidates
<1>1. PICK c \in Nat, L \in Nat, m \in Nat :
        c = g.candidates /\ L = Len(part.expected) /\ m = Cardinality(g.matched)
  BY SlotsFinite, MatchedFinite DEF GroupFits, Groups
<1>2. /\ ExtraNotes(g, part) = Surplus(c, L) /\ MissedNotes(g, part) = Surplus(L, c)
      /\ WrongNotes(g, part) = Surplus(LesserOf(c, L), m)
  BY <1>1 DEF ExtraNotes, MissedNotes, WrongNotes
<1>3. /\ L + Surplus(c, L) = c + Surplus(L, c)
      /\ Surplus(LesserOf(c, L), m) + Surplus(L, c) <= L
      /\ Surplus(LesserOf(c, L), m) + Surplus(c, L) <= c
  BY DEF Surplus, LesserOf
<1> QED BY <1>1, <1>2, <1>3

\* Of the steps before step k a run has counted every note once.
BalanceInv ==
    at # "idle" =>
        /\ IsFiniteSet(ExpectedBefore(k))
        /\ Cardinality(ExpectedBefore(k)) + totals.extra =
             Cardinality(PlayedBefore(k)) + totals.missed
        /\ totals.wrong + totals.missed <= Cardinality(ExpectedBefore(k))
        /\ totals.wrong + totals.extra <= Cardinality(PlayedBefore(k))

BalancedInv == returned = "HT_OK" => at = "idle" /\ NotesBalance

LEMMA BalanceStay ==
    ASSUME BalanceInv, at # "idle", UNCHANGED <<inputs, k, totals>>
    PROVE  BalanceInv'
<1>1. ExpectedBefore(k)' = ExpectedBefore(k) /\ PlayedBefore(k)' = PlayedBefore(k)
  BY DEF ExpectedBefore, PlayedBefore, NoteOns, inputs
<1> QED BY <1>1 DEF BalanceInv

LEMMA BalanceStep == TypeInv /\ ScanInv /\ BalanceInv /\ [Next]_vars => BalanceInv'
<1> SUFFICES ASSUME TypeInv, ScanInv, BalanceInv, [Next]_vars PROVE BalanceInv'
  OBVIOUS
<1>1. CASE ReplaceInputs \/ LoadFails
  BY <1>1 DEF ReplaceInputs, LoadFails, Return, BalanceInv
<1>2. CASE BeginRun
  <2>1. /\ k' = 0 /\ totals'.wrong = 0 /\ totals'.missed = 0 /\ totals'.extra = 0
        /\ UNCHANGED inputs
    BY <1>2 DEF BeginRun, ZeroTotals
  <2>2. PlayedBefore(k)' = {}
    <3>1. PlayedBefore(0) = {}
      BY PlayedGrows DEF TypeInv, TypeOK
    <3> QED BY <2>1, <3>1 DEF PlayedBefore, NoteOns, inputs
  <2>3. ExpectedBefore(k)' = {}
    BY <2>1 DEF ExpectedBefore
  <2>4. Cardinality({}) = 0 /\ IsFiniteSet({})
    BY FS_EmptySet
  <2> QED BY <2>1, <2>2, <2>3, <2>4 DEF BalanceInv
<1>3. CASE FindStep \/ ScoreEvent
  <2>1. at # "idle" /\ UNCHANGED <<inputs, k, totals>>
    BY <1>3 DEF FindStep, ScoreEvent
  <2> QED BY <2>1, BalanceStay
<1>4. CASE StepNotFound \/ StoreStepFails \/ StoreAnalysis \/ StoreAnalysisFails \/ Crash
  BY <1>4 DEF StepNotFound, StoreStepFails, StoreAnalysis, StoreAnalysisFails, Crash, Return,
              BalanceInv
<1>5. CASE StoreStep
  <2>1. /\ at = "score" /\ i > Len(events) /\ totals' = TotalsAfterStep
        /\ k' = k + 1 /\ UNCHANGED inputs
    BY <1>5 DEF StoreStep
  <2>2. /\ k \in Nat /\ k < Len(passage.steps) /\ Step \in Parts /\ GroupFits(Step, group)
        /\ SomeInputs
    BY <2>1, ScoreIs DEF TypeInv, TypeOK
  <2>3. group.candidates = Cardinality(Owned(events, k, Len(events)))
    BY <2>1, ScanDone DEF Scan, MatchesScan
  <2>4. PICK c \in Nat, L \in Nat, w \in Nat, s \in Nat, x \in Nat :
          /\ c = group.candidates /\ L = Len(Step.expected)
          /\ w = WrongNotes(group, Step) /\ s = MissedNotes(group, Step)
          /\ x = ExtraNotes(group, Step)
    BY <2>2, SlotsFinite, CountsAreNumbers DEF GroupFits, Groups
  <2>5. L + x = c + s /\ w + s <= L /\ w + x <= c
    BY <2>2, <2>4, CountsBalance
  <2>6. PICK E \in Nat, P \in Nat :
          /\ E = Cardinality(ExpectedBefore(k)) /\ P = Cardinality(PlayedBefore(k))
    BY <2>1, <2>2, PlayedFinite, FS_CardinalityType DEF BalanceInv
  <2>7. IsFiniteSet(ExpectedBefore(k)) /\ Step = passage.steps[k + 1]
    BY <2>1 DEF BalanceInv, Step
  <2>8. IsFiniteSet(ExpectedBefore(k + 1)) /\ Cardinality(ExpectedBefore(k + 1)) = E + L
    BY <2>2, <2>4, <2>6, <2>7, ExpectedGrows
  <2>9. Cardinality(PlayedBefore(k + 1)) = P + c
    BY <2>2, <2>3, <2>4, <2>6, PlayedGrows
  <2>10. /\ ExpectedBefore(k)' = ExpectedBefore(k + 1)
         /\ PlayedBefore(k)' = PlayedBefore(k + 1)
    BY <2>1 DEF ExpectedBefore, PlayedBefore, NoteOns, inputs
  <2>11. PICK tw \in Nat, ts \in Nat, tx \in Nat :
           tw = totals.wrong /\ ts = totals.missed /\ tx = totals.extra
    BY DEF TypeInv, Tallies
  <2>12. E + tx = P + ts /\ tw + ts <= E /\ tw + tx <= P
    BY <2>1, <2>6, <2>11 DEF BalanceInv
  <2>13. /\ totals'.wrong = tw + w /\ totals'.missed = ts + s /\ totals'.extra = tx + x
    BY <2>1, <2>4, <2>11 DEF TotalsAfterStep
  <2>14. /\ (E + L) + (tx + x) = (P + c) + (ts + s)
         /\ (tw + w) + (ts + s) <= E + L /\ (tw + w) + (tx + x) <= P + c
    BY <2>5, <2>12
  <2> QED BY <2>8, <2>9, <2>10, <2>13, <2>14 DEF BalanceInv
<1>6. CASE UNCHANGED vars
  <2>1. UNCHANGED <<inputs, k, totals, at>>
    BY <1>6 DEF vars, locals
  <2> QED BY <2>1, BalanceStay DEF BalanceInv
<1> QED BY <1>1, <1>2, <1>3, <1>4, <1>5, <1>6 DEF Next

LEMMA BalancedStep ==
    TypeInv /\ RowsInv /\ BalanceInv /\ BalancedInv /\ [Next]_vars => BalancedInv'
<1> SUFFICES ASSUME TypeInv, RowsInv, BalanceInv, BalancedInv, [Next]_vars PROVE BalancedInv'
  OBVIOUS
<1>1. ASSUME returned' # "HT_OK" PROVE BalancedInv'
  BY <1>1 DEF BalancedInv
<1>2. CASE StoreAnalysis
  <2>1. /\ at = "step" /\ k >= passage.stepCount
        /\ result' = [run |-> runs, totals |-> FinalTotals]
        /\ at' = "idle" /\ UNCHANGED inputs
    BY <1>2 DEF StoreAnalysis, Return
  <2>2. PICK n \in Nat : n = k /\ n = passage.stepCount /\ SomeInputs
    BY <2>1, InputsAre, InputsAssumption DEF TypeInv, TypeOK
  <2>3. PICK E \in Nat, P \in Nat, O \in Nat, N \in Nat :
          /\ E = Cardinality(ExpectedBefore(n)) /\ P = Cardinality(PlayedBefore(n))
          /\ O = Cardinality(OutsidePassage(events, n)) /\ N = Cardinality(NoteOns)
    BY <2>1, <2>2, PlayedFinite, OutsideIsNumber, FS_CardinalityType DEF BalanceInv
  <2>4. PICK tw \in Nat, ts \in Nat, tx \in Nat :
           tw = totals.wrong /\ ts = totals.missed /\ tx = totals.extra
    BY DEF TypeInv, Tallies
  <2>5. E + tx = P + ts /\ tw + ts <= E /\ tw + tx <= P
    BY <2>1, <2>2, <2>3, <2>4 DEF BalanceInv
  <2>6. /\ result'.totals.wrong = tw /\ result'.totals.missed = ts
        /\ result'.totals.extra = tx + O
    BY <2>1, <2>2, <2>3, <2>4 DEF FinalTotals, TypeInv, Tallies
  <2>7. n > 0 => N = P + O
    BY <2>2, <2>3, OutsideAreOthers
  <2>8. n > 0 => E + (tx + O) = N + ts /\ tw + ts <= E /\ tw + (tx + O) <= N
    BY <2>5, <2>7
  <2>9. /\ passage.stepCount' = n
        /\ Cardinality(ExpectedBefore(passage.stepCount))' = E
        /\ Cardinality(NoteOns)' = N
    BY <2>1, <2>2, <2>3 DEF inputs, ExpectedBefore, NoteOns
  <2>10. NotesBalance'
    BY <2>6, <2>8, <2>9 DEF NotesBalance
  <2> QED BY <2>1, <2>10 DEF BalancedInv
<1>3. CASE ReplaceInputs \/ BeginRun \/ LoadFails \/ StepNotFound \/ StoreStepFails
           \/ StoreAnalysisFails \/ Crash
  BY <1>1, <1>3 DEF ReplaceInputs, BeginRun, LoadFails, StepNotFound, StoreStepFails,
                    StoreAnalysisFails, Crash, Return, RunStatus
<1>4. CASE FindStep \/ ScoreEvent \/ StoreStep
  BY <1>1, <1>4 DEF FindStep, ScoreEvent, StoreStep, RowsInv
<1>5. CASE UNCHANGED vars
  <2>1. UNCHANGED <<inputs, result, returned, at>>
    BY <1>5 DEF vars, database
  <2>2. Cardinality(ExpectedBefore(passage.stepCount))' = Cardinality(ExpectedBefore(passage.stepCount))
        /\ Cardinality(NoteOns)' = Cardinality(NoteOns)
    BY <2>1 DEF inputs, ExpectedBefore, NoteOns
  <2> QED BY <2>1, <2>2 DEF inputs, NotesBalance, BalancedInv
<1> QED BY <1>2, <1>3, <1>4, <1>5 DEF Next

\* Every note of a take is counted once and only once, for every take and every
\* passage of at least one step: the expected and the extra notes are the played
\* and the missed ones, and no note is both wrong and missed, nor wrong and extra.
THEOREM NotesBalanceCorrect == Spec => []NotesBalance
<1>1. Init => BalanceInv /\ BalancedInv
  BY DEF Init, BalanceInv, BalancedInv
<1>2. RunInv /\ BalanceInv /\ BalancedInv /\ [Next]_vars => (BalanceInv /\ BalancedInv)'
  BY BalanceStep, BalancedStep DEF RunInv
<1>3. BalancedInv => NotesBalance
  BY DEF BalancedInv, NotesBalance
<1> QED BY <1>1, <1>2, <1>3, RunInvariance, PTL DEF Spec
=============================================================================
