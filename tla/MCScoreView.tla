----------------------------- MODULE MCScoreView -----------------------------
(***************************************************************************)
(* ScoreView for TLC: one desk with every kind of file, edited between the *)
(* reads, and one for each size of score and region, with every viewport.  *)
(***************************************************************************)
EXTENDS ScoreView

Good(row) == [fault |-> "none", row |-> row]
Bad(fault) == [fault |-> fault]
Header == Bad("few fields")
Table(lines) == [there |-> TRUE, lines |-> lines]
Absent == [there |-> FALSE, lines |-> <<>>]

Variant(id, overlayId, path, w, h) ==
    Good([variant_id |-> id, overlay_id |-> overlayId, path |-> path, width |-> w, height |-> h])
Overlay(w, h) == Good([overlay_id |-> "o", width |-> w, height |-> h])
Step(k, x, y, w, h) ==
    Good([overlay_id |-> "o", step_index |-> k, x |-> x, y |-> y, width |-> w, height |-> h])
Image(kind, w, h, max, raster) ==
    [kind |-> kind, width |-> w, height |-> h, max |-> max, raster |-> raster]
Unread(kind) == Image(kind, 0, 0, 0, "short")
Score(w, h) == Image("P6", w, h, 255, "exact")

Ask(step, w, h) == [tool |-> TRUE, out |-> TRUE, variant_id |-> "v", step_index |-> step,
                    width |-> w, height |-> h]

\* Each fault once, and two good versions that differ in the score's size.
\* The last catalog has the variant twice, of which the first counts; the x of
\* step 0 is narrowed to 1, and step 1 leaves the score.
EditedDesk ==
    [catalog |-> {Absent, Table(<<>>), Table(<<Header, Bad("blank"), Bad("long text")>>),
                  Table(<<Header, Variant("v", "o", "fits", 2, 2), Bad("few fields")>>),
                  Table(<<Header>>), Table(<<Header, Variant("v", "o", "too long", 2, 2)>>),
                  Table(<<Header, Variant("v", "o", "fits", 2, 0)>>),
                  Table(<<Header, Variant("v", "", "fits", 2, 2)>>),
                  Table(<<Header, Variant("v", "o", "fits", 2, 2)>>),
                  Table(<<Header, Variant("u", "", "fits", 1, 1),
                          Variant("v", "o", "fits", 2, 1), Variant("v", "", "fits", 1, 1)>>)},
     metadata |-> {Absent, Table(<<Header, Bad("bad value")>>),
                   Table(<<Header, Overlay(2, 2)>>), Table(<<Header, Overlay(2, 1)>>)},
     steps |-> {Absent, Table(<<Header, Bad("many pitches")>>),
                Table(<<Header, Step(0, Word + 1, 0, 1, 1), Step(1, 1, 0, 2, 1)>>)},
     image |-> {Unread("absent"), Unread("unreadable"), Unread("empty"), Unread("other magic"),
                Image("P6", 0, 1, 255, "exact"), Image("P6", 2, 2, 15, "exact"),
                Image("P6", 2, 2, 255, "short"), Score(2, 2), Score(2, 1)},
     requests |-> {Ask(0, 3, 3), Ask(1, 3, 3), Ask(2, 3, 3), Ask(0, 3, 0),
                   [Ask(0, 2, 3) EXCEPT !.tool = FALSE, !.out = FALSE],
                   [Ask(0, 0, 3) EXCEPT !.tool = FALSE]}]

\* Viewports up to one more than MaxInt.
Still(w, h, x, y, rw, rh) ==
    [catalog |-> {Table(<<Header, Variant("v", "o", "fits", w, h)>>)},
     metadata |-> {Table(<<Header, Overlay(w, h)>>)},
     steps |-> {Table(<<Header, Step(0, x, y, rw, rh)>>)},
     image |-> {Score(w, h)},
     requests |-> {Ask(0, vw, vh) : vw \in 1 .. MaxInt + 1, vh \in 1 .. MaxInt + 1}]

\* Every interval of columns, with the middle row; a desk's name is the size
\* of the score and the interval.
AllDesks ==
    LET Stills == {1, 3, 5} \X {1, 2, 5} \X (0 .. 4) \X (1 .. 5)
    IN  [d \in Stills \cup {<<0, 0, 0, 0>>} |->
            IF d \in Stills THEN Still(d[1], d[2], d[3], d[2] \div 2, d[4], 1) ELSE EditedDesk]
=============================================================================
