---------------------------- MODULE RawEventRing ----------------------------
(***************************************************************************)
(* The fixed-capacity queue of raw MIDI events that the callback backends  *)
(* keep inside ht_midi_hal: `queue`, `head` and `count`.  WinMM and        *)
(* CoreMIDI have the same arrays and the same index arithmetic; each of    *)
(* them runs the operators below inside its critical section.              *)
(***************************************************************************)
EXTENDS Integers, Sequences

CONSTANT Capacity  \* HT_WINMM_QUEUE_CAPACITY, HT_COREMIDI_QUEUE_CAPACITY

ASSUME CapacityAssumption == Capacity \in Nat \ {0}

Slots == 0 .. Capacity - 1

\* The rings of events of a set.
Rings(Events) == [head : Slots, count : 0 .. Capacity, slots : [Slots -> Events]]

\* calloc: every slot holds the zeroed event.
ZeroRing(zero) == [head |-> 0, count |-> 0, slots |-> [i \in Slots |-> zero]]

\* head = 0, count = 0: the slots keep what they held.
Cleared(ring) == [head |-> 0, count |-> 0, slots |-> ring.slots]

\* Mutant: the room check is off by one.
Pushed_OffByOne(ring, event) ==
    IF ring.count <= Capacity
    THEN [head  |-> ring.head,
          count |-> ring.count + 1,
          slots |-> [ring.slots EXCEPT ![(ring.head + ring.count) % Capacity] = event]]
    ELSE ring

\* Mutant: a full ring is overwritten in place.
Pushed_Overwrites(ring, event) ==
    [head  |-> ring.head,
     count |-> IF ring.count < Capacity THEN ring.count + 1 ELSE ring.count,
     slots |-> [ring.slots EXCEPT ![(ring.head + ring.count) % Capacity] = event]]

\* A full ring is returned as it is: the event that does not fit is the
\* newest one, and nobody is told.
Pushed(ring, event) ==
    IF ring.count < Capacity
    THEN [head  |-> ring.head,
          count |-> ring.count + 1,
          slots |-> [ring.slots EXCEPT ![(ring.head + ring.count) % Capacity] = event]]
    ELSE ring

Oldest(ring) == ring.slots[ring.head]

\* Mutant: the head is not advanced.
Popped_KeepsHead(ring) ==
    IF ring.count > 0
    THEN [head |-> ring.head, count |-> ring.count - 1, slots |-> ring.slots]
    ELSE ring

Popped(ring) ==
    IF ring.count > 0
    THEN [head  |-> (ring.head + 1) % Capacity,
          count |-> ring.count - 1,
          slots |-> ring.slots]
    ELSE ring

\* The queue the ring stands for, oldest event first.
Contents(ring) ==
    [i \in 1 .. ring.count |-> ring.slots[(ring.head + i - 1) % Capacity]]
=============================================================================
