------------------------ MODULE RawEventRingTheorems ------------------------
(***************************************************************************)
(* What the ring operations do to the queue the ring stands for, for every *)
(* capacity and every set of events.                                       *)
(***************************************************************************)
EXTENDS RawEventRing, TLAPS

\* The wrap-around of head + count, which stays below twice the capacity.
LEMMA Wrap ==
    ASSUME NEW n \in Nat, n < 2 * Capacity
    PROVE  n % Capacity = IF n < Capacity THEN n ELSE n - Capacity
  BY CapacityAssumption, SMT

\* The queue a ring stands for is a sequence of its events.
LEMMA ContentsType ==
    ASSUME NEW E, NEW ring \in Rings(E)
    PROVE  /\ Contents(ring) \in Seq(E)
           /\ Len(Contents(ring)) = ring.count
           /\ \A i \in 1 .. ring.count :
                Contents(ring)[i] = ring.slots[(ring.head + i - 1) % Capacity]
<1>1. ring.count \in Nat /\ ring.count <= Capacity /\ ring.head \in Slots
  BY CapacityAssumption DEF Rings, Slots
<1>2. \A i \in 1 .. ring.count : (ring.head + i - 1) % Capacity \in Slots
  <2> SUFFICES ASSUME NEW i \in 1 .. ring.count
               PROVE  (ring.head + i - 1) % Capacity \in Slots
    OBVIOUS
  <2>1. ring.head + i - 1 \in Nat /\ ring.head + i - 1 < 2 * Capacity
    BY <1>1, CapacityAssumption DEF Slots
  <2> QED BY <2>1, Wrap, CapacityAssumption DEF Slots
<1>3. Contents(ring) \in [1 .. ring.count -> E]
  BY <1>2 DEF Contents, Rings
<1>4. \A i \in 1 .. ring.count :
        Contents(ring)[i] = ring.slots[(ring.head + i - 1) % Capacity]
  BY DEF Contents
<1>5. Contents(ring) \in Seq(E) /\ Len(Contents(ring)) = ring.count
  BY <1>1, <1>3
<1> QED BY <1>4, <1>5

\* Emptying a ring leaves a well-formed ring that stands for no event.
LEMMA ClearedRing ==
    ASSUME NEW E, NEW ring \in Rings(E)
    PROVE  /\ Cleared(ring) \in Rings(E)
           /\ Cleared(ring).count = 0
           /\ Contents(Cleared(ring)) = <<>>
<1>1. Cleared(ring) \in Rings(E) /\ Cleared(ring).count = 0
  BY CapacityAssumption DEF Cleared, Rings, Slots
<1> QED BY <1>1, ContentsType, SMT

\* With room, a push appends the event to the queue.
LEMMA PushedWithRoom ==
    ASSUME NEW E, NEW ring \in Rings(E), NEW e \in E, ring.count < Capacity
    PROVE  /\ Pushed(ring, e) \in Rings(E)
           /\ Pushed(ring, e).count = ring.count + 1
           /\ Contents(Pushed(ring, e)) = Append(Contents(ring), e)
<1> DEFINE tail == (ring.head + ring.count) % Capacity
<1>1. /\ ring.count \in Nat /\ ring.head \in Nat /\ ring.head < Capacity
      /\ Capacity \in Nat
  BY CapacityAssumption DEF Rings, Slots
<1>2. tail \in Slots
  BY <1>1, Wrap DEF Slots
<1> HIDE DEF tail
<1>3. Pushed(ring, e) = [head  |-> ring.head, count |-> ring.count + 1,
                           slots |-> [ring.slots EXCEPT ![tail] = e]]
  BY DEF Pushed, tail
<1>4. /\ Pushed(ring, e).count = ring.count + 1
      /\ Pushed(ring, e).head = ring.head
      /\ Pushed(ring, e).slots = [ring.slots EXCEPT ![tail] = e]
  BY <1>3 DEF Rings
<1>5. Pushed(ring, e) \in Rings(E)
  <2>1. ring.count + 1 \in 0 .. Capacity
    BY <1>1
  <2> QED BY <1>2, <1>3, <2>1 DEF Rings
<1>6. /\ Contents(ring) \in Seq(E) /\ Len(Contents(ring)) = ring.count
      /\ Contents(Pushed(ring, e)) \in Seq(E)
      /\ Len(Contents(Pushed(ring, e))) = ring.count + 1
  BY <1>4, <1>5, ContentsType
<1>7. ASSUME NEW i \in 1 .. ring.count + 1
      PROVE  Contents(Pushed(ring, e))[i] = Append(Contents(ring), e)[i]
  <2> DEFINE at == (ring.head + i - 1) % Capacity
  <2>1. Contents(Pushed(ring, e))[i] = Pushed(ring, e).slots[at]
    <3>1. i \in 1 .. Pushed(ring, e).count
      BY <1>4
    <3>2. Contents(Pushed(ring, e))[i] =
            Pushed(ring, e).slots[(Pushed(ring, e).head + i - 1) % Capacity]
      BY <1>5, <3>1, ContentsType
    <3> QED BY <1>4, <3>2
  <2>2. /\ ring.head + i - 1 \in Nat /\ ring.head + i - 1 < 2 * Capacity
        /\ ring.head + ring.count \in Nat /\ ring.head + ring.count < 2 * Capacity
    BY <1>1
  <2>3. at = IF ring.head + i - 1 < Capacity THEN ring.head + i - 1
             ELSE ring.head + i - 1 - Capacity
    BY <1>1, <2>2, Wrap
  <2>4. tail = IF ring.head + ring.count < Capacity THEN ring.head + ring.count
               ELSE ring.head + ring.count - Capacity
    BY <1>1, <2>2, Wrap DEF tail
  <2>5. at \in Slots
    BY <1>1, <2>2, <2>3 DEF Slots
  <2> HIDE DEF at
  <2>6. CASE i = ring.count + 1
    <3>1. at = tail
      BY <1>1, <2>3, <2>4, <2>6
    <3>2. [ring.slots EXCEPT ![tail] = e][at] = e
      BY <3>1, <1>2 DEF Rings
    <3> QED BY <1>4, <2>1, <2>6, <3>2, <1>6
  <2>7. CASE i # ring.count + 1
    <3>1. i \in 1 .. ring.count
      BY <2>7, <1>1
    <3>2. at # tail
      BY <1>1, <2>3, <2>4, <3>1
    <3>3. [ring.slots EXCEPT ![tail] = e][at] = ring.slots[at]
      BY <3>2, <2>5 DEF Rings
    <3>4. Contents(ring)[i] = ring.slots[at]
      BY <3>1, ContentsType DEF at
    <3> QED BY <1>4, <2>1, <3>1, <3>3, <3>4, <1>6
  <2> QED BY <2>6, <2>7
<1>8. Contents(Pushed(ring, e)) = Append(Contents(ring), e)
  <2> DEFINE c == Contents(ring)
             d == Contents(Pushed(ring, e))
  <2>1. c \in Seq(E) /\ d \in Seq(E) /\ Len(d) = Len(c) + 1
    BY <1>6
  <2>2. \A i \in 1 .. Len(c) + 1 : d[i] = Append(c, e)[i]
    BY <1>6, <1>7
  <2> HIDE DEF c, d
  <2>3. d = Append(c, e)
    BY <2>1, <2>2
  <2> QED BY <2>3 DEF c, d
<1> QED BY <1>4, <1>5, <1>8

\* A push leaves a well-formed ring.  With room the event comes last in the
\* queue; a full ring and its queue are left as they are, and the event is lost.
LEMMA PushedRing ==
    ASSUME NEW E, NEW ring \in Rings(E), NEW e \in E
    PROVE  /\ Pushed(ring, e) \in Rings(E)
           /\ ring.count < Capacity =>
                /\ Pushed(ring, e).count = ring.count + 1
                /\ Contents(Pushed(ring, e)) = Append(Contents(ring), e)
           /\ ~(ring.count < Capacity) =>
                /\ ring.count = Capacity
                /\ Pushed(ring, e) = ring
                /\ Len(Contents(ring)) = Capacity
                /\ Contents(Pushed(ring, e)) = Contents(ring)
<1>1. CASE ring.count < Capacity
  BY <1>1, PushedWithRoom
<1>2. CASE ~(ring.count < Capacity)
  <2>1. Pushed(ring, e) = ring
    BY <1>2 DEF Pushed
  <2>2. ring.count = Capacity
    BY <1>2, CapacityAssumption DEF Rings
  <2>3. Len(Contents(ring)) = ring.count
    BY ContentsType
  <2> QED BY <1>2, <2>1, <2>2, <2>3
<1> QED BY <1>1, <1>2

\* A poll of a nonempty ring takes the first event of the queue.
LEMMA PoppedRing ==
    ASSUME NEW E, NEW ring \in Rings(E), ring.count > 0
    PROVE  /\ Popped(ring) \in Rings(E)
           /\ Popped(ring).count = ring.count - 1
           /\ Contents(Popped(ring)) = Tail(Contents(ring))
           /\ Oldest(ring) = Head(Contents(ring))
           /\ Oldest(ring) \in E
<1> DEFINE next == (ring.head + 1) % Capacity
<1>1. /\ ring.count \in Nat /\ ring.head \in Nat /\ ring.head < Capacity
      /\ Capacity \in Nat /\ ring.head + 1 < 2 * Capacity /\ ring.count <= Capacity
  BY CapacityAssumption DEF Rings, Slots
<1>2. next = IF ring.head + 1 < Capacity THEN ring.head + 1 ELSE ring.head + 1 - Capacity
  BY <1>1, Wrap
<1>3. next \in Slots
  BY <1>1, <1>2 DEF Slots
<1> HIDE DEF next
<1>4. Popped(ring) = [head |-> next, count |-> ring.count - 1, slots |-> ring.slots]
  BY DEF Popped, next
<1>5. /\ Popped(ring).count = ring.count - 1
      /\ Popped(ring).head = next
      /\ Popped(ring).slots = ring.slots
  BY <1>4 DEF Rings
<1>6. Popped(ring) \in Rings(E)
  <2>1. ring.count - 1 \in 0 .. Capacity
    BY <1>1
  <2> QED BY <1>3, <1>4, <2>1 DEF Rings
<1>7. /\ Contents(ring) \in Seq(E) /\ Len(Contents(ring)) = ring.count
      /\ Contents(Popped(ring)) \in Seq(E)
      /\ Len(Contents(Popped(ring))) = ring.count - 1
  BY <1>5, <1>6, ContentsType
<1>8. Oldest(ring) = Contents(ring)[1]
  <2>1. Contents(ring)[1] = ring.slots[(ring.head + 1 - 1) % Capacity]
    BY <1>1, ContentsType
  <2>2. (ring.head + 1 - 1) % Capacity = ring.head
    BY <1>1, Wrap
  <2> QED BY <2>1, <2>2 DEF Oldest
<1>9. ASSUME NEW i \in 1 .. ring.count - 1
      PROVE  Contents(Popped(ring))[i] = Contents(ring)[i + 1]
  <2>1. Contents(Popped(ring))[i] = ring.slots[(next + i - 1) % Capacity]
    BY <1>5, <1>6, ContentsType
  <2>2. Contents(ring)[i + 1] = ring.slots[(ring.head + (i + 1) - 1) % Capacity]
    <3>1. i + 1 \in 1 .. ring.count
      BY <1>1
    <3> QED BY <3>1, ContentsType
  <2>3. /\ next + i - 1 \in Nat /\ next + i - 1 < 2 * Capacity
        /\ ring.head + (i + 1) - 1 \in Nat /\ ring.head + (i + 1) - 1 < 2 * Capacity
    BY <1>1, <1>2
  <2>4. (next + i - 1) % Capacity = (ring.head + (i + 1) - 1) % Capacity
    <3>1. (next + i - 1) % Capacity =
            IF next + i - 1 < Capacity THEN next + i - 1 ELSE next + i - 1 - Capacity
      BY <1>1, <1>2, <2>3, Wrap
    <3>2. (ring.head + (i + 1) - 1) % Capacity =
            IF ring.head + (i + 1) - 1 < Capacity THEN ring.head + (i + 1) - 1
            ELSE ring.head + (i + 1) - 1 - Capacity
      BY <1>1, <1>2, <2>3, Wrap
    <3> QED BY <1>1, <1>2, <3>1, <3>2
  <2> QED BY <2>1, <2>2, <2>4
<1>10. Contents(Popped(ring)) = Tail(Contents(ring))
  BY <1>1, <1>7, <1>9
<1>11. Oldest(ring) \in E
  BY DEF Oldest, Rings
<1> QED BY <1>1, <1>5, <1>6, <1>7, <1>8, <1>10, <1>11
=============================================================================
