----------------------------- MODULE EventFifo ------------------------------
(***************************************************************************)
(* What a callback backend of the MIDI HAL promises to its client, without *)
(* rings, locks, handles or callback threads: a bounded first-in first-out *)
(* queue that refuses the newest event when it is full, is emptied only as *)
(* a whole, and is `ready` exactly when a poll would return an event.      *)
(***************************************************************************)
EXTENDS Naturals, Sequences

CONSTANTS Capacity, Event

VARIABLES
    pending,   \* events a poll has not returned yet, oldest first
    received,  \* every event polls have returned, oldest first
    ready      \* whether a wait on the backend would return at once

vars == <<pending, received, ready>>

Init == pending = <<>> /\ received = <<>> /\ ready = FALSE

\* The driver hands over an event and there is room for it.
Accept(e) ==
    /\ Len(pending) < Capacity
    /\ pending' = Append(pending, e)
    /\ ready' = TRUE
    /\ UNCHANGED received

\* The client polls the oldest event.
Receive ==
    /\ pending # <<>>
    /\ received' = Append(received, Head(pending))
    /\ pending' = Tail(pending)
    /\ ready' = (Tail(pending) # <<>>)

\* A connection begins or ends.
Discard ==
    /\ pending' = <<>>
    /\ ready' = FALSE
    /\ UNCHANGED received

Next == (\E e \in Event : Accept(e)) \/ Receive \/ Discard

Spec == Init /\ [][Next]_vars
=============================================================================
