----------------------------- MODULE RateLimiter -----------------------------
(***************************************************************************)
(* What the motion gate promises, by the whole history of events: a motion *)
(* is reported unless an event is more recent than the cooldown, and       *)
(* nothing else is.                                                        *)
(***************************************************************************)
EXTENDS Integers

CONSTANT Cooldown

VARIABLES
    now,        \* the time
    events,     \* the times of the events reported
    motions     \* the times at which there was motion

Init == now \in Nat /\ events = {} /\ motions = {}

Recent == \E e \in events : now - e < Cooldown

Move ==
    /\ motions' = motions \cup {now}
    /\ events' = IF Recent THEN events ELSE events \cup {now}
    /\ UNCHANGED now

Pass == now' = now + 1 /\ UNCHANGED <<events, motions>>

Next == Move \/ Pass

Spec == Init /\ [][Next]_<<now, events, motions>>
=============================================================================
