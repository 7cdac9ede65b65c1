------------------------------- MODULE Delivery -------------------------------
(***************************************************************************)
(* What the path of events promises: motes number the events, what is owed *)
(* is stored or lost, nothing is stored twice or out of the order of its   *)
(* mote, and nothing is stored that did not happen.                        *)
(***************************************************************************)
EXTENDS Integers, Sequences

CONSTANTS
    Motes,
    MaxEvents   \* bound on the events

VARIABLES
    happened,   \* the number of events so far
    owed,       \* events a gateway has taken on
    stored      \* the events stored, with their motes, in their order

Events == 1 .. MaxEvents

Init == happened = 0 /\ owed = {} /\ stored = <<>>

Happen == happened' = happened + 1 /\ UNCHANGED <<owed, stored>>

TakeOn(e) ==
    /\ e <= happened
    /\ \A i \in DOMAIN stored : stored[i].n # e
    /\ owed' = owed \cup {e}
    /\ UNCHANGED <<happened, stored>>

Lose == owed' \in SUBSET owed /\ UNCHANGED <<happened, stored>>

\* Also an event that is not owed any more: another copy of it was lost.
Store(m, e) ==
    /\ e <= happened
    /\ \A i \in DOMAIN stored : stored[i].n # e
    /\ \A i \in DOMAIN stored : stored[i].mote = m => stored[i].n < e
    /\ stored' = Append(stored, [mote |-> m, n |-> e])
    /\ owed' = owed \ {e}
    /\ UNCHANGED happened

Next ==
    \/ Lose \/ Happen
    \/ \E e \in Events : TakeOn(e) \/ \E m \in Motes : Store(m, e)

\* Nothing stays owed.
Settles == \A e \in Events : e \in owed ~> e \notin owed

Safe == Init /\ [][Next]_<<happened, owed, stored>>

Spec == Safe /\ Settles
=============================================================================
