------------------------------ MODULE TwoPlaces ------------------------------
(***************************************************************************)
(* What the two places of an event promise to its readers, on whichever    *)
(* channel: one story opens the event and stays, a second one may follow   *)
(* it if it tells something else, and it is shown when the first has had   *)
(* the time to itself that Patient channels grant it.  Requests, locks,    *)
(* stale reads, deliveries and headlines are left out: whatever they do,   *)
(* the places change in these ways only.                                   *)
(***************************************************************************)
CONSTANTS
    Article,
    Follows,  \* pairs <<a, f>>: a tells another story than f
    Better,   \* pairs <<a, b>>: a may take the place of b
    Patient   \* TRUE: even a new second story waits for the first to mature

VARIABLES
    first,   \* the article that opened the event: a set of at most one
    second,  \* the one that follows it, or waits to
    mature,  \* the first has been shown for the whole delay
    shown    \* the second no longer waits

vars == <<first, second, mature, shown>>

Init ==
    /\ first = {} /\ second = {}
    /\ mature = FALSE /\ shown = FALSE

Open(a) ==
    /\ first = {}
    /\ first' = {a}
    /\ UNCHANGED <<second, mature, shown>>

Mature ==
    /\ first # {}
    /\ mature' = TRUE
    /\ UNCHANGED <<first, second, shown>>

\* a tells another story than the one that opened the event.
Fits(a) == \E f \in first : <<a, f>> \in Follows

Follow(a) ==
    /\ second = {} /\ Fits(a)
    /\ second' = {a}
    /\ shown' = (mature \/ ~Patient)
    /\ UNCHANGED <<first, mature>>

Show ==
    /\ second # {} /\ mature
    /\ shown' = TRUE
    /\ UNCHANGED <<first, second, mature>>

\* A better article takes the place of the second one.
Replace(a) ==
    /\ shown /\ mature /\ Fits(a)
    /\ \E b \in second : <<a, b>> \in Better
    /\ second' = {a}
    /\ UNCHANGED <<first, mature, shown>>

Next ==
    \/ \E a \in Article : Open(a) \/ Follow(a) \/ Replace(a)
    \/ Mature \/ Show

Spec == Init /\ [][Next]_vars
=============================================================================
