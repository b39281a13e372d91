----------------------------- MODULE ExposureSlots -----------------------------
(***************************************************************************)
(* The two exposure slots of one race event in one scope: the homepage or  *)
(* one QQ group (stable/services/race_news_exposure.py).  This module      *)
(* holds the table of RaceNewsExposure rows and the decisions taken on it; *)
(* QQExposure and HomepageExposure are the two channels that use it.       *)
(*                                                                         *)
(* Time is kept in the rows: waited is the age of created_at, shown the    *)
(* age of activated_at, both no further than Delay, which is all the code  *)
(* compares them with.                                                     *)
(***************************************************************************)
EXTENDS Integers

CONSTANTS
    Article,     \* articles bound to the event
    Angle,       \* RaceNewsAngle of each article
    OtherAngle,  \* RaceNewsAngle.OTHER
    Delay        \* RACE_NEWS_SECOND_SLOT_DELAY_MINUTES, in ticks

ASSUME DelayAssumption == Delay \in Nat \ {0}

VARIABLE exposure  \* the RaceNewsExposure row of each article

\* slot 0: the article has no row.
Row == [slot   : {0, 1, 2},
        status : {"none", "waiting", "active", "replaced", "sent"},
        waited : 0..Delay,
        shown  : 0..Delay]

NoRow == [slot |-> 0, status |-> "none", waited |-> 0, shown |-> 0]

Rows == {a \in Article : exposure[a].slot # 0}

Live(r) == r.slot # 0 /\ r.status \in {"waiting", "active", "sent"}

\* The article holds a slot that is not waiting.
Granted(r) == Live(r) /\ r.status # "waiting"

-----------------------------------------------------------------------------
(* t is a version of the table, seen the articles whose rows a query found. *)

\* _find_slot
Holders(t, seen, s) == {a \in seen : t[a].slot = s /\ Live(t[a])}

\* Defect: a slot is free again once its article has been sent.
ConsistentUntilSent(t) ==
    \A a, b \in Article :
        /\ Live(t[a]) /\ Live(t[b]) /\ t[a].slot = t[b].slot
        /\ "sent" \notin {t[a].status, t[b].status}
        => a = b

\* The unique constraints uq_homepage_exposure_active_slot and
\* uq_qq_exposure_active_slot.
Consistent(t) ==
    \A a, b \in Article :
        Live(t[a]) /\ Live(t[b]) /\ t[a].slot = t[b].slot => a = b

\* Defect: two known angles always differ.
DiffersWhenKnown(a, b) == OtherAngle \notin {Angle[a], Angle[b]}

\* "other" cannot prove a difference.
Differs(a, b) == OtherAngle \notin {Angle[a], Angle[b]} /\ Angle[a] # Angle[b]

Matured(t, a) == t[a].shown = Delay

\* Defect: waiting slots are left to a job of their own.
NotPromoted(t, seen) == t

\* promote_waiting_slots
Promoted(t, seen) ==
    [a \in Article |->
        IF a \in seen /\ t[a].slot = 2 /\ t[a].status = "waiting" /\ t[a].waited = Delay
        THEN [t[a] EXCEPT !.status = "active", !.shown = 0]
        ELSE t[a]]

\* The row of an article that takes slot s: its old one reused, or a new one.
Taken(r, s, status) ==
    [slot |-> s, status |-> status, waited |-> r.waited, shown |-> 0]

\* Defect: the second slot does not wait for the first one to mature.
SecondStatusNow(t, first) == "active"

SecondStatus(t, first) ==
    IF \A f \in first : Matured(t, f) THEN "active" ELSE "waiting"

\* reserve_exposure: the table it leaves.
Reserved(t, seen, a) ==
    LET p      == Promoted(t, seen)
        first  == Holders(p, seen, 1)
        second == Holders(p, seen, 2)
    IN  IF a \in seen /\ Live(p[a]) THEN p
        ELSE IF first = {}
        THEN [p EXCEPT ![a] = Taken(@, 1, "active")]
        ELSE IF second = {} /\ \A f \in first : Differs(a, f)
        THEN [p EXCEPT ![a] = Taken(@, 2, SecondStatus(p, first))]
        ELSE p

Older(n) == IF n < Delay THEN n + 1 ELSE n

\* One tick later.
Aged(t) ==
    [a \in Article |->
        IF t[a].slot = 0 THEN t[a]
        ELSE [t[a] EXCEPT !.waited = Older(@), !.shown = IF Granted(t[a]) THEN Older(@) ELSE @]]

-----------------------------------------------------------------------------

\* Two articles tell different stories: angles that are known and differ.
Tells(a, b) == Angle[a] # Angle[b] /\ OtherAngle \notin {Angle[a], Angle[b]}

\* The slots of an event show two different stories: the second slot is
\* never held, or even waited for, by an article whose angle is that of the
\* first or is unknown (reserve_exposure, replace_slot2).
SlotsDiffer ==
    \A a, b \in Article :
        Live(exposure[a]) /\ Live(exposure[b]) /\ exposure[a].slot = 1 /\ exposure[b].slot = 2
        => Tells(b, a)

\* What a channel has to keep up is TwoPlaces: who holds a slot, whether the
\* first holder has been shown for the whole delay, whether the second is
\* still waiting.
Place(t, s) == {a \in Article : Live(t[a]) /\ t[a].slot = s}

Mature(t) == \E a \in Place(t, 1) : t[a].shown = Delay

Shown(t) == \E a \in Place(t, 2) : t[a].status # "waiting"

Stories == {p \in Article \X Article : Tells(p[1], p[2])}

\* The exposure is spaced: a step that makes the second slot active finds
\* the first one shown for the whole delay (design.md: "第二席遵守 15 分钟").
SecondSlotWaits ==
    [][\A a \in Article :
        ~Granted(exposure[a]) /\ Granted(exposure'[a]) /\ exposure'[a].slot = 2
        => \E f \in Article : exposure[f].slot = 1 /\ Granted(exposure[f]) /\ Matured(exposure, f)]_exposure
=============================================================================
