--------------------------- MODULE HomepageExposure ---------------------------
(***************************************************************************)
(* The exposure slots of one event on the homepage, and the headline that  *)
(* editors choose (stable/services/editorial_headlines.py): by hand, or by *)
(* accepting a recommendation.  A request locks the headline selection     *)
(* first and keeps it to the end of its transaction, so requests are       *)
(* serialized: each is one step here.  A request with an old version       *)
(* number, or one that the policy rejects, is rolled back: no step at all. *)
(*                                                                         *)
(* Saving an article queues a check of the headline state, which runs      *)
(* after the save has committed (stable/signals.py).                       *)
(***************************************************************************)
EXTENDS ExposureSlots

CONSTANTS
    NoArticle,
    Score       \* score_total of each article

ASSUME ScoreAssumption ==
    /\ Score \in [Article -> Nat]
    /\ NoArticle \notin Article

VARIABLES
    public,       \* articles that are published: is_headline_eligible
    pending,      \* articles whose headline check has not run yet
    headline,     \* HomepageHeadlineSelection.article
    recommended   \* article of the active HomepageHeadlineRecommendation

homeVars == <<exposure, public, pending, headline, recommended>>

TypeOK ==
    /\ exposure \in [Article -> Row]
    /\ public \subseteq Article
    /\ pending \subseteq Article
    /\ headline \in Article \cup {NoArticle}
    /\ recommended \in Article \cup {NoArticle}

Init ==
    /\ exposure = [a \in Article |-> NoRow]
    /\ public = Article
    /\ pending = {}
    /\ headline = NoArticle
    /\ recommended = NoArticle

-----------------------------------------------------------------------------
(* A headline set by hand: set_manual_headline.                            *)

\* The active second slots of other articles (at most one).
Others(a) ==
    {b \in Rows \ {a} : exposure[b].slot = 2 /\ exposure[b].status = "active"}

\* Defect: the score of the article that loses its slot is not compared.
MayReplaceAny(old, a) ==
    \E f \in Holders(exposure, Rows, 1) :
        Matured(exposure, f) /\ Angle[a] \notin {OtherAngle, Angle[f]}

\* Defect: the angle of the first slot is not compared.
MayReplaceAngle(old, a) ==
    \E f \in Holders(exposure, Rows, 1) :
        Matured(exposure, f) /\ Score[a] > Score[old]

\* What replace_slot2 requires.
MayReplace(old, a) ==
    \E f \in Holders(exposure, Rows, 1) :
        /\ Matured(exposure, f)
        /\ Angle[a] \notin {OtherAngle, Angle[f]}
        /\ Score[a] > Score[old]

\* Defect: a waiting slot is left waiting.
NotForced(t, a) == t

\* Defect: a headline that has to wait is given a slot of its own.
ForcedThird(t, a) ==
    IF t[a].status = "waiting" THEN [t EXCEPT ![a] = Taken(@, 3, "active")] ELSE t

\* force_activate_exposure, for an article that was told to wait.
Forced(t, a) ==
    IF t[a].status = "waiting" THEN [t EXCEPT ![a] = Taken(@, 2, "active")] ELSE t

Select(a) ==
    /\ headline' = a
    /\ UNCHANGED <<public, pending, recommended>>

\* Another article holds the second slot: replace_slot2.
Replace(a) ==
    /\ a \in public
    /\ \E old \in Others(a) :
        /\ MayReplace(old, a)
        /\ exposure' = [exposure EXCEPT ![old].status = "replaced", ![a] = Taken(@, 2, "active")]
    /\ Select(a)

\* No other article holds it: reserve_exposure.
Reserve(a) ==
    /\ a \in public
    /\ Others(a) = {}
    /\ Live(Reserved(exposure, Rows, a)[a])
    /\ exposure' = Forced(Reserved(exposure, Rows, a), a)
    /\ Select(a)

-----------------------------------------------------------------------------
(* The other ways the headline changes.  They do not touch the slots.      *)

Calmly(h, r) ==
    /\ headline' = h
    /\ recommended' = r
    /\ UNCHANGED <<exposure, public>>

\* cancel_manual_headline
ClearHeadline ==
    /\ headline # NoArticle
    /\ Calmly(NoArticle, recommended)
    /\ UNCHANGED pending

\* generate_headline_recommendation: any published article may score best.
Recommend(a) ==
    /\ a \in public
    /\ Calmly(headline, a)
    /\ UNCHANGED pending

\* accept_headline_recommendation
Accept ==
    /\ recommended \in public
    /\ Calmly(recommended, NoArticle)
    /\ UNCHANGED pending

\* An article is withdrawn, or published again; the save queues a check.
Save(a) ==
    /\ public' = IF a \in public THEN public \ {a} ELSE public \cup {a}
    /\ pending' = pending \cup {a}
    /\ UNCHANGED <<exposure, headline, recommended>>

\* Defect: only the selection is cleared.
InvalidateHeadline(a) ==
    LET cleared(b) == IF b = a /\ a \notin public THEN NoArticle ELSE b
    IN  /\ a \in pending
        /\ pending' = pending \ {a}
        /\ Calmly(cleared(headline), recommended)

\* invalidate_headline_state_for_article
Invalidate(a) ==
    LET cleared(b) == IF b = a /\ a \notin public THEN NoArticle ELSE b
    IN  /\ a \in pending
        /\ pending' = pending \ {a}
        /\ Calmly(cleared(headline), cleared(recommended))

Tick ==
    /\ exposure' = Aged(exposure)
    /\ exposure' # exposure
    /\ UNCHANGED <<public, pending, headline, recommended>>

Next ==
    \/ \E a \in Article :
        \/ Replace(a) \/ Reserve(a) \/ Recommend(a)
        \/ Save(a) \/ Invalidate(a)
    \/ ClearHeadline \/ Accept \/ Tick

Spec == Init /\ [][Next]_homeVars

-----------------------------------------------------------------------------

HeadlineHasSlot == headline # NoArticle => exposure[headline].status = "active"

\* A headline that holds an active slot keeps it, and every headline chosen
\* by hand holds one, even when its reservation was told to wait
\* (editorial_headlines.py: "a headline is never committed without its
\* exposure state"): only accepting a recommendation can break this.
HandPickedHasSlot == [][HeadlineHasSlot /\ ~Accept => HeadlineHasSlot']_homeVars

\* A withdrawn article is neither headline nor recommendation for longer
\* than the check of its last save is pending, whatever was accepted or set
\* in between.
PointersArePublic ==
    \A a \in {headline, recommended} \ {NoArticle} : a \in public \cup pending

\* The slots of the homepage are two places as well (reserve_exposure,
\* replace_slot2, force_activate_exposure): a second story that was set by
\* hand does not wait, and one with a higher score may take its place once
\* the first has matured.  The first is never replaced.
Places == INSTANCE TwoPlaces WITH
    Follows <- Stories, Better <- {p \in Article \X Article : Score[p[1]] > Score[p[2]]},
    Patient <- FALSE,
    first <- Place(exposure, 1), second <- Place(exposure, 2),
    mature <- Mature(exposure), shown <- Shown(exposure)

SlotsArePlaces == Places!Spec

\* An article leaves the homepage only for a better one of its own slot:
\* the first slot is kept for ever, the second falls to a higher score.
OnlyBetterReplaces ==
    [][\A a \in Article :
        Granted(exposure[a]) /\ ~Granted(exposure'[a]) =>
            /\ exposure[a].slot = 2
            /\ \E b \in Article : /\ Score[b] > Score[a]
                                  /\ exposure'[b].slot = 2 /\ Granted(exposure'[b])]_exposure
=============================================================================
