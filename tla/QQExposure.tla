------------------------------ MODULE QQExposure ------------------------------
(***************************************************************************)
(* The exposure slots of one event in one QQ group.  Tasks reserve slots   *)
(* for the articles they push: qq_auto_push_article_task when an article   *)
(* is published, select_qq_window_deliveries (stable/services/             *)
(* qq_windows.py) in every window, several of them at once.                *)
(*                                                                         *)
(* A reservation reads the rows and locks those it finds.  It locks        *)
(* nothing when there are none, and it never sees rows inserted after its  *)
(* query began; it decides on their current contents once it has the      *)
(* locks.  The unique constraints stop a second writer.                    *)
(***************************************************************************)
EXTENDS ExposureSlots

CONSTANTS Worker, NoArticle

VARIABLES
    delivery,  \* what became of each article's QQPushDelivery
    task       \* per worker: the article it handles and the rows it found

qqVars == <<exposure, delivery, task>>

Idle == [article |-> NoArticle, seen |-> {}]

TypeOK ==
    /\ exposure \in [Article -> Row]
    /\ delivery \in [Article -> {"none", "linked", "sent", "failed"}]
    /\ task \in [Worker -> [article : Article \cup {NoArticle}, seen : SUBSET Article]]

Init ==
    /\ exposure = [a \in Article |-> NoRow]
    /\ delivery = [a \in Article |-> "none"]
    /\ task = [w \in Worker |-> Idle]

\* A task begins a reservation for a: its query has found the rows.
Look(w, a) ==
    /\ task[w] = Idle
    /\ task' = [task EXCEPT ![w] = [article |-> a, seen |-> Rows]]
    /\ UNCHANGED <<exposure, delivery>>

\* The table the worker is about to write.
Outcome(w) == Reserved(exposure, task[w].seen, task[w].article)

\* The database accepts it: no slot is taken twice, and the article's row,
\* if another task has inserted one meanwhile, is not inserted again.
Accepted(w) ==
    LET a == task[w].article
    IN  /\ Consistent(Outcome(w))
        /\ a \in Rows \ task[w].seen => Outcome(w)[a] = exposure[a]

\* The reservation and the delivery it permits commit together.  A waiting
\* or refused article gets no delivery, but the promotions are kept.
Commit(w) ==
    LET a == task[w].article
    IN  /\ a # NoArticle /\ Accepted(w)
        /\ exposure' = Outcome(w)
        /\ delivery' = IF Granted(Outcome(w)[a]) /\ delivery[a] = "none"
                       THEN [delivery EXCEPT ![a] = "linked"] ELSE delivery
        /\ task' = [task EXCEPT ![w] = Idle]

\* IntegrityError: the transaction is rolled back.
Abort(w) ==
    /\ task[w].article # NoArticle /\ ~Accepted(w)
    /\ task' = [task EXCEPT ![w] = Idle]
    /\ UNCHANGED <<exposure, delivery>>

\* A window's quota rejects the delivery after the reservation: the
\* reservation is rolled back to its savepoint.
QuotaRejects(w) ==
    LET a == task[w].article
    IN  /\ a # NoArticle /\ Accepted(w)
        /\ Granted(Outcome(w)[a]) /\ delivery[a] = "none"
        /\ task' = [task EXCEPT ![w] = Idle]
        /\ UNCHANGED <<exposure, delivery>>

\* qq_push_delivery_task finds the message sent.
Sent(a) ==
    /\ delivery[a] = "linked"
    /\ delivery' = [delivery EXCEPT ![a] = "sent"]
    /\ exposure' = [exposure EXCEPT ![a].status = "sent"]
    /\ UNCHANGED task

\* Defect: the row gets a status of its own.
FailedMarks(a) ==
    /\ delivery[a] = "linked"
    /\ delivery' = [delivery EXCEPT ![a] = "failed"]
    /\ exposure' = [exposure EXCEPT ![a].status = "failed"]
    /\ UNCHANGED task

\* The delivery has used its attempts; nothing was sent.
Failed(a) ==
    /\ delivery[a] = "linked"
    /\ delivery' = [delivery EXCEPT ![a] = "failed"]
    /\ UNCHANGED <<exposure, task>>

Tick ==
    /\ exposure' = Aged(exposure)
    /\ exposure' # exposure
    /\ UNCHANGED <<delivery, task>>

Next ==
    \/ \E w \in Worker :
        \/ \E a \in Article : Look(w, a)
        \/ Commit(w) \/ Abort(w) \/ QuotaRejects(w)
    \/ \E a \in Article : Sent(a) \/ Failed(a)
    \/ Tick

Spec == Init /\ [][Next]_qqVars

\* Every window handles the group's recent articles anew, and quotas are
\* renewed every hour, so a reservation that is tried again and again is
\* accepted in the end.
Fairness ==
    /\ \A a \in Article :
        /\ SF_qqVars(\E w \in Worker : Look(w, a))
        /\ SF_qqVars(\E w \in Worker : task[w].article = a /\ Commit(w))
    /\ WF_qqVars(\E w \in Worker : Abort(w))
    /\ WF_qqVars(Tick)

FairSpec == Spec /\ Fairness

-----------------------------------------------------------------------------

\* However the tasks interleave, at most two articles of the event are ever
\* delivered to the group (spec.md: "每个目标群、每个赛事最多创建 2 次成功发送"),
\* and each of them holds a slot.
AtMostTwo ==
    LET delivered == {a \in Article : delivery[a] # "none"}
    IN  /\ \A a, b, c \in delivered : a = b \/ b = c \/ a = c
        /\ \A a \in delivered : Granted(exposure[a])

\* The slots of a group are two places: whatever stale reads reservations
\* decide on (reserve_exposure, promote_waiting_slots), one story opens the
\* event and stays, one that differs may follow, nothing replaces it, and it
\* is granted only beside a first one that has matured.
Places == INSTANCE TwoPlaces WITH
    Follows <- Stories, Better <- {}, Patient <- TRUE,
    first <- Place(exposure, 1), second <- Place(exposure, 2),
    mature <- Mature(exposure), shown <- Shown(exposure)

SlotsArePlaces == Places!Spec

\* An article that waits for the second slot gets its delivery once the
\* delay is over: no job promotes it but the next reservation.
WaitingIsServed ==
    \A a \in Article : exposure[a].status = "waiting" ~> delivery[a] # "none"
=============================================================================
