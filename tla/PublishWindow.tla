---------------------------- MODULE PublishWindow ----------------------------
(***************************************************************************)
(* Publishing the windows of one region: publish_region_window_task        *)
(* (stable/tasks.py), the rerun of a window from the console               *)
(* (production_window_rerun of stable/views.py), the selection of articles *)
(* and the hourly ledger of the site, which all regions share              *)
(* (stable/services/publishing_windows.py).                                *)
(*                                                                         *)
(* A task chooses articles, pays for them in a transaction of its own, and *)
(* publishes them one after the other from the copies it chose: meanwhile  *)
(* an editor may ignore them, another task may take over the window, and   *)
(* the task may die.                                                       *)
(***************************************************************************)
EXTENDS ProductionWindow, FiniteSetsExt

CONSTANTS
    Task,       \* workers and console requests
    Article,
    WindowMax,  \* MULTIREGION_PUBLISH_REGION_WINDOW_MAX
    HourMax,    \* MULTIREGION_PUBLISH_SITE_HOURLY_MAX_DAILY
    PerHour     \* windows in an hour

ASSUME PublishAssumption ==
    /\ IsFiniteSet(Task) /\ IsFiniteSet(Article)
    /\ WindowMax \in Nat \ {0} /\ HourMax \in Nat \ {0} /\ PerHour \in Nat \ {0}

VARIABLES
    article,
    ledger,  \* used: the ledger of the site-hour; spent: publications it paid for
    phase,   \* number of the current window in its hour
    task

publishVars == <<window, article, ledger, phase, task>>

\* The hour of window p, counted back from the current one.
Hour(p) == (p + PerHour - 1 - phase) \div PerHour
Hours   == 0..((Lookback + PerHour - 1) \div PerHour)

NoLedger == [used |-> 0, spent |-> 0]

\* late: windows that began since the task read the clock.
IdleTask == [step |-> "idle", todo |-> {}, window |-> 0, late |-> 0,
             chosen |-> {}, failed |-> FALSE]

TypeOK ==
    /\ window \in [Age -> Row]
    /\ article \in [Article -> {"ready", "closed"}]
    /\ ledger \in [Hours -> [used : 0..HourMax, spent : 0..HourMax]]
    /\ phase \in 0..(PerHour - 1)
    /\ task \in [Task -> [step : {"idle", "rerun", "window", "select", "publish"},
                          todo : SUBSET Age, window : Age, late : {0, 1},
                          chosen : SUBSET Article, failed : BOOLEAN]]

Init ==
    /\ window = [p \in Age |-> NoRow]
    /\ article = [a \in Article |-> "closed"]
    /\ ledger = [h \in Hours |-> NoLedger]
    /\ phase = 0
    /\ task = [t \in Task |-> IdleTask]

-----------------------------------------------------------------------------

Begin(t) ==
    /\ task[t].step = "idle"
    /\ \E before \in BOOLEAN :
        task' = [task EXCEPT ![t].step = "window", ![t].todo = Starts(before)]
    /\ UNCHANGED <<window, article, ledger, phase>>

\* production_window_rerun: the row is set back, whoever works on it.
Rerun(t, p) ==
    /\ task[t].step = "idle" /\ window[p].status # "none"
    /\ window' = [window EXCEPT ![p] = Written("open")]
    /\ task' = [task EXCEPT ![t].step = "rerun", ![t].todo = {p}]
    /\ UNCHANGED <<article, ledger, phase>>

\* The task's windows without the one at hand.
Rest(t, todo) ==
    [task EXCEPT ![t] = IF todo = {} THEN IdleTask
                        ELSE [IdleTask EXCEPT !.step = "window", !.todo = todo,
                                              !.late = task[t].late]]

\* claim_window on the oldest window left, which is created first.
Claim(t) ==
    /\ task[t].step \in {"window", "rerun"}
    /\ \E p \in task[t].todo :
        /\ \A q \in task[t].todo : q <= p
        /\ LET began == p - task[t].late
           IN  IF Claimable(window[p], began)
               THEN /\ window' = [window EXCEPT ![p] = Claimed(began)]
                    /\ task' = [task EXCEPT ![t].step = "select", ![t].window = p,
                                            ![t].todo = @ \ {p}]
               ELSE /\ task' = Rest(t, task[t].todo \ {p})
                    /\ UNCHANGED window
    /\ UNCHANGED <<article, ledger, phase>>

\* select_publish_candidates: as many as it may of the articles that are ready
Ready      == {a \in Article : article[a] = "ready"}
Selections == kSubset(Min({WindowMax, Cardinality(Ready)}), Ready)

\* Defect: the limit is compared before the articles are added.
FitsBeforehand(t, chosen) == ledger[Hour(task[t].window)].used <= HourMax

\* _reserve_site_hour_quota, on the ledger of the window's hour: all are paid
\* for, or none.
Fits(t, chosen) == ledger[Hour(task[t].window)].used + Cardinality(chosen) <= HourMax

\* Defect: the ledger of the current hour pays.
ChargedNow(t, chosen) ==
    IF Fits(t, chosen) /\ ledger[0].used + Cardinality(chosen) <= HourMax
    THEN [ledger EXCEPT ![0].used = @ + Cardinality(chosen)]
    ELSE ledger

Charged(t, chosen) ==
    IF Fits(t, chosen)
    THEN [ledger EXCEPT ![Hour(task[t].window)].used = @ + Cardinality(chosen)]
    ELSE ledger

Select(t) ==
    /\ task[t].step = "select"
    /\ \E chosen \in Selections :
        /\ ledger' = Charged(t, chosen)
        /\ task' = [task EXCEPT ![t].step = "publish",
                                ![t].chosen = IF Fits(t, chosen) THEN chosen ELSE {}]
    /\ UNCHANGED <<window, article, phase>>

\* An exception leaves the selection, before the ledger is charged or after.
SelectFails(t) ==
    /\ task[t].step = "select"
    /\ \E chosen \in Selections : ledger' \in {ledger, Charged(t, chosen)}
    /\ window' = [window EXCEPT ![task[t].window] = Written("open")]
    /\ task' = Rest(t, task[t].todo)
    /\ UNCHANGED <<article, phase>>

\* publish_article_automatically, from the copy; an exception comes before
\* the article is saved or after.
Publish(t, a, saved, raised) ==
    /\ task[t].step = "publish" /\ a \in task[t].chosen
    /\ saved \/ raised
    /\ article' = IF saved THEN [article EXCEPT ![a] = "closed"] ELSE article
    /\ ledger' = IF saved THEN [ledger EXCEPT ![Hour(task[t].window)].spent = @ + 1] ELSE ledger
    /\ task' = [task EXCEPT ![t].chosen = @ \ {a}, ![t].failed = @ \/ raised]
    /\ UNCHANGED <<window, phase>>

\* The row is saved from the copy that was claimed.
Finish(t) ==
    /\ task[t].step = "publish" /\ task[t].chosen = {}
    /\ window' = [window EXCEPT ![task[t].window] =
                      Written(IF task[t].failed THEN "open" ELSE "succeeded")]
    /\ task' = Rest(t, task[t].todo)
    /\ UNCHANGED <<article, ledger, phase>>

\* The worker or the web process is killed.
Crash(t) ==
    /\ task[t].step # "idle"
    /\ task' = [task EXCEPT ![t] = IdleTask]
    /\ UNCHANGED <<window, article, ledger, phase>>

-----------------------------------------------------------------------------

\* candidate_ignore: whatever the article is.
Ignore(a) ==
    /\ article[a] = "ready"
    /\ article' = [article EXCEPT ![a] = "closed"]
    /\ UNCHANGED <<window, ledger, phase, task>>

\* Another article passes the gates.
Arrive(a) ==
    /\ article[a] # "ready" /\ \A t \in Task : a \notin task[t].chosen
    /\ article' = [article EXCEPT ![a] = "ready"]
    /\ UNCHANGED <<window, ledger, phase, task>>

\* Another region charges the ledger of the current hour.
OtherRegion ==
    /\ ledger[0].used < HourMax
    /\ ledger' = [ledger EXCEPT ![0].used = @ + 1]
    /\ UNCHANGED <<window, article, phase, task>>

\* Hours that no window of the lookback belongs to when the next one begins.
Past(h) == h > (Lookback + PerHour - 1 - ((phase + 1) % PerHour)) \div PerHour

\* Defect: a new hour goes on with the ledger of the one before.
OneLedger ==
    [h \in Hours |->
        IF Past(h) THEN NoLedger
        ELSE IF phase = PerHour - 1 /\ h > 0 THEN ledger[h - 1] ELSE ledger[h]]

\* The ledgers, by hour, when a window begins; those of past hours are
\* forgotten.
Ledgers ==
    [h \in Hours |->
        IF Past(h) THEN NoLedger
        ELSE IF phase < PerHour - 1 THEN ledger[h]
        ELSE IF h = 0 THEN NoLedger ELSE ledger[h - 1]]

\* A new window begins.  No task is followed for longer than that, nor past
\* the lookback.
Clock ==
    /\ \A t \in Task :
        task[t].step # "idle" =>
            /\ task[t].late = 0
            /\ Lookback \notin task[t].todo \cup {task[t].window}
    /\ window' = Aged(window)
    /\ ledger' = Ledgers
    /\ phase' = (phase + 1) % PerHour
    /\ task' = [t \in Task |->
                  IF task[t].step = "idle" THEN IdleTask
                  ELSE [task[t] EXCEPT !.todo = {p + 1 : p \in @}, !.window = @ + 1,
                                       !.late = IF task[t].step = "rerun" THEN 0 ELSE 1]]
    /\ UNCHANGED article

Work(t) ==
    \/ Claim(t) \/ Select(t) \/ Finish(t)
    \/ \E a \in Article : Publish(t, a, TRUE, FALSE)

Undisturbed ==
    \/ Clock
    \/ \E t \in Task : Begin(t) \/ Work(t) \/ \E p \in Age : Rerun(t, p)
    \/ \E a \in Article : Ignore(a) \/ Arrive(a)

Disturbed ==
    \/ OtherRegion
    \/ \E t \in Task :
        \/ SelectFails(t) \/ Crash(t)
        \/ \E a \in Article, saved \in BOOLEAN : Publish(t, a, saved, TRUE)

Next == Undisturbed \/ Disturbed

Spec == Init /\ [][Next]_publishVars

\* Beat starts the regions' tasks every five minutes, tasks go on, time passes
\* (now and then no task holds the oldest window), and from some time on every
\* step is an undisturbed one: nothing raises or dies, and the
\* other regions leave room in the hour.
Fairness ==
    /\ \A t \in Task : WF_publishVars(Begin(t)) /\ WF_publishVars(Work(t))
    /\ []<><<Clock>>_publishVars
    /\ <>[][Undisturbed]_publishVars

FairSpec == Spec /\ Fairness

-----------------------------------------------------------------------------

\* What the tasks may still publish in the hour.
Owed(h) ==
    {c \in Task \X Article : c[2] \in task[c[1]].chosen /\ Hour(task[c[1]].window) = h}

\* The ledger pays for every publication of its hour in advance: whoever
\* takes over a window or reruns it, dies, or publishes an article another
\* task publishes too, an hour has no more publications than its ledger
\* counts, and no ledger exceeds the site's limit.
QuotaCoversPublications ==
    \A h \in Hours : ledger[h].spent + Cardinality(Owed(h)) <= ledger[h].used

\* An exhausted hour, a window left unfinished or one that failed delays an
\* article, but none waits for ever, unless other articles are published
\* instead again and again (docs/decisions.md, "能否安全重跑").
ReadyIsPublished ==
    \A a \in Article :
        \/ []<>(article[a] # "ready")
        \/ []<><<\E t \in Task, b \in Article \ {a} : Publish(t, b, TRUE, FALSE)>>_publishVars
=============================================================================
