------------------------- MODULE PublishWindowProofs -------------------------
(***************************************************************************)
(* What PublishWindow promises for any number of tasks and articles, any   *)
(* limits, lookback and lease: types, and that the ledger of an hour       *)
(* covers every publication it pays for.                                   *)
(***************************************************************************)
EXTENDS PublishWindow, FiniteSetTheorems, TLAPS

\* What a task has chosen it has paid for and is publishing; a task that has
\* seen a new window begin has no window of age 0 to do.
Tasks ==
    \A t \in Task :
        /\ task[t].step = "idle" => task[t] = IdleTask
        /\ task[t].step # "publish" => task[t].chosen = {}
        /\ task[t].late = 1 => 0 \notin task[t].todo

Inv == TypeOK /\ Tasks /\ QuotaCoversPublications

-----------------------------------------------------------------------------
(* Hours.                                                                  *)

\* Windows of the lookback belong to the hours that are kept.
LEMMA HourType ==
    ASSUME TypeOK, NEW p \in Age
    PROVE  Hour(p) \in Hours
<1>1. p \in Nat /\ p <= Lookback /\ PerHour \in Nat \ {0} /\ phase \in 0..(PerHour - 1)
      /\ Lookback \in Nat
  BY PublishAssumption, WindowAssumption DEF PublishAssumption, WindowAssumption, Age, TypeOK
<1> DEFINE a == p + PerHour - 1 - phase
           b == Lookback + PerHour - 1
<1>2. a \in Nat /\ b \in Nat /\ a <= b  BY <1>1
<1> HIDE DEF a, b
<1>3. a \div PerHour \in Nat /\ b \div PerHour \in Nat /\ a \div PerHour <= b \div PerHour
  BY <1>1, <1>2
<1>4. Hour(p) = a \div PerHour /\ Hours = 0..(b \div PerHour)
  BY DEF Hour, Hours, a, b
<1> QED  BY <1>3, <1>4

\* When a window begins, a window keeps its hour or, after the last window
\* of the current hour, is one hour older.
LEMMA HourStep ==
    ASSUME TypeOK, phase' = (phase + 1) % PerHour, NEW p \in Age, p < Lookback
    PROVE  /\ Hour(p + 1)' = IF phase < PerHour - 1 THEN Hour(p) ELSE Hour(p) + 1
           /\ ~Past(Hour(p + 1)')
<1>1. p \in Nat /\ p + 1 <= Lookback /\ PerHour \in Nat \ {0} /\ phase \in 0..(PerHour - 1)
      /\ Lookback \in Nat
  BY PublishAssumption, WindowAssumption DEF PublishAssumption, WindowAssumption, Age, TypeOK
<1>2. phase' = IF phase < PerHour - 1 THEN phase + 1 ELSE 0
  BY <1>1
<1>3. Hour(p + 1)' = IF phase < PerHour - 1 THEN Hour(p) ELSE Hour(p) + 1
  <2>1. CASE phase < PerHour - 1
    <3>1. p + 1 + PerHour - 1 - phase' = p + PerHour - 1 - phase  BY <1>1, <1>2, <2>1
    <3> QED  BY <2>1, <3>1 DEF Hour
  <2>2. CASE ~(phase < PerHour - 1)
    <3>1. phase = PerHour - 1 /\ phase' = 0  BY <1>1, <1>2, <2>2
    <3>2. p + 1 + PerHour - 1 - phase' = p + PerHour /\ p + PerHour - 1 - phase = p
      BY <1>1, <3>1
    <3>3. (p + PerHour) \div PerHour = (p \div PerHour) + 1  BY <1>1
    <3> QED  BY <2>2, <3>2, <3>3 DEF Hour
  <2> QED  BY <2>1, <2>2
<1>4. ~Past(Hour(p + 1)')
  <2> DEFINE a == p + 1 + PerHour - 1 - phase'
             b == Lookback + PerHour - 1 - phase'
  <2>1. a \in Nat /\ b \in Nat /\ a <= b  BY <1>1, <1>2
  <2> HIDE DEF a, b
  <2>2. a \div PerHour <= b \div PerHour /\ a \div PerHour \in Nat /\ b \div PerHour \in Nat
    BY <1>1, <2>1
  <2>3. Hour(p + 1)' = a \div PerHour /\ (Past(Hour(p + 1)') <=> a \div PerHour > b \div PerHour)
    BY DEF Hour, Past, a, b
  <2> QED  BY <2>2, <2>3
<1> QED  BY <1>3, <1>4

-----------------------------------------------------------------------------
(* What is owed.                                                           *)

LEMMA OwedFinite ==
    ASSUME NEW h
    PROVE  IsFiniteSet(Owed(h)) /\ Cardinality(Owed(h)) \in Nat
<1>1. IsFiniteSet(Task \X Article)
  BY PublishAssumption, FS_Product DEF PublishAssumption
<1>2. Owed(h) \subseteq Task \X Article  BY DEF Owed
<1> QED  BY <1>1, <1>2, FS_Subset, FS_CardinalityType

\* Nothing is owed that was not owed before, in the same hour.
LessOwed ==
    \A t \in Task : \/ task'[t].chosen = {}
                    \/ /\ task'[t].chosen \subseteq task[t].chosen
                       /\ task'[t].window = task[t].window

\* A step that chooses nothing and publishes nothing keeps the ledgers right.
LEMMA QuotaKept ==
    ASSUME Inv, LessOwed, phase' = phase, TypeOK',
           \A h \in Hours : ledger'[h].used >= ledger[h].used
                            /\ ledger'[h].spent = ledger[h].spent
    PROVE  QuotaCoversPublications'
<1> SUFFICES ASSUME NEW h \in Hours
             PROVE  ledger'[h].spent + Cardinality(Owed(h)') <= ledger'[h].used
  BY DEF QuotaCoversPublications, Hours
<1>1. \A p : Hour(p)' = Hour(p)  BY DEF Hour
<1>2. Owed(h)' \subseteq Owed(h)  BY <1>1 DEF Owed, LessOwed
<1>3. Cardinality(Owed(h)') \in Nat /\ Cardinality(Owed(h)') <= Cardinality(Owed(h))
      /\ Cardinality(Owed(h)) \in Nat
  BY <1>2, OwedFinite, FS_Subset, FS_CardinalityType
<1>4. ledger[h].spent + Cardinality(Owed(h)) <= ledger[h].used
  BY DEF Inv, QuotaCoversPublications
<1>5. /\ ledger[h].spent \in Int /\ ledger[h].used \in Int
      /\ ledger'[h].spent \in Int /\ ledger'[h].used \in Int
  BY DEF Inv, TypeOK, Hours
<1> QED  BY <1>3, <1>4, <1>5

\* At most so much more is owed.
LEMMA MoreOwed ==
    ASSUME NEW h, NEW new, IsFiniteSet(new), Owed(h)' \subseteq Owed(h) \cup new
    PROVE  /\ Cardinality(Owed(h)') \in Nat
           /\ Cardinality(Owed(h)') <= Cardinality(Owed(h)) + Cardinality(new)
<1>1. IsFiniteSet(Owed(h)) /\ IsFiniteSet(Owed(h) \cup new)
  BY OwedFinite, FS_Union
<1>2. /\ Cardinality(Owed(h) \cup new) =
            Cardinality(Owed(h)) + Cardinality(new) - Cardinality(Owed(h) \cap new)
      /\ IsFiniteSet(Owed(h) \cap new)
  BY <1>1, FS_Union, FS_Intersection
<1>3. /\ Cardinality(Owed(h)) \in Nat /\ Cardinality(new) \in Nat
      /\ Cardinality(Owed(h) \cap new) \in Nat
  BY <1>1, <1>2, FS_CardinalityType
<1>4. /\ Cardinality(Owed(h)') \in Nat
      /\ Cardinality(Owed(h)') <= Cardinality(Owed(h) \cup new)
  BY <1>1, FS_Subset, FS_CardinalityType
<1> QED  BY <1>2, <1>3, <1>4

-----------------------------------------------------------------------------
(* Steps.                                                                  *)

TaskRow == [step : {"idle", "rerun", "window", "select", "publish"},
            todo : SUBSET Age, window : Age, late : {0, 1},
            chosen : SUBSET Article, failed : BOOLEAN]

\* What the invariant says of a task of its own.
Fit(x) ==
    /\ x \in TaskRow
    /\ x.step = "idle" => x = IdleTask
    /\ x.step # "publish" => x.chosen = {}
    /\ x.late = 1 => 0 \notin x.todo

LEMMA Facts ==
    /\ Lookback \in Nat /\ Lookback >= 1 /\ Lease \in Nat /\ Lease >= 1
    /\ HourMax \in Nat /\ PerHour \in Nat /\ PerHour >= 1
    /\ Age \subseteq Nat /\ 0 \in Age /\ 0 \in Hours
    /\ IsFiniteSet(Article)
<1>1. Lookback + PerHour - 1 \in Nat /\ PerHour \in Nat \ {0}
  BY PublishAssumption, WindowAssumption DEF PublishAssumption, WindowAssumption
<1>2. (Lookback + PerHour - 1) \div PerHour \in Nat  BY <1>1
<1> QED  BY <1>2, PublishAssumption, WindowAssumption
         DEF PublishAssumption, WindowAssumption, Age, Hours

LEMMA IdleFit == Fit(IdleTask) /\ IdleTask.step = "idle" /\ IdleTask.chosen = {}
  BY Facts DEF Fit, IdleTask, TaskRow

\* The tasks fit: what TypeOK and Tasks say of them.
LEMMA FitTasks ==
    ASSUME Inv
    PROVE  task \in [Task -> TaskRow] /\ \A t \in Task : Fit(task[t])
  BY DEF Inv, TypeOK, Tasks, Fit, TaskRow

\* A step of one task.
LEMMA OneTask ==
    ASSUME Inv, NEW t \in Task, NEW x, Fit(x), task' = [task EXCEPT ![t] = x]
    PROVE  /\ task' \in [Task -> TaskRow] /\ Tasks'
           /\ task'[t] = x /\ \A s \in Task \ {t} : task'[s] = task[s]
<1>1. task' \in [Task -> TaskRow] /\ \A s \in Task : Fit(task'[s])
  BY FitTasks DEF Fit
<1> QED  BY <1>1, FitTasks DEF Tasks, Fit

\* A task goes on with the windows it has left.
LEMMA RestFit ==
    ASSUME Inv, NEW t \in Task, NEW todo, todo \subseteq task[t].todo
    PROVE  \E x : Fit(x) /\ x.chosen = {} /\ Rest(t, todo) = [task EXCEPT ![t] = x]
<1> DEFINE y == [IdleTask EXCEPT !.step = "window", !.todo = todo, !.late = task[t].late]
           x == IF todo = {} THEN IdleTask ELSE y
<1>1. Fit(task[t])  BY FitTasks
<1>2. Fit(y) /\ y.chosen = {}  BY <1>1, IdleFit DEF Fit, TaskRow, IdleTask
<1>3. Fit(x) /\ x.chosen = {}  BY <1>2, IdleFit
<1>4. Rest(t, todo) = [task EXCEPT ![t] = x]  BY DEF Rest
<1> QED  BY <1>3, <1>4

\* A step of one task that chooses nothing and writes at most one row.
LEMMA TaskStep ==
    ASSUME Inv, NEW t \in Task, NEW x, Fit(x), task' = [task EXCEPT ![t] = x],
           x.chosen = {} \/ (x.chosen \subseteq task[t].chosen /\ x.window = task[t].window),
           window' \in [Age -> Row], UNCHANGED <<article, ledger, phase>>
    PROVE  Inv'
<1>1. task' \in [Task -> TaskRow] /\ Tasks' /\ LessOwed  BY OneTask DEF LessOwed
<1>2. TypeOK'  BY <1>1 DEF Inv, TypeOK, TaskRow
<1>3. \A h \in Hours : ledger'[h].used >= ledger[h].used /\ ledger'[h].spent = ledger[h].spent
  BY DEF Inv, TypeOK
<1> QED  BY <1>1, <1>2, <1>3, QuotaKept DEF Inv

LEMMA StatusWritten ==
    ASSUME Inv, NEW p \in Age, NEW s \in Status
    PROVE  [window EXCEPT ![p] = Written(s)] \in [Age -> Row]
<1>1. window \in [Age -> Row]  BY DEF Inv, TypeOK
<1>2. Written(s) \in Row  BY Facts DEF Written, Row
<1> QED  BY <1>1, <1>2

LEMMA BeginStep ==
    ASSUME Inv, NEW t \in Task, Begin(t) \/ (\E p \in Age : Rerun(t, p))
    PROVE  Inv'
<1>1. Fit(task[t]) /\ task[t].late = 0 /\ task[t].chosen = {}
  BY FitTasks DEF Fit, IdleTask, Begin, Rerun
<1>2. window \in [Age -> Row]  BY DEF Inv, TypeOK
<1>3. CASE Begin(t)
  <2>1. PICK before \in BOOLEAN :
            task' = [task EXCEPT ![t].step = "window", ![t].todo = Starts(before)]
    BY <1>3 DEF Begin
  <2> DEFINE x == [task[t] EXCEPT !.step = "window", !.todo = Starts(before)]
  <2>2. Starts(before) \subseteq Age  BY Facts DEF Starts
  <2>3. Fit(x) /\ x.chosen = {}
    <3>1. x \in TaskRow  BY <1>1, <2>2 DEF Fit, TaskRow
    <3>2. x.step = "window" /\ x.chosen = {}  BY <1>1, <2>2 DEF Fit, TaskRow
    <3>3. x.late = 0  BY <1>1, <2>2 DEF Fit, TaskRow
    <3> QED  BY <3>1, <3>2, <3>3 DEF Fit
  <2>4. task' = [task EXCEPT ![t] = x]  BY <2>1
  <2> QED  BY <1>2, <1>3, <2>3, <2>4, TaskStep DEF Begin
<1>4. ASSUME NEW p \in Age, Rerun(t, p) PROVE Inv'
  <2> DEFINE x == [task[t] EXCEPT !.step = "rerun", !.todo = {p}]
  <2>1. Fit(x) /\ x.chosen = {}
    <3>1. x \in TaskRow  BY <1>1 DEF Fit, TaskRow
    <3>2. x.step = "rerun" /\ x.chosen = {}  BY <1>1 DEF Fit, TaskRow
    <3>3. x.late = 0  BY <1>1 DEF Fit, TaskRow
    <3> QED  BY <3>1, <3>2, <3>3 DEF Fit
  <2>2. task' = [task EXCEPT ![t] = x]  BY <1>4 DEF Rerun
  <2>3. window' \in [Age -> Row]  BY <1>4, StatusWritten DEF Rerun, Status
  <2> QED  BY <1>4, <2>1, <2>2, <2>3, TaskStep DEF Rerun
<1> QED  BY <1>3, <1>4

LEMMA ClaimStep ==
    ASSUME Inv, NEW t \in Task, Claim(t)
    PROVE  Inv'
<1>0. Fit(task[t]) /\ window \in [Age -> Row]  BY FitTasks DEF Inv, TypeOK
<1>1. PICK p \in task[t].todo :
        IF Claimable(window[p], p - task[t].late)
        THEN /\ window' = [window EXCEPT ![p] = Claimed(p - task[t].late)]
             /\ task' = [task EXCEPT ![t].step = "select", ![t].window = p,
                                     ![t].todo = @ \ {p}]
        ELSE task' = Rest(t, task[t].todo \ {p}) /\ UNCHANGED window
  BY DEF Claim
<1>2. p \in Age /\ p - task[t].late \in Nat /\ p - task[t].late <= Lookback
  BY <1>0, Facts DEF Fit, TaskRow, Age
<1>3. task[t].chosen = {}  BY <1>0 DEF Claim, Fit
<1>4. CASE Claimable(window[p], p - task[t].late)
  <2> DEFINE x == [task[t] EXCEPT !.step = "select", !.window = p, !.todo = @ \ {p}]
  <2>1. Fit(x) /\ x.chosen = {}  BY <1>0, <1>2, <1>3 DEF Fit, TaskRow
  <2>2. task' = [task EXCEPT ![t] = x]  BY <1>1, <1>4
  <2>3. Claimed(p - task[t].late) \in Row
    BY <1>2, Facts DEF Claimed, Row, Status
  <2>4. window' \in [Age -> Row]  BY <1>0, <1>1, <1>2, <1>4, <2>3
  <2> QED  BY <2>1, <2>2, <2>4, TaskStep DEF Claim
<1>5. CASE ~Claimable(window[p], p - task[t].late)
  <2>1. task' = Rest(t, task[t].todo \ {p}) /\ window' = window  BY <1>1, <1>5
  <2>2. task[t].todo \ {p} \subseteq task[t].todo  OBVIOUS
  <2>3. PICK x : Fit(x) /\ x.chosen = {} /\ task' = [task EXCEPT ![t] = x]
    BY <2>1, <2>2, RestFit
  <2> QED  BY <1>0, <2>1, <2>3, TaskStep DEF Claim
<1> QED  BY <1>4, <1>5

LEMMA FinishStep ==
    ASSUME Inv, NEW t \in Task, Finish(t) \/ Crash(t)
    PROVE  Inv'
<1>0. Fit(task[t]) /\ window \in [Age -> Row]  BY FitTasks DEF Inv, TypeOK
<1>1. CASE Finish(t)
  <2>1. PICK x : Fit(x) /\ x.chosen = {} /\ task' = [task EXCEPT ![t] = x]
    BY <1>1, RestFit DEF Finish
  <2>2. window' \in [Age -> Row]
    BY <1>0, <1>1, StatusWritten DEF Finish, Status, Fit, TaskRow
  <2> QED  BY <1>1, <2>1, <2>2, TaskStep DEF Finish
<1>2. CASE Crash(t)
  BY <1>0, <1>2, IdleFit, TaskStep DEF Crash
<1> QED  BY <1>1, <1>2

\* What a task that selects pays.
LEMMA ChargedRight ==
    ASSUME Inv, NEW t \in Task, NEW chosen \in Selections
    PROVE  /\ chosen \subseteq Article /\ IsFiniteSet(chosen) /\ Cardinality(chosen) \in Nat
           /\ Charged(t, chosen) \in [Hours -> [used : 0..HourMax, spent : 0..HourMax]]
           /\ \A h \in Hours : /\ Charged(t, chosen)[h].used >= ledger[h].used
                               /\ Charged(t, chosen)[h].spent = ledger[h].spent
<1> DEFINE h0 == Hour(task[t].window)
           n == Cardinality(chosen)
<1>1. chosen \subseteq Article /\ IsFiniteSet(chosen) /\ n \in Nat
  BY Facts, FS_Subset, FS_CardinalityType DEF Selections, kSubset, Ready
<1>2. task[t].window \in Age  BY FitTasks DEF Fit, TaskRow
<1>3. h0 \in Hours  BY <1>2, HourType DEF Inv
<1>4. ledger \in [Hours -> [used : 0..HourMax, spent : 0..HourMax]]  BY DEF Inv, TypeOK
<1> HIDE DEF h0, n
<1>5. CASE Fits(t, chosen)
  <2>1. Charged(t, chosen) = [ledger EXCEPT ![h0].used = @ + n] /\ ledger[h0].used + n <= HourMax
    BY <1>5 DEF Charged, Fits, h0, n
  <2>2. ledger[h0].used + n \in 0..HourMax /\ ledger[h0].used + n >= ledger[h0].used
    BY <1>1, <1>3, <1>4, <2>1, Facts
  <2>3. \A h \in Hours : ledger[h].used \in Int  BY <1>4
  <2> QED  BY <1>1, <1>3, <1>4, <2>1, <2>2, <2>3 DEF n
<1>6. CASE ~Fits(t, chosen)
  <2>1. Charged(t, chosen) = ledger  BY <1>6 DEF Charged
  <2>2. \A h \in Hours : ledger[h].used \in Int  BY <1>4
  <2> QED  BY <1>1, <1>4, <2>1, <2>2 DEF n
<1> QED  BY <1>5, <1>6

LEMMA SelectStep ==
    ASSUME Inv, NEW t \in Task, Select(t)
    PROVE  Inv'
<1>0. Fit(task[t]) /\ task[t].chosen = {} /\ window \in [Age -> Row]
  BY FitTasks DEF Fit, Select, Inv, TypeOK
<1>1. PICK chosen \in Selections :
        /\ ledger' = Charged(t, chosen)
        /\ task' = [task EXCEPT ![t].step = "publish",
                                ![t].chosen = IF Fits(t, chosen) THEN chosen ELSE {}]
  BY DEF Select
<1> DEFINE x == [task[t] EXCEPT !.step = "publish",
                                !.chosen = IF Fits(t, chosen) THEN chosen ELSE {}]
           h0 == Hour(task[t].window)
           new == {t} \X chosen
<1>2. chosen \subseteq Article /\ IsFiniteSet(chosen) /\ Cardinality(chosen) \in Nat
  BY ChargedRight
<1>3. Fit(x) /\ x.window = task[t].window
      /\ x.chosen = IF Fits(t, chosen) THEN chosen ELSE {}
  <2>1. x \in TaskRow  BY <1>0, <1>2 DEF Fit, TaskRow
  <2>2. x.step = "publish" /\ x.window = task[t].window /\ x.late = task[t].late
        /\ x.todo = task[t].todo /\ x.chosen = IF Fits(t, chosen) THEN chosen ELSE {}
    BY <1>0 DEF Fit, TaskRow
  <2> QED  BY <1>0, <2>1, <2>2 DEF Fit
<1>4. task' = [task EXCEPT ![t] = x]  BY <1>1
<1> HIDE DEF x
<1>5. UNCHANGED <<window, article, phase>>  BY DEF Select
<1>6. CASE ~Fits(t, chosen)
  <2>1. ledger' = ledger  BY <1>1, <1>6 DEF Charged
  <2> QED  BY <1>0, <1>3, <1>4, <1>5, <1>6, <2>1, TaskStep
<1>7. CASE Fits(t, chosen)
  <2>1. /\ task' \in [Task -> TaskRow] /\ Tasks'
        /\ task'[t] = x /\ \A s \in Task \ {t} : task'[s] = task[s]
    BY <1>3, <1>4, OneTask
  <2>2. TypeOK'  BY <1>1, <1>5, <2>1, ChargedRight DEF Inv, TypeOK, TaskRow
  <2>3. task[t].window \in Age  BY <1>0 DEF Fit, TaskRow
  <2>4. h0 \in Hours  BY <2>3, HourType DEF Inv
  <2>5. \A p : Hour(p)' = Hour(p)  BY <1>5 DEF Hour
  <2>6. IsFiniteSet(new) /\ Cardinality(new) = Cardinality(chosen)
    <3>1. IsFiniteSet({t}) /\ Cardinality({t}) = 1  BY FS_Singleton
    <3> QED  BY <1>2, <3>1, FS_Product
  <2>7. ASSUME NEW h \in Hours
        PROVE  ledger'[h].spent + Cardinality(Owed(h)') <= ledger'[h].used
    <3>1. /\ ledger[h].spent + Cardinality(Owed(h)) <= ledger[h].used
          /\ ledger[h].spent \in Int /\ ledger[h].used \in Int
      BY DEF Inv, QuotaCoversPublications, TypeOK
    <3>2. Cardinality(Owed(h)) \in Nat  BY OwedFinite
    <3>3. CASE h = h0
      <4>1. Owed(h)' \subseteq Owed(h) \cup new
        <5> SUFFICES ASSUME NEW c \in Owed(h)', c \notin Owed(h)
                     PROVE  c \in new
          OBVIOUS
        <5>1. c \in Task \X Article /\ c[2] \in task'[c[1]].chosen
              /\ Hour(task'[c[1]].window) = h
          BY <2>5 DEF Owed
        <5>2. c[1] = t  BY <2>1, <5>1 DEF Owed
        <5> QED  BY <1>3, <1>7, <2>1, <5>1, <5>2
      <4>2. /\ Cardinality(Owed(h)') \in Nat
            /\ Cardinality(Owed(h)') <= Cardinality(Owed(h)) + Cardinality(chosen)
        BY <2>6, <4>1, MoreOwed
      <4>3. ledger' = [ledger EXCEPT ![h0].used = @ + Cardinality(chosen)]
        BY <1>1, <1>7 DEF Charged
      <4>4. ledger'[h].spent = ledger[h].spent
            /\ ledger'[h].used = ledger[h].used + Cardinality(chosen)
        BY <2>4, <3>3, <4>3 DEF Inv, TypeOK
      <4> QED  BY <1>2, <3>1, <3>2, <4>2, <4>4
    <3>4. CASE h # h0
      <4>1. Owed(h)' \subseteq Owed(h) \cup {}
        BY <1>3, <2>1, <2>5, <3>4 DEF Owed
      <4>2. /\ Cardinality(Owed(h)') \in Nat
            /\ Cardinality(Owed(h)') <= Cardinality(Owed(h))
        BY <3>2, <4>1, MoreOwed, FS_EmptySet
      <4>3. ledger' = [ledger EXCEPT ![h0].used = @ + Cardinality(chosen)]
        BY <1>1, <1>7 DEF Charged
      <4>4. ledger'[h] = ledger[h]  BY <2>4, <3>4, <4>3 DEF Inv, TypeOK
      <4> QED  BY <3>1, <3>2, <4>2, <4>4
    <3> QED  BY <3>3, <3>4
  <2> QED  BY <2>1, <2>2, <2>7, <1>5 DEF Inv, QuotaCoversPublications, Hours
<1> QED  BY <1>6, <1>7

LEMMA SelectFailsStep ==
    ASSUME Inv, NEW t \in Task, SelectFails(t)
    PROVE  Inv'
<1>0. Fit(task[t])  BY FitTasks
<1>1. PICK chosen \in Selections : ledger' \in {ledger, Charged(t, chosen)}  BY DEF SelectFails
<1>2. PICK x : Fit(x) /\ x.chosen = {} /\ task' = [task EXCEPT ![t] = x]
  BY RestFit DEF SelectFails
<1>3. task' \in [Task -> TaskRow] /\ Tasks' /\ LessOwed  BY <1>2, OneTask DEF LessOwed
<1>4. window' \in [Age -> Row]
  BY <1>0, StatusWritten DEF SelectFails, Status, Fit, TaskRow
<1>5. /\ ledger' \in [Hours -> [used : 0..HourMax, spent : 0..HourMax]]
      /\ \A h \in Hours : ledger'[h].used >= ledger[h].used /\ ledger'[h].spent = ledger[h].spent
  <2>1. CASE ledger' = ledger  BY <2>1 DEF Inv, TypeOK
  <2>2. CASE ledger' = Charged(t, chosen)  BY <2>2, ChargedRight
  <2> QED  BY <1>1, <2>1, <2>2
<1>6. UNCHANGED <<article, phase>>  BY DEF SelectFails
<1>7. TypeOK'  BY <1>3, <1>4, <1>5, <1>6 DEF Inv, TypeOK, TaskRow
<1> QED  BY <1>3, <1>5, <1>6, <1>7, QuotaKept DEF Inv

LEMMA PublishStep ==
    ASSUME Inv, NEW t \in Task, NEW a \in Article, NEW saved \in BOOLEAN, NEW raised \in BOOLEAN,
           Publish(t, a, saved, raised)
    PROVE  Inv'
<1> DEFINE x == [task[t] EXCEPT !.chosen = @ \ {a}, !.failed = @ \/ raised]
           h0 == Hour(task[t].window)
<1>0. Fit(task[t]) /\ window \in [Age -> Row]  BY FitTasks DEF Inv, TypeOK
<1>1. Fit(x) /\ x.window = task[t].window /\ x.chosen = task[t].chosen \ {a}
  <2>1. task[t].failed \/ raised \in BOOLEAN  OBVIOUS
  <2>2. x \in TaskRow  BY <1>0, <2>1 DEF Fit, TaskRow
  <2>3. /\ x.step = task[t].step /\ x.window = task[t].window /\ x.late = task[t].late
        /\ x.todo = task[t].todo /\ x.chosen = task[t].chosen \ {a}
    BY <1>0 DEF Fit, TaskRow
  <2> QED  BY <1>0, <2>2, <2>3 DEF Fit, Publish
<1>2. task' = [task EXCEPT ![t] = x]  BY DEF Publish
<1> HIDE DEF x
<1>3. CASE ~saved
  BY <1>0, <1>1, <1>2, <1>3, TaskStep DEF Publish
<1>4. CASE saved
  <2>1. /\ task' \in [Task -> TaskRow] /\ Tasks'
        /\ task'[t] = x /\ \A s \in Task \ {t} : task'[s] = task[s]
    BY <1>1, <1>2, OneTask
  <2>2. /\ article' = [article EXCEPT ![a] = "closed"] /\ a \in task[t].chosen
        /\ ledger' = [ledger EXCEPT ![h0].spent = @ + 1]
        /\ window' = window /\ phase' = phase
    BY <1>4 DEF Publish
  <2>3. task[t].window \in Age  BY <1>0 DEF Fit, TaskRow
  <2>4. PICK g \in Hours : g = h0  BY <2>3, HourType DEF Inv
  <2>5. \A p : Hour(p)' = Hour(p)  BY <2>2 DEF Hour
  <2>6. /\ <<t, a>> \in Owed(g)
        /\ Owed(g)' \subseteq Owed(g) \ {<<t, a>>}
    BY <1>1, <2>1, <2>2, <2>4, <2>5 DEF Owed
  <2>7. /\ Cardinality(Owed(g)) \in Nat /\ Cardinality(Owed(g)') \in Nat
        /\ Cardinality(Owed(g)') <= Cardinality(Owed(g)) - 1
    <3>1. /\ IsFiniteSet(Owed(g) \ {<<t, a>>})
          /\ Cardinality(Owed(g) \ {<<t, a>>}) = Cardinality(Owed(g)) - 1
      BY <2>6, OwedFinite, FS_RemoveElement
    <3> QED  BY <2>6, <3>1, OwedFinite, FS_Subset, FS_CardinalityType
  <2>8. /\ ledger \in [Hours -> [used : 0..HourMax, spent : 0..HourMax]]
        /\ \A h \in Hours : ledger[h].spent + Cardinality(Owed(h)) <= ledger[h].used
    BY DEF Inv, TypeOK, QuotaCoversPublications
  <2>9. ledger[g].spent + 1 \in 0..HourMax
    <3>1. ledger[g].spent \in Nat /\ ledger[g].used \in Nat /\ ledger[g].used <= HourMax
      BY <2>4, <2>8, Facts
    <3>2. ledger[g].spent + Cardinality(Owed(g)) <= ledger[g].used  BY <2>4, <2>8
    <3> QED  BY <2>7, <3>1, <3>2, Facts
  <2>10. TypeOK'
    <3>1. ledger' \in [Hours -> [used : 0..HourMax, spent : 0..HourMax]]
      BY <2>2, <2>4, <2>8, <2>9
    <3> QED  BY <2>1, <2>2, <3>1 DEF Inv, TypeOK, TaskRow
  <2>11. ASSUME NEW h \in Hours
         PROVE  ledger'[h].spent + Cardinality(Owed(h)') <= ledger'[h].used
    <3>1. /\ ledger[h].spent + Cardinality(Owed(h)) <= ledger[h].used
          /\ ledger[h].spent \in Int /\ ledger[h].used \in Int
      BY <2>8
    <3>2. CASE h = g
      <4>1. ledger'[h].spent = ledger[h].spent + 1 /\ ledger'[h].used = ledger[h].used
        BY <2>2, <2>4, <2>8, <3>2
      <4>2. /\ Cardinality(Owed(h)) \in Nat /\ Cardinality(Owed(h)') \in Nat
            /\ Cardinality(Owed(h)') <= Cardinality(Owed(h)) - 1
        BY <2>7, <3>2
      <4> QED  BY <3>1, <4>1, <4>2
    <3>3. CASE h # g
      <4>1. Owed(h)' \subseteq Owed(h) \cup {}
        BY <1>1, <2>1, <2>4, <2>5, <3>3 DEF Owed
      <4>2. /\ Cardinality(Owed(h)') \in Nat /\ Cardinality(Owed(h)) \in Nat
            /\ Cardinality(Owed(h)') <= Cardinality(Owed(h))
        BY <4>1, OwedFinite, MoreOwed, FS_EmptySet
      <4>3. ledger'[h] = ledger[h]  BY <2>2, <2>4, <2>8, <3>3
      <4> QED  BY <3>1, <4>2, <4>3
    <3> QED  BY <3>2, <3>3
  <2> QED  BY <2>1, <2>2, <2>10, <2>11 DEF Inv, QuotaCoversPublications, Hours
<1> QED  BY <1>3, <1>4

LEMMA OthersStep ==
    ASSUME Inv, OtherRegion \/ \E a \in Article : Ignore(a) \/ Arrive(a)
    PROVE  Inv'
<1>1. UNCHANGED <<window, phase, task>>  BY DEF OtherRegion, Ignore, Arrive
<1>2. ledger \in [Hours -> [used : 0..HourMax, spent : 0..HourMax]]  BY DEF Inv, TypeOK
<1>3. article' \in [Article -> {"ready", "closed"}]
      /\ ledger' \in [Hours -> [used : 0..HourMax, spent : 0..HourMax]]
      /\ \A h \in Hours : ledger'[h].used >= ledger[h].used /\ ledger'[h].spent = ledger[h].spent
  <2>1. CASE OtherRegion
    <3>1. ledger[0].used + 1 \in 0..HourMax /\ ledger[0].used + 1 >= ledger[0].used
      BY <1>2, <2>1, Facts DEF OtherRegion
    <3>2. \A h \in Hours : ledger[h].used \in Int  BY <1>2
    <3> QED  BY <1>2, <2>1, <3>1, <3>2, Facts DEF OtherRegion, Inv, TypeOK
  <2>2. CASE \E a \in Article : Ignore(a) \/ Arrive(a)
    <3>1. \A h \in Hours : ledger[h].used \in Int  BY <1>2
    <3> QED  BY <1>2, <2>2, <3>1 DEF Ignore, Arrive, Inv, TypeOK
  <2> QED  BY <2>1, <2>2
<1>4. TypeOK'  BY <1>1, <1>3 DEF Inv, TypeOK
<1>5. LessOwed /\ Tasks'  BY <1>1 DEF LessOwed, Inv, Tasks
<1> QED  BY <1>1, <1>3, <1>4, <1>5, QuotaKept DEF Inv

LEMMA ClockStep ==
    ASSUME Inv, Clock
    PROVE  Inv'
<1>0. /\ window \in [Age -> Row] /\ task \in [Task -> TaskRow]
      /\ \A t \in Task : Fit(task[t])
      /\ ledger \in [Hours -> [used : 0..HourMax, spent : 0..HourMax]]
      /\ \A h \in Hours : ledger[h].spent + Cardinality(Owed(h)) <= ledger[h].used
      /\ phase \in 0..(PerHour - 1) /\ TypeOK
  BY FitTasks DEF Inv, TypeOK, QuotaCoversPublications
<1>1. /\ window' = Aged(window) /\ ledger' = Ledgers /\ article' = article
      /\ phase' = (phase + 1) % PerHour
      /\ task' = [t \in Task |->
                    IF task[t].step = "idle" THEN IdleTask
                    ELSE [task[t] EXCEPT !.todo = {p + 1 : p \in @}, !.window = @ + 1,
                                         !.late = IF task[t].step = "rerun" THEN 0 ELSE 1]]
  BY DEF Clock
<1>2. ASSUME NEW t \in Task, task[t].step # "idle"
      PROVE  /\ Fit(task'[t]) /\ task'[t].chosen = task[t].chosen
             /\ task'[t].window = task[t].window + 1
             /\ task[t].window \in Age /\ task[t].window < Lookback
  <2> DEFINE todo == {p + 1 : p \in task[t].todo}
             late == IF task[t].step = "rerun" THEN 0 ELSE 1
             x == [task[t] EXCEPT !.todo = todo, !.window = @ + 1, !.late = late]
  <2>1. Fit(task[t]) /\ task[t] \in TaskRow  BY <1>0 DEF Fit
  <2>2. Lookback \notin task[t].todo \cup {task[t].window}  BY <1>2 DEF Clock
  <2>3. task[t].todo \subseteq Age /\ task[t].window \in Age /\ task[t].window < Lookback
        /\ task[t].window + 1 \in Age
    BY <2>1, <2>2, Facts DEF TaskRow, Age
  <2>4. todo \subseteq Age /\ 0 \notin todo
    <3> SUFFICES ASSUME NEW p \in task[t].todo
                 PROVE  p + 1 \in Age /\ p + 1 # 0
      OBVIOUS
    <3> QED  BY <2>2, <2>3, Facts DEF Age
  <2>5. late \in {0, 1}  OBVIOUS
  <2>6. task'[t] = x  BY <1>1, <1>2
  <2> HIDE DEF todo, late
  <2>7. x \in TaskRow  BY <2>1, <2>3, <2>4, <2>5 DEF TaskRow
  <2>8. /\ x.step = task[t].step /\ x.todo = todo /\ x.chosen = task[t].chosen
        /\ x.window = task[t].window + 1
    BY <2>1 DEF TaskRow
  <2>9. Fit(x)  BY <1>2, <2>1, <2>4, <2>7, <2>8 DEF Fit
  <2> QED  BY <2>3, <2>6, <2>8, <2>9
<1>3. ASSUME NEW t \in Task, task[t].step = "idle"
      PROVE  Fit(task'[t]) /\ task'[t].chosen = {}
  <2>1. task'[t] = IdleTask  BY <1>1, <1>3
  <2> QED  BY <2>1, IdleFit
<1>4. \A t \in Task : Fit(task'[t])  BY <1>2, <1>3
<1>5. task' \in [Task -> TaskRow] /\ Tasks'
  <2>1. DOMAIN task' = Task /\ task' = [t \in Task |-> task'[t]]  BY <1>1
  <2>2. \A t \in Task : task'[t] \in TaskRow  BY <1>4 DEF Fit
  <2>3. task' \in [Task -> TaskRow]  BY <2>1, <2>2
  <2> QED  BY <1>4, <2>3 DEF Tasks, Fit
<1>6. window' \in [Age -> Row]
  <2>1. NoRow \in Row  BY Facts DEF NoRow, Row, Status
  <2>2. \A p \in Age : p = 0 \/ p - 1 \in Age  BY Facts DEF Age
  <2> QED  BY <1>0, <1>1, <2>1, <2>2 DEF Aged
<1>7. phase' \in 0..(PerHour - 1)
  <2>1. phase + 1 \in Nat /\ PerHour \in Nat \ {0}  BY <1>0, Facts
  <2>2. (phase + 1) % PerHour \in 0..(PerHour - 1)  BY <2>1
  <2> QED  BY <1>1, <2>2
<1>8. /\ NoLedger \in [used : 0..HourMax, spent : 0..HourMax]
      /\ NoLedger.used = 0 /\ NoLedger.spent = 0
  BY Facts DEF NoLedger
<1>9. \A h \in Hours : h \in Nat /\ (h # 0 => h - 1 \in Hours)
  <2>1. Lookback + PerHour - 1 \in Nat /\ PerHour \in Nat \ {0}  BY Facts
  <2>2. (Lookback + PerHour - 1) \div PerHour \in Nat  BY <2>1
  <2> QED  BY <2>2 DEF Hours
<1>10. ledger' \in [Hours -> [used : 0..HourMax, spent : 0..HourMax]]
  BY <1>0, <1>1, <1>8, <1>9 DEF Ledgers
<1>11. TypeOK'  BY <1>0, <1>1, <1>5, <1>6, <1>7, <1>10 DEF TypeOK, TaskRow
<1>12. ASSUME NEW h, NEW c \in Owed(h)'
       PROVE  /\ c \in Task \X Article /\ c[2] \in task[c[1]].chosen
              /\ h = IF phase < PerHour - 1 THEN Hour(task[c[1]].window)
                     ELSE Hour(task[c[1]].window) + 1
              /\ ~Past(h) /\ Hour(task[c[1]].window) \in Hours
  <2>1. c \in Task \X Article /\ c[2] \in task'[c[1]].chosen /\ Hour(task[c[1]].window)' = h
    BY DEF Owed
  <2>2. c[1] \in Task /\ task[c[1]].step # "idle"  BY <1>3, <2>1
  <2>3. PICK w \in Age : w = task[c[1]].window /\ w < Lookback  BY <1>2, <2>2
  <2>4. task'[c[1]].chosen = task[c[1]].chosen /\ task'[c[1]].window = w + 1
    BY <1>2, <2>2, <2>3
  <2>5. Hour(task[c[1]].window)' = Hour(w + 1)'  BY <2>4 DEF Hour
  <2>6. /\ Hour(w + 1)' = IF phase < PerHour - 1 THEN Hour(w) ELSE Hour(w) + 1
        /\ ~Past(Hour(w + 1)')
    BY <1>0, <1>1, <2>3, HourStep
  <2>7. Hour(w) \in Hours  BY <1>0, <2>3, HourType
  <2>8. h = (IF phase < PerHour - 1 THEN Hour(w) ELSE Hour(w) + 1) /\ ~Past(h)
    BY <2>1, <2>5, <2>6
  <2> QED  BY <2>1, <2>3, <2>4, <2>7, <2>8
<1>13. ASSUME NEW h \in Hours
       PROVE  ledger'[h].spent + Cardinality(Owed(h)') <= ledger'[h].used
  <2>1. ledger'[h] = IF Past(h) THEN NoLedger
                     ELSE IF phase < PerHour - 1 THEN ledger[h]
                     ELSE IF h = 0 THEN NoLedger ELSE ledger[h - 1]
    BY <1>1 DEF Ledgers
  <2>2. CASE Past(h) \/ (~(phase < PerHour - 1) /\ h = 0)
    <3>1. ledger'[h] = NoLedger  BY <2>1, <2>2
    <3>2. ASSUME NEW c \in Owed(h)' PROVE FALSE
      <4>1. ~Past(h) /\ h = (IF phase < PerHour - 1 THEN Hour(task[c[1]].window)
                             ELSE Hour(task[c[1]].window) + 1)
            /\ Hour(task[c[1]].window) \in Hours
        BY <1>12, <3>2
      <4> QED  BY <1>9, <2>2, <4>1
    <3>3. Owed(h)' = {}  BY <3>2
    <3>4. Cardinality(Owed(h)') = 0  BY <3>3, FS_EmptySet
    <3> QED  BY <1>8, <3>1, <3>4
  <2>3. CASE ~Past(h) /\ phase < PerHour - 1
    <3>1. ledger'[h] = ledger[h]  BY <2>1, <2>3
    <3>2. Owed(h)' \subseteq Owed(h) \cup {}
      <4> SUFFICES ASSUME NEW c \in Owed(h)' PROVE c \in Owed(h)
        OBVIOUS
      <4>1. c \in Task \X Article /\ c[2] \in task[c[1]].chosen /\ h = Hour(task[c[1]].window)
        BY <1>12, <2>3
      <4> QED  BY <4>1 DEF Owed
    <3>3. /\ Cardinality(Owed(h)') \in Nat /\ Cardinality(Owed(h)) \in Nat
          /\ Cardinality(Owed(h)') <= Cardinality(Owed(h))
      BY <3>2, OwedFinite, MoreOwed, FS_EmptySet
    <3>4. ledger[h].spent \in Int /\ ledger[h].used \in Int
          /\ ledger[h].spent + Cardinality(Owed(h)) <= ledger[h].used
      BY <1>0
    <3> QED  BY <3>1, <3>3, <3>4
  <2>4. CASE ~Past(h) /\ ~(phase < PerHour - 1) /\ h # 0
    <3>1. ledger'[h] = ledger[h - 1] /\ h - 1 \in Hours  BY <1>9, <2>1, <2>4
    <3>2. Owed(h)' \subseteq Owed(h - 1)
      <4> SUFFICES ASSUME NEW c \in Owed(h)' PROVE c \in Owed(h - 1)
        OBVIOUS
      <4>1. c \in Task \X Article /\ c[2] \in task[c[1]].chosen
            /\ h = Hour(task[c[1]].window) + 1 /\ Hour(task[c[1]].window) \in Hours
        BY <1>12, <2>4
      <4>2. PICK g \in Nat : g = Hour(task[c[1]].window)  BY <1>9, <4>1
      <4>3. g = h - 1  BY <4>1, <4>2
      <4> QED  BY <4>1, <4>2, <4>3 DEF Owed
    <3>3. /\ Cardinality(Owed(h)') \in Nat /\ Cardinality(Owed(h - 1)) \in Nat
          /\ Cardinality(Owed(h)') <= Cardinality(Owed(h - 1))
      BY <3>2, OwedFinite, FS_Subset, FS_CardinalityType
    <3>4. ledger[h - 1].spent \in Int /\ ledger[h - 1].used \in Int
          /\ ledger[h - 1].spent + Cardinality(Owed(h - 1)) <= ledger[h - 1].used
      BY <1>0, <3>1
    <3> QED  BY <3>1, <3>3, <3>4
  <2> QED  BY <2>2, <2>3, <2>4
<1> QED  BY <1>5, <1>11, <1>13 DEF Inv, QuotaCoversPublications, Hours

-----------------------------------------------------------------------------

LEMMA InitInv == Init => Inv
<1> SUFFICES ASSUME Init PROVE Inv
  OBVIOUS
<1>1. TypeOK
  <2>1. NoRow \in Row  BY Facts DEF NoRow, Row, Status
  <2>2. NoLedger \in [used : 0..HourMax, spent : 0..HourMax]  BY Facts DEF NoLedger
  <2>3. IdleTask \in TaskRow  BY IdleFit DEF Fit
  <2> QED  BY <2>1, <2>2, <2>3, Facts DEF Init, TypeOK, TaskRow
<1>2. Tasks  BY DEF Init, Tasks, IdleTask
<1>3. ASSUME NEW h \in Hours
      PROVE  ledger[h].spent + Cardinality(Owed(h)) <= ledger[h].used
  <2>1. Owed(h) = {}  BY DEF Init, Owed, IdleTask
  <2>2. Cardinality(Owed(h)) = 0  BY <2>1, FS_EmptySet
  <2>3. ledger[h].spent = 0 /\ ledger[h].used = 0  BY DEF Init, NoLedger
  <2> QED  BY <2>2, <2>3
<1> QED  BY <1>1, <1>2, <1>3 DEF Inv, QuotaCoversPublications

LEMMA NextInv ==
    ASSUME Inv, [Next]_publishVars
    PROVE  Inv'
<1>1. CASE Clock  BY <1>1, ClockStep
<1>2. CASE OtherRegion  BY <1>2, OthersStep
<1>3. ASSUME NEW a \in Article, Ignore(a) \/ Arrive(a) PROVE Inv'  BY <1>3, OthersStep
<1>4. ASSUME NEW t \in Task, Begin(t) \/ \E p \in Age : Rerun(t, p) PROVE Inv'
  BY <1>4, BeginStep
<1>5. ASSUME NEW t \in Task, Claim(t) PROVE Inv'  BY <1>5, ClaimStep
<1>6. ASSUME NEW t \in Task, Select(t) PROVE Inv'  BY <1>6, SelectStep
<1>7. ASSUME NEW t \in Task, SelectFails(t) PROVE Inv'  BY <1>7, SelectFailsStep
<1>8. ASSUME NEW t \in Task, NEW a \in Article, NEW saved \in BOOLEAN, NEW raised \in BOOLEAN,
             Publish(t, a, saved, raised)
      PROVE  Inv'
  BY <1>8, PublishStep
<1>9. ASSUME NEW t \in Task, Finish(t) \/ Crash(t) PROVE Inv'  BY <1>9, FinishStep
<1>10. CASE UNCHANGED publishVars
  <2>1. UNCHANGED <<window, article, ledger, phase, task>>  BY <1>10 DEF publishVars
  <2>2. TypeOK' /\ Tasks' /\ LessOwed  BY <2>1 DEF Inv, TypeOK, Tasks, LessOwed
  <2>3. \A h \in Hours : ledger'[h].used >= ledger[h].used /\ ledger'[h].spent = ledger[h].spent
    BY <2>1 DEF Inv, TypeOK
  <2> QED  BY <2>1, <2>2, <2>3, QuotaKept DEF Inv
<1> QED
  BY <1>1, <1>2, <1>3, <1>4, <1>5, <1>6, <1>7, <1>8, <1>9, <1>10
     DEF Next, Undisturbed, Disturbed, Work

LEMMA Invariant == Spec => []Inv
<1>1. Init => Inv  BY InitInv
<1>2. Inv /\ [Next]_publishVars => Inv'  BY NextInv
<1> QED  BY <1>1, <1>2, PTL DEF Spec

\* Rows, ledgers and tasks have their types; in particular no ledger counts
\* more than the site's limit for an hour, and no hour more publications than
\* that.
THEOREM TypeCorrect == Spec => []TypeOK
<1>1. Inv => TypeOK  BY DEF Inv
<1> QED  BY <1>1, Invariant, PTL

\* The ledger of an hour pays in advance for every publication of its windows,
\* whoever takes them over, reruns them, fails or dies (publishing_windows.py,
\* _reserve_site_hour_quota).
THEOREM LedgerCovers == Spec => []QuotaCoversPublications
<1>1. Inv => QuotaCoversPublications  BY DEF Inv
<1> QED  BY <1>1, Invariant, PTL
=============================================================================
