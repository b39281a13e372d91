---------------------------- MODULE QQExposureProofs ----------------------------
(***************************************************************************)
(* Proofs about QQExposure.  Everything follows from one invariant of the  *)
(* table, Good: the rows are of the right shape, no slot is held twice,    *)
(* and the second slot has a first one that tells another story and has    *)
(* been shown at least as long as the second has waited.                   *)
(***************************************************************************)
EXTENDS QQExposure, TLAPS

\* On the QQ channel a row is never given up and the first slot never waits.
Sound(r) ==
    /\ r.slot = 0 => r = NoRow
    /\ r.slot = 1 => r.status \in {"active", "sent"}
    /\ r.slot = 2 => r.status \in {"waiting", "active", "sent"}

\* f holds the first slot that the second slot s follows.
Precedes(t, f, s) ==
    /\ t[f].slot = 1
    /\ Angle[f] # Angle[s] /\ OtherAngle \notin {Angle[f], Angle[s]}
    /\ t[s].status = "waiting" => t[f].shown >= t[s].waited

Spaced(t) == \A s \in Article : t[s].slot = 2 => \E f \in Article : Precedes(t, f, s)

OneEach(t) == \A a, b \in Article : t[a].slot # 0 /\ t[a].slot = t[b].slot => a = b

Good(t) ==
    /\ t \in [Article -> Row]
    /\ \A a \in Article : Sound(t[a])
    /\ OneEach(t)
    /\ Spaced(t)

\* Where u has newly granted the second slot, t shows a mature first one.
Waits(t, u) ==
    \A a \in Article :
        ~Granted(t[a]) /\ Granted(u[a]) /\ u[a].slot = 2
        => \E f \in Article : t[f].slot = 1 /\ Granted(t[f]) /\ t[f].shown = Delay

SlotInv ==
    /\ TypeOK
    /\ Good(exposure)
    /\ \A a \in Article : delivery[a] # "none" => Granted(exposure[a])

-----------------------------------------------------------------------------
(* The table.                                                              *)

LEMMA SoundIsLive ==
    ASSUME NEW r, Sound(r), r.slot \in {0, 1, 2}
    PROVE  /\ Live(r) <=> r.slot # 0
           /\ Granted(r) <=> r.slot # 0 /\ r.status # "waiting"
  BY DEF Sound, Live, Granted, NoRow

LEMMA NoRowIsRow == NoRow \in Row
  BY DelayAssumption DEF NoRow, Row

\* Promotion keeps the table good and never grants the second slot early.
LEMMA PromotedIsGood ==
    ASSUME NEW t, NEW seen, Good(t)
    PROVE  /\ Good(Promoted(t, seen))
           /\ Waits(t, Promoted(t, seen))
           /\ \A a \in Article : /\ Promoted(t, seen)[a].slot = t[a].slot
                                 /\ Granted(t[a]) => Promoted(t, seen)[a] = t[a]
                                 /\ t[a].slot # 2 => Promoted(t, seen)[a] = t[a]
<1> DEFINE p == Promoted(t, seen)
           up(a) == a \in seen /\ t[a].slot = 2 /\ t[a].status = "waiting" /\ t[a].waited = Delay
<1>1. \A a \in Article : /\ t[a] \in Row
                         /\ up(a) => p[a] = [slot |-> 2, status |-> "active", waited |-> Delay, shown |-> 0]
                         /\ ~up(a) => p[a] = t[a]
  <2> SUFFICES ASSUME NEW a \in Article
               PROVE  /\ t[a] \in Row
                      /\ up(a) => p[a] = [slot |-> 2, status |-> "active", waited |-> Delay, shown |-> 0]
                      /\ ~up(a) => p[a] = t[a]
    OBVIOUS
  <2>1. t[a] \in Row
    BY DEF Good
  <2>2. p[a] = IF up(a) THEN [t[a] EXCEPT !.status = "active", !.shown = 0] ELSE t[a]
    BY DEF Promoted
  <2> QED
    BY <2>1, <2>2 DEF Row
<1>2. p \in [Article -> Row]
  <2>1. [slot |-> 2, status |-> "active", waited |-> Delay, shown |-> 0] \in Row
    BY DelayAssumption DEF Row
  <2>2. ASSUME NEW a \in Article PROVE p[a] \in Row
    <3> HIDE DEF p
    <3> QED BY <2>1, <1>1
  <2> QED
    BY <2>2 DEF Promoted
<1>3. \A a \in Article : p[a].slot = t[a].slot /\ p[a].waited = t[a].waited /\ Sound(p[a])
  <2> SUFFICES ASSUME NEW a \in Article
               PROVE  p[a].slot = t[a].slot /\ p[a].waited = t[a].waited /\ Sound(p[a])
    OBVIOUS
  <2>1. Sound(t[a])
    BY DEF Good
  <2> QED
    BY <2>1, <1>1 DEF Sound
<1>4. \A a \in Article : t[a].slot # 2 \/ Granted(t[a]) => p[a] = t[a]
  BY <1>1 DEF Granted
<1>5. OneEach(p)
  BY <1>3 DEF OneEach, Good
<1>6. Spaced(p)
  <2> SUFFICES ASSUME NEW s \in Article, p[s].slot = 2
               PROVE  \E f \in Article : Precedes(p, f, s)
    BY DEF Spaced
  <2>1. PICK f \in Article : Precedes(t, f, s)
    BY <1>3 DEF Good, Spaced
  <2>2. p[f] = t[f]
    BY <2>1, <1>4 DEF Precedes
  <2>3. p[s].status = "waiting" => p[s] = t[s]
    BY <1>1
  <2> QED
    BY <2>1, <2>2, <2>3 DEF Precedes
<1>7. Waits(t, p)
  <2> SUFFICES ASSUME NEW a \in Article, ~Granted(t[a]), Granted(p[a]), p[a].slot = 2
               PROVE  \E f \in Article : t[f].slot = 1 /\ Granted(t[f]) /\ t[f].shown = Delay
    BY DEF Waits
  <2>1. up(a)
    BY <1>1
  <2>2. PICK f \in Article : Precedes(t, f, a)
    BY <2>1 DEF Good, Spaced
  <2>3. t[f] \in Row /\ Sound(t[f]) /\ t[f].slot = 1
    BY <2>2 DEF Good, Precedes
  <2>4. t[f].shown >= Delay /\ t[f].shown \in 0..Delay
    BY <2>1, <2>2, <2>3 DEF Precedes, Row
  <2>5. t[f].shown = Delay
    BY <2>4, DelayAssumption
  <2>6. Granted(t[f])
    BY <2>3 DEF Granted, Live, Sound
  <2> QED
    BY <2>3, <2>5, <2>6
<1> QED
  BY <1>2, <1>3, <1>4, <1>5, <1>6, <1>7 DEF Good

\* The clock keeps the table good and grants nothing.
LEMMA AgedIsGood ==
    ASSUME NEW t, Good(t)
    PROVE  /\ Good(Aged(t))
           /\ Waits(t, Aged(t))
           /\ \A a \in Article : Granted(Aged(t)[a]) <=> Granted(t[a])
<1> DEFINE g == Aged(t)
<1>1. \A n \in 0..Delay : Older(n) \in 0..Delay
  BY DelayAssumption DEF Older
<1>2. \A m, n \in 0..Delay : m >= n => Older(m) >= Older(n)
  BY DelayAssumption DEF Older
<1>3. \A a \in Article :
        /\ t[a] \in Row /\ g[a] \in Row /\ Sound(t[a])
        /\ g[a].slot = t[a].slot /\ g[a].status = t[a].status
        /\ t[a].slot = 0 => g[a] = t[a]
        /\ t[a].slot # 0 => g[a].waited = Older(t[a].waited)
        /\ Granted(t[a]) => g[a].shown = Older(t[a].shown)
  <2> SUFFICES ASSUME NEW a \in Article
               PROVE  /\ t[a] \in Row /\ g[a] \in Row /\ Sound(t[a])
                      /\ g[a].slot = t[a].slot /\ g[a].status = t[a].status
                      /\ t[a].slot = 0 => g[a] = t[a]
                      /\ t[a].slot # 0 => g[a].waited = Older(t[a].waited)
                      /\ Granted(t[a]) => g[a].shown = Older(t[a].shown)
    OBVIOUS
  <2>1. t[a] \in Row /\ Sound(t[a])
    BY DEF Good
  <2>2. Granted(t[a]) => t[a].slot # 0
    BY DEF Granted, Live
  <2>3. g[a] = IF t[a].slot = 0 THEN t[a]
               ELSE [t[a] EXCEPT !.waited = Older(@),
                                 !.shown = IF Granted(t[a]) THEN Older(@) ELSE @]
    BY DEF Aged
  <2> HIDE DEF g
  <2>4. CASE t[a].slot = 0
    BY <2>1, <2>2, <2>3, <2>4
  <2>5. CASE t[a].slot # 0 /\ Granted(t[a])
    <3>1. g[a] = [t[a] EXCEPT !.waited = Older(@), !.shown = Older(@)]
      BY <2>3, <2>5
    <3> QED
      BY <2>1, <2>5, <3>1, <1>1 DEF Row
  <2>6. CASE t[a].slot # 0 /\ ~Granted(t[a])
    <3>1. g[a] = [t[a] EXCEPT !.waited = Older(@), !.shown = @]
      BY <2>3, <2>6
    <3> QED
      BY <2>1, <2>6, <3>1, <1>1 DEF Row
  <2> QED
    BY <2>4, <2>5, <2>6
<1>4. g \in [Article -> Row]
  BY <1>3 DEF Aged
<1> HIDE DEF g
<1>5. \A a \in Article : Sound(g[a]) /\ (Granted(g[a]) <=> Granted(t[a]))
  BY <1>3 DEF Sound, Granted, Live
<1>6. OneEach(g)
  BY <1>3 DEF OneEach, Good
<1>7. Spaced(g)
  <2> SUFFICES ASSUME NEW s \in Article, g[s].slot = 2
               PROVE  \E f \in Article : Precedes(g, f, s)
    BY DEF Spaced
  <2>1. PICK f \in Article : Precedes(t, f, s)
    BY <1>3 DEF Good, Spaced
  <2>2. Granted(t[f])
    BY <2>1, <1>3 DEF Precedes, Sound, Granted, Live
  <2>3. g[f].slot = 1 /\ g[f].shown = Older(t[f].shown) /\ g[s].waited = Older(t[s].waited)
    BY <2>1, <2>2, <1>3 DEF Precedes
  <2>4. t[f].shown \in 0..Delay /\ t[s].waited \in 0..Delay
    BY <1>3 DEF Row
  <2>5. g[s].status = "waiting" => g[f].shown >= g[s].waited
    BY <2>1, <2>3, <2>4, <1>2, <1>3 DEF Precedes
  <2> QED
    BY <2>1, <2>3, <2>5 DEF Precedes
<1>8. Waits(t, g)
  BY <1>5 DEF Waits
<1> QED
  BY <1>4, <1>5, <1>6, <1>7, <1>8 DEF Good, g

\* What an accepted reservation writes is the promoted table, or that table
\* with a new row for an article that had none.
LEMMA ReservedForms ==
    ASSUME NEW t, NEW seen \in SUBSET Article, NEW a \in Article, Good(t),
           a \notin seen /\ t[a].slot # 0 => Reserved(t, seen, a)[a] = t[a]
    PROVE  LET p == Promoted(t, seen)
               u == Reserved(t, seen, a)
           IN  \/ u = p
               \/ /\ t[a].slot = 0
                  /\ u = [p EXCEPT ![a] = Taken(NoRow, 1, "active")]
               \/ /\ t[a].slot = 0
                  /\ Holders(p, seen, 1) # {}
                  /\ \A f \in Holders(p, seen, 1) : Differs(a, f)
                  /\ u = [p EXCEPT ![a] = Taken(NoRow, 2, SecondStatus(p, Holders(p, seen, 1)))]
<1> DEFINE p == Promoted(t, seen)
           u == Reserved(t, seen, a)
           first == Holders(p, seen, 1)
<1>1. CASE a \in seen /\ Live(p[a])
  BY <1>1 DEF Reserved
<1>2. CASE a \notin seen /\ t[a].slot # 0
  <2>1. p[a] = t[a] /\ p \in [Article -> Row]
    BY <1>2, PromotedIsGood DEF Promoted, Good
  <2>2. u[a] = p[a]
    BY <1>2, <2>1
  <2>3. u = p \/ \E r : u = [p EXCEPT ![a] = r]
    BY <1>2 DEF Reserved
  <2> HIDE DEF p, u
  <2>4. u = p
    BY <2>1, <2>2, <2>3
  <2> QED
    BY <2>4 DEF p, u
<1>3. CASE ~(a \in seen /\ Live(p[a])) /\ ~(a \notin seen /\ t[a].slot # 0)
  <2>1. p[a].slot = t[a].slot /\ Good(p) /\ p[a].slot \in {0, 1, 2}
    BY PromotedIsGood DEF Good, Row
  <2>2. t[a].slot = 0 /\ p[a] = NoRow
    <3>1. Sound(p[a])
      BY <2>1 DEF Good
    <3> HIDE DEF p
    <3>2. Live(p[a]) <=> p[a].slot # 0
      BY <2>1, <3>1, SoundIsLive
    <3> QED
      BY <1>3, <2>1, <3>1, <3>2 DEF Sound
  <2>3. \/ u = [p EXCEPT ![a] = Taken(p[a], 1, "active")]
        \/ /\ first # {} /\ \A f \in first : Differs(a, f)
           /\ u = [p EXCEPT ![a] = Taken(p[a], 2, SecondStatus(p, first))]
        \/ u = p
    BY <1>3 DEF Reserved
  <2> QED
    BY <2>2, <2>3
<1> QED
  BY <1>1, <1>2, <1>3

\* A reservation that the constraints accept keeps the table good, takes no
\* slot away and grants the second slot only beside a mature first one.
LEMMA ReservedIsGood ==
    ASSUME NEW t, NEW seen \in SUBSET Article, NEW a \in Article, Good(t),
           a \notin seen /\ t[a].slot # 0 => Reserved(t, seen, a)[a] = t[a],
           Consistent(Reserved(t, seen, a))
    PROVE  /\ Good(Reserved(t, seen, a))
           /\ Waits(t, Reserved(t, seen, a))
           /\ \A b \in Article : Granted(t[b]) => Granted(Reserved(t, seen, a)[b])
<1> DEFINE p == Promoted(t, seen)
           u == Reserved(t, seen, a)
           first == Holders(p, seen, 1)
<1>1. /\ Good(p) /\ Waits(t, p)
      /\ \A b \in Article : /\ p[b].slot = t[b].slot
                            /\ Granted(t[b]) => p[b] = t[b]
                            /\ t[b].slot # 2 => p[b] = t[b]
  BY PromotedIsGood
<1>2. Consistent(u)
  OBVIOUS
<1>3. \/ u = p
      \/ /\ t[a].slot = 0
         /\ u = [p EXCEPT ![a] = Taken(NoRow, 1, "active")]
      \/ /\ t[a].slot = 0
         /\ first # {} /\ \A f \in first : Differs(a, f)
         /\ u = [p EXCEPT ![a] = Taken(NoRow, 2, SecondStatus(p, first))]
  BY ReservedForms
<1>4. first \subseteq {f \in seen : p[f].slot = 1}
  BY DEF Holders
<1> SUFFICES /\ Good(u) /\ Waits(t, u)
             /\ \A b \in Article : Granted(t[b]) => Granted(u[b])
  OBVIOUS
<1> HIDE DEF p, u
<1>5. CASE u = p
  BY <1>1, <1>5
<1>6. ASSUME NEW s \in {1, 2}, NEW status \in {"waiting", "active"},
             t[a].slot = 0,
             u = [p EXCEPT ![a] = Taken(NoRow, s, status)],
             s = 2 \/ status = "active",
             s = 2 => \E f \in Article : /\ p[f].slot = 1
                                         /\ Angle[f] # Angle[a] /\ OtherAngle \notin {Angle[f], Angle[a]},
             s = 2 /\ status = "active" => \E f \in Article : p[f].slot = 1 /\ p[f].shown = Delay
      PROVE  /\ Good(u) /\ Waits(t, u)
             /\ \A b \in Article : Granted(t[b]) => Granted(u[b])
  <2>1. p \in [Article -> Row]
    BY <1>1 DEF Good
  <2>2. u[a] = [slot |-> s, status |-> status, waited |-> 0, shown |-> 0]
    BY <1>6, <2>1 DEF Taken, NoRow
  <2>3. \A b \in Article \ {a} : u[b] = p[b]
    BY <1>6, <2>1
  <2>4. u \in [Article -> Row]
    <3>1. u[a] \in Row
      BY <2>2, DelayAssumption DEF Row
    <3> QED
      BY <1>6, <2>1, <2>2, <3>1
  <2>5. \A b \in Article : Sound(u[b])
    <3>1. Sound(u[a])
      BY <1>6, <2>2 DEF Sound
    <3> QED
      BY <3>1, <2>3, <1>1 DEF Good
  <2>6. OneEach(u)
    <3>1. \A b \in Article : u[b].slot \in {0, 1, 2}
      BY <2>4 DEF Row
    <3>2. \A b \in Article : Live(u[b]) <=> u[b].slot # 0
      BY <2>5, <3>1, SoundIsLive
    <3> QED
      BY <1>2, <3>2 DEF Consistent, OneEach
  <2>7. Spaced(u)
    <3> SUFFICES ASSUME NEW x \in Article, u[x].slot = 2
                 PROVE  \E f \in Article : Precedes(u, f, x)
      BY DEF Spaced
    <3>1. CASE x = a
      <4>1. PICK f \in Article : /\ p[f].slot = 1
                                 /\ Angle[f] # Angle[a] /\ OtherAngle \notin {Angle[f], Angle[a]}
        BY <1>6, <2>2, <3>1
      <4>2. u[f] = p[f] /\ u[f].shown \in 0..Delay
        BY <4>1, <1>1, <1>6, <2>3, <2>1 DEF Row
      <4>3. u[f].shown >= u[a].waited
        BY <4>2, <2>2, DelayAssumption
      <4> QED
        BY <3>1, <4>1, <4>2, <4>3 DEF Precedes
    <3>2. CASE x # a
      <4>1. u[x] = p[x]
        BY <3>2, <2>3
      <4>2. PICK f \in Article : Precedes(p, f, x)
        BY <4>1, <1>1 DEF Good, Spaced
      <4>3. u[f] = p[f]
        BY <4>2, <1>1, <1>6, <2>3 DEF Precedes
      <4> QED
        BY <4>1, <4>2, <4>3 DEF Precedes
    <3> QED
      BY <3>1, <3>2
  <2>8. Waits(t, u)
    <3> SUFFICES ASSUME NEW b \in Article, ~Granted(t[b]), Granted(u[b]), u[b].slot = 2
                 PROVE  \E f \in Article : t[f].slot = 1 /\ Granted(t[f]) /\ t[f].shown = Delay
      BY DEF Waits
    <3>1. CASE b = a
      <4>1. s = 2 /\ status = "active"
        BY <3>1, <2>2 DEF Granted
      <4>2. PICK f \in Article : p[f].slot = 1 /\ p[f].shown = Delay
        BY <1>6, <4>1
      <4>3. t[f].slot = 1 /\ t[f] = p[f]
        BY <4>2, <1>1
      <4>4. Granted(t[f])
        BY <4>3 DEF Good, Sound, Granted, Live
      <4> QED
        BY <4>2, <4>3, <4>4
    <3>2. CASE b # a
      BY <3>2, <2>3, <1>1 DEF Waits
    <3> QED
      BY <3>1, <3>2
  <2>9. ASSUME NEW b \in Article, Granted(t[b]) PROVE Granted(u[b])
    <3>1. b # a
      BY <1>6, <2>9 DEF Granted, Live
    <3> QED
      BY <2>9, <3>1, <2>3, <1>1
  <2> QED
    BY <2>4, <2>5, <2>6, <2>7, <2>8, <2>9 DEF Good
<1>7. CASE t[a].slot = 0 /\ u = [p EXCEPT ![a] = Taken(NoRow, 1, "active")]
  BY <1>6, <1>7
<1>8. CASE /\ t[a].slot = 0
           /\ first # {} /\ \A f \in first : Differs(a, f)
           /\ u = [p EXCEPT ![a] = Taken(NoRow, 2, SecondStatus(p, first))]
  <2>1. PICK f \in first : Differs(a, f)
    BY <1>8
  <2>2. f \in Article /\ p[f].slot = 1
    BY <2>1 DEF Holders
  <2>3. Angle[f] # Angle[a] /\ OtherAngle \notin {Angle[f], Angle[a]}
    BY <2>1 DEF Differs
  <2>4. SecondStatus(p, first) = "active" => p[f].shown = Delay
    BY <2>1 DEF SecondStatus, Matured
  <2>5. CASE SecondStatus(p, first) = "active"
    BY <1>6, <1>8, <2>2, <2>3, <2>4, <2>5
  <2>6. CASE SecondStatus(p, first) = "waiting"
    BY <1>6, <1>8, <2>2, <2>3, <2>6
  <2> QED
    BY <2>5, <2>6 DEF SecondStatus
<1> QED
  BY <1>3, <1>5, <1>7, <1>8

-----------------------------------------------------------------------------
(* The group.                                                              *)

LEMMA InitSlotInv == Init => SlotInv
<1> SUFFICES ASSUME Init PROVE SlotInv
  OBVIOUS
<1>1. \A a \in Article : exposure[a] = NoRow
  BY DEF Init
<1>2. TypeOK
  BY NoRowIsRow DEF Init, TypeOK, Idle
<1>3. Good(exposure)
  BY <1>1, <1>2 DEF Good, TypeOK, Sound, OneEach, Spaced, NoRow
<1> QED
  BY <1>2, <1>3 DEF SlotInv, Init

\* What a step may do to the table.
Advances(t, u) == Good(u) /\ Waits(t, u)

LEMMA CommitAdvances ==
    ASSUME NEW w \in Worker, SlotInv, Commit(w)
    PROVE  Advances(exposure, exposure') /\ SlotInv'
<1> DEFINE a == task[w].article
           seen == task[w].seen
<1>1. a \in Article /\ seen \in SUBSET Article
  BY DEF Commit, SlotInv, TypeOK
<1>2. exposure' = Reserved(exposure, seen, a)
  BY DEF Commit, Outcome
<1>3. Consistent(Reserved(exposure, seen, a))
  BY DEF Commit, Accepted, Outcome
<1>4. a \notin seen /\ exposure[a].slot # 0 => Reserved(exposure, seen, a)[a] = exposure[a]
  BY <1>1 DEF Commit, Accepted, Outcome, Rows
<1>5. /\ Advances(exposure, exposure')
      /\ \A b \in Article : Granted(exposure[b]) => Granted(exposure'[b])
  BY <1>1, <1>2, <1>3, <1>4, ReservedIsGood DEF SlotInv, Advances
<1>6. delivery' \in [Article -> {"none", "linked", "sent", "failed"}]
  BY <1>1 DEF Commit, SlotInv, TypeOK
<1>7. task' \in [Worker -> [article : Article \cup {NoArticle}, seen : SUBSET Article]]
  BY DEF Commit, SlotInv, TypeOK, Idle
<1>8. \A b \in Article : delivery'[b] # "none" => Granted(exposure'[b])
  <2> SUFFICES ASSUME NEW b \in Article, delivery'[b] # "none"
               PROVE  Granted(exposure'[b])
    OBVIOUS
  <2>1. CASE delivery[b] # "none"
    BY <2>1, <1>5 DEF SlotInv
  <2>2. CASE delivery[b] = "none"
    <3>1. b = a /\ Granted(Outcome(w)[a])
      BY <2>2, <1>1 DEF Commit, SlotInv, TypeOK
    <3> QED
      BY <3>1 DEF Commit
  <2> QED
    BY <2>1, <2>2
<1> QED
  BY <1>5, <1>6, <1>7, <1>8 DEF SlotInv, TypeOK, Advances, Good

LEMMA SentAdvances ==
    ASSUME NEW a \in Article, SlotInv, Sent(a)
    PROVE  Advances(exposure, exposure') /\ SlotInv'
<1>1. Granted(exposure[a]) /\ exposure[a] \in Row /\ Sound(exposure[a])
  BY DEF Sent, SlotInv, Good
<1>2. /\ exposure \in [Article -> Row]
      /\ exposure' = [exposure EXCEPT ![a] = [@ EXCEPT !.status = "sent"]]
  BY DEF Sent, SlotInv, Good
<1>3. /\ exposure'[a] = [exposure[a] EXCEPT !.status = "sent"]
      /\ \A b \in Article \ {a} : exposure'[b] = exposure[b]
  BY <1>2
<1>4. exposure'[a] \in Row /\ Sound(exposure'[a]) /\ Granted(exposure'[a])
  BY <1>1, <1>3 DEF Row, Sound, Granted, Live
<1>5. \A b \in Article : /\ exposure'[b].slot = exposure[b].slot
                         /\ exposure'[b].shown = exposure[b].shown
                         /\ exposure'[b].waited = exposure[b].waited
                         /\ exposure'[b].status = "waiting" => exposure[b].status = "waiting"
                         /\ Granted(exposure'[b]) <=> Granted(exposure[b])
                         /\ Sound(exposure'[b])
  <2> SUFFICES ASSUME NEW b \in Article
               PROVE  /\ exposure'[b].slot = exposure[b].slot
                      /\ exposure'[b].shown = exposure[b].shown
                      /\ exposure'[b].waited = exposure[b].waited
                      /\ exposure'[b].status = "waiting" => exposure[b].status = "waiting"
                      /\ Granted(exposure'[b]) <=> Granted(exposure[b])
                      /\ Sound(exposure'[b])
    OBVIOUS
  <2>1. CASE b = a
    BY <2>1, <1>1, <1>3, <1>4 DEF Row
  <2>2. CASE b # a
    BY <2>2, <1>3 DEF SlotInv, Good
  <2> QED
    BY <2>1, <2>2
<1>6. exposure' \in [Article -> Row]
  BY <1>2, <1>3, <1>4
<1>7. OneEach(exposure')
  BY <1>5 DEF OneEach, SlotInv, Good
<1>8. Spaced(exposure')
  <2> SUFFICES ASSUME NEW s \in Article, exposure'[s].slot = 2
               PROVE  \E f \in Article : Precedes(exposure', f, s)
    BY DEF Spaced
  <2>1. PICK f \in Article : Precedes(exposure, f, s)
    BY <1>5 DEF SlotInv, Good, Spaced
  <2> QED
    BY <2>1, <1>5 DEF Precedes
<1>9. Good(exposure')
  BY <1>5, <1>6, <1>7, <1>8 DEF Good
<1>10. Waits(exposure, exposure')
  BY <1>5 DEF Waits
<1>11. delivery' \in [Article -> {"none", "linked", "sent", "failed"}]
       /\ \A b \in Article : delivery'[b] # "none" => delivery[b] # "none"
  BY DEF Sent, SlotInv, TypeOK
<1> QED
  BY <1>5, <1>6, <1>9, <1>10, <1>11 DEF Advances, SlotInv, TypeOK, Sent

LEMMA TickAdvances ==
    ASSUME SlotInv, Tick
    PROVE  Advances(exposure, exposure') /\ SlotInv'
<1>1. /\ Good(exposure') /\ Waits(exposure, exposure')
      /\ \A a \in Article : Granted(exposure'[a]) <=> Granted(exposure[a])
  BY AgedIsGood DEF Tick, SlotInv
<1> QED
  BY <1>1 DEF Tick, Advances, SlotInv, TypeOK, Good

\* The other steps leave the table alone.
LEMMA StayAdvances ==
    ASSUME SlotInv, UNCHANGED exposure, TypeOK',
           \A a \in Article : delivery'[a] # "none" => delivery[a] # "none"
    PROVE  Advances(exposure, exposure') /\ SlotInv'
  BY DEF SlotInv, Advances, Waits

LEMMA StepAdvances ==
    ASSUME SlotInv, [Next]_qqVars
    PROVE  Advances(exposure, exposure') /\ SlotInv'
<1>1. ASSUME NEW w \in Worker, NEW a \in Article, Look(w, a)
      PROVE  Advances(exposure, exposure') /\ SlotInv'
  <2>1. TypeOK'
    BY <1>1 DEF Look, SlotInv, TypeOK, Rows
  <2> QED
    BY <1>1, <2>1, StayAdvances DEF Look
<1>2. ASSUME NEW w \in Worker, Abort(w) \/ QuotaRejects(w)
      PROVE  Advances(exposure, exposure') /\ SlotInv'
  <2>1. task' = [task EXCEPT ![w] = Idle] /\ UNCHANGED <<exposure, delivery>>
    BY <1>2 DEF Abort, QuotaRejects
  <2>2. TypeOK'
    BY <2>1 DEF SlotInv, TypeOK, Idle
  <2> QED
    BY <2>1, <2>2, StayAdvances
<1>3. ASSUME NEW a \in Article, Failed(a)
      PROVE  Advances(exposure, exposure') /\ SlotInv'
  <2>1. TypeOK' /\ \A b \in Article : delivery'[b] # "none" => delivery[b] # "none"
    BY <1>3 DEF Failed, SlotInv, TypeOK
  <2> QED
    BY <1>3, <2>1, StayAdvances DEF Failed
<1>4. CASE UNCHANGED qqVars
  <2>1. TypeOK'
    BY <1>4 DEF qqVars, SlotInv, TypeOK
  <2> QED
    BY <1>4, <2>1, StayAdvances DEF qqVars
<1> QED
  BY <1>1, <1>2, <1>3, <1>4, CommitAdvances, SentAdvances, TickAdvances DEF Next

LEMMA SlotInvariant == Spec => []SlotInv
<1>1. SlotInv /\ [Next]_qqVars => SlotInv'
  BY StepAdvances
<1> QED
  BY <1>1, InitSlotInv, PTL DEF Spec

-----------------------------------------------------------------------------
(* The slots as places: TwoPlaces.                                         *)

\* The ways a step may move the places from table t to table u.
Opened(t, u) ==
    /\ Place(t, 1) = {} /\ \E a \in Article : Place(u, 1) = {a}
    /\ Place(u, 2) = Place(t, 2)
    /\ Mature(u) <=> Mature(t)
    /\ Shown(u) <=> Shown(t)

Followed(t, u) ==
    /\ Place(t, 2) = {}
    /\ \E a \in Article : Place(u, 2) = {a} /\ \E f \in Place(t, 1) : Tells(a, f)
    /\ Place(u, 1) = Place(t, 1)
    /\ Mature(u) <=> Mature(t)
    /\ Shown(u) <=> Mature(t)

\* The same holders: time passes for the first, or the second is shown.
Kept(t, u) ==
    /\ Place(u, 1) = Place(t, 1) /\ Place(u, 2) = Place(t, 2)
    /\ Mature(t) => Mature(u)
    /\ Shown(t) => Shown(u)
    /\ Shown(u) /\ ~Shown(t) => Mature(t)

Moved(t, u) == Opened(t, u) \/ Followed(t, u) \/ Kept(t, u)

LEMMA PlaceOfGood ==
    ASSUME NEW t, Good(t), NEW s \in {1, 2}
    PROVE  /\ Place(t, s) = {a \in Article : t[a].slot = s}
           /\ \A a \in Place(t, s) : Place(t, s) = {a}
           /\ Place(t, 1) = {} => Place(t, 2) = {}
<1>1. \A a \in Article : Live(t[a]) <=> t[a].slot # 0
  BY SoundIsLive DEF Good, Row
<1>2. Place(t, s) = {a \in Article : t[a].slot = s}
  BY <1>1 DEF Place
<1>3. \A a \in Place(t, s) : Place(t, s) = {a}
  <2> SUFFICES ASSUME NEW a \in Article, t[a].slot = s, NEW b \in Article, t[b].slot = s
               PROVE  a = b
    BY <1>2
  <2> QED
    BY DEF Good, OneEach
<1>4. Place(t, 1) = {} => Place(t, 2) = {}
  BY <1>1 DEF Place, Good, Spaced, Precedes
<1> QED
  BY <1>2, <1>3, <1>4

\* Steps that keep the holders and grant no second slot early.
LEMMA HoldersKept ==
    ASSUME NEW t, NEW u, Good(t), Good(u), Waits(t, u),
           \A a \in Article : /\ u[a].slot = t[a].slot
                              /\ Granted(t[a]) => Granted(u[a])
                              /\ t[a].slot = 1 /\ t[a].shown = Delay => u[a].shown = Delay
    PROVE  Kept(t, u)
<1>1. \A s \in {1, 2} : /\ Place(t, s) = {a \in Article : t[a].slot = s}
                        /\ Place(u, s) = {a \in Article : u[a].slot = s}
  BY PlaceOfGood
<1>2. Place(u, 1) = Place(t, 1) /\ Place(u, 2) = Place(t, 2)
  BY <1>1
<1>3. Mature(t) => Mature(u)
  BY <1>1, <1>2 DEF Mature
<1>4. \A a \in Article : /\ t[a].slot = 2 => (Granted(t[a]) <=> t[a].status # "waiting")
                         /\ u[a].slot = 2 => (Granted(u[a]) <=> u[a].status # "waiting")
  <2> SUFFICES ASSUME NEW a \in Article
               PROVE  /\ t[a].slot = 2 => (Granted(t[a]) <=> t[a].status # "waiting")
                      /\ u[a].slot = 2 => (Granted(u[a]) <=> u[a].status # "waiting")
    OBVIOUS
  <2>1. Sound(t[a]) /\ Sound(u[a])
    BY DEF Good
  <2> QED
    BY <2>1, SoundIsLive
<1>5. Shown(t) => Shown(u)
  BY <1>1, <1>2, <1>4 DEF Shown
<1>6. ASSUME Shown(u), ~Shown(t) PROVE Mature(t)
  <2>1. PICK a \in Article : u[a].slot = 2 /\ u[a].status # "waiting"
    BY <1>1, <1>6 DEF Shown
  <2>2. ~Granted(t[a]) /\ Granted(u[a])
    BY <1>1, <1>2, <1>4, <1>6, <2>1 DEF Shown
  <2>3. PICK f \in Article : t[f].slot = 1 /\ t[f].shown = Delay
    BY <2>1, <2>2 DEF Waits
  <2> QED
    BY <1>1, <2>3 DEF Mature
<1> QED
  BY <1>2, <1>3, <1>5, <1>6 DEF Kept

\* A reservation opens the event, follows the article that opened it, or
\* does no more than promote.
LEMMA ReservedMoves ==
    ASSUME NEW t, NEW seen \in SUBSET Article, NEW a \in Article, Good(t),
           a \notin seen /\ t[a].slot # 0 => Reserved(t, seen, a)[a] = t[a],
           Consistent(Reserved(t, seen, a))
    PROVE  Moved(t, Reserved(t, seen, a))
<1> DEFINE p == Promoted(t, seen)
           u == Reserved(t, seen, a)
           first == Holders(p, seen, 1)
<1>1. /\ Good(p) /\ Waits(t, p)
      /\ \A b \in Article : /\ p[b].slot = t[b].slot
                            /\ Granted(t[b]) => p[b] = t[b]
                            /\ t[b].slot # 2 => p[b] = t[b]
  BY PromotedIsGood
<1>2. Good(u) /\ Consistent(u)
  BY ReservedIsGood
<1>3. \/ u = p
      \/ /\ t[a].slot = 0
         /\ u = [p EXCEPT ![a] = Taken(NoRow, 1, "active")]
      \/ /\ t[a].slot = 0
         /\ first # {} /\ \A f \in first : Differs(a, f)
         /\ u = [p EXCEPT ![a] = Taken(NoRow, 2, SecondStatus(p, first))]
  BY ReservedForms
<1>4. first \subseteq {f \in seen : p[f].slot = 1}
  BY DEF Holders
<1> SUFFICES Moved(t, u)
  OBVIOUS
<1> HIDE DEF p, u
<1>5. /\ \A s \in {1, 2} : /\ Place(t, s) = {b \in Article : t[b].slot = s}
                           /\ Place(u, s) = {b \in Article : u[b].slot = s}
      /\ Place(t, 1) = {} => Place(t, 2) = {}
  BY <1>2, PlaceOfGood
<1>6. p \in [Article -> Row] /\ OneEach(u)
  BY <1>1, <1>2 DEF Good
<1>7. CASE u = p
  BY <1>1, <1>7, HoldersKept DEF Moved
<1>8. ASSUME NEW s \in {1, 2}, NEW status, t[a].slot = 0,
             u = [p EXCEPT ![a] = Taken(NoRow, s, status)]
      PROVE  /\ Place(t, s) = {} /\ Place(u, s) = {a}
             /\ u[a].slot = s /\ u[a].status = status /\ u[a].shown = 0
             /\ \A b \in Article \ {a} : u[b].slot = t[b].slot /\ (t[b].slot = 1 => u[b] = t[b])
             /\ s = 2 => Place(u, 1) = Place(t, 1)
  <2>1. u[a] = Taken(NoRow, s, status) /\ \A b \in Article : b # a => u[b] = p[b]
    BY <1>6, <1>8
  <2>2. u[a].slot = s /\ u[a].status = status /\ u[a].shown = 0
    BY <2>1 DEF Taken
  <2>3. ASSUME NEW b \in Article, b # a
        PROVE  u[b].slot = t[b].slot /\ (t[b].slot = 1 => u[b] = t[b]) /\ t[b].slot # s
    <3>1. u[b].slot = t[b].slot /\ (t[b].slot = 1 => u[b] = t[b])
      BY <1>1, <2>1, <2>3
    <3>2. u[b].slot # s
      BY <1>6, <2>2, <2>3 DEF OneEach
    <3> QED
      BY <3>1, <3>2
  <2>4. Place(t, s) = {b \in Article : t[b].slot = s} /\ Place(u, s) = {b \in Article : u[b].slot = s}
    BY <1>5
  <2>5. Place(t, s) = {} /\ Place(u, s) = {a}
    <3>1. ASSUME NEW b \in Article PROVE t[b].slot # s /\ (u[b].slot = s <=> b = a)
      <4>1. CASE b = a
        BY <1>8, <2>2, <4>1
      <4>2. CASE b # a
        BY <2>3, <4>2
      <4> QED
        BY <4>1, <4>2
    <3> QED
      BY <2>4, <3>1
  <2>6. s = 2 => Place(u, 1) = Place(t, 1)
    <3>1. ASSUME s = 2, NEW b \in Article PROVE t[b].slot = 1 <=> u[b].slot = 1
      <4>1. CASE b = a
        BY <1>8, <2>2, <3>1, <4>1
      <4>2. CASE b # a
        BY <2>3, <4>2
      <4> QED
        BY <4>1, <4>2
    <3> QED
      BY <1>5, <3>1
  <2> QED
    BY <2>2, <2>3, <2>5, <2>6
<1>9. CASE t[a].slot = 0 /\ u = [p EXCEPT ![a] = Taken(NoRow, 1, "active")]
  <2>1. /\ Place(t, 1) = {} /\ Place(u, 1) = {a}
        /\ u[a].slot = 1 /\ u[a].shown = 0
        /\ \A b \in Article \ {a} : u[b].slot = t[b].slot
    BY <1>8, <1>9
  <2>2. Place(t, 2) = {} /\ Place(u, 2) = {}
    <3>1. \A b \in Article : t[b].slot # 2
      BY <1>5, <2>1
    <3>2. ASSUME NEW b \in Article PROVE u[b].slot # 2
      <4>1. CASE b = a
        BY <2>1, <4>1
      <4>2. CASE b # a
        BY <2>1, <3>1, <4>2
      <4> QED
        BY <4>1, <4>2
    <3> QED
      BY <1>5, <3>1, <3>2
  <2>3. ~Mature(t) /\ ~Mature(u)
    BY <2>1, DelayAssumption DEF Mature
  <2>4. ~Shown(t) /\ ~Shown(u)
    BY <2>2 DEF Shown
  <2> QED
    BY <2>1, <2>2, <2>3, <2>4 DEF Moved, Opened
<1>10. CASE /\ t[a].slot = 0
            /\ first # {} /\ \A f \in first : Differs(a, f)
            /\ u = [p EXCEPT ![a] = Taken(NoRow, 2, SecondStatus(p, first))]
  <2> DEFINE status == SecondStatus(p, first)
  <2> HIDE DEF status
  <2>1. /\ Place(t, 2) = {} /\ Place(u, 2) = {a} /\ Place(u, 1) = Place(t, 1)
        /\ u[a].status = status
        /\ \A b \in Article \ {a} : t[b].slot = 1 => u[b] = t[b]
    BY <1>8, <1>10 DEF status
  <2>2. PICK f \in first : TRUE
    BY <1>10
  <2>3. f \in Article /\ t[f].slot = 1 /\ p[f] = t[f] /\ f # a /\ Differs(a, f)
    BY <1>1, <1>4, <1>10, <2>2
  <2>4. f \in Place(t, 1) /\ Tells(a, f)
    BY <1>5, <2>3 DEF Differs, Tells
  <2>5. Place(t, 1) = {f}
    BY <2>4, PlaceOfGood
  <2>6. Mature(t) <=> t[f].shown = Delay
    BY <2>5 DEF Mature
  <2>7. Mature(u) <=> Mature(t)
    BY <2>1, <2>3, <2>5 DEF Mature
  <2>8. \A g \in first : g = f
    BY <1>1, <1>4, <1>5, <2>5
  <2>9. status = "active" <=> t[f].shown = Delay
    BY <2>2, <2>3, <2>8 DEF status, SecondStatus, Matured
  <2>10. status \in {"active", "waiting"}
    BY DEF status, SecondStatus
  <2>11. Shown(u) <=> Mature(t)
    BY <2>1, <2>6, <2>9, <2>10 DEF Shown
  <2> QED
    BY <2>1, <2>4, <2>7, <2>11 DEF Moved, Followed
<1> QED
  BY <1>3, <1>7, <1>9, <1>10

\* Every move is a step of the abstract specification, or none at all.
LEMMA MovesArePlaces ==
    ASSUME Moved(exposure, exposure')
    PROVE  [Places!Next]_(Places!vars)
<1>1. ASSUME Opened(exposure, exposure') PROVE Places!Next
  BY <1>1 DEF Opened, Places!Next, Places!Open, Mature, Shown
<1>2. ASSUME Followed(exposure, exposure') PROVE Places!Next
  <2>1. PICK a \in Article : Place(exposure', 2) = {a} /\ \E f \in Place(exposure, 1) : Tells(a, f)
    BY <1>2 DEF Followed
  <2>2. Places!Fits(a)
    <3>1. PICK f \in Place(exposure, 1) : Tells(a, f)
      BY <2>1
    <3>2. f \in Article
      BY DEF Place
    <3> QED
      BY <3>1, <3>2 DEF Places!Fits, Stories
  <2>3. Places!Follow(a)
    BY <1>2, <2>1, <2>2 DEF Followed, Places!Follow, Mature, Shown
  <2> QED
    BY <2>3 DEF Places!Next
<1>3. ASSUME Kept(exposure, exposure') PROVE [Places!Next]_(Places!vars)
  BY <1>3 DEF Kept, Places!Next, Places!Mature, Places!Show, Places!vars, Mature, Shown
<1> QED
  BY <1>1, <1>2, <1>3 DEF Moved

LEMMA StepMoves ==
    ASSUME SlotInv, [Next]_qqVars
    PROVE  Moved(exposure, exposure')
<1>1. Good(exposure) /\ Good(exposure') /\ Waits(exposure, exposure')
  BY StepAdvances DEF SlotInv, Advances
<1>2. ASSUME NEW w \in Worker, Commit(w) PROVE Moved(exposure, exposure')
  <2> DEFINE a == task[w].article
             seen == task[w].seen
  <2>1. a \in Article /\ seen \in SUBSET Article
    BY <1>2 DEF Commit, SlotInv, TypeOK
  <2>2. exposure' = Reserved(exposure, seen, a)
    BY <1>2 DEF Commit, Outcome
  <2>3. Consistent(Reserved(exposure, seen, a))
    BY <1>2 DEF Commit, Accepted, Outcome
  <2>4. a \notin seen /\ exposure[a].slot # 0 => Reserved(exposure, seen, a)[a] = exposure[a]
    BY <1>2, <2>1 DEF Commit, Accepted, Outcome, Rows
  <2> QED
    BY <1>1, <2>1, <2>2, <2>3, <2>4, ReservedMoves
<1>3. ASSUME NEW a \in Article, Sent(a) PROVE Moved(exposure, exposure')
  <2>1. exposure[a] \in Row /\ Granted(exposure[a])
    BY <1>3 DEF Sent, SlotInv, Good
  <2>2. \A b \in Article : /\ exposure'[b].slot = exposure[b].slot
                           /\ exposure'[b].shown = exposure[b].shown
                           /\ Granted(exposure[b]) => Granted(exposure'[b])
    BY <1>1, <1>3, <2>1 DEF Sent, Good, Row, Granted, Live
  <2> QED
    BY <1>1, <2>2, HoldersKept DEF Moved
<1>4. CASE Tick
  <2>1. \A b \in Article : /\ exposure'[b].slot = exposure[b].slot
                           /\ Granted(exposure[b]) => Granted(exposure'[b])
                           /\ exposure[b].shown = Delay => exposure'[b].shown = Delay
    <3> SUFFICES ASSUME NEW b \in Article
                 PROVE  /\ exposure'[b].slot = exposure[b].slot
                        /\ Granted(exposure[b]) => Granted(exposure'[b])
                        /\ exposure[b].shown = Delay => exposure'[b].shown = Delay
      OBVIOUS
    <3>1. /\ exposure[b] \in Row
          /\ exposure'[b] = IF exposure[b].slot = 0 THEN exposure[b]
                            ELSE [exposure[b] EXCEPT !.waited = Older(@),
                                     !.shown = IF Granted(exposure[b]) THEN Older(@) ELSE @]
      BY <1>1, <1>4 DEF Tick, Aged, Good
    <3>2. Older(Delay) = Delay
      BY DelayAssumption DEF Older
    <3> QED
      BY <3>1, <3>2 DEF Row, Granted, Live
  <2> QED
    BY <1>1, <2>1, HoldersKept DEF Moved
<1>5. CASE UNCHANGED exposure
  <2>1. \A b \in Article : exposure'[b] = exposure[b]
    BY <1>5
  <2> QED
    BY <1>1, <2>1, HoldersKept DEF Moved
<1> QED
  BY <1>2, <1>3, <1>4, <1>5 DEF Next, qqVars, Look, Abort, QuotaRejects, Failed

-----------------------------------------------------------------------------

\* The variables have their types, whatever the tasks do.
THEOREM TypeCorrect == Spec => []TypeOK
<1>1. SlotInv => TypeOK
  BY DEF SlotInv
<1> QED
  BY <1>1, SlotInvariant, PTL

\* No more than two articles of an event are ever delivered to a group.
THEOREM TwoDeliveries == Spec => []AtMostTwo
<1>1. SlotInv => AtMostTwo
  <2> SUFFICES ASSUME SlotInv PROVE AtMostTwo
    OBVIOUS
  <2> DEFINE delivered == {a \in Article : delivery[a] # "none"}
  <2>1. \A a \in delivered : Granted(exposure[a]) /\ exposure[a].slot \in {1, 2}
    BY DEF SlotInv, Good, Row, Granted, Live
  <2>2. \A a, b, c \in delivered : a = b \/ b = c \/ a = c
    BY <2>1 DEF SlotInv, Good, OneEach
  <2> QED
    BY <2>1, <2>2 DEF AtMostTwo
<1> QED
  BY <1>1, SlotInvariant, PTL

\* The two slots always tell different stories.
THEOREM StoriesDiffer == Spec => []SlotsDiffer
<1>1. SlotInv => SlotsDiffer
  <2> SUFFICES ASSUME SlotInv, NEW a \in Article, NEW b \in Article,
                      exposure[a].slot = 1, exposure[b].slot = 2
               PROVE  Tells(b, a)
    BY DEF SlotsDiffer
  <2>1. PICK f \in Article : Precedes(exposure, f, b)
    BY DEF SlotInv, Good, Spaced
  <2>2. f = a
    BY <2>1 DEF SlotInv, Good, OneEach, Precedes
  <2> QED
    BY <2>1, <2>2 DEF Precedes, Tells
<1> QED
  BY <1>1, SlotInvariant, PTL

\* The second slot is granted only beside a first one that has been shown
\* for the whole delay, however long ago the tasks read the table.
THEOREM SecondSlotIsSpaced == Spec => SecondSlotWaits
<1> DEFINE spaced == \A a \in Article :
        ~Granted(exposure[a]) /\ Granted(exposure'[a]) /\ exposure'[a].slot = 2
        => \E f \in Article : exposure[f].slot = 1 /\ Granted(exposure[f]) /\ Matured(exposure, f)
<1>1. SlotInv /\ [Next]_qqVars => [spaced]_exposure
  BY StepAdvances DEF Advances, Waits, Matured
<1> QED
  BY <1>1, SlotInvariant, PTL DEF Spec, SecondSlotWaits

\* SlotsArePlaces: the slots of a group implement TwoPlaces. One story opens
\* the event and stays, one that differs from it may follow and is never
\* replaced, and it is shown only when the first has matured.
THEOREM SlotsImplementPlaces == Spec => SlotsArePlaces
<1>1. Init => Places!Init
  BY DEF Init, NoRow, Live, Place, Mature, Shown, Places!Init
<1>2. SlotInv /\ [Next]_qqVars => [Places!Next]_(Places!vars)
  BY StepMoves, MovesArePlaces
<1> QED
  BY <1>1, <1>2, SlotInvariant, PTL DEF Spec, SlotsArePlaces, Places!Spec
=============================================================================
