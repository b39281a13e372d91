------------------------ MODULE HomepageExposureProofs ------------------------
(***************************************************************************)
(* Proofs about HomepageExposure, for any number of articles, angles,      *)
(* scores and delays.  The table is Good: rows are of the right shape, a   *)
(* slot has one holder, and the second slot stands beside a first one of   *)
(* another known angle.  No row waits between two requests, so promotion   *)
(* has nothing to do on the homepage.                                      *)
(***************************************************************************)
EXTENDS HomepageExposure, TLAPS

\* A headline is forced, the first slot is never given up.
Sound(r) ==
    /\ r.slot = 0 => r = NoRow
    /\ r.slot = 1 => r.status = "active"
    /\ r.slot = 2 => r.status \in {"active", "replaced"}

Distinct(t) ==
    \A a, b \in Article :
        Live(t[a]) /\ Live(t[b]) /\ t[a].slot = 1 /\ t[b].slot = 2
        => Angle[a] # Angle[b] /\ OtherAngle \notin {Angle[a], Angle[b]}

Led(t) ==
    \A b \in Article : Live(t[b]) /\ t[b].slot = 2 => \E a \in Article : t[a].slot = 1

Good(t) ==
    /\ t \in [Article -> Row]
    /\ \A a \in Article : Sound(t[a])
    /\ Consistent(t) /\ Distinct(t) /\ Led(t)

IInv == TypeOK /\ Good(exposure) /\ PointersArePublic

\* What a step may take from an article of the homepage.
LosesToBetter(t, u) ==
    \A a \in Article :
        Granted(t[a]) /\ ~Granted(u[a]) =>
            /\ t[a].slot = 2
            /\ \E b \in Article : Score[b] > Score[a] /\ u[b].slot = 2 /\ Granted(u[b])

-----------------------------------------------------------------------------
(* The table.                                                              *)

LEMMA SoundRow ==
    ASSUME NEW r \in Row, Sound(r)
    PROVE  /\ r.status # "waiting"
           /\ Live(r) <=> r.status = "active"
           /\ Granted(r) <=> Live(r)
           /\ r.slot \in {0, 1, 2}
  BY DEF Sound, Live, Granted, Row, NoRow

\* An article takes a slot.
LEMMA TakenRow ==
    ASSUME NEW r \in Row, NEW s \in {1, 2}
    PROVE  /\ Taken(r, s, "active") \in Row
           /\ Taken(r, s, "active").slot = s
           /\ Taken(r, s, "active").status = "active"
           /\ Sound(Taken(r, s, "active"))
           /\ Live(Taken(r, s, "active"))
  BY DelayAssumption DEF Taken, Row, Sound, Live

\* Promotion finds nothing that waits.
LEMMA NothingWaits ==
    ASSUME NEW t, Good(t)
    PROVE  Promoted(t, {a \in Article : t[a].slot # 0}) = t
<1>1. \A a \in Article : t[a].status # "waiting"
  BY SoundRow DEF Good
<1>2. t \in [Article -> Row]
  BY DEF Good
<1>3. QED
  BY <1>1, <1>2 DEF Promoted

\* An article that was not live takes a slot that nobody holds any more: the
\* first one if there is none, the second if it differs from the first.
\* lost: the articles that gave up the second slot for it.
LEMMA TakenIsGood ==
    ASSUME NEW t, Good(t), NEW a \in Article, NEW s \in {1, 2}, NEW u,
           NEW lost \in SUBSET Article, a \notin lost, ~Live(t[a]),
           u \in [Article -> Row],
           u[a] = Taken(t[a], s, "active"),
           \A b \in Article \ {a} : IF b \in lost
                                    THEN u[b].slot = 2 /\ u[b].status = "replaced"
                                    ELSE u[b] = t[b],
           \A b \in lost : t[b].slot = 2,
           \A b \in Article \ lost : ~(Live(t[b]) /\ t[b].slot = s),
           s = 2 => \E f \in Article : t[f].slot = 1 /\ Live(t[f]),
           s = 2 => \A f \in Article : t[f].slot = 1 /\ Live(t[f]) =>
                        Angle[a] # Angle[f] /\ OtherAngle \notin {Angle[a], Angle[f]}
    PROVE  Good(u)
<1>1. t[a] \in Row /\ \A b \in Article : t[b] \in Row /\ Sound(t[b])
  BY DEF Good
<1>2. u[a].slot = s /\ u[a].status = "active" /\ Sound(u[a]) /\ Live(u[a])
  BY <1>1, TakenRow
<1>3. \A b \in lost : Sound(u[b]) /\ ~Live(u[b])
  <2> SUFFICES ASSUME NEW b \in lost PROVE Sound(u[b]) /\ ~Live(u[b])
    OBVIOUS
  <2>1. b \in Article \ {a}
    OBVIOUS
  <2>2. u[b].slot = 2 /\ u[b].status = "replaced"
    BY <2>1
  <2>3. QED
    BY <2>2 DEF Sound, Live
<1>4. \A b \in Article \ {a} : b \notin lost => u[b] = t[b]
  OBVIOUS
<1>5. \A b \in Article : Sound(u[b])
  BY <1>1, <1>2, <1>3, <1>4
<1>6. \A b \in Article \ {a} : Live(u[b]) => b \notin lost /\ u[b] = t[b] /\ u[b].slot # s
  BY <1>3, <1>4
<1>7. Consistent(u)
  BY <1>2, <1>6 DEF Good, Consistent
<1>8. Led(u)
  <2> SUFFICES ASSUME NEW b \in Article, Live(u[b]), u[b].slot = 2
               PROVE  \E f \in Article : u[f].slot = 1
    BY DEF Led
  <2>1. CASE s = 1
    BY <1>2, <2>1
  <2>2. CASE s = 2
    <3>1. PICK f \in Article : t[f].slot = 1 /\ Live(t[f])
      BY <2>2
    <3>2. f # a /\ f \notin lost
      BY <3>1
    <3>3. QED
      BY <3>1, <3>2, <1>4
  <2>3. QED
    BY <2>1, <2>2
<1>9. Distinct(u)
  <2> SUFFICES ASSUME NEW f \in Article, NEW b \in Article,
                      Live(u[f]), Live(u[b]), u[f].slot = 1, u[b].slot = 2
               PROVE  Angle[f] # Angle[b] /\ OtherAngle \notin {Angle[f], Angle[b]}
    BY DEF Distinct
  <2>1. CASE f # a /\ b # a
    BY <1>6, <2>1 DEF Good, Distinct
  <2>2. CASE b = a
    BY <1>2, <1>6, <2>2
  <2>3. CASE f = a
    <3>1. s = 1 /\ b # a
      BY <1>2, <2>3
    <3>2. u[b] = t[b]
      BY <1>6, <3>1
    <3>3. PICK g \in Article : t[g].slot = 1
      BY <3>2 DEF Good, Led
    <3>4. Live(t[g]) /\ g \notin lost
      BY <1>1, <3>3 DEF Sound, Live
    <3>5. QED
      BY <3>1, <3>3, <3>4
  <2>4. QED
    BY <2>1, <2>2, <2>3
<1>10. QED
  BY <1>5, <1>7, <1>8, <1>9 DEF Good

LEMMA AgedIsGood ==
    ASSUME NEW t, Good(t)
    PROVE  /\ Good(Aged(t))
           /\ \A a \in Article : Aged(t)[a].status = t[a].status
                                 /\ (Granted(Aged(t)[a]) <=> Granted(t[a]))
<1> DEFINE g == Aged(t)
<1>1. \A n \in 0..Delay : Older(n) \in 0..Delay
  BY DelayAssumption DEF Older
<1>2. \A a \in Article :
        /\ t[a] \in Row /\ g[a] \in Row
        /\ g[a].slot = t[a].slot /\ g[a].status = t[a].status
        /\ t[a].slot = 0 => g[a] = t[a]
  <2> SUFFICES ASSUME NEW a \in Article
               PROVE  /\ t[a] \in Row /\ g[a] \in Row
                      /\ g[a].slot = t[a].slot /\ g[a].status = t[a].status
                      /\ t[a].slot = 0 => g[a] = t[a]
    OBVIOUS
  <2>1. t[a] \in Row
    BY DEF Good
  <2>2. g[a] = IF t[a].slot = 0 THEN t[a]
               ELSE [t[a] EXCEPT !.waited = Older(@),
                                 !.shown = IF Granted(t[a]) THEN Older(@) ELSE @]
    BY DEF Aged
  <2> HIDE DEF g
  <2>3. CASE t[a].slot = 0
    BY <2>1, <2>2, <2>3
  <2>4. CASE t[a].slot # 0 /\ Granted(t[a])
    <3>1. g[a] = [t[a] EXCEPT !.waited = Older(@), !.shown = Older(@)]
      BY <2>2, <2>4
    <3>2. QED
      BY <2>1, <2>4, <3>1, <1>1 DEF Row
  <2>5. CASE t[a].slot # 0 /\ ~Granted(t[a])
    <3>1. g[a] = [t[a] EXCEPT !.waited = Older(@), !.shown = @]
      BY <2>2, <2>5
    <3>2. QED
      BY <2>1, <2>5, <3>1, <1>1 DEF Row
  <2>6. QED
    BY <2>3, <2>4, <2>5
<1>3. g \in [Article -> Row]
  BY <1>2 DEF Aged
<1> HIDE DEF g
<1>4. \A a \in Article : /\ Sound(g[a]) /\ (Live(g[a]) <=> Live(t[a]))
                         /\ (Granted(g[a]) <=> Granted(t[a]))
  BY <1>2 DEF Good, Sound, Live, Granted
<1>5. Consistent(g) /\ Distinct(g) /\ Led(g)
  BY <1>2, <1>4 DEF Good, Consistent, Distinct, Led
<1>6. QED
  BY <1>2, <1>3, <1>4, <1>5 DEF Good, g

-----------------------------------------------------------------------------
(* Requests for a slot.                                                    *)

\* An accepted reservation leaves the table as it is, or the article takes
\* the free slot and is active at once.
LEMMA ReserveForms ==
    ASSUME Good(exposure), NEW a \in Article, Reserve(a)
    PROVE  \/ exposure' = exposure /\ Live(exposure[a])
           \/ /\ ~Live(exposure[a])
              /\ \A b \in Article : ~(Live(exposure[b]) /\ exposure[b].slot = 1)
              /\ exposure' = [exposure EXCEPT ![a] = Taken(exposure[a], 1, "active")]
           \/ /\ ~Live(exposure[a])
              /\ \A b \in Article : ~(Live(exposure[b]) /\ exposure[b].slot = 2)
              /\ \E f \in Article : exposure[f].slot = 1 /\ Live(exposure[f])
              /\ \A f \in Article : exposure[f].slot = 1 /\ Live(exposure[f]) => Differs(a, f)
              /\ exposure' = [exposure EXCEPT ![a] = Taken(exposure[a], 2, "active")]
<1> DEFINE t == exposure
           u == Reserved(t, Rows, a)
           first == Holders(t, Rows, 1)
           second == Holders(t, Rows, 2)
<1>1. Promoted(t, Rows) = t /\ t \in [Article -> Row]
  BY NothingWaits DEF Rows, Good
<1>2. \A s \in {1, 2} : Holders(t, Rows, s) = {b \in Article : Live(t[b]) /\ t[b].slot = s}
  BY DEF Holders, Rows
<1>3. exposure' = Forced(u, a) /\ Live(u[a])
  BY DEF Reserve
<1>4. u = IF a \in Rows /\ Live(t[a]) THEN t
          ELSE IF first = {} THEN [t EXCEPT ![a] = Taken(@, 1, "active")]
          ELSE IF second = {} /\ \A f \in first : Differs(a, f)
          THEN [t EXCEPT ![a] = Taken(@, 2, SecondStatus(t, first))]
          ELSE t
  BY <1>1 DEF Reserved
<1>5. Live(t[a]) => a \in Rows
  BY DEF Live, Rows
<1>6. t[a] \in Row /\ t[a].status # "waiting"
  BY <1>1, SoundRow DEF Good
<1> HIDE DEF u, first, second
<1>7. CASE Live(t[a])
  <2>1. u = t
    BY <1>4, <1>5, <1>7
  <2>2. QED
    BY <1>3, <1>6, <1>7, <2>1 DEF Forced
<1>8. CASE ~Live(t[a]) /\ first = {}
  <2>1. u = [t EXCEPT ![a] = Taken(t[a], 1, "active")]
    BY <1>4, <1>8
  <2>2. u[a].status = "active"
    BY <1>1, <1>6, <2>1, TakenRow
  <2>3. exposure' = u
    BY <1>3, <2>2 DEF Forced
  <2>4. \A b \in Article : ~(Live(t[b]) /\ t[b].slot = 1)
    BY <1>2, <1>8 DEF first
  <2>5. QED
    BY <1>8, <2>1, <2>3, <2>4
<1>9. CASE ~Live(t[a]) /\ first # {} /\ second = {} /\ \A f \in first : Differs(a, f)
  <2> DEFINE s == SecondStatus(t, first)
  <2>1. u = [t EXCEPT ![a] = Taken(t[a], 2, s)] /\ s \in {"active", "waiting"}
    BY <1>4, <1>9 DEF SecondStatus
  <2> HIDE DEF s
  <2>2. u[a] = Taken(t[a], 2, s)
    BY <1>1, <2>1
  <2>3. exposure' = [t EXCEPT ![a] = Taken(t[a], 2, "active")]
    <3>1. CASE s = "active"
      <4>1. u[a].status = "active"
        BY <2>2, <3>1 DEF Taken
      <4>2. QED
        BY <1>3, <2>1, <3>1, <4>1 DEF Forced
    <3>2. CASE s = "waiting"
      <4>1. u[a].status = "waiting" /\ Taken(u[a], 2, "active") = Taken(t[a], 2, "active")
        BY <2>2, <3>2 DEF Taken
      <4>2. exposure' = [u EXCEPT ![a] = Taken(u[a], 2, "active")]
        BY <1>3, <4>1 DEF Forced
      <4>3. QED
        BY <1>1, <2>1, <4>1, <4>2
    <3>3. QED
      BY <2>1, <3>1, <3>2
  <2>4. \A b \in Article : ~(Live(t[b]) /\ t[b].slot = 2)
    BY <1>2, <1>9 DEF second
  <2>5. \E f \in Article : t[f].slot = 1 /\ Live(t[f])
    BY <1>2, <1>9 DEF first
  <2>6. \A f \in Article : t[f].slot = 1 /\ Live(t[f]) => Differs(a, f)
    BY <1>2, <1>9 DEF first
  <2>7. QED
    BY <1>9, <2>3, <2>4, <2>5, <2>6
<1>10. CASE ~Live(t[a]) /\ first # {} /\ ~(second = {} /\ \A f \in first : Differs(a, f))
  BY <1>3, <1>4, <1>10
<1>11. QED
  BY <1>7, <1>8, <1>9, <1>10

\* What a request for a headline does to the table.
Served(a) ==
    /\ Good(exposure') /\ LosesToBetter(exposure, exposure')
    /\ exposure'[a].status = "active"

LEMMA ReserveServes ==
    ASSUME Good(exposure), NEW a \in Article, Reserve(a)
    PROVE  Served(a)
<1>1. exposure \in [Article -> Row] /\ exposure[a] \in Row /\ Sound(exposure[a])
  BY DEF Good
<1>2. CASE exposure' = exposure /\ Live(exposure[a])
  BY <1>1, <1>2, SoundRow DEF Served, LosesToBetter
<1>3. ASSUME NEW s \in {1, 2}, ~Live(exposure[a]),
             \A b \in Article : ~(Live(exposure[b]) /\ exposure[b].slot = s),
             exposure' = [exposure EXCEPT ![a] = Taken(exposure[a], s, "active")],
             s = 2 => \E f \in Article : exposure[f].slot = 1 /\ Live(exposure[f]),
             s = 2 => \A f \in Article : exposure[f].slot = 1 /\ Live(exposure[f]) => Differs(a, f)
      PROVE  Served(a)
  <2>1. /\ exposure' \in [Article -> Row] /\ exposure'[a] = Taken(exposure[a], s, "active")
        /\ \A b \in Article \ {a} : exposure'[b] = exposure[b]
    BY <1>1, <1>3, TakenRow
  <2>2. s = 2 => \A f \in Article : exposure[f].slot = 1 /\ Live(exposure[f]) =>
                     Angle[a] # Angle[f] /\ OtherAngle \notin {Angle[a], Angle[f]}
    BY <1>3 DEF Differs
  <2>3. Good(exposure')
    <3> DEFINE t == exposure
               u == exposure'
    <3>1. /\ t \in [Article -> Row] /\ Good(t) /\ u \in [Article -> Row]
          /\ ~Live(t[a]) /\ u[a] = Taken(t[a], s, "active")
          /\ \A b \in Article \ {a} : u[b] = t[b]
          /\ \A b \in Article : ~(Live(t[b]) /\ t[b].slot = s)
          /\ s = 2 => \E f \in Article : t[f].slot = 1 /\ Live(t[f])
          /\ s = 2 => \A f \in Article : t[f].slot = 1 /\ Live(t[f]) =>
                          Angle[a] # Angle[f] /\ OtherAngle \notin {Angle[a], Angle[f]}
      BY <1>1, <1>3, <2>1, <2>2
    <3> DEFINE lost == {}
    <3>2. /\ lost \in SUBSET Article /\ a \notin lost
          /\ \A b \in Article \ {a} : IF b \in lost
                                       THEN u[b].slot = 2 /\ u[b].status = "replaced"
                                       ELSE u[b] = t[b]
          /\ \A b \in lost : t[b].slot = 2
          /\ \A b \in Article \ lost : ~(Live(t[b]) /\ t[b].slot = s)
      BY <3>1
    <3> HIDE DEF t, u, lost
    <3>3. Good(u)
      BY <3>1, <3>2, TakenIsGood
    <3>4. QED
      BY <3>3 DEF u
  <2>4. LosesToBetter(exposure, exposure')
    <3>1. ~Granted(exposure[a])
      BY <1>3 DEF Granted
    <3>2. QED
      BY <2>1, <3>1 DEF LosesToBetter
  <2>5. exposure'[a].status = "active"
    BY <1>1, <2>1, TakenRow
  <2>6. QED
    BY <2>3, <2>4, <2>5 DEF Served
<1>4. QED
  BY <1>2, <1>3, ReserveForms

LEMMA ReplaceServes ==
    ASSUME Good(exposure), NEW a \in Article, Replace(a)
    PROVE  Served(a)
<1> DEFINE t == exposure
           u == exposure'
<1>1. PICK old \in Others(a) :
        /\ MayReplace(old, a)
        /\ u = [t EXCEPT ![old].status = "replaced", ![a] = Taken(@, 2, "active")]
  BY DEF Replace
<1>2. old \in Article /\ old # a /\ t[old].slot = 2 /\ t[old].status = "active" /\ Live(t[old])
  BY DEF Others, Rows, Live
<1>3. PICK f \in Holders(t, Rows, 1) :
        Angle[a] \notin {OtherAngle, Angle[f]} /\ Score[a] > Score[old]
  BY <1>1 DEF MayReplace
<1>4. f \in Article /\ t[f].slot = 1 /\ Live(t[f])
  BY <1>3 DEF Holders, Rows
<1>5. OtherAngle # Angle[f]
  BY <1>2, <1>4 DEF Good, Distinct
<1>6. \A g \in Article : t[g].slot = 1 /\ Live(t[g]) => g = f
  BY <1>4 DEF Good, Consistent
<1>7. \A b \in Article \ {old} : ~(Live(t[b]) /\ t[b].slot = 2)
  BY <1>2 DEF Good, Consistent
<1>8. t \in [Article -> Row] /\ t[a] \in Row /\ t[old] \in Row
  BY <1>2 DEF Good
<1>9. ~Live(t[a])
  <2>1. f # a
    BY <1>3
  <2>2. ~(Live(t[a]) /\ t[a].slot = 2) /\ ~(Live(t[a]) /\ t[a].slot = 1)
    BY <1>2, <1>6, <1>7, <2>1
  <2>3. QED
    BY <1>8, <2>2 DEF Live, Row
<1>10. /\ u[a] = Taken(t[a], 2, "active")
       /\ u[old].slot = 2 /\ u[old].status = "replaced" /\ u[old] \in Row
       /\ \A b \in Article \ {a, old} : u[b] = t[b]
  <2>1. u[a] = Taken(t[a], 2, "active") /\ u[old] = [t[old] EXCEPT !.status = "replaced"]
    BY <1>1, <1>2, <1>8
  <2>2. \A b \in Article \ {a, old} : u[b] = t[b]
    BY <1>1, <1>8
  <2>3. u[old].slot = 2 /\ u[old].status = "replaced" /\ u[old] \in Row
    BY <1>2, <1>8, <2>1 DEF Row
  <2>4. QED
    BY <2>1, <2>2, <2>3
<1>11. u \in [Article -> Row]
  <2>1. Taken(t[a], 2, "active") \in Row
    BY <1>8, TakenRow
  <2>2. \A b \in Article : u[b] \in Row
    BY <1>8, <1>10, <2>1
  <2>3. u = [b \in Article |-> u[b]]
    BY <1>1, <1>8
  <2> HIDE DEF u
  <2>4. QED
    BY <2>2, <2>3
<1> HIDE DEF t, u
<1>12. Good(u)
  <2>1. Good(t) /\ {old} \in SUBSET Article /\ a \notin {old}
    BY <1>2 DEF t
  <2>2. \A b \in Article \ {a} : IF b \in {old}
                                   THEN u[b].slot = 2 /\ u[b].status = "replaced"
                                   ELSE u[b] = t[b]
    BY <1>10
  <2>3. /\ \A b \in {old} : t[b].slot = 2
        /\ \A b \in Article \ {old} : ~(Live(t[b]) /\ t[b].slot = 2)
        /\ \E g \in Article : t[g].slot = 1 /\ Live(t[g])
        /\ \A g \in Article : t[g].slot = 1 /\ Live(t[g]) =>
              Angle[a] # Angle[g] /\ OtherAngle \notin {Angle[a], Angle[g]}
    BY <1>2, <1>3, <1>4, <1>5, <1>6, <1>7
  <2>4. ~Live(t[a]) /\ u[a] = Taken(t[a], 2, "active") /\ u \in [Article -> Row] /\ 2 \in {1, 2}
    BY <1>9, <1>10, <1>11
  <2> DEFINE lost == {old}
             s == 2
  <2>5. /\ lost \in SUBSET Article /\ a \notin lost /\ s \in {1, 2}
        /\ u[a] = Taken(t[a], s, "active")
        /\ \A b \in Article \ {a} : IF b \in lost
                                     THEN u[b].slot = 2 /\ u[b].status = "replaced"
                                     ELSE u[b] = t[b]
        /\ \A b \in lost : t[b].slot = 2
        /\ \A b \in Article \ lost : ~(Live(t[b]) /\ t[b].slot = s)
    BY <2>1, <2>2, <2>3, <2>4
  <2> HIDE DEF lost, s
  <2>6. QED
    BY <2>1, <2>3, <2>4, <2>5, TakenIsGood
<1>13. u[a].status = "active" /\ u[a].slot = 2 /\ Granted(u[a])
  BY <1>8, <1>10, TakenRow DEF Granted
<1>14. LosesToBetter(t, u)
  <2> SUFFICES ASSUME NEW b \in Article, Granted(t[b]), ~Granted(u[b])
               PROVE  /\ t[b].slot = 2
                      /\ \E c \in Article : Score[c] > Score[b] /\ u[c].slot = 2 /\ Granted(u[c])
    BY DEF LosesToBetter
  <2>1. b = old
    BY <1>10, <1>13
  <2>2. QED
    BY <1>2, <1>3, <1>13, <2>1
<1>15. QED
  BY <1>12, <1>13, <1>14 DEF Served, t, u

-----------------------------------------------------------------------------
(* The whole state.                                                        *)

LEMMA InitIInv == Init => IInv
<1> SUFFICES ASSUME Init PROVE IInv
  OBVIOUS
<1>1. NoRow \in Row /\ Sound(NoRow) /\ ~Live(NoRow)
  BY DelayAssumption DEF NoRow, Row, Sound, Live
<1>2. \A a \in Article : exposure[a] = NoRow
  BY DEF Init
<1>3. exposure \in [Article -> Row]
  BY <1>1 DEF Init
<1>4. Good(exposure)
  BY <1>1, <1>2, <1>3 DEF Good, Consistent, Distinct, Led
<1>5. TypeOK /\ PointersArePublic
  BY <1>3 DEF Init, TypeOK, PointersArePublic
<1>6. QED
  BY <1>4, <1>5 DEF IInv

\* A request for a headline, set by hand.
LEMMA ByHand ==
    ASSUME IInv, NEW a \in Article, Replace(a) \/ Reserve(a)
    PROVE  IInv' /\ LosesToBetter(exposure, exposure') /\ HeadlineHasSlot'
<1>1. Served(a)
  BY ReserveServes, ReplaceServes DEF IInv
<1>2. headline' = a /\ a \in public /\ UNCHANGED <<public, pending, recommended>>
  BY DEF Replace, Reserve, Select
<1>3. exposure' \in [Article -> Row]
  BY <1>1 DEF Served, Good
<1>4. TypeOK' /\ PointersArePublic'
  BY <1>2, <1>3 DEF IInv, TypeOK, PointersArePublic
<1>5. QED
  BY <1>1, <1>2, <1>4 DEF IInv, Served, HeadlineHasSlot

\* Requests that leave the slots alone.
LEMMA SlotsKept ==
    ASSUME UNCHANGED exposure
    PROVE  LosesToBetter(exposure, exposure') /\ (Good(exposure) => Good(exposure'))
  BY DEF LosesToBetter, Good, Consistent, Distinct, Led

LEMMA Pointed ==
    ASSUME IInv, NEW a \in Article,
           Recommend(a) \/ Save(a) \/ Invalidate(a) \/ ClearHeadline \/ Accept
    PROVE  IInv' /\ LosesToBetter(exposure, exposure')
<1>1. UNCHANGED exposure
  BY DEF Recommend, Save, Invalidate, ClearHeadline, Accept, Calmly
<1>2. TypeOK' /\ PointersArePublic'
  <2>1. CASE Recommend(a)
    BY <2>1 DEF Recommend, Calmly, IInv, TypeOK, PointersArePublic
  <2>2. CASE Save(a)
    BY <2>2 DEF Save, IInv, TypeOK, PointersArePublic
  <2>3. CASE Invalidate(a)
    BY <2>3, ScoreAssumption DEF Invalidate, Calmly, IInv, TypeOK, PointersArePublic
  <2>4. CASE ClearHeadline
    BY <2>4 DEF ClearHeadline, Calmly, IInv, TypeOK, PointersArePublic
  <2>5. CASE Accept
    BY <2>5 DEF Accept, Calmly, IInv, TypeOK, PointersArePublic
  <2>6. QED
    BY <2>1, <2>2, <2>3, <2>4, <2>5
<1>3. QED
  BY <1>1, <1>2, SlotsKept DEF IInv

LEMMA Ticked ==
    ASSUME IInv, Tick
    PROVE  IInv' /\ LosesToBetter(exposure, exposure') /\ (HeadlineHasSlot => HeadlineHasSlot')
<1>1. exposure' = Aged(exposure) /\ UNCHANGED <<public, pending, headline, recommended>>
  BY DEF Tick
<1>2. /\ Good(exposure')
      /\ \A a \in Article : exposure'[a].status = exposure[a].status
                            /\ (Granted(exposure'[a]) <=> Granted(exposure[a]))
  BY <1>1, AgedIsGood DEF IInv
<1>3. TypeOK' /\ PointersArePublic'
  BY <1>1, <1>2 DEF IInv, TypeOK, PointersArePublic, Good
<1>4. LosesToBetter(exposure, exposure')
  BY <1>2 DEF LosesToBetter
<1>5. HeadlineHasSlot => HeadlineHasSlot'
  BY <1>1, <1>2 DEF IInv, TypeOK, HeadlineHasSlot
<1>6. QED
  BY <1>2, <1>3, <1>4, <1>5 DEF IInv

LEMMA StepIInv ==
    ASSUME IInv, [Next]_homeVars
    PROVE  IInv' /\ LosesToBetter(exposure, exposure')
<1>1. CASE UNCHANGED homeVars
  <2>1. TypeOK' /\ PointersArePublic'
    BY <1>1 DEF IInv, TypeOK, PointersArePublic, homeVars
  <2>2. QED
    BY <1>1, <2>1, SlotsKept DEF IInv, homeVars
<1>2. CASE Tick
  BY <1>2, Ticked
<1>3. CASE ClearHeadline \/ Accept
  <2>1. PICK a \in Article : TRUE
    BY <1>3 DEF ClearHeadline, Accept, IInv, TypeOK
  <2>2. QED
    BY <1>3, <2>1, Pointed
<1>4. CASE \E a \in Article : Replace(a) \/ Reserve(a)
  BY <1>4, ByHand
<1>5. CASE \E a \in Article : Recommend(a) \/ Save(a) \/ Invalidate(a)
  BY <1>5, Pointed
<1>6. QED
  BY <1>1, <1>2, <1>3, <1>4, <1>5 DEF Next

-----------------------------------------------------------------------------
(* The slots as places: TwoPlaces.                                         *)

Opened(t, u) ==
    /\ Place(t, 1) = {} /\ \E a \in Article : Place(u, 1) = {a}
    /\ Place(u, 2) = Place(t, 2)
    /\ Mature(u) <=> Mature(t)
    /\ Shown(u) <=> Shown(t)

Followed(t, u) ==
    /\ Place(t, 2) = {} /\ Shown(u)
    /\ \E a \in Article : Place(u, 2) = {a} /\ \E f \in Place(t, 1) : Tells(a, f)
    /\ Place(u, 1) = Place(t, 1)
    /\ Mature(u) <=> Mature(t)

Replaced(t, u) ==
    /\ Shown(t) /\ Mature(t) /\ Shown(u) /\ Mature(u)
    /\ \E a \in Article : /\ Place(u, 2) = {a}
                          /\ \E f \in Place(t, 1) : Tells(a, f)
                          /\ \E b \in Place(t, 2) : Score[a] > Score[b]
    /\ Place(u, 1) = Place(t, 1)

\* Time passes.
Kept(t, u) ==
    /\ Place(u, 1) = Place(t, 1) /\ Place(u, 2) = Place(t, 2)
    /\ Mature(t) => Mature(u)
    /\ Shown(u) <=> Shown(t)

Moved(t, u) == Opened(t, u) \/ Followed(t, u) \/ Replaced(t, u) \/ Kept(t, u)

\* Slots have one holder, a second holder has a first one beside it, and
\* nobody waits.
LEMMA PlaceOfGood ==
    ASSUME NEW t, Good(t)
    PROVE  /\ \A s \in {1, 2} : \A a \in Place(t, s) : Place(t, s) = {a}
           /\ Place(t, 1) = {} => Place(t, 2) = {}
           /\ Shown(t) <=> Place(t, 2) # {}
<1>1. ASSUME NEW s \in {1, 2}, NEW a \in Place(t, s) PROVE Place(t, s) = {a}
  BY DEF Place, Good, Consistent
<1>2. \A a \in Article : t[a] \in Row /\ Sound(t[a])
  BY DEF Good
<1>3. ASSUME NEW b \in Place(t, 2) PROVE Place(t, 1) # {}
  <2>1. PICK a \in Article : t[a].slot = 1
    BY <1>3 DEF Place, Good, Led
  <2> QED
    BY <1>2, <2>1 DEF Place, Sound, Live
<1>4. Shown(t) <=> Place(t, 2) # {}
  BY <1>2, SoundRow DEF Shown, Place
<1> QED
  BY <1>1, <1>3, <1>4

\* An article takes a slot; those that held it lose it.
LEMMA TakenMoves ==
    ASSUME NEW t, NEW u, Good(t), Good(u), NEW a \in Article, NEW s \in {1, 2},
           ~Live(t[a]), u[a] = Taken(t[a], s, "active"), Live(u[a]),
           \A b \in Article \ {a} : u[b] = t[b] \/ (~Live(u[b]) /\ t[b].slot = s)
    PROVE  /\ Place(u, s) = {a}
           /\ s = 1 => Place(u, 2) = Place(t, 2) /\ ~Mature(u)
           /\ s = 2 => Place(u, 1) = Place(t, 1) /\ (Mature(u) <=> Mature(t))
<1>1. u[a].slot = s /\ u[a].shown = 0
  BY DEF Taken
<1>2. a \in Place(u, s)
  BY <1>1 DEF Place
<1>3. Place(u, s) = {a}
  BY <1>2, PlaceOfGood
<1>4. ASSUME s = 1 PROVE Place(u, 2) = Place(t, 2) /\ ~Mature(u)
  <2>1. ASSUME NEW b \in Article PROVE b \in Place(u, 2) <=> b \in Place(t, 2)
    <3>1. CASE b = a
      BY <1>1, <1>4, <3>1 DEF Place
    <3>2. CASE b # a /\ ~Live(u[b]) /\ t[b].slot = s
      BY <1>4, <3>2 DEF Place
    <3>3. CASE b # a /\ u[b] = t[b]
      BY <3>3 DEF Place
    <3> QED
      BY <3>1, <3>2, <3>3
  <2>2. Place(u, 2) = Place(t, 2)
    BY <2>1 DEF Place
  <2>3. ~Mature(u)
    BY <1>1, <1>3, <1>4, DelayAssumption DEF Mature
  <2> QED
    BY <2>2, <2>3
<1>5. ASSUME s = 2 PROVE Place(u, 1) = Place(t, 1) /\ (Mature(u) <=> Mature(t))
  <2>1. ASSUME NEW b \in Article
        PROVE  /\ b \in Place(u, 1) <=> b \in Place(t, 1)
               /\ b \in Place(t, 1) => u[b] = t[b]
    <3>1. CASE b = a
      BY <1>1, <1>5, <3>1 DEF Place
    <3>2. CASE b # a /\ ~Live(u[b]) /\ t[b].slot = s
      BY <1>5, <3>2 DEF Place
    <3>3. CASE b # a /\ u[b] = t[b]
      BY <3>3 DEF Place
    <3> QED
      BY <3>1, <3>2, <3>3
  <2>2. Place(u, 1) = Place(t, 1)
    BY <2>1 DEF Place
  <2>3. \A b \in Place(t, 1) : u[b] = t[b]
    BY <2>1 DEF Place
  <2> QED
    BY <2>2, <2>3 DEF Mature
<1> QED
  BY <1>3, <1>4, <1>5

LEMMA ReserveMoves ==
    ASSUME Good(exposure), NEW a \in Article, Reserve(a)
    PROVE  Moved(exposure, exposure')
<1> DEFINE t == exposure
           u == exposure'
<1>1. Good(t) /\ Good(u)
  BY ReserveServes DEF Served
<1>2. t \in [Article -> Row]
  BY <1>1 DEF Good
<1>3. ASSUME NEW s \in {1, 2}, ~Live(t[a]), Place(t, s) = {},
             u = [t EXCEPT ![a] = Taken(t[a], s, "active")]
      PROVE  /\ Place(u, s) = {a}
             /\ s = 1 => Place(u, 2) = Place(t, 2) /\ ~Mature(u)
             /\ s = 2 => Place(u, 1) = Place(t, 1) /\ (Mature(u) <=> Mature(t))
  <2>1. u[a] = Taken(t[a], s, "active") /\ \A b \in Article \ {a} : u[b] = t[b]
    BY <1>2, <1>3
  <2>2. Live(u[a])
    BY <1>2, <2>1, TakenRow
  <2>3. ~Live(t[a]) /\ \A b \in Article \ {a} : u[b] = t[b] \/ (~Live(u[b]) /\ t[b].slot = s)
    BY <1>3, <2>1
  <2> HIDE DEF t, u
  <2> QED
    BY <1>1, <2>1, <2>2, <2>3, TakenMoves
<1>4. CASE exposure' = exposure /\ Live(exposure[a])
  BY <1>4 DEF Moved, Kept
<1>5. CASE /\ ~Live(t[a])
           /\ \A b \in Article : ~(Live(t[b]) /\ t[b].slot = 1)
           /\ u = [t EXCEPT ![a] = Taken(t[a], 1, "active")]
  <2>1. Place(t, 1) = {}
    BY <1>5 DEF Place
  <2>2. Place(u, 1) = {a} /\ Place(u, 2) = Place(t, 2) /\ ~Mature(u)
    BY <1>3, <1>5, <2>1
  <2>3. ~Mature(t)
    BY <2>1 DEF Mature
  <2>4. Shown(u) <=> Shown(t)
    BY <1>1, <2>2, PlaceOfGood
  <2> QED
    BY <2>1, <2>2, <2>3, <2>4 DEF Moved, Opened
<1>6. CASE /\ ~Live(t[a])
           /\ \A b \in Article : ~(Live(t[b]) /\ t[b].slot = 2)
           /\ \E f \in Article : t[f].slot = 1 /\ Live(t[f])
           /\ \A f \in Article : t[f].slot = 1 /\ Live(t[f]) => Differs(a, f)
           /\ u = [t EXCEPT ![a] = Taken(t[a], 2, "active")]
  <2>1. Place(t, 2) = {}
    BY <1>6 DEF Place
  <2>2. Place(u, 2) = {a} /\ Place(u, 1) = Place(t, 1) /\ (Mature(u) <=> Mature(t))
    BY <1>3, <1>6, <2>1
  <2>3. \E f \in Place(t, 1) : Tells(a, f)
    BY <1>6 DEF Place, Tells, Differs
  <2>4. Shown(u)
    BY <1>1, <2>2, PlaceOfGood
  <2> QED
    BY <2>1, <2>2, <2>3, <2>4 DEF Moved, Followed
<1> QED
  BY <1>4, <1>5, <1>6, ReserveForms

LEMMA ReplaceMoves ==
    ASSUME Good(exposure), NEW a \in Article, Replace(a)
    PROVE  Moved(exposure, exposure')
<1> DEFINE t == exposure
           u == exposure'
<1>1. PICK old \in Others(a) :
        /\ MayReplace(old, a)
        /\ u = [t EXCEPT ![old].status = "replaced", ![a] = Taken(@, 2, "active")]
  BY DEF Replace
<1>2. old \in Article /\ old # a /\ old \in Place(t, 2)
  BY DEF Others, Rows, Live, Place
<1>3. PICK f \in Place(t, 1) :
        t[f].shown = Delay /\ Angle[a] \notin {OtherAngle, Angle[f]} /\ Score[a] > Score[old]
  BY <1>1 DEF MayReplace, Holders, Rows, Place, Matured
<1>4. Good(t) /\ Good(u) /\ t \in [Article -> Row]
  BY ReplaceServes DEF Served, Good
<1>5. Place(t, 2) = {old} /\ Place(t, 1) = {f}
  BY <1>2, <1>3, <1>4, PlaceOfGood
<1>6. Tells(a, f)
  <2>1. OtherAngle # Angle[f]
    BY <1>2, <1>3 DEF Good, Distinct, Place
  <2> QED
    BY <1>3, <2>1 DEF Tells
<1>7. ~Live(t[a])
  <2>1. a # f
    BY <1>3
  <2>2. a \notin Place(t, 1) /\ a \notin Place(t, 2)
    BY <1>2, <1>5, <2>1
  <2> QED
    BY <1>4, <2>2 DEF Place, Live, Row
<1>8. u[a] = Taken(t[a], 2, "active") /\ ~Live(u[old]) /\ \A b \in Article \ {a, old} : u[b] = t[b]
  BY <1>1, <1>2, <1>4 DEF Live, Row
<1>9. Live(u[a])
  BY <1>4, <1>8, TakenRow
<1>10. Place(u, 2) = {a} /\ Place(u, 1) = Place(t, 1) /\ (Mature(u) <=> Mature(t))
  <2>1. \A b \in Article \ {a} : u[b] = t[b] \/ (~Live(u[b]) /\ t[b].slot = 2)
    BY <1>2, <1>8 DEF Place
  <2> HIDE DEF t, u
  <2> QED
    BY <1>4, <1>7, <1>8, <1>9, <2>1, TakenMoves
<1>11. Mature(t) /\ Shown(t) /\ Shown(u)
  BY <1>3, <1>4, <1>5, <1>10, PlaceOfGood DEF Mature
<1> QED
  BY <1>2, <1>3, <1>6, <1>10, <1>11 DEF Moved, Replaced

LEMMA StepMoves ==
    ASSUME IInv, [Next]_homeVars
    PROVE  Moved(exposure, exposure')
<1>1. CASE UNCHANGED exposure
  BY <1>1 DEF Moved, Kept
<1>2. CASE Tick
  <2>1. Good(exposure) /\ Good(exposure') /\ exposure' = Aged(exposure)
    BY <1>2, AgedIsGood DEF IInv, Tick
  <2>2. ASSUME NEW a \in Article
        PROVE  /\ exposure'[a].slot = exposure[a].slot
               /\ Live(exposure'[a]) <=> Live(exposure[a])
               /\ Live(exposure[a]) /\ exposure[a].shown = Delay => exposure'[a].shown = Delay
    <3>1. /\ exposure[a] \in Row
          /\ exposure'[a] = IF exposure[a].slot = 0 THEN exposure[a]
                            ELSE [exposure[a] EXCEPT !.waited = Older(@),
                                     !.shown = IF Granted(exposure[a]) THEN Older(@) ELSE @]
      BY <2>1 DEF Aged, Good
    <3>2. Older(Delay) = Delay
      BY DelayAssumption DEF Older
    <3> QED
      BY <3>1, <3>2 DEF Row, Live
  <2>3. /\ Place(exposure', 1) = Place(exposure, 1)
        /\ Place(exposure', 2) = Place(exposure, 2)
        /\ Mature(exposure) => Mature(exposure')
    BY <2>2 DEF Place, Mature
  <2>4. Shown(exposure') <=> Shown(exposure)
    BY <2>1, <2>3, PlaceOfGood
  <2> QED
    BY <2>3, <2>4 DEF Moved, Kept
<1>3. ASSUME NEW a \in Article, Replace(a) \/ Reserve(a) PROVE Moved(exposure, exposure')
  BY <1>3, ReplaceMoves, ReserveMoves DEF IInv
<1> QED
  BY <1>1, <1>2, <1>3 DEF Next, homeVars, Recommend, Save, Invalidate, ClearHeadline, Accept, Calmly

\* Every move is a step of the abstract specification, or none at all.
LEMMA MovesArePlaces ==
    ASSUME Moved(exposure, exposure')
    PROVE  [Places!Next]_(Places!vars)
<1>1. ASSUME Opened(exposure, exposure') PROVE Places!Next
  BY <1>1 DEF Opened, Places!Next, Places!Open, Mature, Shown
<1>2. \A a, f : a \in Article /\ f \in Place(exposure, 1) /\ Tells(a, f) => Places!Fits(a)
  BY DEF Places!Fits, Stories, Place
<1>3. ASSUME Followed(exposure, exposure') PROVE Places!Next
  <2>1. PICK a \in Article : Place(exposure', 2) = {a} /\ \E f \in Place(exposure, 1) : Tells(a, f)
    BY <1>3 DEF Followed
  <2>2. Places!Follow(a)
    BY <1>2, <1>3, <2>1 DEF Followed, Places!Follow, Mature, Shown
  <2> QED
    BY <2>2 DEF Places!Next
<1>4. ASSUME Replaced(exposure, exposure') PROVE Places!Next
  <2>1. PICK a \in Article : /\ Place(exposure', 2) = {a}
                             /\ \E f \in Place(exposure, 1) : Tells(a, f)
                             /\ \E b \in Place(exposure, 2) : Score[a] > Score[b]
    BY <1>4 DEF Replaced
  <2>2. \E b \in Place(exposure, 2) : <<a, b>> \in {p \in Article \X Article : Score[p[1]] > Score[p[2]]}
    BY <2>1 DEF Place
  <2>3. Places!Replace(a)
    BY <1>2, <1>4, <2>1, <2>2 DEF Replaced, Places!Replace, Mature, Shown
  <2> QED
    BY <2>3 DEF Places!Next
<1>5. ASSUME Kept(exposure, exposure') PROVE [Places!Next]_(Places!vars)
  <2>1. Mature(exposure') /\ ~Mature(exposure) => Place(exposure, 1) # {}
    BY <1>5 DEF Kept, Mature
  <2> QED
    BY <1>5, <2>1 DEF Kept, Places!Next, Places!Mature, Places!vars, Mature, Shown
<1> QED
  BY <1>1, <1>3, <1>4, <1>5 DEF Moved

\* The strengthened invariant holds throughout: every request of the homepage
\* leaves a table the next one can rely on.
THEOREM Invariant == Spec => []IInv
<1>1. IInv /\ [Next]_homeVars => IInv'
  BY StepIInv
<1>2. QED
  BY InitIInv, <1>1, PTL DEF Spec

\* TypeOK: rows, articles and pointers keep their types.
THEOREM TypeCorrect == Spec => []TypeOK
<1>1. IInv => TypeOK
  BY DEF IInv
<1>2. QED
  BY Invariant, <1>1, PTL

\* SlotsDiffer: the two slots of the homepage tell different stories, however
\* headlines are set, replaced and forced.
THEOREM StoriesDiffer == Spec => []SlotsDiffer
<1>1. IInv => SlotsDiffer
  BY DEF IInv, Good, Distinct, SlotsDiffer, Tells
<1>2. QED
  BY Invariant, <1>1, PTL

\* PointersArePublic: headline and recommendation outlive their article's
\* withdrawal only until its check has run.
THEOREM PointersStayPublic == Spec => []PointersArePublic
<1>1. IInv => PointersArePublic
  BY DEF IInv
<1>2. QED
  BY Invariant, <1>1, PTL

\* OnlyBetterReplaces: the first slot is kept, the second lost to a higher
\* score only.
THEOREM ReplacedByBetter == Spec => OnlyBetterReplaces
<1>1. IInv /\ [Next]_homeVars =>
        [\A a \in Article :
            Granted(exposure[a]) /\ ~Granted(exposure'[a]) =>
                /\ exposure[a].slot = 2
                /\ \E b \in Article : /\ Score[b] > Score[a]
                                      /\ exposure'[b].slot = 2 /\ Granted(exposure'[b])]_exposure
  BY StepIInv DEF LosesToBetter
<1>2. QED
  BY Invariant, <1>1, PTL DEF Spec, OnlyBetterReplaces

\* HandPickedHasSlot: only accepting a recommendation makes a headline
\* without an active slot.
THEOREM HeadlineKeepsSlot == Spec => HandPickedHasSlot
<1>1. IInv /\ [Next]_homeVars =>
        [HeadlineHasSlot /\ ~Accept => HeadlineHasSlot']_homeVars
  <2> SUFFICES ASSUME IInv, Next, HeadlineHasSlot, ~Accept
               PROVE  HeadlineHasSlot'
    OBVIOUS
  <2>1. CASE Tick
    BY <2>1, Ticked
  <2>2. CASE \E a \in Article : Replace(a) \/ Reserve(a)
    BY <2>2, ByHand
  <2>3. CASE \E a \in Article : Recommend(a) \/ Save(a)
    BY <2>3 DEF Recommend, Save, Calmly, HeadlineHasSlot
  <2>4. CASE \E a \in Article : Invalidate(a)
    BY <2>4 DEF Invalidate, Calmly, HeadlineHasSlot
  <2>5. CASE ClearHeadline
    BY <2>5 DEF ClearHeadline, Calmly, HeadlineHasSlot
  <2>6. QED
    BY <2>1, <2>2, <2>3, <2>4, <2>5 DEF Next
<1>2. QED
  BY Invariant, <1>1, PTL DEF Spec, HandPickedHasSlot

\* SlotsArePlaces: the slots of the homepage implement TwoPlaces. The story
\* that opens the event stays, and the second place goes only to articles
\* that tell something else, later only to better ones.
THEOREM SlotsImplementPlaces == Spec => SlotsArePlaces
<1>1. Init => Places!Init
  BY DEF Init, NoRow, Live, Place, Mature, Shown, Places!Init
<1>2. IInv /\ [Next]_homeVars => [Places!Next]_(Places!vars)
  BY StepMoves, MovesArePlaces
<1>3. QED
  BY <1>1, <1>2, Invariant, PTL DEF Spec, SlotsArePlaces, Places!Spec
=============================================================================
