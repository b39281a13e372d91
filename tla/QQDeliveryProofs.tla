-------------------------- MODULE QQDeliveryProofs --------------------------
(***************************************************************************)
(* What QQDelivery promises for any number of deliveries and workers, any  *)
(* limits and any clock: types, the bound on what a group gets, the        *)
(* ownership of claims, the safety of switching the channel off, and that  *)
(* no retry is forgotten.                                                  *)
(***************************************************************************)
EXTENDS QQDelivery, FiniteSetTheorems, TLAPS

\* A busy worker works on a delivery.
BusyWorkers == \A w \in Worker : wk[w].pc # "idle" => wk[w].d \in Delivery

TypeInv == TypeOK /\ BusyWorkers

-----------------------------------------------------------------------------
(* Types.                                                                  *)

LEMMA Defaults ==
    /\ NoRow \in Row /\ NoRow.attempts = 0 /\ NoRow.status = "absent"
    /\ IdleWorker \in WorkerRow /\ IdleWorker.pc = "idle" /\ IdleWorker.d = NoDelivery
  BY ConstantsAssumption DEF ConstantsAssumption, NoRow, Row, Never, IdleWorker, WorkerRow,
     WorkerPC, Token, DeliveryClaim

\* The functions that change a row give rows.
LEMMA RowTypes ==
    ASSUME NEW r \in Row, NEW c \in Row, now \in Nat
    PROVE  /\ Failure(r, c) \in Row
           /\ Sealed(r) \in Row
           /\ r.attempts > 0 => [Sealed(r) EXCEPT !.attempts = r.attempts - 1] \in Row
           /\ r.attempts < MaxAttempts => Attempted(r) \in Row
           /\ Token(r) \in DeliveryClaim
<1> USE ConstantsAssumption DEF ConstantsAssumption
<1>1. Failure(r, c) \in Row  BY DEF Failure, Row
<1>2. Sealed(r) \in Row  BY DEF Sealed, Row
<1>3. ASSUME r.attempts > 0  PROVE [Sealed(r) EXCEPT !.attempts = r.attempts - 1] \in Row
  <2> DEFINE n == r.attempts - 1  s == Sealed(r)
  <2>1. n \in 0 .. MaxAttempts  BY <1>3 DEF Row
  <2>2. s \in Row  BY <1>2
  <2> HIDE DEF n, s
  <2>3. [s EXCEPT !.attempts = n] \in Row  BY <2>1, <2>2 DEF Row
  <2> QED  BY <2>3 DEF n, s
<1>4. ASSUME r.attempts < MaxAttempts  PROVE Attempted(r) \in Row
  <2> DEFINE n == r.attempts + 1
  <2>1. n \in 0 .. MaxAttempts  BY <1>4 DEF Row
  <2>2. Attempted(r) = [r EXCEPT !.status = "sending", !.attempts = n, !.last = now]
    BY DEF Attempted
  <2> HIDE DEF n
  <2> QED  BY <2>1, <2>2 DEF Row
<1>5. Token(r) \in DeliveryClaim  BY DEF Token, DeliveryClaim, Row
<1> QED  BY <1>1, <1>2, <1>3, <1>4, <1>5

\* Ending a task keeps the types.
LEMMA FinishType ==
    ASSUME TypeInv, NEW w \in Worker, Finish(w)
    PROVE  wk' \in [Worker -> WorkerRow] /\ BusyWorkers'
  BY Defaults DEF TypeInv, TypeOK, Finish, BusyWorkers

LEMMA ReturnType ==
    ASSUME TypeInv, NEW w \in Worker, wk[w].pc # "idle", NEW r, Return(w, r)
    PROVE  /\ wk' \in [Worker -> WorkerRow] /\ BusyWorkers'
           /\ queue' \in [Delivery -> Nat]
<1>1. Finish(w)  BY DEF Return
<1>2. queue' \in [Delivery -> Nat]
  BY DEF Return, TypeInv, TypeOK, BusyWorkers
<1> QED  BY <1>1, <1>2, FinishType

LEMMA SealType ==
    ASSUME TypeInv, NEW d \in Delivery,
           Seal(d) \/ (\E c \in DeliveryClaim : SealClaim(d, c))
    PROVE  row' \in [Delivery -> Row]
<1> USE DEF TypeInv, TypeOK
<1>1. /\ Sealed(row[d]) \in Row
      /\ row[d].attempts > 0 => [Sealed(row[d]) EXCEPT !.attempts = row[d].attempts - 1] \in Row
  BY RowTypes
<1>2. CASE Seal(d)  BY <1>1, <1>2 DEF Seal
<1>3. ASSUME NEW c \in DeliveryClaim, SealClaim(d, c)  PROVE row' \in [Delivery -> Row]
  <2>1. row' = [row EXCEPT ![d] = row'[d]]  BY <1>3 DEF SealClaim
  <2>2. row'[d] \in Row  BY <1>1, <1>3 DEF SealClaim
  <2> QED  BY <2>1, <2>2
<1> QED  BY <1>2, <1>3

\* Every step keeps the types.
LEMMA TypeStep == TypeInv /\ [Next]_vars => TypeInv'
<1> SUFFICES ASSUME TypeInv, [Next]_vars PROVE TypeInv'  OBVIOUS
<1> USE DEF TypeInv, TypeOK
<1>1. ASSUME NEW w \in Worker, NEW d \in Delivery, AutoPush(w, d) \/ WindowPush(w, d)
      PROVE  TypeInv'
  <2>1. row' \in [Delivery -> Row]
    BY <1>1 DEF AutoPush, WindowPush, Ensure, Row
  <2>2. queue' \in [Delivery -> Nat]  BY <1>1 DEF AutoPush, WindowPush, Dispatch
  <2>3. lost' \subseteq Delivery  BY <1>1 DEF AutoPush, WindowPush, Dispatch
  <2> QED  BY <1>1, <2>1, <2>2, <2>3 DEF AutoPush, WindowPush, BusyWorkers
<1>2. ASSUME NEW w \in Worker, NEW d \in Delivery, Deliver(w, d) PROVE TypeInv'
  <2>1. /\ queue' \in [Delivery -> Nat] /\ now' = now /\ on' = on /\ posts' = posts
        /\ lost' = lost
    BY <1>2 DEF Deliver
  <2>2. CASE ~on[w] \/ IsDisabled(row[d])
    <3>1. row' = row \/ Seal(d)  BY <1>2, <2>2 DEF Deliver
    <3>2. row' \in [Delivery -> Row]  BY <3>1, SealType
    <3> QED  BY <1>2, <2>1, <2>2, <3>2 DEF Deliver, BusyWorkers
  <2>3. CASE ~(~on[w] \/ IsDisabled(row[d]))
    <3> DEFINE x == [IdleWorker EXCEPT !.pc = "loaded", !.d = d, !.copy = row[d]]
    <3>1. x \in WorkerRow /\ x.d = d  BY Defaults DEF WorkerRow, WorkerPC
    <3>2. wk' = [wk EXCEPT ![w] = x] /\ row' = row  BY <1>2, <2>3 DEF Deliver
    <3> QED  BY <2>1, <3>1, <3>2 DEF BusyWorkers
  <2> QED  BY <2>2, <2>3
<1>3. ASSUME NEW w \in Worker, SealBeforeClaim(w) \/ SealOwnClaim(w) PROVE TypeInv'
  <2>1. wk[w].pc # "idle" /\ wk[w].d \in Delivery /\ wk[w].claim \in DeliveryClaim
    BY <1>3 DEF SealBeforeClaim, SealOwnClaim, BusyWorkers, WorkerRow
  <2>2. row' \in [Delivery -> Row]  BY <1>3, <2>1, SealType DEF SealBeforeClaim, SealOwnClaim
  <2>3. Return(w, row'[wk[w].d])  BY <1>3 DEF SealBeforeClaim, SealOwnClaim
  <2> QED  BY <1>3, <2>1, <2>2, <2>3, ReturnType DEF SealBeforeClaim, SealOwnClaim
<1>4. ASSUME NEW w \in Worker, Stop(w) PROVE TypeInv'
  BY <1>4, ReturnType DEF Stop
<1>5. ASSUME NEW w \in Worker, GiveUp(w) \/ NotEligible(w) \/ RecordSent(w) PROVE TypeInv'
  <2>1. wk[w].d \in Delivery
    BY <1>5 DEF GiveUp, NotEligible, RecordSent, Proceeds, BusyWorkers
  <2>2. row' \in [Delivery -> Row]
    <3> DEFINE r == row[wk[w].d]
    <3>1. r \in Row  BY <2>1
    <3>2. /\ [r EXCEPT !.status = "failed"] \in Row
          /\ [r EXCEPT !.status = "skipped", !.disabled = FALSE] \in Row
          /\ [r EXCEPT !.status = "sent", !.disabled = FALSE, !.receipt = TRUE] \in Row
      BY <3>1 DEF Row
    <3> QED  BY <1>5, <2>1, <3>2 DEF GiveUp, NotEligible, RecordSent
  <2> QED  BY <1>5, <2>2, FinishType DEF GiveUp, NotEligible, RecordSent
<1>6. ASSUME NEW w \in Worker, Probe(w) PROVE TypeInv'
  BY <1>6 DEF Probe, Proceeds, BusyWorkers, WorkerRow, WorkerPC
<1>15. ASSUME NEW w \in Worker, Reread(w) PROVE TypeInv'
  <2> DEFINE x == [wk[w] EXCEPT !.pc = "failing", !.copy = row[wk[w].d]]
  <2>1. wk[w] \in WorkerRow /\ wk[w].d \in Delivery  BY <1>15 DEF Reread, BusyWorkers
  <2>2. row[wk[w].d] \in Row  BY <2>1
  <2>3. x \in WorkerRow /\ x.d = wk[w].d  BY <2>1, <2>2 DEF WorkerRow, WorkerPC
  <2>4. wk' = [wk EXCEPT ![w] = x]  BY <1>15 DEF Reread
  <2> HIDE DEF x
  <2> QED  BY <1>15, <2>1, <2>3, <2>4 DEF Reread, BusyWorkers
<1>7. ASSUME NEW w \in Worker, Offline(w) \/ Unreachable(w) \/ RecordError(w) PROVE TypeInv'
  <2>1. wk[w].pc # "idle" /\ wk[w].d \in Delivery /\ wk[w].copy \in Row
    BY <1>7 DEF Offline, Unreachable, RecordError, BusyWorkers, WorkerRow
  <2>2. PICK c \in Row :
          row' = [row EXCEPT ![wk[w].d] = Failure(@, c)] /\ Return(w, Failure(c, c))
    BY <1>7, <2>1 DEF Offline, Unreachable, RecordError
  <2>3. row' \in [Delivery -> Row]
    <3>1. row[wk[w].d] \in Row  BY <2>1
    <3>2. Failure(row[wk[w].d], c) \in Row  BY <3>1, RowTypes
    <3> QED  BY <2>1, <2>2, <3>2
  <2>4. now' = now /\ on' = on /\ posts' = posts /\ lost' \subseteq Delivery
    BY <1>7 DEF Offline, Unreachable, RecordError
  <2> QED  BY <2>1, <2>2, <2>3, <2>4, ReturnType
<1>8. ASSUME NEW w \in Worker, Claim(w) PROVE TypeInv'
  <2>1. wk[w].pc = "probing" /\ wk[w].d \in Delivery  BY <1>8 DEF Claim, BusyWorkers
  <2>2. CASE Open(row[wk[w].d]) /\ row[wk[w].d].attempts < MaxAttempts
    <3> DEFINE a == Attempted(row[wk[w].d])
               x == [wk[w] EXCEPT !.pc = "claimed", !.claim = Token(a)]
    <3>0. row[wk[w].d] \in Row  BY <2>1
    <3>1. a \in Row /\ Token(a) \in DeliveryClaim
      <4>1. a \in Row  BY <2>2, <3>0, RowTypes
      <4> HIDE DEF a
      <4> QED  BY <4>1, RowTypes
    <3>2. x \in WorkerRow /\ x.d = wk[w].d  BY <3>1 DEF WorkerRow, WorkerPC
    <3>3. /\ row' = [row EXCEPT ![wk[w].d] = a] /\ wk' = [wk EXCEPT ![w] = x]
          /\ now' = now + 1 /\ queue' = queue /\ on' = on /\ posts' = posts
          /\ lost' = lost
      BY <1>8, <2>2 DEF Claim
    <3> HIDE DEF a, x
    <3> QED  BY <2>1, <3>1, <3>2, <3>3 DEF BusyWorkers
  <2>3. CASE ~(Open(row[wk[w].d]) /\ row[wk[w].d].attempts < MaxAttempts)
    BY <1>8, <2>1, <2>3, ReturnType DEF Claim
  <2> QED  BY <2>2, <2>3
<1>9. ASSUME NEW w \in Worker, Recheck(w) PROVE TypeInv'
  <2>1. wk[w].pc = "claimed" /\ wk[w].d \in Delivery  BY <1>9 DEF Recheck, BusyWorkers
  <2>2. CASE Owns(w)
    <3> DEFINE x == [wk[w] EXCEPT !.pc = "checking", !.copy = row[wk[w].d]]
    <3>1. x \in WorkerRow /\ x.d = wk[w].d  BY <2>1 DEF WorkerRow, WorkerPC
    <3>2. wk' = [wk EXCEPT ![w] = x] /\ queue' = queue  BY <1>9, <2>2 DEF Recheck
    <3> HIDE DEF x
    <3> QED  BY <1>9, <2>1, <3>1, <3>2 DEF Recheck, BusyWorkers
  <2>3. CASE ~Owns(w)  BY <1>9, <2>1, <2>3, ReturnType DEF Recheck
  <2> QED  BY <2>2, <2>3
<1>10. ASSUME NEW w \in Worker, Send(w) PROVE TypeInv'
  <2>1. wk[w].d \in Delivery  BY <1>10 DEF Send, BusyWorkers
  <2>2. posts' \in [Delivery -> Nat]  BY <1>10, <2>1 DEF Send
  <2>3. PICK pc \in WorkerPC : wk' = [wk EXCEPT ![w] = [@ EXCEPT !.pc = pc]]
    BY <1>10 DEF Send, WorkerPC
  <2> QED  BY <1>10, <2>1, <2>2, <2>3 DEF Send, BusyWorkers, WorkerRow
<1>11. ASSUME NEW w \in Worker, Crash(w) PROVE TypeInv'
  <2>1. Finish(w) /\ wk[w].d \in Delivery  BY <1>11 DEF Crash, BusyWorkers
  <2>2. queue' \in [Delivery -> Nat]  BY <1>11, <2>1 DEF Crash
  <2> QED  BY <1>11, <2>1, <2>2, FinishType DEF Crash
<1>12. ASSUME NEW w \in Worker, SwitchChannel(w) PROVE TypeInv'
  BY <1>12 DEF SwitchChannel, BusyWorkers
<1>13. CASE Tick  BY <1>13 DEF Tick, BusyWorkers
<1>14. CASE UNCHANGED vars  BY <1>14 DEF vars, BusyWorkers
<1> QED
  BY <1>1, <1>2, <1>3, <1>4, <1>5, <1>6, <1>7, <1>8, <1>9, <1>10, <1>11, <1>12, <1>13, <1>14,
     <1>15
  DEF Next, Handle

\* Deliveries, messages and workers keep their types whatever happens.
THEOREM TypeCorrect == Spec => []TypeOK
<1>1. Init => TypeInv
  BY Defaults, ConstantsAssumption DEF ConstantsAssumption, Init, TypeInv, TypeOK, BusyWorkers
<1>2. TypeInv => TypeOK  BY DEF TypeInv
<1> QED  BY <1>1, <1>2, TypeStep, PTL DEF Spec
-----------------------------------------------------------------------------
(* What a group gets.  Every message and every claim that may still become *)
(* a message is paid for by an attempt of its own.                         *)

\* The workers that hold a claim on d and have not posted yet.
Waiting(slots, d) == {w \in Worker : slots[w].d = d /\ slots[w].pc \in {"claimed", "checking"}}

Counted == \A d \in Delivery : posts[d] + Cardinality(Waiting(wk, d)) <= row[d].attempts

Received ==
    /\ \A d \in Delivery : row[d].status = "sent" => posts[d] > 0
    /\ \A w \in Worker : wk[w].pc = "posted" => posts[wk[w].d] > 0

Stamped == \A w \in Worker : wk[w].pc \in Holding => wk[w].claim.last < now

DeliveryInv == TypeInv /\ Counted /\ Received /\ Stamped /\ ClaimsAreOwned

LEMMA WaitingFinite ==
    ASSUME NEW slots, NEW d
    PROVE  IsFiniteSet(Waiting(slots, d)) /\ Cardinality(Waiting(slots, d)) \in Nat
<1>1. Waiting(slots, d) \subseteq Worker /\ IsFiniteSet(Worker)
  BY ConstantsAssumption DEF ConstantsAssumption, Waiting
<1>2. IsFiniteSet(Waiting(slots, d))  BY <1>1, FS_Subset
<1> QED  BY <1>2, FS_CardinalityType

\* A worker that stops waiting leaves at most one fewer of them behind.
LEMMA WaitingLeave ==
    ASSUME NEW old, NEW new, NEW w \in Worker, NEW d,
           new[w].pc \notin {"claimed", "checking"},
           \A v \in Worker \ {w} : new[v] = old[v]
    PROVE  /\ Cardinality(Waiting(new, d)) <= Cardinality(Waiting(old, d))
           /\ w \in Waiting(old, d) =>
                  Cardinality(Waiting(new, d)) = Cardinality(Waiting(old, d)) - 1
<1>1. Waiting(new, d) = Waiting(old, d) \ {w}  BY DEF Waiting
<1>2. IsFiniteSet(Waiting(old, d)) /\ Cardinality(Waiting(old, d)) \in Nat  BY WaitingFinite
<1> DEFINE S == Waiting(old, d)
<1> HIDE DEF S
<1>3. Cardinality(S \ {w}) = IF w \in S THEN Cardinality(S) - 1 ELSE Cardinality(S)
  BY <1>2, FS_RemoveElement DEF S
<1>4. Cardinality(S) \in Nat  BY <1>2 DEF S
<1>5. /\ Cardinality(S \ {w}) <= Cardinality(S)
      /\ w \in S => Cardinality(S \ {w}) = Cardinality(S) - 1
  BY <1>3, <1>4
<1> QED  BY <1>1, <1>5 DEF S

\* A step that neither claims, posts, records a receipt nor gives an attempt back.
Quiet ==
    /\ now' >= now /\ posts' = posts
    /\ \A d \in Delivery : /\ row'[d].attempts = row[d].attempts
                           /\ row'[d].status = "sent" => row[d].status = "sent"
    /\ \A w \in Worker :
          wk'[w].pc \in Holding =>
              /\ wk'[w].d = wk[w].d /\ wk'[w].claim = wk[w].claim
              /\ \/ wk'[w].pc = wk[w].pc
                 \/ wk[w].pc = "claimed" /\ wk'[w].pc = "checking"
                 \/ wk[w].pc = "refused" /\ wk'[w].pc = "failing"

LEMMA QuietStep == DeliveryInv /\ TypeInv' /\ Quiet => DeliveryInv'
<1> SUFFICES ASSUME DeliveryInv, TypeInv', Quiet PROVE DeliveryInv'  OBVIOUS
<1> USE DEF DeliveryInv
<1>1. Counted'
  <2> SUFFICES ASSUME NEW d \in Delivery
               PROVE  posts'[d] + Cardinality(Waiting(wk', d)) <= row'[d].attempts
    BY DEF Counted
  <2>1. Waiting(wk', d) \subseteq Waiting(wk, d)  BY DEF Quiet, Waiting, Holding
  <2>2. Cardinality(Waiting(wk', d)) <= Cardinality(Waiting(wk, d))
    BY <2>1, WaitingFinite, FS_Subset
  <2>3. posts[d] \in Nat /\ posts'[d] = posts[d] /\ row'[d].attempts = row[d].attempts
        /\ row[d].attempts \in Nat
    BY ConstantsAssumption DEF ConstantsAssumption, Quiet, TypeInv, TypeOK, Row
  <2>4. posts[d] + Cardinality(Waiting(wk, d)) <= row[d].attempts  BY DEF Counted
  <2>5. Cardinality(Waiting(wk', d)) \in Nat /\ Cardinality(Waiting(wk, d)) \in Nat
    BY WaitingFinite
  <2> QED  BY <2>2, <2>3, <2>4, <2>5
<1>2. Received'  BY DEF Received, Quiet, Holding
<1>3. Stamped'
  BY DEF Stamped, Quiet, Holding, TypeInv, TypeOK, WorkerRow, DeliveryClaim
<1>4. ClaimsAreOwned'  BY DEF ClaimsAreOwned, Quiet, Holding
<1> QED  BY <1>1, <1>2, <1>3, <1>4

\* The steps that are not quiet.
Loud ==
    \E w \in Worker :
        \/ SealOwnClaim(w) \/ Claim(w) \/ Send(w) \/ RecordSent(w)

LEMMA QuietOrLoud == DeliveryInv /\ [Next]_vars /\ ~Loud => Quiet
<1> SUFFICES ASSUME DeliveryInv, [Next]_vars, ~Loud PROVE Quiet  OBVIOUS
<1>0. /\ now \in Nat /\ row \in [Delivery -> Row] /\ wk \in [Worker -> WorkerRow]
      /\ \A w \in Worker : wk[w].pc # "idle" => wk[w].d \in Delivery
  BY DEF DeliveryInv, TypeInv, TypeOK, BusyWorkers
<1>1. ASSUME NEW w \in Worker, NEW d \in Delivery, AutoPush(w, d) \/ WindowPush(w, d)
      PROVE  Quiet
  BY <1>0, <1>1 DEF AutoPush, WindowPush, Ensure, Quiet, Row
<1>s. ASSUME NEW d \in Delivery, Seal(d)
      PROVE  \A e \in Delivery : /\ row'[e].attempts = row[e].attempts
                                 /\ row'[e].status = "sent" => row[e].status = "sent"
  BY <1>0, <1>s DEF Seal, Sealed, Row
<1>f. ASSUME NEW w \in Worker, Finish(w)
      PROVE  \A v \in Worker : wk'[v].pc \in Holding => wk'[v] = wk[v]
  BY <1>0, <1>f, Defaults DEF Finish, Holding
<1>r. ASSUME NEW d \in Delivery, NEW r, row' = [row EXCEPT ![d] = r],
             r.attempts = row[d].attempts, r.status = "sent" => row[d].status = "sent"
      PROVE  \A e \in Delivery : /\ row'[e].attempts = row[e].attempts
                                 /\ row'[e].status = "sent" => row[e].status = "sent"
  BY <1>0, <1>r
<1>2. ASSUME NEW w \in Worker, NEW d \in Delivery, Deliver(w, d) PROVE Quiet
  <2>1. \A v \in Worker : wk'[v].pc \in Holding => wk'[v] = wk[v]
    BY <1>0, <1>2 DEF Deliver, Holding, IdleWorker
  <2>2. row' = row \/ Seal(d)  BY <1>2 DEF Deliver
  <2> QED  BY <1>0, <1>2, <1>s, <2>1, <2>2 DEF Deliver, Quiet
<1>3. ASSUME NEW w \in Worker, SealBeforeClaim(w) PROVE Quiet
  <2>1. Seal(wk[w].d) /\ Finish(w) /\ wk[w].d \in Delivery
    BY <1>0, <1>3 DEF SealBeforeClaim, Return
  <2> QED  BY <1>0, <1>3, <1>s, <1>f, <2>1 DEF SealBeforeClaim, Quiet
<1>4. ASSUME NEW w \in Worker, Stop(w) \/ Crash(w) PROVE Quiet
  <2>1. Finish(w)  BY <1>4 DEF Stop, Crash, Return
  <2> QED  BY <1>0, <1>4, <1>f, <2>1 DEF Stop, Crash, Quiet
<1>5. ASSUME NEW w \in Worker, GiveUp(w) \/ NotEligible(w) PROVE Quiet
  <2>1. Finish(w) /\ wk[w].d \in Delivery
    BY <1>0, <1>5 DEF GiveUp, NotEligible, Proceeds
  <2>2. \A e \in Delivery : /\ row'[e].attempts = row[e].attempts
                            /\ row'[e].status = "sent" => row[e].status = "sent"
    <3> DEFINE r == row[wk[w].d]
    <3>1. r \in Row  BY <1>0, <2>1
    <3>2. \/ row' = [row EXCEPT ![wk[w].d] = [r EXCEPT !.status = "failed"]]
          \/ row' = [row EXCEPT ![wk[w].d] = [r EXCEPT !.status = "skipped",
                                                       !.disabled = FALSE]]
      BY <1>5, <2>1 DEF GiveUp, NotEligible
    <3> DEFINE x == [r EXCEPT !.status = "failed"]
               y == [r EXCEPT !.status = "skipped", !.disabled = FALSE]
    <3>3. /\ x.attempts = r.attempts /\ x.status # "sent"
          /\ y.attempts = r.attempts /\ y.status # "sent"
      BY <3>1 DEF Row
    <3>4. row' = [row EXCEPT ![wk[w].d] = x] \/ row' = [row EXCEPT ![wk[w].d] = y]  BY <3>2
    <3> HIDE DEF x, y
    <3> QED  BY <1>r, <2>1, <3>3, <3>4
  <2> QED  BY <1>0, <1>5, <1>f, <2>1, <2>2 DEF GiveUp, NotEligible, Quiet
<1>6. ASSUME NEW w \in Worker, Probe(w) PROVE Quiet
  BY <1>0, <1>6 DEF Probe, Proceeds, Quiet, Holding
<1>12. ASSUME NEW w \in Worker, Reread(w) PROVE Quiet
  <2> DEFINE x == [wk[w] EXCEPT !.pc = "failing", !.copy = row[wk[w].d]]
  <2>1. wk[w] \in WorkerRow /\ wk[w].pc = "refused"  BY <1>0, <1>12 DEF Reread
  <2>2. x.d = wk[w].d /\ x.claim = wk[w].claim /\ x.pc = "failing"  BY <2>1 DEF WorkerRow
  <2>3. wk' = [wk EXCEPT ![w] = x]  BY <1>12 DEF Reread
  <2> HIDE DEF x
  <2>4. \A v \in Worker : v # w => wk'[v] = wk[v]  BY <1>0, <2>3
  <2>5. wk'[w] = x  BY <1>0, <2>3
  <2> QED  BY <1>0, <1>12, <2>1, <2>2, <2>4, <2>5 DEF Reread, Quiet
<1>7. ASSUME NEW w \in Worker, Offline(w) \/ Unreachable(w) \/ RecordError(w) PROVE Quiet
  <2>1. Finish(w) /\ wk[w].d \in Delivery
    BY <1>0, <1>7 DEF Offline, Unreachable, RecordError, Return
  <2>2. \A e \in Delivery : /\ row'[e].attempts = row[e].attempts
                            /\ row'[e].status = "sent" => row[e].status = "sent"
    <3> DEFINE r == row[wk[w].d]
    <3>1. r \in Row  BY <1>0, <2>1
    <3>2. PICK c : row' = [row EXCEPT ![wk[w].d] = Failure(r, c)]
      BY <1>7, <2>1 DEF Offline, Unreachable, RecordError
    <3>3. Failure(r, c).attempts = r.attempts /\ Failure(r, c).status # "sent"
      BY <3>1 DEF Failure, Row
    <3> QED  BY <1>r, <2>1, <3>2, <3>3
  <2>3. now' = now /\ posts' = posts  BY <1>7 DEF Offline, Unreachable, RecordError
  <2> QED  BY <1>0, <1>f, <2>1, <2>2, <2>3 DEF Quiet
<1>8. ASSUME NEW w \in Worker, Recheck(w) PROVE Quiet
  <2>1. \/ Finish(w)
        \/ wk[w].pc = "claimed"
           /\ wk' = [wk EXCEPT ![w] = [@ EXCEPT !.pc = "checking", !.copy = row[wk[w].d]]]
    BY <1>8 DEF Recheck, Return
  <2>2. now' = now /\ posts' = posts /\ row' = row  BY <1>8 DEF Recheck
  <2>3. CASE Finish(w)  BY <1>0, <1>f, <2>2, <2>3 DEF Quiet
  <2>4. CASE ~Finish(w)
    <3> DEFINE x == [wk[w] EXCEPT !.pc = "checking", !.copy = row[wk[w].d]]
    <3>1. wk' = [wk EXCEPT ![w] = x] /\ wk[w].pc = "claimed"  BY <2>1, <2>4
    <3>2. x.pc = "checking" /\ x.d = wk[w].d /\ x.claim = wk[w].claim
      BY <1>0 DEF WorkerRow
    <3> HIDE DEF x
    <3> QED  BY <1>0, <2>2, <3>1, <3>2 DEF Quiet
  <2> QED  BY <2>3, <2>4
<1>9. ASSUME NEW w \in Worker, SwitchChannel(w) PROVE Quiet
  BY <1>0, <1>9 DEF SwitchChannel, Quiet
<1>10. CASE Tick  BY <1>0, <1>10 DEF Tick, Quiet
<1>11. CASE UNCHANGED vars  BY <1>0, <1>11 DEF vars, Quiet
<1> QED
  BY <1>1, <1>2, <1>3, <1>4, <1>5, <1>6, <1>7, <1>8, <1>9, <1>10, <1>11, <1>12
  DEF Next, Handle, Loud

\* The other steps keep the invariant too.
LEMMA LoudStep == DeliveryInv /\ TypeInv' /\ Loud => DeliveryInv'
<1> SUFFICES ASSUME DeliveryInv, TypeInv', Loud PROVE DeliveryInv'  OBVIOUS
<1>0. /\ now \in Nat /\ row \in [Delivery -> Row] /\ wk \in [Worker -> WorkerRow]
      /\ posts \in [Delivery -> Nat]
      /\ \A w \in Worker : wk[w].pc # "idle" => wk[w].d \in Delivery
      /\ \A d \in Delivery : row[d].attempts \in Nat /\ posts[d] \in Nat
      /\ \A d \in Delivery : row'[d].attempts \in Nat /\ posts'[d] \in Nat
  BY ConstantsAssumption
  DEF ConstantsAssumption, DeliveryInv, TypeInv, TypeOK, BusyWorkers, Row
<1>i. Counted /\ Received /\ Stamped /\ ClaimsAreOwned  BY DEF DeliveryInv
<1>c. \A d \in Delivery : /\ Cardinality(Waiting(wk, d)) \in Nat
                          /\ Cardinality(Waiting(wk', d)) \in Nat
  BY WaitingFinite
<1>f. ASSUME NEW w \in Worker, Finish(w)
      PROVE  /\ \A v \in Worker : wk'[v].pc \in Holding => wk'[v] = wk[v]
             /\ wk'[w].pc = "idle" /\ \A v \in Worker \ {w} : wk'[v] = wk[v]
  BY <1>0, <1>f, Defaults DEF Finish, Holding
\* A worker that finishes leaves the claims of the others as they are.
<1>k. ASSUME NEW w \in Worker, Finish(w), now' = now, posts' = posts
      PROVE  Stamped' /\ ClaimsAreOwned'
             /\ \A v \in Worker : wk'[v].pc = "posted" => posts'[wk'[v].d] > 0
  BY <1>i, <1>f, <1>k DEF Stamped, ClaimsAreOwned, Received, Holding
<1>1. ASSUME NEW w \in Worker, SealOwnClaim(w) PROVE DeliveryInv'
  <2>1. /\ Finish(w) /\ now' = now /\ posts' = posts /\ wk[w].d \in Delivery
        /\ wk[w].pc \in {"claimed", "checking"} /\ SealClaim(wk[w].d, wk[w].claim)
    BY <1>0, <1>1 DEF SealOwnClaim, Return
  <2>2. \A e \in Delivery :
           /\ row'[e].status = "sent" => row[e].status = "sent"
           /\ row'[e].attempts >= row[e].attempts - (IF e = wk[w].d THEN 1 ELSE 0)
    <3> DEFINE r == row[wk[w].d]
               x == [Sealed(r) EXCEPT !.attempts = r.attempts - 1]
    <3>1. r \in Row /\ r.attempts \in Nat  BY <1>0, <2>1
    <3>2. row' = row \/ row' = [row EXCEPT ![wk[w].d] = x]
      BY <1>0, <2>1 DEF SealClaim
    <3>3. x.status = "skipped" /\ x.attempts = r.attempts - 1  BY <3>1 DEF Sealed, Row
    <3> HIDE DEF x
    <3> QED  BY <1>0, <2>1, <3>2, <3>3
  <2>3. Counted'
    <3> SUFFICES ASSUME NEW d \in Delivery
                 PROVE  posts'[d] + Cardinality(Waiting(wk', d)) <= row'[d].attempts
      BY DEF Counted
    <3>1. posts[d] + Cardinality(Waiting(wk, d)) <= row[d].attempts  BY <1>i DEF Counted
    <3>2. /\ Cardinality(Waiting(wk', d)) <= Cardinality(Waiting(wk, d))
          /\ w \in Waiting(wk, d) =>
                Cardinality(Waiting(wk', d)) = Cardinality(Waiting(wk, d)) - 1
      BY <2>1, <1>f, WaitingLeave
    <3>3. d = wk[w].d => w \in Waiting(wk, d)  BY <2>1 DEF Waiting
    <3> QED  BY <1>0, <1>c, <2>1, <2>2, <3>1, <3>2, <3>3
  <2>4. Received'  BY <1>i, <1>k, <2>1, <2>2 DEF Received
  <2> QED  BY <1>k, <2>1, <2>3, <2>4 DEF DeliveryInv
<1>2. ASSUME NEW w \in Worker, Claim(w) PROVE DeliveryInv'
  <2>0. wk[w].pc = "probing" /\ wk[w].d \in Delivery /\ posts' = posts
    BY <1>0, <1>2 DEF Claim
  <2>1. CASE ~(Open(row[wk[w].d]) /\ row[wk[w].d].attempts < MaxAttempts)
    <3>1. Finish(w) /\ now' = now /\ row' = row  BY <1>2, <2>1 DEF Claim, Return
    <3>2. Quiet  BY <1>0, <1>f, <2>0, <3>1 DEF Quiet
    <3> QED  BY <3>2, QuietStep
  <2>2. CASE Open(row[wk[w].d]) /\ row[wk[w].d].attempts < MaxAttempts
    <3> DEFINE r == row[wk[w].d]
               a == Attempted(r)
               x == [wk[w] EXCEPT !.pc = "claimed", !.claim = Token(a)]
    <3>1. /\ row' = [row EXCEPT ![wk[w].d] = a] /\ wk' = [wk EXCEPT ![w] = x]
          /\ now' = now + 1
      BY <1>2, <2>2 DEF Claim
    <3>2. a.status = "sending" /\ a.attempts = r.attempts + 1 /\ a.last = now
      BY <1>0, <2>0 DEF Attempted, Row
    <3>3. x.pc = "claimed" /\ x.d = wk[w].d /\ x.claim.last = now
      BY <1>0, <3>2 DEF WorkerRow, Token
    <3> HIDE DEF a, x
    <3>4. \A v \in Worker : wk'[v] = IF v = w THEN x ELSE wk[v]  BY <1>0, <3>1
    <3>5. Counted'
      <4> SUFFICES ASSUME NEW d \in Delivery
                   PROVE  posts'[d] + Cardinality(Waiting(wk', d)) <= row'[d].attempts
        BY DEF Counted
      <4>1. posts[d] + Cardinality(Waiting(wk, d)) <= row[d].attempts  BY <1>i DEF Counted
      <4>2. CASE d = wk[w].d
        <5>1. Waiting(wk', d) = Waiting(wk, d) \cup {w} /\ w \notin Waiting(wk, d)
          BY <2>0, <3>3, <3>4, <4>2 DEF Waiting
        <5>2. Cardinality(Waiting(wk', d)) = Cardinality(Waiting(wk, d)) + 1
          BY <5>1, WaitingFinite, FS_AddElement
        <5>3. row'[d].attempts = row[d].attempts + 1  BY <1>0, <2>0, <3>1, <3>2, <4>2
        <5> QED  BY <1>0, <1>c, <2>0, <4>1, <5>2, <5>3
      <4>3. CASE d # wk[w].d
        <5>1. Waiting(wk', d) = Waiting(wk, d)  BY <2>0, <3>3, <3>4, <4>3 DEF Waiting
        <5>2. row'[d] = row[d]  BY <1>0, <3>1, <4>3
        <5> QED  BY <2>0, <4>1, <5>1, <5>2
      <4> QED  BY <4>2, <4>3
    <3>6. Received'
      <4>1. \A d \in Delivery : row'[d].status = "sent" => row[d].status = "sent"
        BY <1>0, <2>0, <3>1, <3>2
      <4> QED  BY <1>i, <2>0, <3>3, <3>4, <4>1 DEF Received
    <3>7. Stamped'
      BY <1>0, <1>i, <3>1, <3>3, <3>4 DEF Stamped, Holding, WorkerRow, DeliveryClaim
    <3>8. ClaimsAreOwned'
      BY <1>0, <1>i, <3>3, <3>4 DEF ClaimsAreOwned, Stamped, Holding, WorkerRow, DeliveryClaim
    <3> QED  BY <3>5, <3>6, <3>7, <3>8 DEF DeliveryInv
  <2> QED  BY <2>1, <2>2
<1>3. ASSUME NEW w \in Worker, Send(w) PROVE DeliveryInv'
  <2>1. PICK pc \in {"posted", "refused"} : wk' = [wk EXCEPT ![w] = [@ EXCEPT !.pc = pc]]
    BY <1>3 DEF Send
  <2>2. /\ wk[w].pc = "checking" /\ wk[w].d \in Delivery /\ now' = now /\ row' = row
    BY <1>0, <1>3 DEF Send
  <2> DEFINE x == [wk[w] EXCEPT !.pc = pc]
  <2>3. x.pc = pc /\ x.d = wk[w].d /\ x.claim = wk[w].claim  BY <1>0 DEF WorkerRow
  <2>4. wk' = [wk EXCEPT ![w] = x]  BY <2>1
  <2> HIDE DEF x
  <2>5. \A v \in Worker : wk'[v] = IF v = w THEN x ELSE wk[v]  BY <1>0, <2>4
  <2>6. /\ \A d \in Delivery \ {wk[w].d} : posts'[d] = posts[d]
        /\ posts'[wk[w].d] \in {posts[wk[w].d], posts[wk[w].d] + 1}
        /\ wk'[w].pc = "posted" => posts'[wk[w].d] = posts[wk[w].d] + 1
    <3>1. wk'[w].pc = pc  BY <2>3, <2>5
    <3>2. \/ pc = "posted" /\ posts' = [posts EXCEPT ![wk[w].d] = @ + 1]
          \/ pc = "refused" /\ posts' \in {posts, [posts EXCEPT ![wk[w].d] = @ + 1]}
      <4>1. CASE wk' = [wk EXCEPT ![w] = [@ EXCEPT !.pc = "posted"]]
                 /\ posts' = [posts EXCEPT ![wk[w].d] = @ + 1]
        <5>1. wk'[w].pc = "posted"  BY <1>0, <4>1 DEF WorkerRow
        <5> QED  BY <3>1, <4>1, <5>1
      <4>2. CASE wk' = [wk EXCEPT ![w] = [@ EXCEPT !.pc = "refused"]]
                 /\ posts' \in {posts, [posts EXCEPT ![wk[w].d] = @ + 1]}
        <5>1. wk'[w].pc = "refused"  BY <1>0, <4>2 DEF WorkerRow
        <5> QED  BY <3>1, <4>2, <5>1
      <4> QED  BY <1>3, <4>1, <4>2 DEF Send
    <3> QED  BY <1>0, <2>2, <3>1, <3>2
  <2>7. Counted'
    <3> SUFFICES ASSUME NEW d \in Delivery
                 PROVE  posts'[d] + Cardinality(Waiting(wk', d)) <= row'[d].attempts
      BY DEF Counted
    <3>1. posts[d] + Cardinality(Waiting(wk, d)) <= row[d].attempts  BY <1>i DEF Counted
    <3>2. /\ Cardinality(Waiting(wk', d)) <= Cardinality(Waiting(wk, d))
          /\ w \in Waiting(wk, d) =>
                Cardinality(Waiting(wk', d)) = Cardinality(Waiting(wk, d)) - 1
      <4>1. wk'[w].pc \notin {"claimed", "checking"}  BY <2>1, <2>3, <2>5
      <4>2. \A v \in Worker \ {w} : wk'[v] = wk[v]  BY <2>5
      <4> QED  BY <4>1, <4>2, WaitingLeave
    <3>3. d = wk[w].d => w \in Waiting(wk, d)  BY <2>2 DEF Waiting
    <3> QED  BY <1>0, <1>c, <2>2, <2>6, <3>1, <3>2, <3>3
  <2>8. Received'
    BY <1>0, <1>i, <2>2, <2>3, <2>5, <2>6 DEF Received
  <2>9. Stamped' /\ ClaimsAreOwned'
    BY <1>i, <2>2, <2>3, <2>5 DEF Stamped, ClaimsAreOwned, Holding
  <2> QED  BY <2>7, <2>8, <2>9 DEF DeliveryInv
<1>4. ASSUME NEW w \in Worker, RecordSent(w) PROVE DeliveryInv'
  <2>1. /\ Finish(w) /\ wk[w].pc = "posted" /\ wk[w].d \in Delivery
        /\ now' = now /\ posts' = posts
    BY <1>0, <1>4 DEF RecordSent
  <2> DEFINE x == [row[wk[w].d] EXCEPT !.status = "sent", !.disabled = FALSE, !.receipt = TRUE]
  <2>2. row' = [row EXCEPT ![wk[w].d] = x]  BY <1>4 DEF RecordSent
  <2>3. x.attempts = row[wk[w].d].attempts  BY <1>0, <2>1 DEF Row
  <2> HIDE DEF x
  <2>4. \A d \in Delivery : row'[d].attempts = row[d].attempts
                            /\ (d # wk[w].d => row'[d] = row[d])
    BY <1>0, <2>1, <2>2, <2>3
  <2>5. posts[wk[w].d] > 0  BY <1>i, <2>1 DEF Received
  <2>6. Counted'
    <3> SUFFICES ASSUME NEW d \in Delivery
                 PROVE  posts'[d] + Cardinality(Waiting(wk', d)) <= row'[d].attempts
      BY DEF Counted
    <3>1. posts[d] + Cardinality(Waiting(wk, d)) <= row[d].attempts  BY <1>i DEF Counted
    <3>2. Cardinality(Waiting(wk', d)) <= Cardinality(Waiting(wk, d))
      BY <2>1, <1>f, WaitingLeave
    <3> QED  BY <1>0, <1>c, <2>1, <2>4, <3>1, <3>2
  <2>7. Received'  BY <1>i, <1>k, <2>1, <2>4, <2>5 DEF Received
  <2> QED  BY <1>k, <2>1, <2>6, <2>7 DEF DeliveryInv
<1> QED  BY <1>1, <1>2, <1>3, <1>4 DEF Loud

LEMMA DeliveryInvHolds == Spec => []DeliveryInv
<1>1. Init => DeliveryInv
  <2> SUFFICES ASSUME Init PROVE DeliveryInv  OBVIOUS
  <2>1. TypeInv
    BY Defaults, ConstantsAssumption DEF ConstantsAssumption, Init, TypeInv, TypeOK, BusyWorkers
  <2>2. \A d \in Delivery : Waiting(wk, d) = {}  BY Defaults DEF Init, Waiting
  <2>3. Counted  BY <2>2, Defaults, FS_EmptySet DEF Init, Counted
  <2>4. Received /\ Stamped /\ ClaimsAreOwned
    BY Defaults DEF Init, Received, Stamped, ClaimsAreOwned, Holding
  <2> QED  BY <2>1, <2>3, <2>4 DEF DeliveryInv
<1>2. DeliveryInv /\ [Next]_vars => DeliveryInv'
  <2> SUFFICES ASSUME DeliveryInv, [Next]_vars PROVE DeliveryInv'  OBVIOUS
  <2>1. TypeInv'  BY TypeStep DEF DeliveryInv
  <2> QED  BY <2>1, QuietOrLoud, QuietStep, LoudStep
<1> QED  BY <1>1, <1>2, PTL DEF Spec

\* However many workers, duplicates, crashes and switches there are, a group
\* gets a delivery at most max_attempts times and a receipt is never invented.
THEOREM PostsBounded == Spec => []PostsWithinAttempts
<1>1. DeliveryInv => PostsWithinAttempts
  <2> SUFFICES ASSUME DeliveryInv, NEW d \in Delivery
               PROVE  /\ posts[d] <= row[d].attempts /\ row[d].attempts <= MaxAttempts
                      /\ row[d].status = "sent" => posts[d] > 0
    BY DEF PostsWithinAttempts
  <2>1. posts[d] + Cardinality(Waiting(wk, d)) <= row[d].attempts  BY DEF DeliveryInv, Counted
  <2>2. row[d].attempts \in 0 .. MaxAttempts /\ posts[d] \in Nat
    BY DEF DeliveryInv, TypeInv, TypeOK, Row
  <2> QED  BY <2>1, <2>2, WaitingFinite, ConstantsAssumption
       DEF ConstantsAssumption, DeliveryInv, Received
<1> QED  BY <1>1, DeliveryInvHolds, PTL

-----------------------------------------------------------------------------
(* The books of a delivery implement CountedSends.                         *)

\* A worker that may still post holds an attempt that has sent nothing.
LEMMA Unspent ==
    ASSUME DeliveryInv, NEW w \in Worker, wk[w].pc \in {"claimed", "checking"}
    PROVE  wk[w].d \in Delivery /\ posts[wk[w].d] < row[wk[w].d].attempts
<1>1. PICK d \in Delivery : d = wk[w].d  BY DEF DeliveryInv, TypeInv, BusyWorkers
<1>2. w \in Waiting(wk, d)  BY <1>1 DEF Waiting
<1>3. IsFiniteSet(Waiting(wk, d)) /\ Cardinality(Waiting(wk, d)) \in Nat  BY WaitingFinite
<1>4. Cardinality(Waiting(wk, d)) # 0  BY <1>2, <1>3, FS_EmptySet
<1>5. posts[d] + Cardinality(Waiting(wk, d)) <= row[d].attempts /\ posts[d] \in Nat
      /\ row[d].attempts \in Nat
  BY ConstantsAssumption
  DEF ConstantsAssumption, DeliveryInv, Counted, TypeInv, TypeOK, Row
<1> QED  BY <1>1, <1>3, <1>4, <1>5

\* Only RecordSent touches a receipt.
LEMMA ReceiptsStay ==
    ASSUME TypeInv, [Next]_vars, ~\E w \in Worker : RecordSent(w)
    PROVE  \A d \in Delivery : row'[d].receipt = row[d].receipt
<1> DEFINE Goal == \A d \in Delivery : row'[d].receipt = row[d].receipt
<1> SUFFICES Goal  OBVIOUS
<1>0. row \in [Delivery -> Row]  BY DEF TypeInv, TypeOK
<1>1. ASSUME NEW d, NEW x, row' = [row EXCEPT ![d] = x],
             d \in Delivery => x.receipt = row[d].receipt
      PROVE  Goal
  BY <1>0, <1>1
<1>2. CASE UNCHANGED row  BY <1>2
<1>3. \A r \in Row : /\ Sealed(r).receipt = r.receipt
                     /\ [Sealed(r) EXCEPT !.attempts = r.attempts - 1].receipt = r.receipt
                     /\ Attempted(r).receipt = r.receipt
                     /\ [r EXCEPT !.status = "failed"].receipt = r.receipt
                     /\ [r EXCEPT !.status = "pending"].receipt = r.receipt
                     /\ [r EXCEPT !.status = "skipped", !.disabled = FALSE].receipt = r.receipt
                     /\ \A copy : Failure(r, copy).receipt = r.receipt
  BY DEF Sealed, Attempted, Failure, Row
<1>4. ASSUME NEW d, Seal(d) PROVE Goal
  BY <1>0, <1>1, <1>2, <1>3, <1>4 DEF Seal
<1>5. ASSUME NEW d, Ensure(d) PROVE Goal
  BY <1>0, <1>1, <1>2, <1>3, <1>5 DEF Ensure
<1>6. ASSUME NEW w \in Worker, SealOwnClaim(w) PROVE Goal
  BY <1>0, <1>1, <1>2, <1>3, <1>6 DEF SealOwnClaim, SealClaim
<1>7. ASSUME NEW w \in Worker, Claim(w) PROVE Goal
  BY <1>0, <1>1, <1>2, <1>3, <1>7 DEF Claim
<1>8. ASSUME NEW w \in Worker, Offline(w) \/ Unreachable(w) \/ RecordError(w) PROVE Goal
  BY <1>0, <1>1, <1>3, <1>8 DEF Offline, Unreachable, RecordError
<1>9. ASSUME NEW w \in Worker, GiveUp(w) \/ NotEligible(w) PROVE Goal
  <2>1. PICK d : d = wk[w].d  OBVIOUS
  <2>2. CASE GiveUp(w)
    <3>1. row' = [row EXCEPT ![d] = [row[d] EXCEPT !.status = "failed"]]
      BY <2>1, <2>2 DEF GiveUp
    <3>2. d \in Delivery => [row[d] EXCEPT !.status = "failed"].receipt = row[d].receipt
      BY <1>0, <1>3
    <3> QED  BY ONLY <1>1, <3>1, <3>2
  <2>3. CASE NotEligible(w)
    <3>1. row' = [row EXCEPT ![d] = [row[d] EXCEPT !.status = "skipped", !.disabled = FALSE]]
      BY <2>1, <2>3 DEF NotEligible
    <3>2. d \in Delivery =>
              [row[d] EXCEPT !.status = "skipped", !.disabled = FALSE].receipt = row[d].receipt
      BY <1>0, <1>3
    <3> QED  BY ONLY <1>1, <3>1, <3>2
  <2> QED  BY <1>9, <2>2, <2>3
<1>10. ASSUME NEW w \in Worker, NEW d \in Delivery,
              AutoPush(w, d) \/ WindowPush(w, d) \/ Deliver(w, d)
       PROVE  Goal
  BY <1>2, <1>4, <1>5, <1>10 DEF AutoPush, WindowPush, Deliver
<1>11. ASSUME NEW w \in Worker, SealBeforeClaim(w) PROVE Goal
  BY <1>4, <1>11 DEF SealBeforeClaim
<1>12. ASSUME NEW w \in Worker,
              \/ Stop(w) \/ Probe(w) \/ Recheck(w) \/ Send(w) \/ Reread(w)
              \/ Crash(w) \/ SwitchChannel(w)
       PROVE  Goal
  BY <1>2, <1>12 DEF Stop, Probe, Recheck, Send, Reread, Crash, SwitchChannel
<1>13. CASE Tick \/ UNCHANGED vars  BY <1>2, <1>13 DEF Tick, vars
<1> HIDE DEF Goal
<1> QED
  BY <1>6, <1>7, <1>8, <1>9, <1>10, <1>11, <1>12, <1>13 DEF Next, Handle

\* The books change as CountedSends says, one delivery at a time.
LEMMA BooksStep ==
    ASSUME DeliveryInv, [Next]_vars
    PROVE  [Books!Next]_(Books!vars)
<1> DEFINE Taken == [d \in Delivery |-> row[d].attempts]
           Receipt == [d \in Delivery |-> row[d].receipt]
           Goal == [Books!Next]_(Books!vars)
<1> SUFFICES Goal  OBVIOUS
<1>0. /\ row \in [Delivery -> Row] /\ wk \in [Worker -> WorkerRow]
      /\ posts \in [Delivery -> Nat] /\ MaxAttempts \in Nat
      /\ \A w \in Worker : wk[w].pc # "idle" => wk[w].d \in Delivery
      /\ \A d \in Delivery : row[d].attempts \in Nat /\ row[d].receipt \in BOOLEAN
  BY ConstantsAssumption
  DEF ConstantsAssumption, DeliveryInv, TypeInv, TypeOK, BusyWorkers, Row
\* Nothing happens to the books.
<1>s. ASSUME posts' = posts,
             \A d \in Delivery : /\ row'[d].attempts = row[d].attempts
                                 /\ row'[d].receipt = row[d].receipt
      PROVE  Goal
  BY <1>s DEF Books!vars
<1>1. CASE ~Loud
  <2>1. Quiet  BY <1>1, QuietOrLoud
  <2>2. \A d \in Delivery : row'[d].receipt = row[d].receipt
    BY <1>1, ReceiptsStay DEF Loud, DeliveryInv
  <2> QED  BY <1>s, <2>1, <2>2 DEF Quiet
<1>2. ASSUME NEW w \in Worker, SealOwnClaim(w), ~\E v \in Worker : RecordSent(v) PROVE Goal
  <2>1. /\ posts' = posts /\ wk[w].pc \in {"claimed", "checking"}
        /\ SealClaim(wk[w].d, wk[w].claim)
    BY <1>2 DEF SealOwnClaim
  <2>2. PICK d \in Delivery : d = wk[w].d /\ posts[d] < row[d].attempts
    BY <2>1, Unspent
  <2>3. Receipt' = Receipt  BY <1>2, ReceiptsStay DEF DeliveryInv
  <2> DEFINE x == [Sealed(row[d]) EXCEPT !.attempts = row[d].attempts - 1]
  <2>4. x.attempts = row[d].attempts - 1  BY <1>0 DEF Sealed, Row
  <2>5. row' = row \/ row' = [row EXCEPT ![d] = x]
    <3>1. SealClaim(d, wk[w].claim)  BY <2>1, <2>2
    <3> QED  BY <1>0, <3>1 DEF SealClaim
  <2> HIDE DEF x
  <2>6. CASE row' = row  BY <1>s, <2>1, <2>6
  <2>7. CASE row' = [row EXCEPT ![d] = x]
    <3>1. Taken' = [Taken EXCEPT ![d] = @ - 1]  BY <1>0, <2>4, <2>7
    <3>2. posts[d] < Taken[d]  BY <2>2
    <3>3. Books!GiveBack(d)  BY <2>1, <2>3, <3>1, <3>2 DEF Books!GiveBack
    <3> QED  BY <3>3 DEF Books!Next
  <2> QED  BY <2>5, <2>6, <2>7
<1>3. ASSUME NEW w \in Worker, Claim(w), ~\E v \in Worker : RecordSent(v) PROVE Goal
  <2>1. posts' = posts  BY <1>3 DEF Claim
  <2>2. PICK d \in Delivery : d = wk[w].d  BY <1>0, <1>3 DEF Claim
  <2>3. Receipt' = Receipt  BY <1>3, ReceiptsStay DEF DeliveryInv
  <2>4. \/ row' = row
        \/ row[d].attempts < MaxAttempts /\ row' = [row EXCEPT ![d] = Attempted(row[d])]
    BY <1>3, <2>2 DEF Claim
  <2>5. Attempted(row[d]).attempts = row[d].attempts + 1  BY <1>0 DEF Attempted, Row
  <2>6. CASE row' = row  BY <1>s, <2>1, <2>6
  <2>7. CASE row[d].attempts < MaxAttempts /\ row' = [row EXCEPT ![d] = Attempted(row[d])]
    <3>1. Taken' = [Taken EXCEPT ![d] = @ + 1]  BY <1>0, <2>5, <2>7
    <3>2. Taken[d] < MaxAttempts  BY <2>7
    <3>3. Books!Take(d)  BY <2>1, <2>3, <3>1, <3>2 DEF Books!Take
    <3> QED  BY <3>3 DEF Books!Next
  <2> QED  BY <2>4, <2>6, <2>7
<1>4. ASSUME NEW w \in Worker, Send(w) PROVE Goal
  <2>1. row' = row /\ wk[w].pc = "checking"  BY <1>4 DEF Send
  <2>2. PICK d \in Delivery : d = wk[w].d /\ posts[d] < row[d].attempts
    BY <2>1, Unspent
  <2>3. posts' = posts \/ posts' = [posts EXCEPT ![d] = @ + 1]  BY <1>4, <2>2 DEF Send
  <2>4. CASE posts' = posts  BY <1>s, <2>1, <2>4
  <2>5. CASE posts' = [posts EXCEPT ![d] = @ + 1]
    <3>1. Taken' = Taken /\ Receipt' = Receipt /\ posts[d] < Taken[d]  BY <2>1, <2>2
    <3>2. Books!Post(d)  BY <2>5, <3>1 DEF Books!Post
    <3> QED  BY <3>2 DEF Books!Next
  <2> QED  BY <2>3, <2>4, <2>5
<1>5. ASSUME NEW w \in Worker, RecordSent(w) PROVE Goal
  <2>1. posts' = posts /\ wk[w].pc = "posted"  BY <1>5 DEF RecordSent
  <2>2. PICK d \in Delivery : d = wk[w].d /\ posts[d] > 0
    BY <1>0, <2>1 DEF DeliveryInv, Received
  <2> DEFINE x == [row[d] EXCEPT !.status = "sent", !.disabled = FALSE, !.receipt = TRUE]
  <2>3. row' = [row EXCEPT ![d] = x]  BY <1>5, <2>2 DEF RecordSent
  <2>4. x.attempts = row[d].attempts /\ x.receipt = TRUE  BY <1>0 DEF Row
  <2> HIDE DEF x
  <2>5. Taken' = Taken  BY <1>0, <2>3, <2>4
  <2>6. Receipt' = [Receipt EXCEPT ![d] = TRUE]  BY <1>0, <2>3, <2>4
  <2>7. Books!Record(d)  BY <2>1, <2>2, <2>5, <2>6 DEF Books!Record
  <2> QED  BY <2>7 DEF Books!Next
<1> HIDE DEF Goal
<1> QED  BY <1>1, <1>2, <1>3, <1>4, <1>5 DEF Loud

\* Workers, stale claims, duplicates and the channel switch implement the
\* books of a delivery: the group gets nothing that no attempt was taken for,
\* an attempt is given back only if it sent nothing, and a receipt is true
\* and lasting (_claim_delivery_attempt, skip_disabled_qq_delivery).
THEOREM SendsImplementBooks == Spec => SendsAreCounted
<1>1. Init => Books!Init
  BY Defaults DEF Init, NoRow, Books!Init
<1>2. DeliveryInv /\ [Next]_vars => [Books!Next]_(Books!vars)
  BY BooksStep
<1> QED  BY <1>1, <1>2, DeliveryInvHolds, PTL DEF Spec, SendsAreCounted, Books!Spec

-----------------------------------------------------------------------------
(* Owners and seals.                                                       *)

\* A claim has one owner: a worker that lost the compare-and-set never acts on
\* the claim of the worker that won it.
THEOREM ClaimsOwned == Spec => []ClaimsAreOwned
<1>1. DeliveryInv => ClaimsAreOwned  BY DEF DeliveryInv
<1> QED  BY <1>1, DeliveryInvHolds, PTL

\* Only sealing makes a row a sealed one.
LEMMA SealedBySeal ==
    ASSUME TypeInv, [Next]_vars, NEW d \in Delivery,
           ~IsDisabled(row[d]), IsDisabled(row'[d])
    PROVE  \/ Open(row[d])
           \/ \E w \in Worker : SealOwnClaim(w) /\ wk[w].d = d
                                /\ row[d].status = "sending" /\ Token(row[d]) = wk[w].claim
<1>0. /\ row \in [Delivery -> Row]
      /\ \A w \in Worker : wk[w].pc # "idle" => wk[w].d \in Delivery
  BY DEF TypeInv, TypeOK, BusyWorkers
<1>n. row'[d] # row[d]  OBVIOUS
<1>s. ASSUME NEW e \in Delivery, Seal(e)  PROVE Open(row[d])
  <2>1. row'[d] = IF d = e /\ Open(row[d]) THEN Sealed(row[d]) ELSE row[d]
    BY <1>0, <1>s DEF Seal
  <2> QED  BY <1>n, <2>1
<1>1. ASSUME NEW w \in Worker, NEW e \in Delivery, AutoPush(w, e) \/ WindowPush(w, e)
      PROVE  FALSE
  <2>1. row'[d].status = "skipped" => row'[d] = row[d]
    BY <1>0, <1>1 DEF AutoPush, WindowPush, Ensure, Row
  <2> QED  BY <1>n, <2>1 DEF IsDisabled
<1>2. ASSUME NEW w \in Worker, NEW e \in Delivery, Deliver(w, e) PROVE Open(row[d])
  <2>1. row' = row \/ Seal(e)  BY <1>2 DEF Deliver
  <2> QED  BY <1>n, <1>s, <2>1
<1>3. ASSUME NEW w \in Worker, SealBeforeClaim(w) PROVE Open(row[d])
  <2>1. Seal(wk[w].d) /\ wk[w].d \in Delivery  BY <1>0, <1>3 DEF SealBeforeClaim
  <2> QED  BY <1>s, <2>1
<1>4. ASSUME NEW w \in Worker, SealOwnClaim(w)
      PROVE  wk[w].d = d /\ row[d].status = "sending" /\ Token(row[d]) = wk[w].claim
  <2>1. SealClaim(wk[w].d, wk[w].claim) /\ wk[w].d \in Delivery
    BY <1>0, <1>4 DEF SealOwnClaim
  <2> QED  BY <1>0, <1>n, <2>1 DEF SealClaim
<1>5. ASSUME NEW w \in Worker, wk[w].d \in Delivery, NEW x, x.status # "skipped" \/ ~x.disabled,
             row' = [row EXCEPT ![wk[w].d] = x]
      PROVE  FALSE
  BY <1>0, <1>5, <1>n DEF IsDisabled
<1>6. ASSUME NEW w \in Worker,
             GiveUp(w) \/ NotEligible(w) \/ Offline(w) \/ Claim(w) \/ Unreachable(w)
             \/ RecordSent(w) \/ RecordError(w)
      PROVE  FALSE
  <2>1. wk[w].d \in Delivery
    BY <1>0, <1>6 DEF GiveUp, NotEligible, Offline, Claim, Unreachable, RecordSent,
       RecordError, Proceeds
  <2> DEFINE r == row[wk[w].d]
  <2>2. r \in Row  BY <1>0, <2>1
  <2>3. CASE GiveUp(w)
    <3> DEFINE x == [r EXCEPT !.status = "failed"]
    <3>1. x.status = "failed"  BY <2>2 DEF Row
    <3>2. row' = [row EXCEPT ![wk[w].d] = x]  BY <2>3 DEF GiveUp
    <3> HIDE DEF x
    <3> QED  BY <1>5, <2>1, <3>1, <3>2
  <2>4. CASE NotEligible(w)
    <3> DEFINE x == [r EXCEPT !.status = "skipped", !.disabled = FALSE]
    <3>1. ~x.disabled  BY <2>2 DEF Row
    <3>2. row' = [row EXCEPT ![wk[w].d] = x]  BY <2>4 DEF NotEligible
    <3> HIDE DEF x
    <3> QED  BY <1>5, <2>1, <3>1, <3>2
  <2>5. CASE Offline(w) \/ Unreachable(w) \/ RecordError(w)
    <3>1. PICK c : row' = [row EXCEPT ![wk[w].d] = Failure(r, c)]
      BY <2>5 DEF Offline, Unreachable, RecordError
    <3>2. Failure(r, c).status # "skipped"  BY <2>2 DEF Failure, Row
    <3> QED  BY <1>5, <2>1, <3>1, <3>2
  <2>6. CASE Claim(w)
    <3>1. row' = row \/ row' = [row EXCEPT ![wk[w].d] = Attempted(r)]  BY <2>6 DEF Claim
    <3>2. Attempted(r).status = "sending"  BY <2>2 DEF Attempted, Row
    <3> QED  BY <1>5, <1>n, <2>1, <3>1, <3>2
  <2>7. CASE RecordSent(w)
    <3> DEFINE x == [r EXCEPT !.status = "sent", !.disabled = FALSE, !.receipt = TRUE]
    <3>1. x.status = "sent"  BY <2>2 DEF Row
    <3>2. row' = [row EXCEPT ![wk[w].d] = x]  BY <2>7 DEF RecordSent
    <3> HIDE DEF x
    <3> QED  BY <1>5, <2>1, <3>1, <3>2
  <2> QED  BY <1>6, <2>3, <2>4, <2>5, <2>6, <2>7
<1>7. ASSUME NEW w \in Worker,
             Stop(w) \/ Probe(w) \/ Recheck(w) \/ Send(w) \/ Reread(w) \/ Crash(w)
             \/ SwitchChannel(w)
      PROVE  FALSE
  BY <1>7, <1>n DEF Stop, Probe, Recheck, Send, Reread, Crash, SwitchChannel
<1>8. ASSUME Tick \/ UNCHANGED vars  PROVE FALSE
  BY <1>8, <1>n DEF Tick, vars
<1> QED  BY <1>1, <1>2, <1>3, <1>4, <1>6, <1>7, <1>8 DEF Next, Handle

\* Switching the channel off never seals a delivery that is recorded as sent, nor
\* a fresh claim of another worker (skip_disabled_qq_delivery).
THEOREM DisablingIsSafe == Spec => DisablingKeepsSent
<1>1. ASSUME DeliveryInv, [Next]_vars, NEW d \in Delivery,
             ~IsDisabled(row[d]), IsDisabled(row'[d])
      PROVE  /\ row[d].status # "sent"
             /\ FreshSending(row[d]) =>
                    \A w \in Worker :
                        wk[w].pc \in Holding /\ wk[w].d = d /\ Owns(w) => wk'[w].pc = "idle"
  <2>1. CASE Open(row[d])  BY <2>1 DEF Open, FreshSending, StaleSending
  <2>2. ASSUME NEW w \in Worker, SealOwnClaim(w), wk[w].d = d,
               row[d].status = "sending", Token(row[d]) = wk[w].claim
        PROVE  \A v \in Worker :
                   wk[v].pc \in Holding /\ wk[v].d = d /\ Owns(v) => wk'[v].pc = "idle"
    <3>1. wk[w].pc \in Holding /\ wk'[w].pc = "idle"
      BY <1>1, <2>2, Defaults
      DEF SealOwnClaim, Holding, Return, Finish, DeliveryInv, TypeInv, TypeOK
    <3>2. \A v \in Worker : wk[v].pc \in Holding /\ wk[v].d = d /\ Owns(v) => v = w
      BY <1>1, <2>2, <3>1 DEF DeliveryInv, ClaimsAreOwned, Owns
    <3> QED  BY <3>1, <3>2
  <2> QED  BY <1>1, <2>1, <2>2, SealedBySeal DEF DeliveryInv
<1>2. DeliveryInv /\ [Next]_vars =>
          [\A d \in Delivery :
              ~IsDisabled(row[d]) /\ IsDisabled(row'[d]) =>
                  /\ row[d].status # "sent"
                  /\ FreshSending(row[d]) =>
                         \A w \in Worker :
                             wk[w].pc \in Holding /\ wk[w].d = d /\ Owns(w)
                                 => wk'[w].pc = "idle"]_vars
  BY <1>1
<1> QED  BY <1>2, DeliveryInvHolds, PTL DEF Spec, DisablingKeepsSent
-----------------------------------------------------------------------------
(* Who takes care of a delivery that is to be tried again.                 *)

\* A worker that cannot leave d "retrying" without a new message: one that
\* read d in another state might stop and leave it.
Tends(w, d) ==
    /\ wk[w].d = d /\ wk[w].pc # "idle"
    /\ wk[w].pc = "loaded" => wk[w].copy.status = "retrying"

Tended(d) == queue[d] > 0 \/ d \in lost \/ \E w \in Worker : Tends(w, d)

ToRetry(d) == row[d].status = "retrying" /\ row[d].attempts < MaxAttempts

RetryInv == TypeInv /\ \A d \in Delivery : ToRetry(d) => Tended(d)

\* A task that ends with a row to be tried again sends a message.
LEMMA ReturnTends ==
    ASSUME TypeInv, NEW w \in Worker, NEW d \in Delivery, wk[w].d = d, NEW r, Return(w, r),
           r.status = "retrying", r.attempts < MaxAttempts
    PROVE  Tended(d)'
<1>1. queue'[d] = queue[d] + 1  BY DEF Return, TypeInv, TypeOK
<1>2. queue[d] \in Nat  BY DEF TypeInv, TypeOK
<1> QED  BY <1>1, <1>2 DEF Tended

\* A delivery stays tended if no message is taken and one worker at most
\* changes, which does not leave it.
LEMMA StaysTended ==
    ASSUME TypeInv, TypeInv', NEW w \in Worker, NEW d \in Delivery, Tended(d),
           queue'[d] >= queue[d], d \in lost => d \in lost',
           \A v \in Worker \ {w} : wk'[v] = wk[v],
           Tends(w, d) => Tends(w, d)'
    PROVE  Tended(d)'
<1>1. queue[d] \in Nat /\ queue'[d] \in Nat  BY DEF TypeInv, TypeOK
<1>2. \A v \in Worker : Tends(v, d) => Tends(v, d)'  BY DEF Tends
<1> QED  BY <1>1, <1>2 DEF Tended

\* Ending a task takes no message.
LEMMA ReturnKeeps ==
    ASSUME TypeInv, NEW w \in Worker, wk[w].d \in Delivery, NEW r, Return(w, r)
    PROVE  \A d \in Delivery : queue'[d] >= queue[d]
  BY DEF Return, TypeInv, TypeOK

LEMMA RetryStep == RetryInv /\ [Next]_vars => RetryInv'
<1> SUFFICES ASSUME RetryInv, [Next]_vars, NEW d \in Delivery, ToRetry(d)'
             PROVE  Tended(d)'
  BY TypeStep DEF RetryInv
<1>t. TypeInv /\ TypeInv'  BY TypeStep DEF RetryInv
<1>0. /\ row \in [Delivery -> Row] /\ wk \in [Worker -> WorkerRow]
      /\ queue \in [Delivery -> Nat]
      /\ \A w \in Worker : wk[w].pc # "idle" => wk[w].d \in Delivery
  BY <1>t DEF TypeInv, TypeOK, BusyWorkers
<1>k. row'[d] = row[d] => Tended(d)  BY DEF RetryInv, ToRetry
<1>f. \A w \in Worker : Finish(w) => \A v \in Worker \ {w} : wk'[v] = wk[v]
  BY <1>0 DEF Finish
\* The row of another delivery is written.
<1>o. ASSUME NEW w \in Worker, wk[w].pc # "idle", wk[w].d # d,
             \A e \in Delivery \ {wk[w].d} : row'[e] = row[e],
             \A e \in Delivery : queue'[e] >= queue[e], lost \subseteq lost',
             \A v \in Worker \ {w} : wk'[v] = wk[v]
      PROVE  Tended(d)'
  BY <1>t, <1>k, <1>o, StaysTended DEF Tends
<1>1. ASSUME NEW w \in Worker, NEW e \in Delivery, AutoPush(w, e) \/ WindowPush(w, e)
      PROVE  Tended(d)'
  <2>1. row'[d] = row[d]
    BY <1>0, <1>1 DEF AutoPush, WindowPush, Ensure, Row, ToRetry
  <2>2. wk' = wk /\ Dispatch(e)  BY <1>1 DEF AutoPush, WindowPush
  <2>3. CASE d = e  BY <1>0, <2>2, <2>3 DEF Dispatch, Tended
  <2>4. CASE d # e
    <3>1. queue'[d] = queue[d] /\ (d \in lost => d \in lost')
      BY <1>0, <2>2, <2>4 DEF Dispatch
    <3> QED  BY <1>k, <2>1, <2>2, <3>1 DEF Tended, Tends
  <2> QED  BY <2>3, <2>4
<1>2. ASSUME NEW w \in Worker, NEW e \in Delivery, Deliver(w, e) PROVE Tended(d)'
  <2>1. CASE row'[d] = row[d] /\ d # e
    <3>1. queue'[d] = queue[d] /\ lost' = lost /\ wk[w].pc = "idle"
          /\ \A v \in Worker \ {w} : wk'[v] = wk[v]
      BY <1>0, <1>2, <2>1 DEF Deliver
    <3> QED  BY <1>0, <1>t, <1>k, <2>1, <3>1, StaysTended DEF Tends
  <2>2. CASE on[w] /\ ~IsDisabled(row[e]) /\ d = e
    <3>1. row' = row /\ wk' = [wk EXCEPT ![w] = [IdleWorker EXCEPT !.pc = "loaded", !.d = e,
                                                                   !.copy = row[e]]]
      BY <1>2, <2>2 DEF Deliver
    <3>2. wk'[w].d = d /\ wk'[w].pc = "loaded" /\ wk'[w].copy = row[d]
      BY <1>0, <2>2, <3>1, Defaults DEF WorkerRow
    <3> QED  BY <3>1, <3>2 DEF Tended, Tends, ToRetry
  <2>3. row'[d] = row[d] \/ row'[d] = Sealed(row[d])
    BY <1>0, <1>2 DEF Deliver, Seal
  <2>4. row'[d] = row[d]  BY <1>0, <2>3 DEF Sealed, Row, ToRetry
  <2>5. CASE d = e /\ ~on[w]
    <3>1. row'[d] = IF Open(row[d]) THEN Sealed(row[d]) ELSE row[d]
      BY <1>0, <1>2, <2>5 DEF Deliver, Seal
    <3>2. Sealed(row[d]).status = "skipped"  BY <1>0 DEF Sealed, Row
    <3> QED  BY <2>4, <3>1, <3>2 DEF Open, IsDisabled, ToRetry
  <2>6. CASE IsDisabled(row[d])  BY <2>4, <2>6 DEF IsDisabled, ToRetry
  <2> QED  BY <2>1, <2>2, <2>4, <2>5, <2>6
<1>3. ASSUME NEW w \in Worker, SealBeforeClaim(w) \/ SealOwnClaim(w) PROVE Tended(d)'
  <2>1. /\ wk[w].pc # "idle" /\ wk[w].d \in Delivery /\ Return(w, row'[wk[w].d])
        /\ lost' = lost
    BY <1>0, <1>3 DEF SealBeforeClaim, SealOwnClaim
  <2>2. CASE wk[w].d = d  BY <1>t, <2>1, <2>2, ReturnTends DEF ToRetry
  <2>3. CASE wk[w].d # d
    <3>1. \A e \in Delivery \ {wk[w].d} : row'[e] = row[e]
      BY <1>0, <1>3, <2>1 DEF SealBeforeClaim, SealOwnClaim, Seal, SealClaim
    <3>2. \A v \in Worker \ {w} : wk'[v] = wk[v]  BY <1>f, <2>1 DEF Return
    <3> QED  BY <1>o, <1>t, <2>1, <2>3, <3>1, <3>2, ReturnKeeps
  <2> QED  BY <2>2, <2>3
<1>4. ASSUME NEW w \in Worker, Stop(w) PROVE Tended(d)'
  <2>1. /\ wk[w].pc = "loaded" /\ wk[w].d \in Delivery /\ Return(w, wk[w].copy)
        /\ row' = row /\ lost' = lost /\ wk[w].copy.status # "retrying"
    BY <1>0, <1>4 DEF Stop, IsDisabled, FreshSending
  <2>2. \A v \in Worker \ {w} : wk'[v] = wk[v]  BY <1>f, <2>1 DEF Return
  <2> QED  BY <1>t, <1>k, <2>1, <2>2, ReturnKeeps, StaysTended DEF Tends
<1>5. ASSUME NEW w \in Worker, GiveUp(w) \/ NotEligible(w) \/ RecordSent(w) PROVE Tended(d)'
  <2>1. /\ wk[w].pc # "idle" /\ wk[w].d \in Delivery /\ Finish(w)
        /\ queue' = queue /\ lost' = lost
    BY <1>0, <1>5 DEF GiveUp, NotEligible, RecordSent, Proceeds
  <2>2. row'[wk[w].d].status # "retrying"
    <3> DEFINE r == row[wk[w].d]
    <3>1. r \in Row  BY <1>0, <2>1
    <3>2. /\ [r EXCEPT !.status = "failed"].status = "failed"
          /\ [r EXCEPT !.status = "skipped", !.disabled = FALSE].status = "skipped"
          /\ [r EXCEPT !.status = "sent", !.disabled = FALSE, !.receipt = TRUE].status = "sent"
      BY <3>1 DEF Row
    <3> QED  BY <1>0, <1>5, <2>1, <3>2 DEF GiveUp, NotEligible, RecordSent
  <2>3. \A e \in Delivery \ {wk[w].d} : row'[e] = row[e]
    BY <1>0, <1>5, <2>1 DEF GiveUp, NotEligible, RecordSent
  <2> QED  BY <1>0, <1>o, <1>f, <2>1, <2>2, <2>3 DEF ToRetry
<1>6. ASSUME NEW w \in Worker, Offline(w) \/ Unreachable(w) \/ RecordError(w)
      PROVE  Tended(d)'
  <2>1. /\ wk[w].pc # "idle" /\ wk[w].d \in Delivery /\ wk[w].copy \in Row
        /\ row' = [row EXCEPT ![wk[w].d] = Failure(@, wk[w].copy)]
        /\ Return(w, Failure(wk[w].copy, wk[w].copy)) /\ lost' = lost
    BY <1>0, <1>6 DEF Offline, Unreachable, RecordError, WorkerRow
  <2>2. CASE wk[w].d = d
    <3>1. wk[w].copy.attempts < MaxAttempts
      <4>1. row'[d] = Failure(row[d], wk[w].copy)  BY <1>0, <2>1, <2>2
      <4>2. row'[d].status = IF wk[w].copy.attempts >= MaxAttempts
                             THEN "failed" ELSE "retrying"
        BY <1>0, <4>1 DEF Failure, Row
      <4> QED  BY <2>1, <4>2, ConstantsAssumption DEF ConstantsAssumption, ToRetry, Row
    <3>2. /\ Failure(wk[w].copy, wk[w].copy).status = "retrying"
          /\ Failure(wk[w].copy, wk[w].copy).attempts < MaxAttempts
      BY <2>1, <3>1, ConstantsAssumption DEF ConstantsAssumption, Failure, Row
    <3> QED  BY <1>t, <2>1, <2>2, <3>2, ReturnTends
  <2>3. CASE wk[w].d # d
    <3>1. \A e \in Delivery \ {wk[w].d} : row'[e] = row[e]  BY <1>0, <2>1
    <3>2. \A v \in Worker \ {w} : wk'[v] = wk[v]  BY <1>f, <2>1 DEF Return
    <3> QED  BY <1>o, <1>t, <2>1, <2>3, <3>1, <3>2, ReturnKeeps
  <2> QED  BY <2>2, <2>3
<1>7. ASSUME NEW w \in Worker, Claim(w) PROVE Tended(d)'
  <2>1. wk[w].pc = "probing" /\ wk[w].d \in Delivery /\ lost' = lost
    BY <1>0, <1>7 DEF Claim
  <2>2. CASE Open(row[wk[w].d]) /\ row[wk[w].d].attempts < MaxAttempts
    <3>1. /\ row' = [row EXCEPT ![wk[w].d] = Attempted(@)] /\ queue' = queue
          /\ \A v \in Worker \ {w} : wk'[v] = wk[v]
      BY <1>0, <1>7, <2>2 DEF Claim
    <3>2. row'[wk[w].d].status = "sending"  BY <1>0, <2>1, <3>1 DEF Attempted, Row
    <3>3. \A e \in Delivery \ {wk[w].d} : row'[e] = row[e]  BY <1>0, <3>1
    <3> QED  BY <1>0, <1>o, <2>1, <3>1, <3>2, <3>3 DEF ToRetry
  <2>3. CASE ~(Open(row[wk[w].d]) /\ row[wk[w].d].attempts < MaxAttempts)
    <3>1. Return(w, row[wk[w].d]) /\ row' = row  BY <1>7, <2>3 DEF Claim
    <3>2. wk[w].d # d  BY <2>3, <3>1 DEF Open, IsDisabled, ToRetry
    <3>3. \A v \in Worker \ {w} : wk'[v] = wk[v]  BY <1>f, <3>1 DEF Return
    <3> QED  BY <1>o, <1>t, <2>1, <3>1, <3>2, <3>3, ReturnKeeps
  <2> QED  BY <2>2, <2>3
<1>8. ASSUME NEW w \in Worker, Recheck(w) PROVE Tended(d)'
  <2>1. wk[w].pc = "claimed" /\ wk[w].d \in Delivery /\ lost' = lost /\ row' = row
    BY <1>0, <1>8 DEF Recheck
  <2>2. CASE Owns(w)
    <3>1. /\ queue' = queue /\ \A v \in Worker \ {w} : wk'[v] = wk[v]
          /\ wk'[w].pc = "checking" /\ wk'[w].d = wk[w].d
      BY <1>0, <1>8, <2>2 DEF Recheck, WorkerRow
    <3> QED  BY <1>0, <1>t, <1>k, <2>1, <3>1, StaysTended DEF Tends
  <2>3. CASE ~Owns(w)
    <3>1. Return(w, row[wk[w].d])  BY <1>8, <2>3 DEF Recheck
    <3>2. CASE wk[w].d = d  BY <1>t, <2>1, <3>1, <3>2, ReturnTends DEF ToRetry
    <3>3. CASE wk[w].d # d
      <4>1. \A v \in Worker \ {w} : wk'[v] = wk[v]  BY <1>f, <3>1 DEF Return
      <4> QED  BY <1>o, <1>t, <2>1, <3>1, <3>3, <4>1, ReturnKeeps
    <3> QED  BY <3>2, <3>3
  <2> QED  BY <2>2, <2>3
<1>9. ASSUME NEW w \in Worker, Probe(w) \/ Send(w) \/ Reread(w) PROVE Tended(d)'
  <2>1. row' = row /\ queue' = queue /\ lost' = lost /\ wk[w].pc # "idle"
    BY <1>9 DEF Probe, Proceeds, Send, Reread
  <2>2. wk'[w].d = wk[w].d /\ wk'[w].pc \in {"probing", "posted", "refused", "failing"}
    <3>1. CASE Probe(w)  BY <1>0, <3>1 DEF Probe, WorkerRow
    <3>2. CASE Send(w)  BY <1>0, <3>2 DEF Send, WorkerRow
    <3>3. CASE Reread(w)  BY <1>0, <3>3 DEF Reread, WorkerRow
    <3> QED  BY <1>9, <3>1, <3>2, <3>3
  <2>3. \A v \in Worker \ {w} : wk'[v] = wk[v]
    BY <1>0, <1>9 DEF Probe, Send, Reread
  <2> QED  BY <1>0, <1>t, <1>k, <2>1, <2>2, <2>3, StaysTended DEF Tends
<1>10. ASSUME NEW w \in Worker, Crash(w) PROVE Tended(d)'
  <2>1. /\ wk[w].pc # "idle" /\ wk[w].d \in Delivery /\ row' = row
        /\ \A v \in Worker \ {w} : wk'[v] = wk[v]
    BY <1>0, <1>f, <1>10 DEF Crash
  <2>2. CASE wk[w].d = d  BY <1>0, <1>10, <2>2 DEF Crash, Tended
  <2>3. CASE wk[w].d # d  BY <1>0, <1>o, <1>10, <2>1, <2>3 DEF Crash
  <2> QED  BY <2>2, <2>3
<1>11. ASSUME \/ \E w \in Worker : SwitchChannel(w)
              \/ Tick \/ UNCHANGED vars
       PROVE  Tended(d)'
  <2>1. UNCHANGED <<row, queue, wk, lost>>  BY <1>11 DEF SwitchChannel, Tick, vars
  <2> QED  BY <1>k, <2>1 DEF Tended, Tends
<1> QED
  BY <1>1, <1>2, <1>3, <1>4, <1>5, <1>6, <1>7, <1>8, <1>9, <1>10, <1>11 DEF Next, Handle

\* A delivery that is to be tried again is not forgotten by workers that
\* overwrite each other's outcome: whoever leaves it so sends a message.
THEOREM RetriesAreQueued == Spec => []RetryingIsQueued
<1>1. Init => RetryInv
  <2> SUFFICES ASSUME Init PROVE RetryInv  OBVIOUS
  <2>1. TypeInv
    BY Defaults, ConstantsAssumption DEF ConstantsAssumption, Init, TypeInv, TypeOK, BusyWorkers
  <2> QED  BY <2>1, Defaults DEF Init, RetryInv, ToRetry
<1>2. RetryInv => RetryingIsQueued
  BY DEF RetryInv, RetryingIsQueued, ToRetry, Tended, Tends
<1> QED  BY <1>1, <1>2, RetryStep, PTL DEF Spec
=============================================================================
