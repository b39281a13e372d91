----------------------- MODULE TranslationClaimProofs -----------------------
(***************************************************************************)
(* What TranslationClaim promises for any number of articles, runs and     *)
(* workers, any clock and any redelivery: types; why a claim cannot be     *)
(* shared or paid for twice; why the managed runs implement PaidRound;     *)
(* when a run may be taken back; why a commit never mixes two texts; and   *)
(* what the retry count counts.                                            *)
(***************************************************************************)
EXTENDS TranslationClaim, FiniteSetTheorems, TLAPS

ManagedPC == {"holding", "prepared", "calling", "answered", "saved"}

\* A worker refers to a run exactly while it works on a claim.
WorkerRuns ==
    \A w \in Worker : IF wk[w].pc \in ManagedPC THEN wk[w].run \in Run ELSE wk[w].run = NoRun

TypeInv == TypeOK /\ WorkerRuns

-----------------------------------------------------------------------------
(* Types.                                                                  *)

\* The default records used for NULLs are well typed.
LEMMA Defaults ==
    /\ NoRow \in Row /\ FailedRow \in Row
    /\ NoMessage \in Message /\ NoMessage.run = NoRun
    /\ IdleWorker \in WorkerRow /\ IdleWorker.pc = "idle" /\ IdleWorker.run = NoRun
    /\ NoEdit \in Edit
<1>1. PICK b \in Body, a \in Article : TRUE  BY ConstantsAssumption DEF ConstantsAssumption
<1>2. (CHOOSE x \in Body : TRUE) \in Body /\ (CHOOSE x \in Article : TRUE) \in Article
  BY <1>1
<1>3. NoRow \in Row  BY <1>2 DEF NoRow, NewRow, Row, Never
<1>4. FailedRow \in Row  BY <1>3 DEF FailedRow, Row
<1>5. NoMessage \in Message /\ NoMessage.run = NoRun  BY <1>2 DEF NoMessage, Message
<1>6. IdleWorker \in WorkerRow /\ IdleWorker.pc = "idle" /\ IdleWorker.run = NoRun
  BY <1>3, <1>5 DEF IdleWorker, WorkerRow, WorkerPC
<1>7. NoEdit \in Edit  BY <1>2, <1>3, <1>5 DEF NoEdit, NoMessage, Edit
<1> QED  BY <1>3, <1>4, <1>5, <1>6, <1>7

\* record_translation_failure maps rows to rows.
LEMMA FailedType ==
    ASSUME now \in Nat, NEW row \in Row,
           NEW t \in BOOLEAN, NEW i \in BOOLEAN, NEW p \in BOOLEAN
    PROVE  Failed(row, t, i, p) \in Row
<1> DEFINE c == Attempts(row, i)
           x == Exhausts(row, i) /\ ~p
           d == IF t /\ ~Exhausts(row, i) /\ ~p THEN now + RetryDelay ELSE Never
           f == IF p THEN row.workflow ELSE "translation_failed"
           half == [row EXCEPT !.status = "failed", !.workflow = f, !.started = Never,
                               !.count = c]
           full == [half EXCEPT !.transient = t, !.due = d, !.exhausted = x]
<1>1. c \in Nat  BY DEF Attempts, Row
<1>2. x \in BOOLEAN  OBVIOUS
<1>3. d \in Nat  BY ConstantsAssumption DEF ConstantsAssumption, Never
<1>4. f \in {"pending_translation", "translation_failed", "pending_edit", "published"}
  BY DEF Row
<1>5. Failed(row, t, i, p) = full  BY DEF Failed
<1> HIDE DEF c, x, d, f
<1>6. half \in Row  BY <1>1, <1>4 DEF Row, Never
<1> HIDE DEF half
<1>7. full \in Row  BY <1>2, <1>3, <1>6 DEF Row
<1> QED  BY <1>5, <1>7

\* Applying a translation maps rows to rows.
LEMMA TranslatedType ==
    ASSUME NEW row \in Row, NEW text \in Text \cup {NoText}
    PROVE  Translated(row, text) \in Row
<1> DEFINE f == IF row.workflow \in {"pending_translation", "translation_failed"}
                THEN "pending_edit" ELSE row.workflow
           half == [row EXCEPT !.status = "translated", !.workflow = f, !.started = Never,
                               !.due = Never]
           full == [half EXCEPT !.exhausted = FALSE, !.transient = FALSE, !.zh = text]
<1>1. f \in {"pending_translation", "translation_failed", "pending_edit", "published"}
  BY DEF Row
<1>2. Translated(row, text) = full  BY DEF Translated
<1> HIDE DEF f
<1>3. half \in Row  BY <1>1 DEF Row, Never
<1> HIDE DEF half
<1>4. full \in Row  BY <1>3 DEF Row
<1> QED  BY <1>2, <1>4

\* Copying the failure columns of one row into another gives a row.
LEMMA FailureFieldsType ==
    ASSUME NEW row \in Row, NEW new \in Row
    PROVE  FailureFields(row, new) \in Row
<1> DEFINE half == [row EXCEPT !.status = new.status, !.workflow = new.workflow,
                               !.started = new.started, !.count = new.count]
           full == [half EXCEPT !.transient = new.transient, !.due = new.due,
                                !.exhausted = new.exhausted]
<1>1. FailureFields(row, new) = full  BY DEF FailureFields
<1>2. half \in Row  BY DEF Row
<1> HIDE DEF half
<1>3. full \in Row  BY <1>2 DEF Row
<1> QED  BY <1>1, <1>3

\* So do a start, a failed dispatch, a manual retry and a revival.
LEMMA RowEditType ==
    ASSUME now \in Nat, NEW row \in Row, NEW at \in Nat
    PROVE  /\ Started(row) \in Row
           /\ [Started(row) EXCEPT !.due = Never] \in Row
           /\ Released(row, at) \in Row
           /\ Reopened(row) \in Row
           /\ Revived(row) \in Row
<1>1. Started(row) \in Row  BY DEF Started, Row
<1>2. [Started(row) EXCEPT !.due = Never] \in Row  BY <1>1 DEF Row, Never
<1>3. Released(row, at) \in Row
  <2> DEFINE d == at + RetryDelay
             half == [row EXCEPT !.status = "failed", !.workflow = "translation_failed"]
             full == [half EXCEPT !.transient = TRUE, !.started = Never, !.due = d]
  <2>1. d \in Nat  BY ConstantsAssumption DEF ConstantsAssumption
  <2>2. Released(row, at) = full  BY DEF Released
  <2> HIDE DEF d
  <2>3. half \in Row  BY DEF Row
  <2> HIDE DEF half
  <2>4. full \in Row  BY <2>1, <2>3 DEF Row, Never
  <2> QED  BY <2>2, <2>4
<1>4. Reopened(row) \in Row  BY DEF Reopened, Row
<1>5. Revived(row) \in Row  BY DEF Revived, Row
<1> QED  BY <1>1, <1>2, <1>3, <1>4, <1>5

\* A claim keeps the rows, runs and clock well typed.
LEMMA ClaimType ==
    ASSUME TypeOK, NEW a \in Article, NEW r \in Run, Claim(a, r)
    PROVE  /\ now' \in Nat \ {0}
           /\ art' \in [Article -> Row]
           /\ runs' \in [Run -> RunRow]
<1>1. now' \in Nat \ {0}  BY DEF TypeOK, Claim
<1>2. art' \in [Article -> Row]
  <2>1. [Started(art[a]) EXCEPT !.due = Never] \in Row
    BY RowEditType DEF TypeOK
  <2> QED  BY <2>1 DEF TypeOK, Claim
<1>3. runs' \in [Run -> RunRow]
  <2>1. art[a].body \in Body  BY DEF TypeOK, Row
  <2> QED  BY <2>1 DEF TypeOK, Claim, RunRow
<1> QED  BY <1>1, <1>2, <1>3

\* Closing a run keeps the runs well typed.
LEMMA CloseType ==
    ASSUME TypeOK, NEW r \in Run,
           NEW phase \in {"completed", "failed", "interrupted"}, Close(r, phase)
    PROVE  runs' \in [Run -> RunRow]
<1> DEFINE s == IF phase = "completed" THEN "success" ELSE "failed"
<1>1. s \in {"success", "failed"}  OBVIOUS
<1> HIDE DEF s
<1>2. [runs[r] EXCEPT !.phase = phase, !.status = s] \in RunRow
  BY <1>1 DEF TypeOK, RunRow
<1> QED  BY <1>2 DEF TypeOK, Close, s

\* Ending a task keeps the workers and messages well typed.
LEMMA FinishType ==
    ASSUME TypeInv, NEW w \in Worker, Finish(w)
    PROVE  /\ wk' \in [Worker -> WorkerRow]
           /\ inbox' \subseteq Message
           /\ WorkerRuns'
<1>1. wk' \in [Worker -> WorkerRow] /\ inbox' \subseteq Message
  BY Defaults DEF TypeInv, TypeOK, Finish
<1>2. WorkerRuns'
  BY Defaults DEF TypeInv, TypeOK, WorkerRuns, Finish, ManagedPC
<1> QED  BY <1>1, <1>2

\* The types hold at first.
LEMMA TypeInit == Init => TypeInv
<1> SUFFICES ASSUME Init PROVE TypeInv  OBVIOUS
<1>1. PICK run0 \in RunRow : runs \in [Run -> {run0}]
  <2> DEFINE r0 == [article |-> NoMessage.article, status |-> "none",
                    phase |-> "claimed", claimedAt |-> 0,
                    body |-> NoRow.body, result |-> NoText]
  <2>1. NoMessage.article \in Article /\ NoRow.body \in Body
    BY Defaults DEF Message, Row
  <2>2. r0 \in RunRow  BY <2>1 DEF RunRow
  <2>3. runs \in [Run -> {r0}]  BY DEF Init
  <2> HIDE DEF r0
  <2> QED  BY <2>2, <2>3
<1>2. art \in [Article -> Row]  BY Defaults DEF Init
<1>3. TypeOK
  BY <1>1, <1>2, Defaults DEF Init, TypeOK
<1>4. WorkerRuns  BY Defaults DEF Init, WorkerRuns, ManagedPC
<1> QED  BY <1>3, <1>4 DEF TypeInv

\* Steps of the selector and of stale recovery preserve the types.
LEMMA TypeSelector ==
    ASSUME TypeInv,
           \/ \E a \in Article, r \in Run : SelectorClaims(a, r)
           \/ \E r \in Run : SelectorSends(r) \/ SelectorSendFails(r)
           \/ \E a \in Article : Recover(a)
    PROVE  TypeInv'
<1> USE DEF TypeInv
<1>1. ASSUME NEW a \in Article, NEW r \in Run, SelectorClaims(a, r) PROVE TypeInv'
  <2>1. TypeOK'  BY <1>1, ClaimType DEF SelectorClaims, TypeOK
  <2>2. WorkerRuns'  BY <1>1 DEF SelectorClaims, WorkerRuns
  <2> QED  BY <2>1, <2>2
<1>2. ASSUME NEW r \in Run PROVE ManagedMessage(r) \in Message
  <2>1. runs[r].article \in Article  BY DEF TypeOK, RunRow
  <2> QED  BY <2>1 DEF ManagedMessage, Message
<1>3. ASSUME NEW r \in Run, SelectorSends(r) PROVE TypeInv'
  BY <1>2, <1>3 DEF SelectorSends, TypeOK, WorkerRuns
<1>4. ASSUME NEW r \in Run, SelectorSendFails(r) PROVE TypeInv'
  <2>1. art' \in [Article -> Row] /\ runs' \in [Run -> RunRow]
    <3>1. CASE Holds(r) /\ runs[r].phase = "claimed"
      <4>1. runs[r].article \in Article /\ runs[r].claimedAt \in Nat
        BY DEF TypeOK, RunRow
      <4>2. Released(art[runs[r].article], runs[r].claimedAt) \in Row
        BY <4>1, RowEditType DEF TypeOK
      <4> QED  BY <1>4, <3>1, <4>1, <4>2, CloseType DEF SelectorSendFails, TypeOK
    <3>2. CASE ~(Holds(r) /\ runs[r].phase = "claimed")
      BY <1>4, <3>2 DEF SelectorSendFails, TypeOK
    <3> QED  BY <3>1, <3>2
  <2> QED  BY <1>2, <1>4, <2>1 DEF SelectorSendFails, TypeOK, WorkerRuns
<1>5. ASSUME NEW a \in Article, Recover(a) PROVE TypeInv'
  <2>1. runs' \in [Run -> RunRow]
    BY <1>5, CloseType DEF Recover, TypeOK
  <2>2. Failed(art[a], TRUE, FALSE, FALSE) \in Row  BY FailedType DEF TypeOK
  <2> QED  BY <1>5, <2>1, <2>2 DEF Recover, TypeOK, WorkerRuns
<1> QED  BY <1>1, <1>3, <1>4, <1>5

\* Steps of a worker on a claim preserve the types.
LEMMA TypeManaged ==
    ASSUME TypeInv, NEW w \in Worker,
           \/ Prepare(w) \/ CallProvider(w) \/ SaveCheckpoint(w) \/ Commit(w) \/ Refused(w)
           \/ \E x \in Answer : ProviderAnswers(w, x)
           \/ \E t \in BOOLEAN : ProviderFails(w, t)
    PROVE  TypeInv'
<1> USE DEF TypeInv
<1> DEFINE r == wk[w].run
           a == runs[r].article
<1>1. r \in Run /\ runs[r] \in RunRow /\ a \in Article /\ wk[w] \in WorkerRow
  BY DEF Prepare, CallProvider, ProviderAnswers, ProviderFails, SaveCheckpoint, Commit,
         Refused, TypeOK, WorkerRuns, ManagedPC, RunRow
<1>2. CASE Prepare(w)
  <2>1. [runs[r] EXCEPT !.phase = "executing"] \in RunRow /\ runs[r].result \in Text \cup {NoText}
    BY <1>1 DEF RunRow
  <2>2. runs' \in [Run -> RunRow]  BY <1>1, <1>2, <2>1 DEF Prepare, TypeOK
  <2>3. /\ [wk[w] EXCEPT !.pc = "prepared"] \in WorkerRow
        /\ [wk[w] EXCEPT !.pc = "saved", !.answer = runs[r].result] \in WorkerRow
    BY <1>1, <2>1 DEF WorkerRow, WorkerPC
  <2>4. wk' \in [Worker -> WorkerRow]  BY <1>2, <2>3 DEF Prepare, Goto, TypeOK
  <2>5. \/ wk' = [wk EXCEPT ![w] = [wk[w] EXCEPT !.pc = "prepared"]]
        \/ wk' = [wk EXCEPT ![w] = [wk[w] EXCEPT !.pc = "saved", !.answer = runs[r].result]]
    BY <1>2 DEF Prepare, Goto
  <2>6. WorkerRuns'
    <3>1. CASE wk' = [wk EXCEPT ![w] = [wk[w] EXCEPT !.pc = "prepared"]]
      BY <1>1, <3>1 DEF WorkerRuns, TypeOK, WorkerRow, ManagedPC
    <3>2. CASE wk' = [wk EXCEPT ![w] = [wk[w] EXCEPT !.pc = "saved", !.answer = runs[r].result]]
      BY <1>1, <3>2 DEF WorkerRuns, TypeOK, WorkerRow, ManagedPC
    <3> QED  BY <2>5, <3>1, <3>2
  <2> QED  BY <1>2, <2>2, <2>4, <2>6 DEF Prepare, TypeOK
<1>3. CASE CallProvider(w)
  <2>1. calls' \in [Run -> Nat]  BY <1>1, <1>3 DEF CallProvider, TypeOK
  <2>2. [wk[w] EXCEPT !.pc = "calling"] \in WorkerRow  BY <1>1 DEF WorkerRow, WorkerPC
  <2>3. wk' \in [Worker -> WorkerRow]  BY <1>3, <2>2 DEF CallProvider, Goto, TypeOK
  <2>4. WorkerRuns'  BY <1>1, <1>3 DEF CallProvider, Goto, WorkerRuns, TypeOK, WorkerRow, ManagedPC
  <2> QED  BY <1>3, <2>1, <2>3, <2>4 DEF CallProvider, TypeOK
<1>4. ASSUME NEW x \in Answer, ProviderAnswers(w, x) PROVE TypeInv'
  <2>1. [body |-> runs[r].body, word |-> x] \in Text  BY <1>1 DEF RunRow, Text
  <2>2. [wk[w] EXCEPT !.pc = "answered", !.answer = [body |-> runs[r].body, word |-> x]]
          \in WorkerRow
    BY <1>1, <2>1 DEF WorkerRow, WorkerPC
  <2>3. wk' \in [Worker -> WorkerRow]  BY <1>4, <2>2 DEF ProviderAnswers, TypeOK
  <2>4. WorkerRuns'
    BY <1>1, <1>4 DEF ProviderAnswers, WorkerRuns, TypeOK, WorkerRow, ManagedPC
  <2> QED  BY <1>4, <2>3, <2>4 DEF ProviderAnswers, TypeOK
<1>5. ASSUME NEW t \in BOOLEAN, ProviderFails(w, t) PROVE TypeInv'
  <2>1. Failed(art[a], t, TRUE, FALSE) \in Row  BY <1>1, FailedType DEF TypeOK
  <2>2. runs' \in [Run -> RunRow]  BY <1>1, <1>5, CloseType DEF ProviderFails
  <2>3. art' \in [Article -> Row]  BY <1>1, <1>5, <2>1 DEF ProviderFails, TypeOK
  <2> QED  BY <1>5, <2>2, <2>3, FinishType DEF ProviderFails, TypeOK
<1>6. CASE SaveCheckpoint(w)
  <2>1. [runs[r] EXCEPT !.result = wk[w].answer] \in RunRow
    BY <1>1 DEF RunRow, WorkerRow
  <2>2. runs' \in [Run -> RunRow]  BY <1>1, <1>6, <2>1 DEF SaveCheckpoint, TypeOK
  <2>3. [wk[w] EXCEPT !.pc = "saved"] \in WorkerRow  BY <1>1 DEF WorkerRow, WorkerPC
  <2>4. wk' \in [Worker -> WorkerRow]  BY <1>6, <2>3 DEF SaveCheckpoint, Goto, TypeOK
  <2>5. WorkerRuns'
    BY <1>1, <1>6 DEF SaveCheckpoint, Goto, WorkerRuns, TypeOK, WorkerRow, ManagedPC
  <2> QED  BY <1>6, <2>2, <2>4, <2>5 DEF SaveCheckpoint, TypeOK
<1>7. CASE Commit(w)
  <2>1. Translated(art[a], wk[w].answer) \in Row
    BY <1>1, TranslatedType DEF TypeOK, WorkerRow
  <2>2. art' \in [Article -> Row]  BY <1>1, <1>7, <2>1 DEF Commit, TypeOK
  <2>3. runs' \in [Run -> RunRow]  BY <1>1, <1>7, CloseType DEF Commit
  <2> QED  BY <1>7, <2>2, <2>3, FinishType DEF Commit, TypeOK
<1>8. CASE Refused(w)
  BY <1>8, FinishType DEF Refused, TypeOK
<1> QED  BY <1>2, <1>3, <1>4, <1>5, <1>6, <1>7, <1>8

\* Steps of a worker outside a claim preserve the types.
LEMMA TypeOrdinary ==
    ASSUME TypeInv, NEW w \in Worker,
           \/ StartOrdinary(w) \/ Crash(w)
           \/ \E m \in Message : Deliver(w, m)
           \/ \E r \in Run : WorkerClaims(w, r)
           \/ \E x \in Answer : OrdinaryAnswers(w, x)
           \/ \E t \in BOOLEAN : OrdinaryFails(w, t)
    PROVE  TypeInv'
<1> USE DEF TypeInv
<1> DEFINE a == wk[w].msg.article
<1>1. wk[w] \in WorkerRow /\ a \in Article /\ art[a] \in Row /\ wk[w].copy \in Row
  BY DEF TypeOK, WorkerRow, Message
<1>2. ASSUME NEW m \in Message, Deliver(w, m) PROVE TypeInv'
  <2>1. CASE m.run # NoRun
    <3>1. m.run \in Run  BY <2>1 DEF Message
    <3>2. [IdleWorker EXCEPT !.pc = "holding", !.msg = m, !.run = m.run] \in WorkerRow
      BY <3>1, Defaults DEF WorkerRow, WorkerPC
    <3>3. wk' = [wk EXCEPT ![w] = [IdleWorker EXCEPT !.pc = "holding", !.msg = m, !.run = m.run]]
      BY <1>2, <2>1 DEF Deliver
    <3>4. WorkerRuns'
      BY <3>1, <3>3, Defaults DEF WorkerRuns, TypeOK, WorkerRow, ManagedPC
    <3> QED  BY <1>2, <2>1, <3>2, <3>3, <3>4 DEF Deliver, TypeOK
  <2>2. CASE m.run = NoRun /\ art[m.article].status = "translating"
    BY <1>2, <2>2 DEF Deliver, TypeOK, WorkerRuns
  <2>3. CASE m.run = NoRun /\ art[m.article].status # "translating"
    <3>1. art[m.article] \in Row  BY DEF TypeOK, Message
    <3>2. [IdleWorker EXCEPT !.pc = "read", !.msg = m, !.copy = art[m.article]] \in WorkerRow
      BY <3>1, Defaults DEF WorkerRow, WorkerPC
    <3>3. wk' = [wk EXCEPT ![w] = [IdleWorker EXCEPT !.pc = "read", !.msg = m,
                                                     !.copy = art[m.article]]]
      BY <1>2, <2>3 DEF Deliver
    <3>4. WorkerRuns'
      BY <3>3, Defaults DEF WorkerRuns, TypeOK, WorkerRow, ManagedPC
    <3> QED  BY <1>2, <2>3, <3>2, <3>3, <3>4 DEF Deliver, TypeOK
  <2> QED  BY <2>1, <2>2, <2>3
<1>3. ASSUME NEW r \in Run, WorkerClaims(w, r) PROVE TypeInv'
  <2>1. CASE Claimable(a, wk[w].copy.due)
    <3> DEFINE new == [wk[w] EXCEPT !.pc = "holding", !.run = r, !.copy = NoRow]
    <3>1. new \in WorkerRow  BY <1>1, Defaults DEF WorkerRow, WorkerPC
    <3>2. wk' = [wk EXCEPT ![w] = new]  BY <1>3, <2>1 DEF WorkerClaims
    <3>3. Claim(a, r)  BY <1>3, <2>1 DEF WorkerClaims
    <3>4. WorkerRuns'  BY <1>1, <3>2 DEF WorkerRuns, TypeOK, WorkerRow, ManagedPC
    <3> HIDE DEF new
    <3> QED  BY <1>1, <1>3, <2>1, <3>1, <3>2, <3>3, <3>4, ClaimType DEF WorkerClaims, TypeOK
  <2>2. CASE ~Claimable(a, wk[w].copy.due)
    BY <1>3, <2>2, FinishType DEF WorkerClaims, TypeOK
  <2> QED  BY <2>1, <2>2
<1>4. CASE StartOrdinary(w)
  <2> DEFINE new == [wk[w] EXCEPT !.pc = "ordinary", !.copy = Started(wk[w].copy)]
  <2>1. Started(art[a]) \in Row /\ Started(wk[w].copy) \in Row
    BY <1>1, RowEditType DEF TypeOK
  <2>2. new \in WorkerRow  BY <1>1, <2>1 DEF WorkerRow, WorkerPC
  <2>3. wk' = [wk EXCEPT ![w] = new]  BY <1>4 DEF StartOrdinary
  <2>4. WorkerRuns'  BY <1>1, <1>4, <2>3 DEF StartOrdinary, WorkerRuns, TypeOK, WorkerRow, ManagedPC
  <2>5. art' \in [Article -> Row]  BY <1>1, <1>4, <2>1 DEF StartOrdinary, TypeOK
  <2>6. now' \in Nat \ {0}  BY <1>4 DEF StartOrdinary, TypeOK
  <2> HIDE DEF new
  <2> QED  BY <1>4, <2>2, <2>3, <2>4, <2>5, <2>6 DEF StartOrdinary, TypeOK
<1>5. ASSUME NEW x \in Answer, OrdinaryAnswers(w, x) PROVE TypeInv'
  <2> DEFINE copy == wk[w].copy
             text == [body |-> copy.body, word |-> x]
  <2>1. text \in Text  BY <1>1 DEF Row, Text
  <2> HIDE DEF text
  <2>2. Translated(copy, text) \in Row  BY <1>1, <2>1, TranslatedType
  <2>3. art' = [art EXCEPT ![a] = Translated(copy, text)]  BY <1>5 DEF OrdinaryAnswers, text
  <2>4. art' \in [Article -> Row]  BY <1>1, <2>2, <2>3 DEF TypeOK
  <2> QED  BY <1>5, <2>4, FinishType DEF OrdinaryAnswers, TypeOK
<1>6. ASSUME NEW t \in BOOLEAN, OrdinaryFails(w, t) PROVE TypeInv'
  <2> DEFINE f == Failed(wk[w].copy, t, FALSE, ForcePublished(w))
  <2>1. ForcePublished(w) \in BOOLEAN
    BY <1>1 DEF ForcePublished, TypeOK, WorkerRow, Message
  <2>2. f \in Row  BY <1>1, <2>1, FailedType DEF TypeOK
  <2> HIDE DEF f
  <2>3. FailureFields(art[a], f) \in Row  BY <1>1, <2>2, FailureFieldsType
  <2>4. art' \in [Article -> Row]  BY <1>1, <1>6, <2>3 DEF OrdinaryFails, TypeOK, f
  <2> QED  BY <1>6, <2>4, FinishType DEF OrdinaryFails, TypeOK
<1>7. CASE Crash(w)
  BY <1>7, Defaults DEF Crash, TypeOK, WorkerRuns, ManagedPC
<1> QED  BY <1>2, <1>3, <1>4, <1>5, <1>6, <1>7

\* Steps of everybody else preserve the types.
LEMMA TypeOthers ==
    ASSUME TypeInv,
           \/ \E a \in Article, f \in BOOLEAN : Request(a, f)
           \/ \E k \in EditKind, a \in Article : EditReads(k, a)
           \/ \E b \in Body : IngestWrites(b)
           \/ \E a \in Article : Publish(a)
           \/ RetryWrites \/ ReviveWrites \/ Tick \/ UNCHANGED vars
    PROVE  TypeInv'
<1> USE DEF TypeInv
<1>1. editor.article \in Article /\ editor.copy \in Row  BY DEF TypeOK, Edit
<1>2. \A a \in Article, f \in BOOLEAN : PlainMessage(a, f) \in Message
  BY <1>1 DEF PlainMessage, Message
<1>3. ASSUME NEW a \in Article, NEW f \in BOOLEAN, Request(a, f) PROVE TypeInv'
  BY <1>2, <1>3 DEF Request, TypeOK, WorkerRuns
<1>4. ASSUME NEW k \in EditKind, NEW a \in Article, EditReads(k, a) PROVE TypeInv'
  BY <1>4 DEF EditReads, TypeOK, WorkerRuns, Edit
<1>5. ASSUME NEW b \in Body, IngestWrites(b) PROVE TypeInv'
  <2>1. [editor.copy EXCEPT !.body = b] \in Row  BY <1>1 DEF Row
  <2> QED  BY <1>1, <1>5, <2>1, Defaults DEF IngestWrites, EditorDone, TypeOK, WorkerRuns
<1>6. CASE RetryWrites
  <2>1. Reopened(art[editor.article]) \in Row  BY <1>1, RowEditType DEF TypeOK
  <2>2. art' \in [Article -> Row]  BY <1>1, <1>6, <2>1 DEF RetryWrites, TypeOK
  <2>3. now' \in Nat \ {0}  BY <1>6 DEF RetryWrites, TypeOK
  <2>4. PlainMessage(editor.article, FALSE) \in Message  BY <1>1, <1>2
  <2>5. inbox' \subseteq Message  BY <1>6, <2>4 DEF RetryWrites, TypeOK
  <2> QED  BY <1>6, <2>2, <2>3, <2>5, Defaults DEF RetryWrites, EditorDone, TypeOK, WorkerRuns
<1>7. CASE ReviveWrites
  <2>1. Revived(art[editor.article]) \in Row  BY <1>1, RowEditType DEF TypeOK
  <2> QED  BY <1>1, <1>2, <1>7, <2>1, Defaults DEF ReviveWrites, EditorDone, TypeOK, WorkerRuns
<1>8. ASSUME NEW a \in Article, Publish(a) PROVE TypeInv'
  <2>1. [art[a] EXCEPT !.workflow = "published"] \in Row  BY DEF TypeOK, Row
  <2> QED  BY <1>8, <2>1 DEF Publish, TypeOK, WorkerRuns
<1>9. CASE Tick
  BY <1>9 DEF Tick, TypeOK, WorkerRuns
<1>10. CASE UNCHANGED vars
  BY <1>10 DEF vars, TypeOK, WorkerRuns
<1> QED  BY <1>3, <1>4, <1>5, <1>6, <1>7, <1>8, <1>9, <1>10

\* Every variable keeps its type, and a worker refers to a run exactly while
\* it works on a claim.
LEMMA TypeInvariant == Spec => []TypeInv
<1>1. TypeInv /\ [Next]_vars => TypeInv'
  <2> SUFFICES ASSUME TypeInv, [Next]_vars PROVE TypeInv'  OBVIOUS
  <2>1. ASSUME NEW w \in Worker, WorkerStep(w) PROVE TypeInv'
    BY <2>1, TypeManaged, TypeOrdinary DEF WorkerStep
  <2> QED  BY <2>1, TypeSelector, TypeOthers DEF Next
<1> QED  BY <1>1, TypeInit, PTL DEF Spec

\* The state of the translation workers, rows and messages is well typed in
\* every reachable state, for any number of articles, runs and workers.
THEOREM TypeCorrect == Spec => []TypeOK
BY TypeInvariant, PTL DEF TypeInv
-----------------------------------------------------------------------------
(* Claims.                                                                 *)

\* A worker that consumed a claim and has not stored an answer for it.
Busy(w) == wk[w].pc \in {"prepared", "calling", "answered"}

\* A claim time is in the past and belongs to one run only.
Stamps ==
    \A r \in Run :
        runs[r].status # "none" =>
            /\ runs[r].claimedAt < now
            /\ \A s \in Run : /\ runs[s].status # "none"
                              /\ runs[s].claimedAt = runs[r].claimedAt
                              => s = r

\* A run that nobody consumed has cost nothing and has no answer.
RunShape ==
    \A r \in Run :
        /\ calls[r] \in {0, 1}
        /\ runs[r].status = "none" => runs[r].phase = "claimed"
        /\ runs[r].status = "started" => runs[r].phase \in {"claimed", "executing"}
        /\ runs[r].phase = "claimed" => calls[r] = 0 /\ runs[r].result = NoText

\* A busy worker owns a consumed, unanswered run, paid for once it has called.
BusyShape ==
    \A w \in Worker :
        /\ Busy(w) => /\ runs[wk[w].run].phase # "claimed"
                      /\ runs[wk[w].run].status # "success"
                      /\ runs[wk[w].run].result = NoText
                      /\ calls[wk[w].run] = IF wk[w].pc = "prepared" THEN 0 ELSE 1
        /\ wk[w].pc \in {"answered", "saved"} => wk[w].answer \in Text

\* Two busy workers never own the same run.
Exclusive ==
    \A v, w \in Worker : Busy(v) /\ Busy(w) /\ wk[v].run = wk[w].run => v = w

ClaimInv == Stamps /\ RunShape /\ BusyShape /\ Exclusive

-----------------------------------------------------------------------------

\* The steps that can disturb ClaimInv only through the workers: a worker
\* keeps its state or becomes one that owns no unanswered run.
CalmWorkers ==
    \A w \in Worker : \/ wk'[w] = wk[w]
                      \/ /\ ~Busy(w)'
                         /\ wk'[w].pc = "saved" => wk'[w].answer \in Text

\* ClaimInv holds at first.
LEMMA ClaimInit == Init => ClaimInv
<1> SUFFICES ASSUME Init PROVE ClaimInv  OBVIOUS
<1>1. \A r \in Run : runs[r].status = "none" /\ runs[r].phase = "claimed"
                     /\ runs[r].result = NoText /\ calls[r] = 0
  BY DEF Init
<1>2. \A w \in Worker : wk[w].pc = "idle"  BY Defaults DEF Init
<1> QED  BY <1>1, <1>2 DEF ClaimInv, Stamps, RunShape, BusyShape, Exclusive, Busy

\* A step that leaves runs and calls alone preserves ClaimInv.
LEMMA CalmStep ==
    ASSUME TypeInv, ClaimInv, UNCHANGED <<runs, calls>>, now' \in Nat, now' >= now, CalmWorkers
    PROVE  ClaimInv'
<1> USE DEF TypeInv, TypeOK
<1>1. Stamps'  BY DEF ClaimInv, Stamps, RunRow
<1>2. RunShape'  BY DEF ClaimInv, RunShape
<1>3. BusyShape'  BY DEF ClaimInv, BusyShape, CalmWorkers, Busy
<1>4. Exclusive'  BY DEF ClaimInv, Exclusive, CalmWorkers, Busy
<1> QED  BY <1>1, <1>2, <1>3, <1>4 DEF ClaimInv

\* Closing an open run preserves ClaimInv, if only an answered run succeeds.
LEMMA CloseStep ==
    ASSUME TypeInv, ClaimInv, NEW r \in Run, NEW phase \in {"completed", "failed", "interrupted"},
           runs[r].status = "started", Close(r, phase),
           phase = "completed" => runs[r].result # NoText,
           UNCHANGED <<now, calls>>, CalmWorkers
    PROVE  ClaimInv'
<1> USE DEF TypeInv, TypeOK
<1>1. \A s \in Run : s # r => runs'[s] = runs[s]  BY DEF Close
<1>2. /\ runs'[r].phase = phase
      /\ runs'[r].status = IF phase = "completed" THEN "success" ELSE "failed"
      /\ runs'[r].result = runs[r].result
      /\ runs'[r].claimedAt = runs[r].claimedAt
  BY DEF Close, RunRow
<1>3. Stamps'  BY <1>1, <1>2 DEF ClaimInv, Stamps, RunRow
<1>4. RunShape'  BY <1>1, <1>2 DEF ClaimInv, RunShape
<1>5. BusyShape'
  BY <1>1, <1>2 DEF ClaimInv, BusyShape, CalmWorkers, Busy, WorkerRuns, ManagedPC
<1>6. Exclusive'  BY DEF ClaimInv, Exclusive, CalmWorkers, Busy
<1> QED  BY <1>3, <1>4, <1>5, <1>6 DEF ClaimInv

\* A new claim preserves ClaimInv: its stamp is newer than every other one.
LEMMA ClaimStep ==
    ASSUME TypeInv, ClaimInv, NEW a \in Article, NEW r \in Run, Claim(a, r),
           UNCHANGED calls, CalmWorkers
    PROVE  ClaimInv'
<1> USE DEF TypeInv, TypeOK
<1>1. \A s \in Run : s # r => runs'[s] = runs[s]  BY DEF Claim
<1>2. /\ runs[r].status = "none" /\ runs'[r].status = "started"
      /\ runs'[r].phase = "claimed" /\ runs'[r].result = NoText
      /\ runs'[r].claimedAt = now /\ now' = now + 1
  BY DEF Claim
<1>3. runs[r].phase = "claimed" /\ calls[r] = 0  BY <1>2 DEF ClaimInv, RunShape
<1>4. Stamps'  BY <1>1, <1>2 DEF ClaimInv, Stamps, RunRow
<1>5. RunShape'  BY <1>1, <1>2, <1>3 DEF ClaimInv, RunShape
<1>6. BusyShape'
  BY <1>1, <1>3 DEF ClaimInv, BusyShape, CalmWorkers, Busy, WorkerRuns, ManagedPC
<1>7. Exclusive'  BY DEF ClaimInv, Exclusive, CalmWorkers, Busy
<1> QED  BY <1>4, <1>5, <1>6, <1>7 DEF ClaimInv

-----------------------------------------------------------------------------

\* A finished or crashed task leaves the other workers alone.
LEMMA FinishCalm ==
    ASSUME TypeInv, NEW w \in Worker, wk' = [wk EXCEPT ![w] = IdleWorker]
    PROVE  CalmWorkers
BY Defaults DEF TypeInv, TypeOK, CalmWorkers, Busy

\* The selector and stale recovery preserve ClaimInv.
LEMMA ClaimInvSelector ==
    ASSUME TypeInv, ClaimInv,
           \/ \E a \in Article, r \in Run : SelectorClaims(a, r)
           \/ \E r \in Run : SelectorSends(r) \/ SelectorSendFails(r)
           \/ \E a \in Article : Recover(a)
    PROVE  ClaimInv'
<1>1. now \in Nat /\ now >= now  BY DEF TypeInv, TypeOK
<1>2. CalmWorkers
  BY DEF CalmWorkers, SelectorClaims, SelectorSends, SelectorSendFails, Recover
<1>3. ASSUME NEW a \in Article, NEW r \in Run, SelectorClaims(a, r) PROVE ClaimInv'
  BY <1>2, <1>3, ClaimStep DEF SelectorClaims
<1>4. ASSUME NEW r \in Run, SelectorSends(r) PROVE ClaimInv'
  BY <1>1, <1>2, <1>4, CalmStep DEF SelectorSends
<1>5. ASSUME NEW r \in Run, SelectorSendFails(r) PROVE ClaimInv'
  <2>1. CASE Holds(r) /\ runs[r].phase = "claimed"
    BY <1>2, <1>5, <2>1, CloseStep DEF SelectorSendFails, Holds
  <2>2. CASE ~(Holds(r) /\ runs[r].phase = "claimed")
    BY <1>1, <1>2, <1>5, <2>2, CalmStep DEF SelectorSendFails
  <2> QED  BY <2>1, <2>2
<1>6. ASSUME NEW a \in Article, Recover(a) PROVE ClaimInv'
  <2>1. CASE UNCHANGED runs
    BY <1>1, <1>2, <1>6, <2>1, CalmStep DEF Recover
  <2>2. ASSUME NEW r \in Run, runs[r].status = "started", Close(r, "interrupted")
        PROVE  ClaimInv'
    BY <1>2, <1>6, <2>2, CloseStep DEF Recover
  <2>3. \/ UNCHANGED runs
        \/ \E r \in Run : runs[r].status = "started" /\ Close(r, "interrupted")
    BY <1>6 DEF Recover
  <2> QED  BY <2>1, <2>2, <2>3
<1> QED  BY <1>3, <1>4, <1>5, <1>6

\* A worker consuming a claim, calling, getting and storing an answer.
LEMMA ClaimInvBusy ==
    ASSUME TypeInv, ClaimInv, NEW w \in Worker,
           \/ Prepare(w) \/ CallProvider(w) \/ SaveCheckpoint(w)
           \/ \E x \in Answer : ProviderAnswers(w, x)
    PROVE  ClaimInv'
<1> USE DEF TypeInv, TypeOK
<1> DEFINE r == wk[w].run
<1>1. r \in Run /\ runs[r] \in RunRow
  BY DEF Prepare, CallProvider, ProviderAnswers, SaveCheckpoint, WorkerRuns, ManagedPC
<1>2. UNCHANGED now
  BY DEF Prepare, CallProvider, ProviderAnswers, SaveCheckpoint
<1>3. CASE Prepare(w)
  <2>1. CASE runs[r].phase = "claimed"
    <3>1. runs' = [runs EXCEPT ![r] = [@ EXCEPT !.phase = "executing"]]
      BY <1>3, <2>1 DEF Prepare
    <3>2. \A s \in Run : s # r => runs'[s] = runs[s]  BY <3>1
    <3>3. /\ runs'[r].phase = "executing" /\ runs'[r].status = runs[r].status
          /\ runs'[r].result = runs[r].result /\ runs'[r].claimedAt = runs[r].claimedAt
      BY <1>1, <3>1 DEF RunRow
    <3>4. runs[r].status = "started"  BY <1>3 DEF Prepare, Fenced, Holds
    <3>5. runs[r].result = NoText /\ calls[r] = 0  BY <1>1, <2>1 DEF ClaimInv, RunShape
    <3>6. UNCHANGED calls  BY <1>3 DEF Prepare
    <3>7. wk' = [wk EXCEPT ![w] = [wk[w] EXCEPT !.pc = "prepared"]]
      BY <1>3, <2>1 DEF Prepare, Goto
    <3>8. /\ wk'[w].pc = "prepared" /\ wk'[w].run = r
          /\ \A v \in Worker : v # w => wk'[v] = wk[v]
      BY <3>7 DEF WorkerRow
    <3>9. \A v \in Worker : Busy(v) => wk[v].run # r
      BY <2>1 DEF ClaimInv, BusyShape
    <3>10. Stamps'  BY <1>2, <3>2, <3>3 DEF ClaimInv, Stamps
    <3>11. RunShape'  BY <3>2, <3>3, <3>4, <3>5, <3>6 DEF ClaimInv, RunShape
    <3>12. BusyShape'
      BY <1>1, <3>2, <3>3, <3>4, <3>5, <3>6, <3>8, <3>9
      DEF ClaimInv, BusyShape, Busy, WorkerRuns, ManagedPC
    <3>13. Exclusive'  BY <3>8, <3>9 DEF ClaimInv, Exclusive, Busy
    <3> QED  BY <3>10, <3>11, <3>12, <3>13 DEF ClaimInv
  <2>2. CASE runs[r].phase # "claimed"
    <3>1. wk' = [wk EXCEPT ![w] = [wk[w] EXCEPT !.pc = "saved", !.answer = runs[r].result]]
      BY <1>3, <2>2 DEF Prepare
    <3>2. runs[r].result \in Text  BY <1>1, <1>3, <2>2 DEF Prepare, RunRow
    <3>3. CalmWorkers  BY <3>1, <3>2 DEF CalmWorkers, Busy, WorkerRow
    <3> QED  BY <1>2, <1>3, <2>2, <3>3, CalmStep DEF Prepare
  <2> QED  BY <2>1, <2>2
<1>4. CASE CallProvider(w)
  <2>1. /\ wk'[w].pc = "calling" /\ wk'[w].run = r /\ wk[w].pc = "prepared"
        /\ \A v \in Worker : v # w => wk'[v] = wk[v]
    BY <1>4 DEF CallProvider, Goto, WorkerRow
  <2>2. calls[r] = 0 /\ runs[r].phase # "claimed"
    BY <2>1 DEF ClaimInv, BusyShape, Busy
  <2>3. calls'[r] = 1 /\ \A s \in Run : s # r => calls'[s] = calls[s]
    BY <1>1, <1>4, <2>2 DEF CallProvider
  <2>4. UNCHANGED runs  BY <1>4 DEF CallProvider
  <2>5. \A v \in Worker : v # w /\ Busy(v) => wk[v].run # r
    BY <2>1 DEF ClaimInv, Exclusive, Busy
  <2>6. Stamps'  BY <1>2, <2>4 DEF ClaimInv, Stamps
  <2>7. RunShape'  BY <2>2, <2>3, <2>4 DEF ClaimInv, RunShape
  <2>8. BusyShape'
    BY <1>1, <2>1, <2>3, <2>4, <2>5 DEF ClaimInv, BusyShape, Busy, WorkerRuns, ManagedPC
  <2>9. Exclusive'  BY <2>1 DEF ClaimInv, Exclusive, Busy
  <2> QED  BY <2>6, <2>7, <2>8, <2>9 DEF ClaimInv
<1>5. ASSUME NEW x \in Answer, ProviderAnswers(w, x) PROVE ClaimInv'
  <2> DEFINE text == [body |-> runs[r].body, word |-> x]
  <2>1. text \in Text  BY <1>1 DEF RunRow, Text
  <2>2. wk' = [wk EXCEPT ![w] = [wk[w] EXCEPT !.pc = "answered", !.answer = text]]
    BY <1>5 DEF ProviderAnswers
  <2> HIDE DEF text
  <2>3. /\ wk'[w].pc = "answered" /\ wk'[w].run = r /\ wk'[w].answer = text
        /\ \A v \in Worker : v # w => wk'[v] = wk[v]
    BY <2>2 DEF WorkerRow
  <2>4. wk[w].pc = "calling" /\ UNCHANGED <<runs, calls>>  BY <1>5 DEF ProviderAnswers
  <2>5. Stamps'  BY <1>2, <2>4 DEF ClaimInv, Stamps
  <2>6. RunShape'  BY <2>4 DEF ClaimInv, RunShape
  <2>7. BusyShape'  BY <2>1, <2>3, <2>4 DEF ClaimInv, BusyShape, Busy
  <2>8. Exclusive'  BY <2>3, <2>4 DEF ClaimInv, Exclusive, Busy
  <2> QED  BY <2>5, <2>6, <2>7, <2>8 DEF ClaimInv
<1>6. CASE SaveCheckpoint(w)
  <2>1. wk[w].pc = "answered" /\ UNCHANGED calls /\ runs[r].phase = "executing"
    BY <1>6 DEF SaveCheckpoint
  <2>2. /\ wk'[w].pc = "saved" /\ wk'[w].answer = wk[w].answer
        /\ \A v \in Worker : v # w => wk'[v] = wk[v]
    BY <1>6 DEF SaveCheckpoint, Goto, WorkerRow
  <2>3. /\ \A s \in Run : s # r => runs'[s] = runs[s]
        /\ runs'[r].phase = runs[r].phase /\ runs'[r].status = runs[r].status
        /\ runs'[r].claimedAt = runs[r].claimedAt
    BY <1>1, <1>6 DEF SaveCheckpoint, RunRow
  <2>4. wk[w].answer \in Text  BY <2>1 DEF ClaimInv, BusyShape
  <2>5. \A v \in Worker : v # w /\ Busy(v) => wk[v].run # r
    BY <2>1 DEF ClaimInv, Exclusive, Busy
  <2>6. Stamps'  BY <1>2, <2>3 DEF ClaimInv, Stamps
  <2>7. RunShape'  BY <2>1, <2>3 DEF ClaimInv, RunShape
  <2>8. BusyShape'
    BY <1>1, <2>1, <2>2, <2>3, <2>4, <2>5 DEF ClaimInv, BusyShape, Busy, WorkerRuns, ManagedPC
  <2>9. Exclusive'  BY <2>2 DEF ClaimInv, Exclusive, Busy
  <2> QED  BY <2>6, <2>7, <2>8, <2>9 DEF ClaimInv
<1> QED  BY <1>3, <1>4, <1>5, <1>6

\* A worker ending a claim.
LEMMA ClaimInvEnd ==
    ASSUME TypeInv, ClaimInv, NEW w \in Worker,
           \/ Commit(w) \/ Refused(w) \/ Crash(w)
           \/ \E t \in BOOLEAN : ProviderFails(w, t)
    PROVE  ClaimInv'
<1> DEFINE r == wk[w].run
<1>1. now \in Nat /\ now >= now  BY DEF TypeInv, TypeOK
<1>2. CalmWorkers
  BY FinishCalm DEF Commit, Refused, Crash, ProviderFails, Finish
<1>3. CASE Refused(w)  BY <1>1, <1>2, <1>3, CalmStep DEF Refused
<1>4. CASE Crash(w)  BY <1>1, <1>2, <1>4, CalmStep DEF Crash
<1>5. CASE Commit(w)
  <2>1. r \in Run  BY <1>5 DEF Commit, TypeInv, WorkerRuns, ManagedPC
  <2>2. runs[r].result \in Text  BY <1>5 DEF Commit, ClaimInv, BusyShape
  <2>3. runs[r].result # NoText  BY <2>2, ConstantsAssumption DEF ConstantsAssumption, Text
  <2> QED  BY <1>2, <1>5, <2>1, <2>3, CloseStep DEF Commit, Fenced, Holds
<1>6. ASSUME NEW t \in BOOLEAN, ProviderFails(w, t) PROVE ClaimInv'
  <2>1. r \in Run  BY <1>6 DEF ProviderFails, TypeInv, WorkerRuns, ManagedPC
  <2> QED  BY <1>2, <1>6, <2>1, CloseStep DEF ProviderFails, Fenced, Holds
<1> QED  BY <1>3, <1>4, <1>5, <1>6

\* A worker outside a claim, or taking one.
LEMMA ClaimInvOrdinary ==
    ASSUME TypeInv, ClaimInv, NEW w \in Worker,
           \/ StartOrdinary(w)
           \/ \E m \in Message : Deliver(w, m)
           \/ \E r \in Run : WorkerClaims(w, r)
           \/ \E x \in Answer : OrdinaryAnswers(w, x)
           \/ \E t \in BOOLEAN : OrdinaryFails(w, t)
    PROVE  ClaimInv'
<1>1. now \in Nat /\ now >= now /\ now + 1 \in Nat /\ now + 1 >= now  BY DEF TypeInv, TypeOK
<1>2. CASE StartOrdinary(w)
  <2>1. CalmWorkers
    BY <1>2 DEF StartOrdinary, CalmWorkers, Busy, TypeInv, TypeOK, WorkerRow
  <2> QED  BY <1>1, <1>2, <2>1, CalmStep DEF StartOrdinary
<1>3. ASSUME NEW m \in Message, Deliver(w, m) PROVE ClaimInv'
  <2>1. CalmWorkers
    <3>1. \/ wk' = wk
          \/ wk' = [wk EXCEPT ![w] = [IdleWorker EXCEPT !.pc = "holding", !.msg = m,
                                                        !.run = m.run]]
          \/ wk' = [wk EXCEPT ![w] = [IdleWorker EXCEPT !.pc = "read", !.msg = m,
                                                        !.copy = art[m.article]]]
      BY <1>3 DEF Deliver
    <3>2. /\ wk'[w] = wk[w] \/ wk'[w].pc \in {"holding", "read"}
          /\ \A v \in Worker : v # w => wk'[v] = wk[v]
      BY <3>1, Defaults DEF TypeInv, TypeOK, WorkerRow
    <3> QED  BY <3>2 DEF CalmWorkers, Busy
  <2> QED  BY <1>1, <1>3, <2>1, CalmStep DEF Deliver
<1>4. ASSUME NEW r \in Run, WorkerClaims(w, r) PROVE ClaimInv'
  <2> DEFINE a == wk[w].msg.article
  <2>1. a \in Article  BY DEF TypeInv, TypeOK, WorkerRow, Message
  <2>2. CASE Claimable(a, wk[w].copy.due)
    <3>1. wk' = [wk EXCEPT ![w] = [wk[w] EXCEPT !.pc = "holding", !.run = r, !.copy = NoRow]]
      BY <1>4, <2>2 DEF WorkerClaims
    <3>2. CalmWorkers  BY <3>1 DEF CalmWorkers, Busy, TypeInv, TypeOK, WorkerRow
    <3> QED  BY <1>4, <2>1, <2>2, <3>2, ClaimStep DEF WorkerClaims
  <2>3. CASE ~Claimable(a, wk[w].copy.due)
    <3>1. CalmWorkers  BY <1>4, <2>3, FinishCalm DEF WorkerClaims, Finish
    <3> QED  BY <1>1, <1>4, <2>3, <3>1, CalmStep DEF WorkerClaims
  <2> QED  BY <2>2, <2>3
<1>5. ASSUME NEW x \in Answer, OrdinaryAnswers(w, x) PROVE ClaimInv'
  BY <1>1, <1>5, FinishCalm, CalmStep DEF OrdinaryAnswers, Finish
<1>6. ASSUME NEW t \in BOOLEAN, OrdinaryFails(w, t) PROVE ClaimInv'
  BY <1>1, <1>6, FinishCalm, CalmStep DEF OrdinaryFails, Finish
<1> QED  BY <1>2, <1>3, <1>4, <1>5, <1>6

\* Everybody else, and stuttering.
LEMMA ClaimInvOthers ==
    ASSUME TypeInv, ClaimInv,
           \/ \E a \in Article, f \in BOOLEAN : Request(a, f)
           \/ \E k \in EditKind, a \in Article : EditReads(k, a)
           \/ \E b \in Body : IngestWrites(b)
           \/ \E a \in Article : Publish(a)
           \/ RetryWrites \/ ReviveWrites \/ Tick \/ UNCHANGED vars
    PROVE  ClaimInv'
<1>1. UNCHANGED <<runs, calls, wk>> /\ now' \in {now, now + 1}
  BY DEF Request, EditReads, IngestWrites, Publish, RetryWrites, ReviveWrites, Tick, vars
<1>2. now' \in Nat /\ now' >= now  BY <1>1 DEF TypeInv, TypeOK
<1> QED  BY <1>1, <1>2, CalmStep DEF CalmWorkers

\* The inductive invariant of the claims.
LEMMA ClaimInvariant == Spec => [](TypeInv /\ ClaimInv)
<1>1. TypeInv /\ ClaimInv /\ [Next]_vars => ClaimInv'
  <2> SUFFICES ASSUME TypeInv, ClaimInv, [Next]_vars PROVE ClaimInv'  OBVIOUS
  <2>1. ASSUME NEW w \in Worker, WorkerStep(w) PROVE ClaimInv'
    BY <2>1, ClaimInvBusy, ClaimInvEnd, ClaimInvOrdinary DEF WorkerStep
  <2> QED  BY <2>1, ClaimInvSelector, ClaimInvOthers DEF Next
<1> QED  BY <1>1, TypeInvariant, ClaimInit, PTL DEF Spec

\* At most one run of an article passes the claim check, whatever was
\* redelivered, taken over or written back: two claims never share a stamp.
THEOREM OneLiveClaim == Spec => []UniqueLiveClaim
<1>1. TypeInv /\ ClaimInv => UniqueLiveClaim
  BY DEF ClaimInv, Stamps, UniqueLiveClaim, Holds
<1> QED  BY <1>1, ClaimInvariant, PTL

\* However often its message is delivered, a claim pays for one request.
THEOREM OnePaidCall == Spec => []OneCallPerClaim
<1>1. ClaimInv => OneCallPerClaim
  BY DEF ClaimInv, RunShape, OneCallPerClaim
<1> QED  BY <1>1, ClaimInvariant, PTL

-----------------------------------------------------------------------------
(* The managed runs implement PaidRound.                                   *)

\* A step that leaves runs and calls alone is a stuttering step of PaidRound.
LEMMA RoundStutter ==
    ASSUME UNCHANGED <<runs, calls>>
    PROVE  UNCHANGED Rounds!vars
<1>1. \A r \in Run : RoundOf(r)' = RoundOf(r)  BY DEF RoundOf
<1> QED  BY <1>1 DEF Rounds!vars

\* A step that changes the state of one run moves one round.
LEMMA RoundMove ==
    ASSUME NEW r \in Run, NEW from, \A s \in Run : s # r => runs'[s] = runs[s],
           RoundOf(r) \in from
    PROVE  Rounds!Move(r, from, RoundOf(r)')
<1>1. \A s \in Run : s # r => RoundOf(s)' = RoundOf(s)  BY DEF RoundOf
<1> QED  BY <1>1 DEF Rounds!Move

\* Closing an open run shuts its round or, when it succeeds, applies it.
LEMMA RoundClose ==
    ASSUME TypeInv, ClaimInv, NEW r \in Run, NEW phase \in {"completed", "failed", "interrupted"},
           runs[r].status = "started", Close(r, phase),
           phase = "completed" => runs[r].phase = "executing" /\ runs[r].result # NoText,
           UNCHANGED calls
    PROVE  Rounds!Next
<1>1. \A s \in Run : s # r => runs'[s] = runs[s]  BY DEF Close
<1>2. /\ runs'[r].phase = phase
      /\ runs'[r].status = IF phase = "completed" THEN "success" ELSE "failed"
      /\ runs'[r].result = runs[r].result
  BY DEF Close, RunRow, TypeInv, TypeOK
<1>3. UNCHANGED [s \in Run |-> runs[s].result]  BY <1>1, <1>2
<1>4. CASE phase = "completed"
  <2>1. RoundOf(r) = "answered" /\ RoundOf(r)' = "applied"
    BY <1>2, <1>4 DEF RoundOf
  <2>2. Rounds!Apply(r)
    <3>1. Rounds!Move(r, {"answered"}, RoundOf(r)')  BY <1>1, <2>1, RoundMove
    <3> QED  BY <1>3, <2>1, <3>1 DEF Rounds!Apply
  <2> QED  BY <2>2 DEF Rounds!Next
<1>5. CASE phase # "completed"
  <2>1. RoundOf(r) \in {"open", "working", "answered"} /\ RoundOf(r)' = "closed"
    BY <1>2, <1>5 DEF RoundOf
  <2>2. Rounds!Shut(r)
    <3>1. Rounds!Move(r, {"open", "working", "answered"}, RoundOf(r)')
      BY <1>1, <2>1, RoundMove
    <3> QED  BY <1>3, <2>1, <3>1 DEF Rounds!Shut
  <2> QED  BY <2>2 DEF Rounds!Next
<1> QED  BY <1>4, <1>5

\* A claim opens a round.
LEMMA RoundOpen ==
    ASSUME TypeInv, ClaimInv, NEW a \in Article, NEW r \in Run, Claim(a, r), UNCHANGED calls
    PROVE  Rounds!Next
<1>1. \A s \in Run : s # r => runs'[s] = runs[s]  BY DEF Claim
<1>2. /\ runs[r].status = "none" /\ runs'[r].status = "started"
      /\ runs'[r].phase = "claimed" /\ runs'[r].result = NoText
  BY DEF Claim, TypeInv, TypeOK
<1>3. runs[r].result = NoText  BY <1>2 DEF ClaimInv, RunShape
<1>4. UNCHANGED [s \in Run |-> runs[s].result]  BY <1>1, <1>2, <1>3
<1>5. RoundOf(r) = "none" /\ RoundOf(r)' = "open"  BY <1>2 DEF RoundOf
<1>6. Rounds!Open(r)
  <2>1. Rounds!Move(r, {"none"}, RoundOf(r)')  BY <1>1, <1>5, RoundMove
  <2> QED  BY <1>4, <1>5, <2>1 DEF Rounds!Open
<1> QED  BY <1>6 DEF Rounds!Next

\* Consuming a claim, calling the provider and storing the answer.
LEMMA RoundBusy ==
    ASSUME TypeInv, ClaimInv, NEW w \in Worker,
           Prepare(w) \/ CallProvider(w) \/ SaveCheckpoint(w)
    PROVE  Rounds!Next \/ UNCHANGED Rounds!vars
<1> USE DEF TypeInv, TypeOK
<1>0. PICK r \in Run : r = wk[w].run
  BY DEF Prepare, CallProvider, SaveCheckpoint, WorkerRuns, ManagedPC
<1>1. r \in Run /\ r = wk[w].run /\ runs[r] \in RunRow  BY <1>0
<1>2. CASE Prepare(w)
  <2>1. CASE UNCHANGED runs
    BY <1>2, <2>1, RoundStutter DEF Prepare
  <2>2. CASE runs' = [runs EXCEPT ![r] = [@ EXCEPT !.phase = "executing"]]
             /\ runs[r].phase = "claimed"
    <3>1. \A s \in Run : s # r => runs'[s] = runs[s]  BY <2>2
    <3>2. /\ runs'[r].phase = "executing" /\ runs'[r].status = runs[r].status
          /\ runs'[r].result = runs[r].result
      BY <1>1, <2>2 DEF RunRow
    <3>3. runs[r].status = "started" /\ runs[r].result = NoText
      BY <1>1, <1>2, <2>2 DEF Prepare, Fenced, Holds, ClaimInv, RunShape
    <3>4. RoundOf(r) = "open" /\ RoundOf(r)' = "working"
      BY <2>2, <3>2, <3>3 DEF RoundOf
    <3>5. Rounds!Consume(r)
      <4>1. Rounds!Move(r, {"open"}, RoundOf(r)')  BY <1>1, <3>1, <3>4, RoundMove
      <4>2. UNCHANGED [s \in Run |-> runs[s].result]  BY <3>1, <3>2
      <4> QED  BY <1>2, <3>4, <4>1, <4>2 DEF Rounds!Consume, Prepare
    <3> QED  BY <1>1, <3>5 DEF Rounds!Next
  <2> QED  BY <1>1, <1>2, <2>1, <2>2 DEF Prepare
<1>3. CASE CallProvider(w)
  <2>1. wk[w].pc = "prepared" /\ UNCHANGED runs  BY <1>3 DEF CallProvider
  <2>2. /\ calls[r] = 0 /\ runs[r].phase # "claimed" /\ runs[r].result = NoText
        /\ runs[r].status \in {"started", "failed"}
    BY <1>1, <2>1 DEF ClaimInv, BusyShape, RunShape, Busy, RunRow
  <2>3. RoundOf(r) \in {"working", "closed"}  BY <2>2 DEF RoundOf
  <2>4. calls' = [calls EXCEPT ![r] = 1]  BY <1>1, <1>3, <2>2 DEF CallProvider
  <2>5. \A s \in Run : RoundOf(s)' = RoundOf(s)  BY <2>1 DEF RoundOf
  <2>6. UNCHANGED [s \in Run |-> runs[s].result]  BY <2>1
  <2>7. Rounds!Pay(r)  BY <1>1, <2>2, <2>3, <2>4, <2>5, <2>6 DEF Rounds!Pay
  <2> QED  BY <1>1, <2>7 DEF Rounds!Next
<1>4. CASE SaveCheckpoint(w)
  <2>1. /\ wk[w].pc = "answered" /\ UNCHANGED calls
        /\ runs[r].phase = "executing" /\ runs[r].status = "started"
    BY <1>1, <1>4 DEF SaveCheckpoint, Fenced, Holds
  <2>2. wk[w].answer \in Text /\ calls[r] = 1 /\ runs[r].result = NoText
    BY <1>1, <2>1 DEF ClaimInv, BusyShape, Busy
  <2>3. /\ \A s \in Run : s # r => runs'[s] = runs[s]
        /\ runs'[r].phase = runs[r].phase /\ runs'[r].status = runs[r].status
        /\ runs'[r].result = wk[w].answer
    BY <1>1, <1>4 DEF SaveCheckpoint, RunRow
  <2>4. wk[w].answer # NoText
    BY <2>2, ConstantsAssumption DEF ConstantsAssumption, Text
  <2>5. RoundOf(r) = "working" /\ RoundOf(r)' = "answered"
    BY <2>1, <2>2, <2>3, <2>4 DEF RoundOf
  <2>6. Rounds!Move(r, {"working"}, RoundOf(r)')  BY <1>1, <2>3, <2>5, RoundMove
  <2>7. PICK x \in Text : x = wk[w].answer  BY <2>2
  <2>8. [s \in Run |-> runs'[s].result] = [[s \in Run |-> runs[s].result] EXCEPT ![r] = x]
    BY <2>3, <2>7
  <2>9. Rounds!Store(r, x)
    BY <1>1, <2>1, <2>2, <2>5, <2>6, <2>8 DEF Rounds!Store
  <2> QED  BY <1>0, <2>9 DEF Rounds!Next
<1> QED  BY <1>2, <1>3, <1>4

\* Every managed run is a paid round: it is opened and consumed once, paid for
\* at most once, keeps its first answer and stays closed once it is closed.
THEOREM RunsImplementRounds == Spec => RunsArePaidRounds
<1>1. Init => Rounds!Init
  <2> SUFFICES ASSUME Init PROVE Rounds!Init  OBVIOUS
  <2>1. \A r \in Run : runs[r].status = "none" /\ runs[r].result = NoText  BY DEF Init
  <2>2. \A r \in Run : RoundOf(r) = "none"  BY <2>1 DEF RoundOf
  <2> QED  BY <2>1, <2>2 DEF Rounds!Init, Init
<1>2. TypeInv /\ ClaimInv /\ [Next]_vars => [Rounds!Next]_(Rounds!vars)
  <2> SUFFICES ASSUME TypeInv, ClaimInv, [Next]_vars
               PROVE  Rounds!Next \/ UNCHANGED Rounds!vars
    OBVIOUS
  <2>1. CASE UNCHANGED <<runs, calls>>  BY <2>1, RoundStutter
  <2>2. ASSUME NEW a \in Article, NEW r \in Run, Claim(a, r), UNCHANGED calls
        PROVE  Rounds!Next
    BY <2>2, RoundOpen
  <2>3. ASSUME NEW w \in Worker, WorkerStep(w)
        PROVE  Rounds!Next \/ UNCHANGED Rounds!vars
    <3>1. CASE Prepare(w) \/ CallProvider(w) \/ SaveCheckpoint(w)  BY <3>1, RoundBusy
    <3>2. ASSUME NEW r \in Run, WorkerClaims(w, r)
          PROVE  Rounds!Next \/ UNCHANGED Rounds!vars
      <4>1. wk[w].msg.article \in Article  BY DEF TypeInv, TypeOK, WorkerRow, Message
      <4> QED  BY <2>1, <2>2, <3>2, <4>1 DEF WorkerClaims
    <3>3. ASSUME NEW t \in BOOLEAN, ProviderFails(w, t) PROVE Rounds!Next
      <4>1. wk[w].run \in Run  BY <3>3 DEF ProviderFails, TypeInv, WorkerRuns, ManagedPC
      <4> QED  BY <3>3, <4>1, RoundClose DEF ProviderFails, Fenced, Holds
    <3>4. CASE Commit(w)
      <4>1. wk[w].run \in Run  BY <3>4 DEF Commit, TypeInv, WorkerRuns, ManagedPC
      <4>2. runs[wk[w].run].result \in Text  BY <3>4 DEF Commit, ClaimInv, BusyShape
      <4>3. runs[wk[w].run].result # NoText
        BY <4>2, ConstantsAssumption DEF ConstantsAssumption, Text
      <4> QED  BY <3>4, <4>1, <4>3, RoundClose DEF Commit, Fenced, Holds
    <3>5. CASE \/ Refused(w) \/ Crash(w) \/ StartOrdinary(w)
               \/ \E m \in Message : Deliver(w, m)
               \/ \E x \in Answer : ProviderAnswers(w, x) \/ OrdinaryAnswers(w, x)
               \/ \E t \in BOOLEAN : OrdinaryFails(w, t)
      BY <2>1, <3>5 DEF Refused, Crash, StartOrdinary, Deliver, ProviderAnswers,
                        OrdinaryAnswers, OrdinaryFails
    <3> QED  BY <2>3, <3>1, <3>2, <3>3, <3>4, <3>5 DEF WorkerStep
  <2>4. ASSUME NEW r \in Run, SelectorSendFails(r)
        PROVE  Rounds!Next \/ UNCHANGED Rounds!vars
    <3>1. CASE Holds(r) /\ runs[r].phase = "claimed"
      BY <2>4, <3>1, RoundClose DEF SelectorSendFails, Holds
    <3>2. CASE ~(Holds(r) /\ runs[r].phase = "claimed")
      BY <2>1, <2>4, <3>2 DEF SelectorSendFails
    <3> QED  BY <3>1, <3>2
  <2>5. ASSUME NEW a \in Article, Recover(a)
        PROVE  Rounds!Next \/ UNCHANGED Rounds!vars
    <3>1. ASSUME NEW r \in Run, runs[r].status = "started", Close(r, "interrupted")
          PROVE  Rounds!Next
      BY <2>5, <3>1, RoundClose DEF Recover
    <3>2. \/ UNCHANGED runs
          \/ \E r \in Run : runs[r].status = "started" /\ Close(r, "interrupted")
      BY <2>5 DEF Recover
    <3> QED  BY <2>1, <2>5, <3>1, <3>2 DEF Recover
  <2>6. CASE \/ \E a \in Article, r \in Run : SelectorClaims(a, r)
    BY <2>2, <2>6 DEF SelectorClaims
  <2>7. CASE \/ \E r \in Run : SelectorSends(r)
             \/ \E a \in Article : Publish(a)
             \/ \E a \in Article, f \in BOOLEAN : Request(a, f)
             \/ \E k \in EditKind, a \in Article : EditReads(k, a)
             \/ \E b \in Body : IngestWrites(b)
             \/ RetryWrites \/ ReviveWrites \/ Tick \/ UNCHANGED vars
    BY <2>1, <2>7 DEF SelectorSends, Publish, Request, EditReads, IngestWrites,
                      RetryWrites, ReviveWrites, Tick, vars
  <2> QED  BY <2>3, <2>4, <2>5, <2>6, <2>7 DEF Next
<1> QED  BY <1>1, <1>2, ClaimInvariant, PTL DEF Spec, RunsArePaidRounds, Rounds!Spec
-----------------------------------------------------------------------------
(* When a claim ends.                                                      *)

\* The steps that leave the rows of runs alone.
LEMMA QuietStep ==
    ASSUME \/ \E w \in Worker :
                \/ CallProvider(w) \/ Refused(w) \/ Crash(w) \/ StartOrdinary(w)
                \/ \E m \in Message : Deliver(w, m)
                \/ \E x \in Answer : ProviderAnswers(w, x) \/ OrdinaryAnswers(w, x)
                \/ \E t \in BOOLEAN : OrdinaryFails(w, t)
           \/ \E r \in Run : SelectorSends(r)
           \/ \E a \in Article : Publish(a)
           \/ \E a \in Article, f \in BOOLEAN : Request(a, f)
           \/ \E k \in EditKind, a \in Article : EditReads(k, a)
           \/ \E b \in Body : IngestWrites(b)
           \/ RetryWrites \/ ReviveWrites \/ Tick \/ UNCHANGED vars
    PROVE  UNCHANGED runs
  BY DEF CallProvider, Refused, Crash, StartOrdinary, Deliver, ProviderAnswers,
         OrdinaryAnswers, OrdinaryFails, SelectorSends, Publish, Request, EditReads,
         IngestWrites, RetryWrites, ReviveWrites, Tick, vars

\* How a step may change the row of a run: it claims an unused run, closes an
\* open one, consumes a claim or stores an answer.
LEMMA RunStep ==
    ASSUME TypeInv, [Next]_vars
    PROVE  \/ UNCHANGED runs
           \/ \E a \in Article, r \in Run : Claim(a, r)
           \/ \E r \in Run : Close(r, "failed")
           \/ \E a \in Article : Recover(a)
           \/ \E w \in Worker : Prepare(w) \/ SaveCheckpoint(w) \/ Commit(w)
<1>1. ASSUME NEW w \in Worker, NEW r \in Run, WorkerClaims(w, r)
      PROVE  UNCHANGED runs \/ \E a \in Article : Claim(a, r)
  BY <1>1 DEF WorkerClaims, TypeInv, TypeOK, WorkerRow, Message
<1>2. ASSUME NEW w \in Worker, NEW t \in BOOLEAN, ProviderFails(w, t)
      PROVE  \E r \in Run : Close(r, "failed")
  BY <1>2 DEF ProviderFails, TypeInv, WorkerRuns, ManagedPC
<1>3. ASSUME NEW r \in Run, SelectorSendFails(r)
      PROVE  UNCHANGED runs \/ Close(r, "failed")
  BY <1>3 DEF SelectorSendFails
<1>4. ASSUME NEW a \in Article, NEW r \in Run, SelectorClaims(a, r)
      PROVE  Claim(a, r)
  BY <1>4 DEF SelectorClaims
<1> QED  BY <1>1, <1>2, <1>3, <1>4, QuietStep DEF Next, WorkerStep

\* What Close leaves of an open run and of the others.
LEMMA Closed ==
    ASSUME TypeInv, NEW r \in Run, NEW phase, Close(r, phase)
    PROVE  /\ \A s \in Run : s # r => runs'[s] = runs[s]
           /\ runs'[r].phase = phase
           /\ runs'[r].status = IF phase = "completed" THEN "success" ELSE "failed"
           /\ runs'[r].article = runs[r].article
           /\ runs'[r].body = runs[r].body /\ runs'[r].result = runs[r].result
  BY DEF Close, RunRow, TypeInv, TypeOK

\* Recovery never takes a claim that a worker may still commit: only Recover
\* interrupts a run, and then the row's age is the age of the claim.
THEOREM RecoveredIsOver == Spec => RecoveryAfterDeadline
<1>1. ASSUME TypeInv, ClaimInv, [Next]_vars, NEW r \in Run,
             runs[r].status = "started", runs'[r].phase = "interrupted"
      PROVE  now > Deadline(r)
  <2>1. runs[r].phase # "interrupted"  BY <1>1 DEF ClaimInv, RunShape
  <2>2. ~UNCHANGED runs  BY <1>1, <2>1
  <2>3. ASSUME NEW a \in Article, NEW s \in Run, Claim(a, s) PROVE FALSE
    BY <1>1, <2>1, <2>3 DEF Claim, TypeInv, TypeOK, RunRow
  <2>4. ASSUME NEW s \in Run, Close(s, "failed") PROVE FALSE
    BY <1>1, <2>1, <2>4, Closed
  <2>5. ASSUME NEW w \in Worker, Prepare(w) \/ SaveCheckpoint(w) PROVE FALSE
    <3>1. wk[w].run \in Run
      BY <1>1, <2>5 DEF Prepare, SaveCheckpoint, TypeInv, WorkerRuns, ManagedPC
    <3>2. runs'[r].phase \in {runs[r].phase, "executing"}
      BY <1>1, <2>5, <3>1 DEF Prepare, SaveCheckpoint, TypeInv, TypeOK, RunRow
    <3> QED  BY <1>1, <2>1, <3>2
  <2>6. ASSUME NEW w \in Worker, Commit(w) PROVE FALSE
    <3>1. wk[w].run \in Run  BY <1>1, <2>6 DEF Commit, TypeInv, WorkerRuns, ManagedPC
    <3>2. Close(wk[w].run, "completed")  BY <2>6 DEF Commit
    <3> QED  BY <1>1, <2>1, <3>1, <3>2, Closed
  <2>7. ASSUME NEW a \in Article, Recover(a) PROVE now > Deadline(r)
    <3>1. art[a].started + Stale < now  BY <2>7 DEF Recover
    <3>2. PICK s \in Run : runs[s].claimedAt = art[a].started /\ Close(s, "interrupted")
      BY <2>2, <2>7 DEF Recover
    <3>3. s = r  BY <1>1, <2>1, <3>2, Closed
    <3> QED  BY <1>1, <3>1, <3>2, <3>3, ConstantsAssumption
             DEF Deadline, TypeInv, TypeOK, RunRow, ConstantsAssumption
  <2> QED  BY <1>1, <2>2, <2>3, <2>4, <2>5, <2>6, <2>7, RunStep
<1>2. TypeInv /\ ClaimInv /\ [Next]_vars =>
          [\A r \in Run :
              runs[r].status = "started" /\ runs'[r].phase = "interrupted"
                  => now > Deadline(r)]_vars
  BY <1>1
<1> QED  BY <1>2, ClaimInvariant, PTL DEF Spec, RecoveryAfterDeadline

-----------------------------------------------------------------------------
(* The text of an answer.                                                  *)

\* An answer belongs to the text its run was claimed with, in the worker that
\* received it and in the run that keeps it.
Sourced ==
    /\ \A r \in Run : runs[r].result # NoText => runs[r].result.body = runs[r].body
    /\ \A w \in Worker :
           wk[w].pc = "answered" => wk[w].answer.body = runs[wk[w].run].body

\* A run in use keeps its text and its answer.
TextKept ==
    \A r \in Run : \/ runs'[r].body = runs[r].body /\ runs'[r].result = runs[r].result
                   \/ runs[r].status = "none" /\ runs'[r].result = NoText

\* No worker receives an answer.
NoNewAnswer == \A w \in Worker : wk'[w] = wk[w] \/ wk'[w].pc # "answered"

\* A step that is neither an answer nor a checkpoint preserves Sourced.
LEMMA SourcedStep ==
    ASSUME TypeInv, ClaimInv, Sourced, TextKept, NoNewAnswer
    PROVE  Sourced'
<1>1. \A r \in Run : runs'[r].result # NoText => runs'[r].result.body = runs'[r].body
  BY DEF Sourced, TextKept
<1>2. ASSUME NEW w \in Worker, wk'[w].pc = "answered"
      PROVE  wk'[w].answer.body = runs'[wk'[w].run].body
  <2>1. wk'[w] = wk[w] /\ wk[w].run \in Run
    BY <1>2 DEF TypeInv, WorkerRuns, ManagedPC, NoNewAnswer
  <2>2. runs[wk[w].run].status # "none"
    BY <1>2, <2>1 DEF ClaimInv, BusyShape, RunShape, Busy
  <2> QED  BY <1>2, <2>1, <2>2 DEF Sourced, TextKept
<1> QED  BY <1>1, <1>2 DEF Sourced

\* Only the provider's answer takes a worker to "answered".
LEMMA AnswerStep ==
    ASSUME TypeInv, [Next]_vars,
           ~\E w \in Worker, x \in Answer : ProviderAnswers(w, x)
    PROVE  NoNewAnswer
<1>0. wk \in [Worker -> WorkerRow]  BY DEF TypeInv, TypeOK
<1>1. ASSUME NEW w \in Worker, WorkerStep(w) PROVE NoNewAnswer
  <2> USE <1>0, Defaults DEF NoNewAnswer, WorkerRow
  <2>1. CASE Finish(w)  BY <2>1 DEF Finish
  <2>2. ASSUME NEW pc, pc # "answered", Goto(w, pc) PROVE NoNewAnswer  BY <2>2 DEF Goto
  <2>3. CASE UNCHANGED wk  BY <2>3
  <2>4. ASSUME NEW m \in Message, Deliver(w, m) PROVE NoNewAnswer
    BY <2>4 DEF Deliver
  <2>5. ASSUME NEW r \in Run, WorkerClaims(w, r) PROVE NoNewAnswer
    BY <2>1, <2>5 DEF WorkerClaims
  <2>6. CASE Prepare(w)  BY <2>2, <2>6 DEF Prepare
  <2>7. CASE StartOrdinary(w)  BY <2>7 DEF StartOrdinary
  <2>8. CASE Crash(w)  BY <2>8 DEF Crash
  <2>9. CASE CallProvider(w) \/ SaveCheckpoint(w)
    BY <2>2, <2>9 DEF CallProvider, SaveCheckpoint
  <2>10. CASE \/ Commit(w) \/ Refused(w)
              \/ \E t \in BOOLEAN : ProviderFails(w, t) \/ OrdinaryFails(w, t)
              \/ \E x \in Answer : OrdinaryAnswers(w, x)
    BY <2>1, <2>10 DEF Commit, Refused, ProviderFails, OrdinaryFails, OrdinaryAnswers
  <2> QED
    BY <1>1, <2>4, <2>5, <2>6, <2>7, <2>8, <2>9, <2>10 DEF WorkerStep
<1>2. CASE ~\E w \in Worker : WorkerStep(w)
  <2>1. UNCHANGED wk
    BY <1>2 DEF Next, SelectorClaims, SelectorSends, SelectorSendFails, Recover, Publish,
                Request, EditReads, IngestWrites, RetryWrites, ReviveWrites, Tick, vars
  <2> QED  BY <2>1 DEF NoNewAnswer
<1> QED  BY <1>1, <1>2

\* Only a checkpoint changes the text or the answer of a run in use.
LEMMA TextStep ==
    ASSUME TypeInv, [Next]_vars, ~\E w \in Worker : SaveCheckpoint(w)
    PROVE  TextKept
<1>0. runs \in [Run -> RunRow]  BY DEF TypeInv, TypeOK
<1>1. ASSUME NEW a \in Article, NEW r \in Run, Claim(a, r) PROVE TextKept
  BY <1>0, <1>1 DEF Claim, TextKept
<1>2. ASSUME NEW r \in Run, NEW phase, Close(r, phase) PROVE TextKept
  BY <1>2, Closed DEF TextKept
<1>3. ASSUME NEW w \in Worker, Prepare(w) PROVE TextKept
  BY <1>0, <1>3 DEF Prepare, RunRow, TextKept
<1>4. ASSUME NEW w \in Worker, Commit(w) PROVE TextKept
  BY <1>2, <1>4 DEF Commit, TypeInv, WorkerRuns, ManagedPC
<1>5. CASE UNCHANGED runs  BY <1>5 DEF TextKept
<1>6. ASSUME NEW a \in Article, Recover(a) PROVE TextKept
  BY <1>2, <1>5, <1>6 DEF Recover
<1> QED  BY <1>1, <1>2, <1>3, <1>4, <1>5, <1>6, RunStep

\* Sourced is inductive.
LEMMA SourcedInvariant == Spec => [](TypeInv /\ ClaimInv /\ Sourced)
<1>1. Init => Sourced
  <2> SUFFICES ASSUME Init PROVE Sourced  OBVIOUS
  <2>1. \A w \in Worker : wk[w].pc = "idle"  BY Defaults DEF Init
  <2> QED  BY <2>1 DEF Sourced, Init
<1>2. TypeInv /\ ClaimInv /\ Sourced /\ [Next]_vars => Sourced'
  <2> SUFFICES ASSUME TypeInv, ClaimInv, Sourced, [Next]_vars PROVE Sourced'  OBVIOUS
  <2>0. runs \in [Run -> RunRow] /\ wk \in [Worker -> WorkerRow]  BY DEF TypeInv, TypeOK
  <2>1. CASE \E w \in Worker, x \in Answer : ProviderAnswers(w, x)
    <3>1. PICK w \in Worker, x \in Answer : ProviderAnswers(w, x)  BY <2>1
    <3>2. UNCHANGED runs /\ \A v \in Worker : v # w => wk'[v] = wk[v]
      BY <2>0, <3>1 DEF ProviderAnswers
    <3>3. wk'[w].run = wk[w].run /\ wk'[w].answer.body = runs[wk[w].run].body
      BY <2>0, <3>1 DEF ProviderAnswers, WorkerRow
    <3> QED  BY <3>2, <3>3 DEF Sourced
  <2>2. CASE \E w \in Worker : SaveCheckpoint(w)
    <3>1. PICK w \in Worker : SaveCheckpoint(w)  BY <2>2
    <3>2. wk[w].run \in Run /\ wk[w].pc = "answered"
      BY <3>1 DEF SaveCheckpoint, TypeInv, WorkerRuns, ManagedPC
    <3>3. \A v \in Worker : wk'[v] = wk[v] \/ wk'[v].pc # "answered"
      BY <2>0, <3>1 DEF SaveCheckpoint, Goto, WorkerRow
    <3>4. /\ \A s \in Run : s # wk[w].run => runs'[s] = runs[s]
          /\ runs'[wk[w].run].result = wk[w].answer
          /\ runs'[wk[w].run].body = runs[wk[w].run].body
      BY <2>0, <3>1, <3>2 DEF SaveCheckpoint, RunRow
    <3>5. \A r \in Run : runs'[r].body = runs[r].body  BY <3>4
    <3>6. \A r \in Run : runs'[r].result # NoText => runs'[r].result.body = runs'[r].body
      BY <3>2, <3>4 DEF Sourced
    <3>7. \A v \in Worker : wk[v].pc = "answered" => wk[v].run \in Run
      BY DEF TypeInv, WorkerRuns, ManagedPC
    <3> QED  BY <3>3, <3>5, <3>6, <3>7 DEF Sourced
  <2>3. CASE /\ ~\E w \in Worker, x \in Answer : ProviderAnswers(w, x)
             /\ ~\E w \in Worker : SaveCheckpoint(w)
    <3>1. TextKept  BY <2>3, TextStep
    <3>2. NoNewAnswer  BY <2>3, AnswerStep
    <3> QED  BY <3>1, <3>2, SourcedStep
  <2> QED  BY <2>1, <2>2, <2>3
<1> QED  BY <1>1, <1>2, ClaimInvariant, PTL DEF Spec

\* A managed commit puts a translation beside the text it was made from: the
\* answer belongs to the run's text and the row still has that text.
THEOREM CommitIsSourced == Spec => CommitMatchesSource
<1>1. ASSUME TypeInv, ClaimInv, Sourced, [Next]_vars, NEW r \in Run,
             runs[r].status = "started", runs'[r].status = "success"
      PROVE  LET row == art'[runs[r].article] IN row.zh # NoText /\ row.zh.body = row.body
  <2>0. runs \in [Run -> RunRow] /\ art \in [Article -> Row]  BY <1>1 DEF TypeInv, TypeOK
  <2>1. ~UNCHANGED runs  BY <1>1
  <2>2. ASSUME NEW a \in Article, NEW s \in Run, Claim(a, s) PROVE FALSE
    BY <1>1, <2>0, <2>2 DEF Claim
  <2>3. ASSUME NEW s \in Run, NEW phase, phase # "completed", Close(s, phase) PROVE FALSE
    BY <1>1, <2>3, Closed
  <2>4. ASSUME NEW a \in Article, Recover(a) PROVE FALSE
    BY <2>1, <2>3, <2>4 DEF Recover
  <2>5. ASSUME NEW w \in Worker, Prepare(w) \/ SaveCheckpoint(w) PROVE FALSE
    <3>1. runs'[r].status = runs[r].status
      BY <2>0, <2>5 DEF Prepare, SaveCheckpoint, RunRow
    <3> QED  BY <1>1, <3>1
  <2>6. ASSUME NEW w \in Worker, Commit(w)
        PROVE  LET row == art'[runs[r].article] IN row.zh # NoText /\ row.zh.body = row.body
    <3>1. wk[w].run \in Run /\ Close(wk[w].run, "completed")
      BY <1>1, <2>6 DEF Commit, TypeInv, WorkerRuns, ManagedPC
    <3>2. r = wk[w].run  BY <1>1, <3>1, Closed
    <3>3. /\ art[runs[r].article].body = runs[r].body /\ runs[r].result = wk[w].answer
          /\ art'[runs[r].article] = Translated(art[runs[r].article], wk[w].answer)
      BY <2>0, <2>6, <3>1, <3>2 DEF Commit, Fenced, RunRow
    <3>4. wk[w].answer \in Text  BY <1>1, <2>6 DEF Commit, ClaimInv, BusyShape
    <3>5. wk[w].answer # NoText /\ wk[w].answer.body = runs[r].body
      BY <1>1, <3>3, <3>4, ConstantsAssumption DEF ConstantsAssumption, Text, Sourced
    <3>6. art[runs[r].article] \in Row  BY <2>0 DEF RunRow
    <3>7. /\ art'[runs[r].article].zh = wk[w].answer
          /\ art'[runs[r].article].body = art[runs[r].article].body
      BY <3>3, <3>6 DEF Translated, Row
    <3> QED  BY <3>3, <3>5, <3>7
  <2> QED  BY <1>1, <2>1, <2>2, <2>3, <2>4, <2>5, <2>6, RunStep
<1>2. TypeInv /\ ClaimInv /\ Sourced /\ [Next]_vars =>
          [\A r \in Run :
              runs[r].status = "started" /\ runs'[r].status = "success" =>
                  LET row == art'[runs[r].article]
                  IN  row.zh # NoText /\ row.zh.body = row.body]_vars
  BY <1>1
<1> QED  BY <1>2, SourcedInvariant, PTL DEF Spec, CommitMatchesSource
-----------------------------------------------------------------------------
(* Provider errors.                                                        *)

\* A worker about to call has not been overtaken by a provider error of its run.
NotFailedYet == \A w \in Worker : wk[w].pc = "prepared" => runs[wk[w].run].phase # "failed"

ErrorKept(r) ==
    /\ IsError(r)' <=> IsError(r)
    /\ IsError(r) => runs'[r].article = runs[r].article

ErrorsStay == \A r \in Run : ErrorKept(r)

\* The request of run r has failed.
ErrorAdded(r) ==
    /\ ~IsError(r) /\ IsError(r)'
    /\ runs'[r].article = runs[r].article
    /\ \A s \in Run : s # r => ErrorKept(s)

\* Workers other than those that become "prepared" do not disturb NotFailedYet.
LEMMA NotFailedStep ==
    ASSUME NotFailedYet,
           \A w \in Worker : wk'[w] = wk[w] \/ wk'[w].pc # "prepared",
           \A w \in Worker : wk[w].pc = "prepared" /\ wk'[w].pc = "prepared" =>
               (runs'[wk[w].run].phase = "failed" => runs[wk[w].run].phase = "failed")
    PROVE  NotFailedYet'
<1> SUFFICES ASSUME NEW w \in Worker, wk'[w].pc = "prepared"
             PROVE  runs'[wk'[w].run].phase # "failed"
  BY DEF NotFailedYet
<1>1. wk'[w] = wk[w]  OBVIOUS
<1> QED  BY <1>1 DEF NotFailedYet

\* The request of a run fails: the run is one more error.
LEMMA FailedAdds ==
    ASSUME TypeInv, ClaimInv, NEW w \in Worker, NEW t \in BOOLEAN, ProviderFails(w, t)
    PROVE  wk[w].run \in Run /\ ErrorAdded(wk[w].run)
<1>1. /\ wk[w].run \in Run /\ wk[w].pc = "calling"
      /\ Close(wk[w].run, "failed") /\ UNCHANGED calls
  BY DEF ProviderFails, ManagedPC, TypeInv, WorkerRuns
<1>2. PICK r \in Run : r = wk[w].run  BY <1>1
<1>3. runs[r].status = "started"  BY <1>2 DEF ProviderFails, Fenced, Holds
<1>4. /\ \A s \in Run : s # r => runs'[s] = runs[s]
      /\ runs'[r].phase = "failed" /\ runs'[r].status = "failed"
      /\ runs'[r].article = runs[r].article
  BY <1>1, <1>2, Closed
<1>5. calls[r] = 1  BY <1>1, <1>2 DEF ClaimInv, BusyShape, Busy
<1>6. ~IsError(r) /\ IsError(r)'  BY <1>1, <1>3, <1>4, <1>5 DEF IsError
<1>7. ErrorAdded(r)  BY <1>1, <1>4, <1>6 DEF ErrorAdded, ErrorKept, IsError
<1> QED  BY <1>1, <1>2, <1>7

\* A step adds the run whose request has just failed to the errors, and
\* changes nothing else about them.
LEMMA ErrorsStep ==
    ASSUME TypeInv, ClaimInv, NotFailedYet, [Next]_vars
    PROVE  /\ NotFailedYet'
           /\ \/ ErrorsStay
              \/ \E w \in Worker, t \in BOOLEAN : ProviderFails(w, t) /\ ErrorAdded(wk[w].run)
<1> DEFINE Goal ==
             /\ NotFailedYet'
             /\ \/ ErrorsStay
                \/ \E w \in Worker, t \in BOOLEAN : ProviderFails(w, t) /\ ErrorAdded(wk[w].run)
<1>0. /\ runs \in [Run -> RunRow] /\ wk \in [Worker -> WorkerRow]
      /\ \A w \in Worker : wk[w].pc \in ManagedPC => wk[w].run \in Run
  BY DEF TypeInv, TypeOK, WorkerRuns
<1>f. ASSUME NEW w \in Worker, Finish(w)
      PROVE  \A v \in Worker : IF v = w THEN wk'[v].pc = "idle" ELSE wk'[v] = wk[v]
  BY <1>0, <1>f, Defaults DEF Finish
<1>g. ASSUME NEW w \in Worker, NEW pc, Goto(w, pc)
      PROVE  \A v \in Worker : IF v = w THEN wk'[v].pc = pc ELSE wk'[v] = wk[v]
  BY <1>0, <1>g DEF Goto, WorkerRow
<1> SUFFICES Goal  OBVIOUS
\* Runs and calls stay.
<1>s. ASSUME UNCHANGED <<runs, calls>>,
             \A w \in Worker : wk'[w] = wk[w] \/ wk'[w].pc # "prepared"
      PROVE  Goal
  <2>1. ErrorsStay  BY <1>s DEF ErrorsStay, ErrorKept, IsError
  <2>2. NotFailedYet'  BY <1>s, NotFailedStep
  <2> QED  BY <2>1, <2>2
\* One run changes, which is no error before and after.
<1>r. ASSUME NEW r \in Run, \A s \in Run : s # r => runs'[s] = runs[s] /\ calls'[s] = calls[s],
             ~IsError(r), ~IsError(r)'
      PROVE  ErrorsStay
  BY <1>r DEF ErrorsStay, ErrorKept, IsError
\* An open run is closed, but not by a provider error; nobody is about to
\* call for it if it "failed".
<1>c. ASSUME NEW r \in Run, NEW phase, Close(r, phase), runs[r].status = "started",
             phase = "failed" => calls[r] = 0 /\ runs[r].phase = "claimed", UNCHANGED calls,
             \A w \in Worker : wk'[w] = wk[w] \/ wk'[w].pc # "prepared"
      PROVE  Goal
  <2>1. /\ \A s \in Run : s # r => runs'[s] = runs[s]
        /\ runs'[r].phase = phase
    BY <1>c, Closed
  <2>2. ~IsError(r) /\ ~IsError(r)'  BY <1>c, <2>1 DEF IsError
  <2>3. ErrorsStay  BY <1>c, <1>r, <2>1, <2>2
  <2>4. \A w \in Worker : wk[w].pc = "prepared" => runs[wk[w].run].phase # "claimed"
    BY DEF ClaimInv, BusyShape, Busy
  <2>5. NotFailedYet'
    BY <1>0, <1>c, <2>1, <2>4, NotFailedStep DEF ManagedPC
  <2> QED  BY <2>3, <2>5
\* An unused run is claimed.
<1>k. ASSUME NEW a \in Article, NEW r \in Run, Claim(a, r), UNCHANGED calls,
             \A w \in Worker : wk'[w] = wk[w] \/ wk'[w].pc # "prepared"
      PROVE  Goal
  <2>1. /\ \A s \in Run : s # r => runs'[s] = runs[s]
        /\ runs[r].status = "none" /\ runs'[r].status = "started"
        /\ runs'[r].phase = "claimed"
    BY <1>0, <1>k DEF Claim
  <2>2. ~IsError(r) /\ ~IsError(r)'  BY <2>1 DEF IsError
  <2>3. ErrorsStay  BY <1>k, <1>r, <2>1, <2>2
  <2>4. NotFailedYet'  BY <1>0, <1>k, <2>1, NotFailedStep DEF ManagedPC
  <2> QED  BY <2>3, <2>4
<1>1. ASSUME NEW w \in Worker,
             \/ \E m \in Message : Deliver(w, m)
             \/ \E x \in Answer : ProviderAnswers(w, x) \/ OrdinaryAnswers(w, x)
             \/ \E t \in BOOLEAN : OrdinaryFails(w, t)
             \/ Refused(w) \/ Crash(w) \/ StartOrdinary(w)
      PROVE  Goal
  <2>1. UNCHANGED <<runs, calls>>
    BY <1>1 DEF Deliver, ProviderAnswers, OrdinaryAnswers, OrdinaryFails, Refused, Crash,
                StartOrdinary
  <2>2. \A v \in Worker : wk'[v] = wk[v] \/ wk'[v].pc # "prepared"
    <3>1. ASSUME NEW m \in Message, Deliver(w, m)
          PROVE  \A v \in Worker : wk'[v] = wk[v] \/ wk'[v].pc # "prepared"
      BY <1>0, <3>1, Defaults DEF Deliver, WorkerRow
    <3>2. ASSUME NEW x \in Answer, ProviderAnswers(w, x)
          PROVE  \A v \in Worker : wk'[v] = wk[v] \/ wk'[v].pc # "prepared"
      BY <1>0, <3>2 DEF ProviderAnswers, WorkerRow
    <3>3. CASE \/ Refused(w)
               \/ \E x \in Answer : OrdinaryAnswers(w, x)
               \/ \E t \in BOOLEAN : OrdinaryFails(w, t)
      BY <1>f, <3>3 DEF Refused, OrdinaryAnswers, OrdinaryFails
    <3>4. CASE Crash(w)  BY <1>0, <3>4, Defaults DEF Crash
    <3>5. CASE StartOrdinary(w)  BY <1>0, <3>5 DEF StartOrdinary, WorkerRow
    <3> QED  BY <1>1, <3>1, <3>2, <3>3, <3>4, <3>5
  <2> QED  BY <1>s, <2>1, <2>2
<1>2. ASSUME NEW w \in Worker, SaveCheckpoint(w) PROVE Goal
  <2>1. wk[w].run \in Run /\ UNCHANGED calls
    BY <1>0, <1>2 DEF SaveCheckpoint, ManagedPC
  <2>2. \A s \in Run : /\ runs'[s].status = runs[s].status /\ runs'[s].phase = runs[s].phase
                       /\ runs'[s].article = runs[s].article
    BY <1>0, <1>2, <2>1 DEF SaveCheckpoint, RunRow
  <2>3. ErrorsStay  BY <2>1, <2>2 DEF ErrorsStay, ErrorKept, IsError
  <2>4. \A v \in Worker : wk'[v] = wk[v] \/ wk'[v].pc # "prepared"
    BY <1>2, <1>g DEF SaveCheckpoint
  <2>5. NotFailedYet'  BY <1>0, <2>2, <2>4, NotFailedStep DEF ManagedPC
  <2> QED  BY <2>3, <2>5
<1>3. ASSUME NEW w \in Worker, CallProvider(w) PROVE Goal
  <2>1. wk[w].pc = "prepared" /\ wk[w].run \in Run /\ UNCHANGED runs
    BY <1>0, <1>3 DEF CallProvider, ManagedPC
  <2>2. runs[wk[w].run].phase # "failed"  BY <2>1 DEF NotFailedYet
  <2>3. \A s \in Run : s # wk[w].run => calls'[s] = calls[s]
    BY <1>3, <2>1 DEF CallProvider, TypeInv, TypeOK
  <2>4. PICK r \in Run : r = wk[w].run  BY <2>1
  <2>5. ~IsError(r) /\ ~IsError(r)'  BY <2>1, <2>2, <2>4 DEF IsError
  <2>6. ErrorsStay  BY <1>r, <2>1, <2>3, <2>4, <2>5
  <2>7. \A v \in Worker : wk'[v] = wk[v] \/ wk'[v].pc # "prepared"
    BY <1>3, <1>g DEF CallProvider
  <2>8. NotFailedYet'  BY <2>1, <2>7, NotFailedStep
  <2> QED  BY <2>6, <2>8
<1>4. ASSUME NEW w \in Worker, Prepare(w) PROVE Goal
  <2>1. /\ wk[w].pc = "holding" /\ wk[w].run \in Run /\ UNCHANGED calls
        /\ runs[wk[w].run].status = "started"
    BY <1>0, <1>4 DEF Prepare, ManagedPC, Fenced, Holds
  <2>2. PICK r \in Run : r = wk[w].run  BY <2>1
  <2>3. CASE UNCHANGED runs
    <3>1. \A v \in Worker : wk'[v] = wk[v] \/ wk'[v].pc # "prepared"
      <4>1. CASE runs[r].phase = "claimed"
        <5>1. runs'[r].phase = "executing"  BY <1>0, <1>4, <2>2, <4>1 DEF Prepare, RunRow
        <5> QED  BY <2>3, <4>1, <5>1
      <4>2. CASE runs[r].phase # "claimed"
        BY <1>0, <1>4, <2>2, <4>2 DEF Prepare, WorkerRow
      <4> QED  BY <4>1, <4>2
    <3> QED  BY <1>s, <2>1, <2>3, <3>1
  <2>4. CASE Goto(w, "prepared")
             /\ runs' = [runs EXCEPT ![r] = [@ EXCEPT !.phase = "executing"]]
    <3>1. runs'[r].phase = "executing" /\ runs'[r].status = runs[r].status
      BY <1>0, <2>4 DEF RunRow
    <3>2. \A s \in Run : s # r => runs'[s] = runs[s]  BY <1>0, <2>4
    <3>3. ~IsError(r) /\ ~IsError(r)'  BY <2>1, <2>2, <3>1 DEF IsError
    <3>4. ErrorsStay  BY <1>r, <2>1, <3>2, <3>3
    <3>5. \A v \in Worker : wk'[v].run = wk[v].run  BY <1>0, <2>4 DEF Goto, WorkerRow
    <3>6. \A v \in Worker : v # w => wk'[v] = wk[v]  BY <1>g, <2>4
    <3>7. NotFailedYet'
      BY <1>0, <2>2, <3>1, <3>2, <3>5, <3>6 DEF NotFailedYet, ManagedPC
    <3> QED  BY <3>4, <3>7
  <2> QED  BY <1>4, <2>2, <2>3, <2>4 DEF Prepare
<1>5. ASSUME NEW w \in Worker, Commit(w) PROVE Goal
  <2>1. /\ wk[w].run \in Run /\ Finish(w) /\ UNCHANGED calls /\ Close(wk[w].run, "completed")
        /\ runs[wk[w].run].status = "started"
    BY <1>0, <1>5 DEF Commit, ManagedPC, Fenced, Holds
  <2>2. \A v \in Worker : wk'[v] = wk[v] \/ wk'[v].pc # "prepared"  BY <1>f, <2>1
  <2> QED  BY <1>c, <2>1, <2>2
<1>6. ASSUME NEW w \in Worker, NEW t \in BOOLEAN, ProviderFails(w, t) PROVE Goal
  <2>1. /\ wk[w].run \in Run /\ wk[w].pc = "calling" /\ Finish(w) /\ UNCHANGED calls
        /\ Close(wk[w].run, "failed") /\ runs[wk[w].run].status = "started"
    BY <1>0, <1>6 DEF ProviderFails, ManagedPC, Fenced, Holds
  <2>2. PICK r \in Run : r = wk[w].run  BY <2>1
  <2>3. \A s \in Run : s # r => runs'[s] = runs[s]  BY <2>1, <2>2, Closed
  <2>6. ErrorAdded(r)  BY <1>6, <2>2, FailedAdds
  <2>7. \A v \in Worker : wk'[v] = wk[v] \/ wk'[v].pc # "prepared"  BY <1>f, <2>1
  <2>8. \A v \in Worker : wk[v].pc = "prepared" => wk[v].run # r
    BY <2>1, <2>2 DEF ClaimInv, Exclusive, Busy
  <2>9. NotFailedYet'  BY <1>0, <2>3, <2>7, <2>8, NotFailedStep DEF ManagedPC
  <2> QED  BY <1>6, <2>2, <2>6, <2>9
<1>7. ASSUME NEW a \in Article, Recover(a) PROVE Goal
  <2>1. /\ UNCHANGED <<calls, wk>>
        /\ \/ UNCHANGED runs
           \/ \E r \in Run : runs[r].status = "started" /\ Close(r, "interrupted")
    BY <1>7 DEF Recover
  <2> QED  BY <1>c, <1>s, <2>1
<1>8. ASSUME NEW a \in Article, NEW r \in Run, SelectorClaims(a, r) PROVE Goal
  BY <1>8, <1>k DEF SelectorClaims
<1>9. ASSUME NEW r \in Run, SelectorSendFails(r) PROVE Goal
  <2>1. UNCHANGED <<calls, wk>>  BY <1>9 DEF SelectorSendFails
  <2>2. CASE Holds(r) /\ runs[r].phase = "claimed"
    <3>1. calls[r] = 0  BY <2>2 DEF ClaimInv, RunShape
    <3>2. Close(r, "failed") /\ runs[r].status = "started"
      BY <1>9, <2>2 DEF SelectorSendFails, Holds
    <3> QED  BY <1>c, <2>1, <2>2, <3>1, <3>2
  <2>3. CASE ~(Holds(r) /\ runs[r].phase = "claimed")
    BY <1>9, <1>s, <2>1, <2>3 DEF SelectorSendFails
  <2> QED  BY <2>2, <2>3
<1>10. ASSUME NEW w \in Worker, NEW r \in Run, WorkerClaims(w, r) PROVE Goal
  <2> DEFINE a == wk[w].msg.article
  <2>1. a \in Article /\ UNCHANGED calls
    BY <1>10, <1>0 DEF WorkerClaims, WorkerRow, Message
  <2>2. CASE Claimable(a, wk[w].copy.due)
    <3>1. Claim(a, r) /\ wk' = [wk EXCEPT ![w] = [wk[w] EXCEPT !.pc = "holding", !.run = r,
                                                                !.copy = NoRow]]
      BY <1>10, <2>2 DEF WorkerClaims
    <3>2. \A v \in Worker : wk'[v] = wk[v] \/ wk'[v].pc # "prepared"
      BY <1>0, <3>1 DEF WorkerRow
    <3> QED  BY <1>k, <2>1, <3>1, <3>2
  <2>3. CASE ~Claimable(a, wk[w].copy.due)
    BY <1>10, <1>f, <1>s, <2>3 DEF WorkerClaims
  <2> QED  BY <2>2, <2>3
<1>11. CASE \/ \E r \in Run : SelectorSends(r)
            \/ \E a \in Article : Publish(a)
            \/ \E a \in Article, f \in BOOLEAN : Request(a, f)
            \/ \E k \in EditKind, a \in Article : EditReads(k, a)
            \/ \E b \in Body : IngestWrites(b)
            \/ RetryWrites \/ ReviveWrites \/ Tick \/ UNCHANGED vars
  <2>1. UNCHANGED <<runs, calls, wk>>
    BY <1>11 DEF SelectorSends, Publish, Request, EditReads, IngestWrites, RetryWrites,
                 ReviveWrites, Tick, vars
  <2> QED  BY <1>s, <2>1
<1>12. ASSUME NEW w \in Worker, WorkerStep(w) PROVE Goal
  BY <1>1, <1>2, <1>3, <1>4, <1>5, <1>6, <1>10, <1>12 DEF WorkerStep
<1> HIDE DEF Goal
<1> QED  BY <1>7, <1>8, <1>9, <1>11, <1>12 DEF Next

-----------------------------------------------------------------------------
(* Where the counts come from.                                             *)

\* The failure of a provider counts in the article of its run only.
LEMMA FailureCounts ==
    ASSUME TypeInv, NEW w \in Worker, NEW t \in BOOLEAN, ProviderFails(w, t)
    PROVE  /\ wk[w].run \in Run /\ runs[wk[w].run].article \in Article
           /\ \A a \in Article :
                  art'[a].count = IF a = runs[wk[w].run].article THEN art[a].count + 1
                                  ELSE art[a].count
<1>1. wk[w].run \in Run  BY DEF ProviderFails, TypeInv, WorkerRuns, ManagedPC
<1>2. PICK r \in Run : r = wk[w].run  BY <1>1
<1>3. runs[r].article \in Article /\ art \in [Article -> Row]
  BY DEF TypeInv, TypeOK, RunRow
<1>4. art' = [art EXCEPT ![runs[r].article] = Failed(@, t, TRUE, FALSE)]
  BY <1>2 DEF ProviderFails
<1>5. Failed(art[runs[r].article], t, TRUE, FALSE).count = art[runs[r].article].count + 1
  BY <1>3 DEF Failed, Attempts, Row
<1> QED  BY <1>2, <1>3, <1>4, <1>5

\* Any other step leaves the count of an article or takes it from a copy that
\* somebody read of the row.
CountFromCopy(a) ==
    \/ art'[a].count = art[a].count
    \/ \E w \in Worker : /\ wk[w].pc = "ordinary" /\ wk[w].msg.article = a
                         /\ art'[a].count = wk[w].copy.count
    \/ /\ editor.kind = "ingest" /\ editor.article = a
       /\ art'[a].count = editor.copy.count

LEMMA CountSource ==
    ASSUME TypeInv, [Next]_vars, NEW a \in Article,
           ~\E w \in Worker, t \in BOOLEAN : ProviderFails(w, t)
    PROVE  CountFromCopy(a)
<1>0. /\ art \in [Article -> Row]
      /\ \A w \in Worker : /\ wk[w] \in WorkerRow /\ wk[w].copy \in Row
                           /\ wk[w].msg.article \in Article
      /\ editor.article \in Article /\ editor.copy \in Row
  BY DEF TypeInv, TypeOK, WorkerRow, Message, Edit
<1>1. CASE UNCHANGED art  BY <1>1 DEF CountFromCopy
\* One row gets a new value, with the count it had.
<1>u. ASSUME NEW b \in Article, NEW row, art' = [art EXCEPT ![b] = row],
             row.count = art[b].count
      PROVE  CountFromCopy(a)
  BY <1>0, <1>u DEF CountFromCopy
<1>2. ASSUME NEW b \in Article, NEW r \in Run, Claim(b, r) PROVE CountFromCopy(a)
  <2>1. [Started(art[b]) EXCEPT !.due = Never].count = art[b].count
    BY <1>0 DEF Started, Row
  <2> QED  BY <1>2, <1>u, <2>1 DEF Claim
<1>3. ASSUME NEW w \in Worker, NEW r \in Run, WorkerClaims(w, r) PROVE CountFromCopy(a)
  <2>1. UNCHANGED art \/ Claim(wk[w].msg.article, r)  BY <1>3 DEF WorkerClaims
  <2> QED  BY <1>0, <1>1, <1>2, <2>1
<1>4. ASSUME NEW w \in Worker, Commit(w) PROVE CountFromCopy(a)
  <2>1. runs[wk[w].run].article \in Article
    BY <1>4 DEF Commit, TypeInv, TypeOK, WorkerRuns, ManagedPC, RunRow
  <2>2. \A row \in Row : Translated(row, wk[w].answer).count = row.count
    BY DEF Translated, Row
  <2> QED  BY <1>0, <1>4, <1>u, <2>1, <2>2 DEF Commit
<1>5. ASSUME NEW w \in Worker, StartOrdinary(w) PROVE CountFromCopy(a)
  <2>1. \A row \in Row : Started(row).count = row.count  BY DEF Started, Row
  <2> QED  BY <1>0, <1>5, <1>u, <2>1 DEF StartOrdinary
<1>6. ASSUME NEW w \in Worker, NEW x \in Answer, OrdinaryAnswers(w, x) PROVE CountFromCopy(a)
  <2> DEFINE row == Translated(wk[w].copy, [body |-> wk[w].copy.body, word |-> x])
  <2>1. row.count = wk[w].copy.count  BY <1>0 DEF Translated, Row
  <2>2. art' = [art EXCEPT ![wk[w].msg.article] = row] /\ wk[w].pc = "ordinary"
    BY <1>6 DEF OrdinaryAnswers
  <2> HIDE DEF row
  <2> QED  BY <1>0, <2>1, <2>2 DEF CountFromCopy
<1>7. ASSUME NEW w \in Worker, NEW t \in BOOLEAN, OrdinaryFails(w, t) PROVE CountFromCopy(a)
  <2> DEFINE b == wk[w].msg.article
             row == FailureFields(art[b], Failed(wk[w].copy, t, FALSE, ForcePublished(w)))
  <2>1. row.count = wk[w].copy.count
    <3>1. Failed(wk[w].copy, t, FALSE, ForcePublished(w)).count = wk[w].copy.count
      BY <1>0 DEF Failed, Attempts, Row
    <3>2. \A old \in Row : \A new : FailureFields(old, new).count = new.count
      BY DEF FailureFields, Row
    <3> QED  BY <1>0, <3>1, <3>2
  <2>2. art' = [art EXCEPT ![b] = row] /\ wk[w].pc = "ordinary"  BY <1>7 DEF OrdinaryFails
  <2> HIDE DEF row
  <2> QED  BY <1>0, <2>1, <2>2 DEF CountFromCopy
<1>8. ASSUME NEW b \in Article, Recover(b) PROVE CountFromCopy(a)
  <2>1. Failed(art[b], TRUE, FALSE, FALSE).count = art[b].count
    BY <1>0 DEF Failed, Attempts, Row
  <2> QED  BY <1>8, <1>u, <2>1 DEF Recover
<1>9. ASSUME NEW r \in Run, SelectorSendFails(r) PROVE CountFromCopy(a)
  <2>1. UNCHANGED art
        \/ art' = [art EXCEPT ![runs[r].article] = Released(@, runs[r].claimedAt)]
    BY <1>9 DEF SelectorSendFails
  <2>2. runs[r].article \in Article  BY DEF TypeInv, TypeOK, RunRow
  <2>3. \A row \in Row : Released(row, runs[r].claimedAt).count = row.count
    BY DEF Released, Row
  <2> QED  BY <1>0, <1>1, <1>u, <2>1, <2>2, <2>3
<1>10. ASSUME NEW b \in Article, Publish(b) PROVE CountFromCopy(a)
  <2>1. [art[b] EXCEPT !.workflow = "published"].count = art[b].count  BY <1>0 DEF Row
  <2> QED  BY <1>10, <1>u, <2>1 DEF Publish
<1>11. ASSUME NEW b \in Body, IngestWrites(b) PROVE CountFromCopy(a)
  <2> DEFINE row == [editor.copy EXCEPT !.body = b]
  <2>1. row.count = editor.copy.count  BY <1>0 DEF Row
  <2>2. art' = [art EXCEPT ![editor.article] = row] /\ editor.kind = "ingest"
    BY <1>11 DEF IngestWrites
  <2> HIDE DEF row
  <2> QED  BY <1>0, <2>1, <2>2 DEF CountFromCopy
<1>12. CASE RetryWrites \/ ReviveWrites
  <2>1. \A row \in Row : Reopened(row).count = row.count /\ Revived(row).count = row.count
    BY DEF Reopened, Revived, Row
  <2> QED  BY <1>0, <1>12, <1>u, <2>1 DEF RetryWrites, ReviveWrites
<1>13. ASSUME NEW b \in Article, NEW r \in Run, SelectorClaims(b, r) PROVE CountFromCopy(a)
  BY <1>2, <1>13 DEF SelectorClaims
<1>14. ASSUME NEW w \in Worker, WorkerStep(w) PROVE CountFromCopy(a)
  <2>1. CASE \/ \E m \in Message : Deliver(w, m)
             \/ \E x \in Answer : ProviderAnswers(w, x)
             \/ Prepare(w) \/ CallProvider(w) \/ SaveCheckpoint(w) \/ Refused(w) \/ Crash(w)
    BY <1>1, <2>1 DEF Deliver, ProviderAnswers, Prepare, CallProvider, SaveCheckpoint, Refused,
                      Crash
  <2> QED  BY <1>3, <1>4, <1>5, <1>6, <1>7, <1>14, <2>1 DEF WorkerStep
<1>15. CASE \/ \E r \in Run : SelectorSends(r)
            \/ \E b \in Article, f \in BOOLEAN : Request(b, f)
            \/ \E k \in EditKind, b \in Article : EditReads(k, b)
            \/ Tick \/ UNCHANGED vars
  BY <1>1, <1>15 DEF SelectorSends, Request, EditReads, Tick, vars
<1> QED  BY <1>8, <1>9, <1>10, <1>11, <1>12, <1>13, <1>14, <1>15 DEF Next

\* A copy is kept with the article it was read of, dropped, or read anew.
CopyKept(w) ==
    \/ /\ wk'[w].copy.count = wk[w].copy.count
       /\ wk'[w].msg.article = wk[w].msg.article
    \/ /\ wk'[w].copy.count = 0 /\ wk'[w].msg.article \in Article
    \/ /\ wk'[w].msg.article \in Article
       /\ wk'[w].copy.count = art[wk'[w].msg.article].count

EditKept ==
    \/ UNCHANGED editor
    \/ editor'.copy.count = 0 /\ editor'.article \in Article
    \/ editor'.article \in Article /\ editor'.copy.count = art[editor'.article].count

LEMMA CopySource ==
    ASSUME TypeInv, [Next]_vars
    PROVE  (\A w \in Worker : CopyKept(w)) /\ EditKept
<1>0. /\ wk \in [Worker -> WorkerRow] /\ NoRow.count = 0
      /\ \A w \in Worker : wk[w].msg \in Message /\ wk[w].copy \in Row
      /\ IdleWorker.copy.count = 0 /\ IdleWorker.msg.article \in Article
      /\ NoEdit.copy.count = 0 /\ NoEdit.article \in Article
  BY Defaults DEF TypeInv, TypeOK, WorkerRow, IdleWorker, NoEdit, NoRow, NewRow, Message, Edit
<1>1. ASSUME NEW w \in Worker, NEW new, wk' = [wk EXCEPT ![w] = new],
             \/ new.copy.count = wk[w].copy.count /\ new.msg.article = wk[w].msg.article
             \/ new.copy.count = 0 /\ new.msg.article \in Article
             \/ new.msg.article \in Article /\ new.copy.count = art[new.msg.article].count
      PROVE  \A v \in Worker : CopyKept(v)
  <2>1. wk'[w] = new /\ \A v \in Worker : v # w => wk'[v] = wk[v]  BY <1>0, <1>1
  <2> QED  BY <1>1, <2>1 DEF CopyKept
<1>2. ASSUME UNCHANGED wk PROVE \A v \in Worker : CopyKept(v)
  BY <1>2 DEF CopyKept
<1>3. ASSUME NEW w \in Worker, Finish(w) PROVE \A v \in Worker : CopyKept(v)
  BY <1>0, <1>1, <1>3 DEF Finish
<1>4. ASSUME NEW w \in Worker, NEW pc, Goto(w, pc) PROVE \A v \in Worker : CopyKept(v)
  <2>1. /\ [wk[w] EXCEPT !.pc = pc].copy = wk[w].copy
        /\ [wk[w] EXCEPT !.pc = pc].msg = wk[w].msg
    BY <1>0 DEF WorkerRow
  <2> QED  BY <1>1, <1>4, <2>1 DEF Goto
<1>5. ASSUME NEW w \in Worker, WorkerStep(w) PROVE \A v \in Worker : CopyKept(v)
  <2>1. ASSUME NEW m \in Message, Deliver(w, m) PROVE \A v \in Worker : CopyKept(v)
    <3> DEFINE held == [IdleWorker EXCEPT !.pc = "holding", !.msg = m, !.run = m.run]
               read == [IdleWorker EXCEPT !.pc = "read", !.msg = m, !.copy = art[m.article]]
    <3>1. /\ held.copy.count = 0 /\ held.msg.article \in Article
          /\ read.msg.article \in Article /\ read.copy.count = art[read.msg.article].count
      BY <1>0, Defaults DEF IdleWorker, Message
    <3>2. UNCHANGED wk \/ wk' = [wk EXCEPT ![w] = held] \/ wk' = [wk EXCEPT ![w] = read]
      BY <2>1 DEF Deliver
    <3> HIDE DEF held, read
    <3> QED  BY <1>1, <1>2, <3>1, <3>2
  <2>2. ASSUME NEW r \in Run, WorkerClaims(w, r) PROVE \A v \in Worker : CopyKept(v)
    <3> DEFINE new == [wk[w] EXCEPT !.pc = "holding", !.run = r, !.copy = NoRow]
    <3>1. new.copy.count = 0 /\ new.msg.article \in Article
      BY <1>0 DEF WorkerRow, Message
    <3>2. Finish(w) \/ wk' = [wk EXCEPT ![w] = new]  BY <2>2 DEF WorkerClaims
    <3> HIDE DEF new
    <3> QED  BY <1>1, <1>3, <3>1, <3>2
  <2>3. CASE Prepare(w)
    <3> DEFINE new == [wk[w] EXCEPT !.pc = "saved", !.answer = runs[wk[w].run].result]
    <3>1. new.copy = wk[w].copy /\ new.msg = wk[w].msg  BY <1>0 DEF WorkerRow
    <3>2. Goto(w, "prepared") \/ wk' = [wk EXCEPT ![w] = new]  BY <2>3 DEF Prepare
    <3> HIDE DEF new
    <3> QED  BY <1>1, <1>4, <3>1, <3>2
  <2>4. ASSUME NEW x \in Answer, ProviderAnswers(w, x) PROVE \A v \in Worker : CopyKept(v)
    <3> DEFINE new == [wk[w] EXCEPT !.pc = "answered",
                                    !.answer = [body |-> runs[wk[w].run].body, word |-> x]]
    <3>1. new.copy = wk[w].copy /\ new.msg = wk[w].msg  BY <1>0 DEF WorkerRow
    <3>2. wk' = [wk EXCEPT ![w] = new]  BY <2>4 DEF ProviderAnswers
    <3> HIDE DEF new
    <3> QED  BY <1>1, <3>1, <3>2
  <2>5. CASE StartOrdinary(w)
    <3> DEFINE new == [wk[w] EXCEPT !.pc = "ordinary", !.copy = Started(wk[w].copy)]
    <3>1. new.copy.count = wk[w].copy.count /\ new.msg = wk[w].msg
      BY <1>0 DEF WorkerRow, Started, Row
    <3>2. wk' = [wk EXCEPT ![w] = new]  BY <2>5 DEF StartOrdinary
    <3> HIDE DEF new
    <3> QED  BY <1>1, <3>1, <3>2
  <2>6. CASE Crash(w)  BY <1>0, <1>1, <2>6 DEF Crash
  <2>7. CASE CallProvider(w) \/ SaveCheckpoint(w)
    BY <1>4, <2>7 DEF CallProvider, SaveCheckpoint
  <2>8. CASE \/ Commit(w) \/ Refused(w)
             \/ \E t \in BOOLEAN : ProviderFails(w, t) \/ OrdinaryFails(w, t)
             \/ \E x \in Answer : OrdinaryAnswers(w, x)
    BY <1>3, <2>8 DEF Commit, Refused, ProviderFails, OrdinaryFails, OrdinaryAnswers
  <2> QED
    BY <1>5, <2>1, <2>2, <2>3, <2>4, <2>5, <2>6, <2>7, <2>8 DEF WorkerStep
<1>6. ASSUME ~\E w \in Worker : WorkerStep(w) PROVE \A v \in Worker : CopyKept(v)
  <2>1. UNCHANGED wk
    BY <1>6 DEF Next, SelectorClaims, SelectorSends, SelectorSendFails, Recover, Publish,
                Request, EditReads, IngestWrites, RetryWrites, ReviveWrites, Tick, vars
  <2> QED  BY <1>2, <2>1
<1>7. EditKept
  <2>1. ASSUME NEW k \in EditKind, NEW a \in Article, EditReads(k, a) PROVE EditKept
    BY <2>1 DEF EditReads, EditKept
  <2>2. CASE EditorDone  BY <1>0, <2>2 DEF EditorDone, EditKept
  <2>3. CASE UNCHANGED editor  BY <2>3 DEF EditKept
  <2>4. ASSUME NEW w \in Worker, WorkerStep(w) PROVE UNCHANGED editor
    BY <2>4 DEF WorkerStep, Deliver, WorkerClaims, Prepare, CallProvider, ProviderAnswers,
                OrdinaryAnswers, ProviderFails, OrdinaryFails, SaveCheckpoint, Commit, Refused,
                StartOrdinary, Crash
  <2>5. CASE \/ \E a \in Article, r \in Run : SelectorClaims(a, r)
             \/ \E r \in Run : SelectorSends(r) \/ SelectorSendFails(r)
             \/ \E a \in Article : Recover(a) \/ Publish(a)
             \/ \E a \in Article, f \in BOOLEAN : Request(a, f)
             \/ Tick \/ UNCHANGED vars
    BY <2>3, <2>5 DEF SelectorClaims, SelectorSends, SelectorSendFails, Recover, Publish,
                      Request, Tick, vars
  <2>6. CASE (\E b \in Body : IngestWrites(b)) \/ RetryWrites \/ ReviveWrites
    BY <2>2, <2>6 DEF IngestWrites, RetryWrites, ReviveWrites
  <2> QED  BY <2>1, <2>3, <2>4, <2>5, <2>6 DEF Next
<1> QED  BY <1>5, <1>6, <1>7

-----------------------------------------------------------------------------
(* No article is charged with an error it has not had.                     *)

Earned(n, a) == n <= Cardinality(Errors(a))

\* The count of every row and of every copy of it that may be written back.
EarnedInv ==
    /\ TypeInv /\ ClaimInv /\ NotFailedYet
    /\ \A a \in Article : IsFiniteSet(Errors(a)) /\ Earned(art[a].count, a)
    /\ \A w \in Worker : Earned(wk[w].copy.count, wk[w].msg.article)
    /\ Earned(editor.copy.count, editor.article)

\* The errors of an article stay, or grow by the run that has just failed.
LEMMA ErrorsGrow ==
    ASSUME NEW a \in Article, IsFiniteSet(Errors(a)),
           ErrorsStay \/ \E r \in Run : ErrorAdded(r)
    PROVE  /\ IsFiniteSet(Errors(a)')
           /\ Cardinality(Errors(a)) \in Nat /\ Cardinality(Errors(a)') \in Nat
           /\ Cardinality(Errors(a)) <= Cardinality(Errors(a)')
           /\ \A r \in Run : ErrorAdded(r) /\ runs[r].article = a =>
                  Cardinality(Errors(a)') = Cardinality(Errors(a)) + 1
<1>1. ASSUME NEW r \in Run, ErrorAdded(r), runs[r].article = a
      PROVE  /\ IsFiniteSet(Errors(a)')
             /\ Cardinality(Errors(a)') = Cardinality(Errors(a)) + 1
  <2>1. Errors(a)' = Errors(a) \cup {r} /\ r \notin Errors(a)
    BY <1>1 DEF ErrorAdded, ErrorKept, Errors
  <2> QED  BY <2>1, FS_AddElement
<1>2. ASSUME NEW r \in Run, ErrorAdded(r), runs[r].article # a PROVE Errors(a)' = Errors(a)
  BY <1>2 DEF ErrorAdded, ErrorKept, Errors
<1>3. CASE ErrorsStay
  <2>1. Errors(a)' = Errors(a)  BY <1>3 DEF ErrorsStay, ErrorKept, Errors
  <2>2. \A r \in Run : ~ErrorAdded(r)  BY <1>3 DEF ErrorsStay, ErrorKept, ErrorAdded
  <2> QED  BY <2>1, <2>2, FS_CardinalityType
<1>4. Cardinality(Errors(a)) \in Nat  BY FS_CardinalityType
<1>5. ASSUME NEW r \in Run, ErrorAdded(r), NEW s \in Run, ErrorAdded(s) PROVE r = s
  BY <1>5 DEF ErrorAdded, ErrorKept
<1>6. ASSUME NEW r \in Run, ErrorAdded(r)
      PROVE  /\ IsFiniteSet(Errors(a)')
             /\ Cardinality(Errors(a)') \in Nat
             /\ Cardinality(Errors(a)) <= Cardinality(Errors(a)')
             /\ runs[r].article = a => Cardinality(Errors(a)') = Cardinality(Errors(a)) + 1
  BY <1>1, <1>2, <1>4, <1>6
<1>7. CASE \E r \in Run : ErrorAdded(r)
  BY <1>4, <1>5, <1>6, <1>7
<1> QED  BY <1>3, <1>7

LEMMA EarnedStep ==
    ASSUME EarnedInv, [Next]_vars, TypeInv'
    PROVE  /\ NotFailedYet'
           /\ \A a \in Article : IsFiniteSet(Errors(a)') /\ Earned(art[a].count, a)'
           /\ \A w \in Worker : Earned(wk[w].copy.count, wk[w].msg.article)'
           /\ Earned(editor.copy.count, editor.article)'
<1>1. /\ NotFailedYet'
      /\ \/ ErrorsStay
         \/ \E w \in Worker, t \in BOOLEAN : ProviderFails(w, t) /\ ErrorAdded(wk[w].run)
  BY ErrorsStep DEF EarnedInv
<1>2. ErrorsStay \/ \E r \in Run : ErrorAdded(r)
  BY <1>1, FailureCounts DEF EarnedInv
<1>3. ASSUME NEW a \in Article
      PROVE  /\ IsFiniteSet(Errors(a)')
             /\ Cardinality(Errors(a)) \in Nat /\ Cardinality(Errors(a)') \in Nat
             /\ Cardinality(Errors(a)) <= Cardinality(Errors(a)')
  BY <1>2, ErrorsGrow DEF EarnedInv
\* What was earned stays earned.
<1>4. ASSUME NEW a \in Article, NEW n \in Nat, Earned(n, a) PROVE n <= Cardinality(Errors(a)')
  BY <1>3, <1>4 DEF Earned
<1>5. /\ \A a \in Article : art[a].count \in Nat /\ art'[a].count \in Nat
      /\ \A w \in Worker : wk[w].copy.count \in Nat /\ wk[w].msg.article \in Article
      /\ editor.copy.count \in Nat /\ editor.article \in Article
  BY DEF EarnedInv, TypeInv, TypeOK, WorkerRow, Message, Edit, Row
<1>6. ASSUME NEW a \in Article PROVE art'[a].count <= Cardinality(Errors(a)')
  <2>1. ASSUME NEW w \in Worker, NEW t \in BOOLEAN, ProviderFails(w, t)
        PROVE  art'[a].count <= Cardinality(Errors(a)')
    <3>1. /\ wk[w].run \in Run
          /\ art'[a].count = IF a = runs[wk[w].run].article THEN art[a].count + 1
                             ELSE art[a].count
      BY <2>1, FailureCounts DEF EarnedInv
    <3>2. CASE a # runs[wk[w].run].article
      BY <1>4, <1>5, <3>1, <3>2 DEF EarnedInv
    <3>3. CASE a = runs[wk[w].run].article
      <4>1. PICK r \in Run : r = wk[w].run  BY <3>1
      <4>2. ErrorAdded(r)  BY <1>1, <2>1, <4>1, FailedAdds DEF EarnedInv
      <4>3. Cardinality(Errors(a)') = Cardinality(Errors(a)) + 1
        BY <3>3, <4>1, <4>2, ErrorsGrow DEF EarnedInv
      <4>4. art[a].count <= Cardinality(Errors(a))  BY DEF EarnedInv, Earned
      <4> QED  BY <1>3, <1>5, <3>1, <3>3, <4>3, <4>4
    <3> QED  BY <3>2, <3>3
  <2>2. CASE CountFromCopy(a)
    BY <1>4, <1>5, <2>2 DEF CountFromCopy, EarnedInv
  <2> QED  BY <2>1, <2>2, CountSource DEF EarnedInv
<1>7. ASSUME NEW w \in Worker PROVE Earned(wk[w].copy.count, wk[w].msg.article)'
  <2>1. CopyKept(w)  BY CopySource DEF EarnedInv
  <2>2. PICK a \in Article : a = wk'[w].msg.article
    BY DEF TypeInv, TypeOK, WorkerRow, Message
  <2>3. wk'[w].copy.count <= Cardinality(Errors(a)')
    BY <1>3, <1>4, <1>5, <2>1, <2>2 DEF CopyKept, EarnedInv
  <2>4. Errors(wk[w].msg.article)' = Errors(a)'  BY <2>2 DEF Errors
  <2> QED  BY <2>3, <2>4 DEF Earned
<1>8. Earned(editor.copy.count, editor.article)'
  <2>1. EditKept  BY CopySource DEF EarnedInv
  <2>2. PICK a \in Article : a = editor'.article  BY DEF TypeInv, TypeOK, Edit
  <2>3. editor'.copy.count <= Cardinality(Errors(a)')
    BY <1>3, <1>4, <1>5, <2>1, <2>2 DEF EditKept, EarnedInv
  <2>4. Errors(editor.article)' = Errors(a)'  BY <2>2 DEF Errors
  <2> QED  BY <2>3, <2>4 DEF Earned
<1>9. ASSUME NEW a \in Article PROVE Earned(art[a].count, a)'
  BY <1>6 DEF Earned
<1> QED  BY <1>1, <1>3, <1>7, <1>8, <1>9

\* No article is ever charged with more attempts than were paid for and
\* failed, although ordinary workers and ingestion save whole rows from old
\* copies (record_translation_failure, upsert_article_from_draft): every
\* count that may still be written back was earned before it was read.
THEOREM CountEarned == Spec => []CountIsEarned
<1>1. Init => /\ NotFailedYet
              /\ \A a \in Article : IsFiniteSet(Errors(a)) /\ Earned(art[a].count, a)
              /\ \A w \in Worker : Earned(wk[w].copy.count, wk[w].msg.article)
              /\ Earned(editor.copy.count, editor.article)
  <2> SUFFICES ASSUME Init
               PROVE  /\ NotFailedYet
                      /\ \A a \in Article : IsFiniteSet(Errors(a)) /\ Earned(art[a].count, a)
                      /\ \A w \in Worker : Earned(wk[w].copy.count, wk[w].msg.article)
                      /\ Earned(editor.copy.count, editor.article)
    OBVIOUS
  <2>1. \A a : Errors(a) = {}  BY DEF Init, Errors, IsError
  <2>2. \A a : IsFiniteSet(Errors(a)) /\ Earned(0, a)
    BY <2>1, FS_EmptySet DEF Earned
  <2>3. /\ \A a \in Article : art[a].count = 0
        /\ \A w \in Worker : wk[w].copy.count = 0 /\ wk[w].pc = "idle"
        /\ editor.copy.count = 0
    <3>1. NoRow.count = 0  BY Defaults DEF NoRow, NewRow
    <3>2. FailedRow.count = NoRow.count  BY Defaults DEF FailedRow, Row
    <3> QED  BY <3>1, <3>2 DEF Init, IdleWorker, NoEdit
  <2> QED  BY <2>2, <2>3 DEF NotFailedYet
<1>2. TypeInv' /\ EarnedInv /\ [Next]_vars =>
          /\ NotFailedYet'
          /\ \A a \in Article : IsFiniteSet(Errors(a)') /\ Earned(art[a].count, a)'
          /\ \A w \in Worker : Earned(wk[w].copy.count, wk[w].msg.article)'
          /\ Earned(editor.copy.count, editor.article)'
  BY EarnedStep
<1>3. TypeInv' /\ ClaimInv' /\ EarnedInv /\ [Next]_vars => EarnedInv'
  BY <1>2 DEF EarnedInv
<1>4. TypeInv /\ ClaimInv /\ Init => EarnedInv  BY <1>1 DEF EarnedInv
<1>5. EarnedInv => CountIsEarned  BY DEF EarnedInv, Earned, CountIsEarned
<1> QED  BY <1>3, <1>4, <1>5, ClaimInvariant, PTL DEF Spec

-----------------------------------------------------------------------------
(* The retry count, where nothing but managed runs writes the row: without *)
(* ordinary requests and without edits.                                    *)

\* Without requests and edits every message is a claim's and every worker is
\* in the managed path.
ManagedOnly ==
    /\ editor.kind = "idle"
    /\ \A m \in inbox : m.run # NoRun
    /\ \A w \in Worker : wk[w].pc \notin {"read", "ordinary"}

Counts == \A a \in Article : IsFiniteSet(Errors(a)) /\ art[a].count = Cardinality(Errors(a))

CountInv == TypeInv /\ ClaimInv /\ ManagedOnly /\ NotFailedYet /\ Counts

\* What the steps do to messages and workers.
LEMMA ManagedStep ==
    ASSUME Requests = {}, Editing = {}, TypeInv, ManagedOnly, [Next]_vars
    PROVE  ManagedOnly'
<1> USE DEF ManagedOnly
<1>0. wk \in [Worker -> WorkerRow] /\ outbox \subseteq Run /\ NoRun \notin Run
  BY ConstantsAssumption DEF ConstantsAssumption, TypeInv, TypeOK
<1>1. ASSUME NEW w \in Worker, WorkerStep(w) PROVE ManagedOnly'
  <2> USE <1>0, Defaults DEF WorkerRow
  <2>0. wk[w].pc \notin {"read", "ordinary"}  OBVIOUS
  <2>1. CASE Finish(w) /\ UNCHANGED editor  BY <2>1 DEF Finish
  <2>2. ASSUME NEW pc, pc \notin {"read", "ordinary"}, Goto(w, pc), UNCHANGED <<inbox, editor>>
        PROVE  ManagedOnly'
    BY <2>2 DEF Goto
  <2>3. ASSUME NEW m \in Message, Deliver(w, m) PROVE ManagedOnly'
    <3>1. m.run # NoRun /\ inbox' = inbox /\ editor' = editor  BY <2>3 DEF Deliver
    <3>2. wk' = [wk EXCEPT ![w] = [IdleWorker EXCEPT !.pc = "holding", !.msg = m,
                                                     !.run = m.run]]
      BY <2>3, <3>1 DEF Deliver
    <3>3. wk'[w].pc = "holding" /\ \A v \in Worker : v # w => wk'[v] = wk[v]  BY <3>2
    <3> QED  BY <3>1, <3>3
  <2>4. CASE Prepare(w)  BY <2>2, <2>4 DEF Prepare
  <2>5. CASE CallProvider(w) \/ SaveCheckpoint(w)
    BY <2>2, <2>5 DEF CallProvider, SaveCheckpoint
  <2>6. CASE \/ Commit(w) \/ Refused(w) \/ \E t \in BOOLEAN : ProviderFails(w, t)
    BY <2>1, <2>6 DEF Commit, Refused, ProviderFails
  <2>7. ASSUME NEW x \in Answer, ProviderAnswers(w, x) PROVE ManagedOnly'
    BY <2>7 DEF ProviderAnswers
  <2>8. CASE Crash(w)  BY <2>8 DEF Crash
  <2>9. CASE \/ StartOrdinary(w) \/ \E r \in Run : WorkerClaims(w, r)
             \/ \E x \in Answer : OrdinaryAnswers(w, x)
             \/ \E t \in BOOLEAN : OrdinaryFails(w, t)
    BY <2>0, <2>9 DEF StartOrdinary, WorkerClaims, OrdinaryAnswers, OrdinaryFails
  <2> QED
    BY <1>1, <2>3, <2>4, <2>5, <2>6, <2>7, <2>8, <2>9 DEF WorkerStep
<1>2. ASSUME NEW r \in Run, SelectorSends(r) \/ SelectorSendFails(r) PROVE ManagedOnly'
  BY <1>0, <1>2 DEF SelectorSends, SelectorSendFails, ManagedMessage
<1>3. CASE \/ \E a \in Article, r \in Run : SelectorClaims(a, r)
           \/ \E a \in Article : Recover(a) \/ Publish(a)
           \/ Tick \/ UNCHANGED vars
  BY <1>3 DEF SelectorClaims, Recover, Publish, Tick, vars
<1>4. ~\/ \E a \in Article, f \in BOOLEAN : Request(a, f)
       \/ \E k \in EditKind, a \in Article : EditReads(k, a)
       \/ \E b \in Body : IngestWrites(b)
       \/ RetryWrites \/ ReviveWrites
  BY DEF Request, EditReads, IngestWrites, RetryWrites, ReviveWrites
<1> QED  BY <1>1, <1>2, <1>3, <1>4 DEF Next

\* Every step counts what it does.
LEMMA CountStep ==
    ASSUME CountInv, [Next]_vars
    PROVE  Counts' /\ NotFailedYet'
<1>1. /\ NotFailedYet'
      /\ \/ ErrorsStay
         \/ \E w \in Worker, t \in BOOLEAN : ProviderFails(w, t) /\ ErrorAdded(wk[w].run)
  BY ErrorsStep DEF CountInv
<1>2. CASE ErrorsStay
  <2>1. ASSUME NEW w \in Worker, NEW t \in BOOLEAN, ProviderFails(w, t) PROVE FALSE
    <3>1. PICK r \in Run : ErrorAdded(r)  BY <2>1, FailedAdds DEF CountInv
    <3> QED  BY <1>2, <3>1 DEF ErrorsStay, ErrorAdded, ErrorKept
  <2>2. \A a \in Article : CountFromCopy(a)  BY <2>1, CountSource DEF CountInv
  <2>3. \A a \in Article : art'[a].count = art[a].count
    BY <2>2 DEF CountFromCopy, CountInv, ManagedOnly
  <2>4. \A a \in Article : Errors(a)' = Errors(a)
    BY <1>2 DEF ErrorsStay, ErrorKept, Errors
  <2> QED  BY <1>1, <2>3, <2>4 DEF CountInv, Counts
<1>3. ASSUME NEW w \in Worker, NEW t \in BOOLEAN, ProviderFails(w, t)
      PROVE  Counts'
  <2>1. /\ wk[w].run \in Run
        /\ \A a \in Article :
               art'[a].count = IF a = runs[wk[w].run].article THEN art[a].count + 1
                               ELSE art[a].count
    BY <1>3, FailureCounts DEF CountInv
  <2>2. PICK r \in Run : r = wk[w].run /\ ErrorAdded(r)
    BY <1>3, FailedAdds DEF CountInv
  <2>3. ASSUME NEW a \in Article
        PROVE  IsFiniteSet(Errors(a)') /\ art'[a].count = Cardinality(Errors(a)')
    <3>1. CASE a = runs[r].article
      <4>1. Errors(a)' = Errors(a) \cup {r} /\ r \notin Errors(a)
        BY <2>2, <3>1 DEF ErrorAdded, ErrorKept, Errors
      <4>2. art'[a].count = art[a].count + 1  BY <2>1, <2>2, <3>1
      <4>3. IsFiniteSet(Errors(a)) /\ art[a].count = Cardinality(Errors(a))
        BY DEF CountInv, Counts
      <4>4. IsFiniteSet(Errors(a)') /\ Cardinality(Errors(a)') = Cardinality(Errors(a)) + 1
        BY <4>1, <4>3, FS_AddElement
      <4> QED  BY <4>2, <4>3, <4>4
    <3>2. CASE a # runs[r].article
      <4>1. Errors(a)' = Errors(a)
        BY <2>2, <3>2 DEF ErrorAdded, ErrorKept, Errors
      <4> QED  BY <2>1, <2>2, <3>2, <4>1 DEF CountInv, Counts
    <3> QED  BY <3>1, <3>2
  <2> QED  BY <2>3 DEF Counts
<1> QED  BY <1>1, <1>2, <1>3

-----------------------------------------------------------------------------
(* Open claims and attempts, still where nothing but managed runs writes.  *)

\* Every open run passes the claim check, every article being translated has
\* an open run, and no claim is stamped with NULL.
OpenInv ==
    /\ \A r \in Run : runs[r].status = "started" => Holds(r)
    /\ \A r \in Run : runs[r].status # "none" => runs[r].claimedAt # Never
    /\ \A a \in Article :
           art[a].status = "translating" =>
               \E r \in Run : runs[r].status = "started" /\ runs[r].article = a

\* An article has attempts left, or was given up after the last of them.
AttemptsInv ==
    \A a \in Article :
        \/ art[a].count < MaxAttempts
        \/ art[a].count = MaxAttempts /\ art[a].status = "failed" /\ art[a].exhausted

RunKept(r) == /\ runs'[r].status = runs[r].status
              /\ runs'[r].article = runs[r].article
              /\ runs'[r].claimedAt = runs[r].claimedAt

\* A row that was being translated is given back, with or without an attempt.
GivenBack(old, row) ==
    /\ row.status \in {"failed", "translated"}
    /\ \/ row.count = old.count
       \/ /\ row.count = old.count + 1 /\ row.status = "failed"
          /\ row.count >= MaxAttempts => row.exhausted

\* The claim that holds an article ends.
ClaimEnds(r, phase, row) ==
    /\ Holds(r) /\ Close(r, phase)
    /\ art' = [art EXCEPT ![runs[r].article] = row]
    /\ GivenBack(art[runs[r].article], row)

\* How a step of the managed path writes articles and runs.
LEMMA ManagedWrites ==
    ASSUME TypeInv, ManagedOnly, OpenInv, [Next]_vars
    PROVE  \/ UNCHANGED art /\ \A r \in Run : RunKept(r)
           \/ \E a \in Article : Publish(a)
           \/ \E a \in Article, r \in Run :
                  Claim(a, r) /\ art[a].status = "failed" /\ ~art[a].exhausted
           \/ \E r \in Run : \E phase, row : ClaimEnds(r, phase, row)
<1> DEFINE Goal == \/ UNCHANGED art /\ \A r \in Run : RunKept(r)
                   \/ \E a \in Article : Publish(a)
                   \/ \E a \in Article, r \in Run :
                          Claim(a, r) /\ art[a].status = "failed" /\ ~art[a].exhausted
                   \/ \E r \in Run : \E phase, row : ClaimEnds(r, phase, row)
<1> SUFFICES Goal  OBVIOUS
<1>0. /\ art \in [Article -> Row] /\ runs \in [Run -> RunRow]
      /\ \A w \in Worker : wk[w].pc \in ManagedPC => wk[w].run \in Run
      /\ \A r \in Run : runs[r].article \in Article
      /\ MaxAttempts \in Nat
  BY ConstantsAssumption DEF TypeInv, TypeOK, WorkerRuns, RunRow, ConstantsAssumption
<1>1. CASE UNCHANGED <<art, runs>>  BY <1>1 DEF RunKept
\* A worker consumes a claim or stores an answer.
<1>2. ASSUME NEW w \in Worker, Prepare(w) \/ SaveCheckpoint(w) PROVE Goal
  <2>1. UNCHANGED art /\ wk[w].run \in Run
    BY <1>0, <1>2 DEF Prepare, SaveCheckpoint, ManagedPC
  <2>2. PICK r \in Run : r = wk[w].run  BY <2>1
  <2>3. \/ UNCHANGED runs
        \/ runs' = [runs EXCEPT ![r] = [@ EXCEPT !.phase = "executing"]]
        \/ runs' = [runs EXCEPT ![r] = [@ EXCEPT !.result = wk[w].answer]]
    BY <1>2, <2>2 DEF Prepare, SaveCheckpoint
  <2>4. \A s \in Run : RunKept(s)  BY <1>0, <2>3 DEF RunKept, RunRow
  <2> QED  BY <2>1, <2>4
\* A failure charged to the article, or not.
<1>3. ASSUME NEW b \in Article, NEW t \in BOOLEAN, NEW retry \in BOOLEAN
      PROVE  GivenBack(art[b], Failed(art[b], t, retry, FALSE))
  BY <1>0 DEF GivenBack, Failed, Exhausts, Attempts, Row
<1>4. ASSUME NEW w \in Worker, Commit(w) PROVE Goal
  <2>1. PICK r \in Run : r = wk[w].run  BY <1>0, <1>4 DEF Commit, ManagedPC
  <2>2. GivenBack(art[runs[r].article], Translated(art[runs[r].article], wk[w].answer))
    BY <1>0 DEF GivenBack, Translated, Row
  <2>3. ClaimEnds(r, "completed", Translated(art[runs[r].article], wk[w].answer))
    BY <1>4, <2>1, <2>2 DEF Commit, Fenced, ClaimEnds
  <2> QED  BY <2>3
<1>5. ASSUME NEW w \in Worker, NEW t \in BOOLEAN, ProviderFails(w, t) PROVE Goal
  <2>1. PICK r \in Run : r = wk[w].run  BY <1>0, <1>5 DEF ProviderFails, ManagedPC
  <2>2. ClaimEnds(r, "failed", Failed(art[runs[r].article], t, TRUE, FALSE))
    BY <1>0, <1>3, <1>5, <2>1 DEF ProviderFails, Fenced, ClaimEnds
  <2> QED  BY <2>2
<1>6. ASSUME NEW r \in Run, SelectorSendFails(r) PROVE Goal
  <2>1. CASE Holds(r) /\ runs[r].phase = "claimed"
    <3>1. GivenBack(art[runs[r].article], Released(art[runs[r].article], runs[r].claimedAt))
      BY <1>0 DEF GivenBack, Released, Row
    <3>2. ClaimEnds(r, "failed", Released(art[runs[r].article], runs[r].claimedAt))
      BY <1>6, <2>1, <3>1 DEF SelectorSendFails, ClaimEnds
    <3> QED  BY <3>2
  <2>2. CASE ~(Holds(r) /\ runs[r].phase = "claimed")
    BY <1>1, <1>6, <2>2 DEF SelectorSendFails
  <2> QED  BY <2>1, <2>2
<1>7. ASSUME NEW a \in Article, Recover(a) PROVE Goal
  <2>1. /\ art[a].status = "translating"
        /\ art' = [art EXCEPT ![a] = Failed(@, TRUE, FALSE, FALSE)]
    BY <1>7 DEF Recover
  <2>2. PICK r \in Run : /\ runs[r].status = "started" /\ runs[r].article = a
                         /\ Close(r, "interrupted")
    <3>1. {r \in Run : runs[r].status = "started" /\ runs[r].article = a} # {}
      BY <2>1 DEF OpenInv
    <3> QED  BY <1>7, <3>1 DEF Recover
  <2>3. Holds(r)  BY <2>2 DEF OpenInv
  <2>4. ClaimEnds(r, "interrupted", Failed(art[a], TRUE, FALSE, FALSE))
    BY <1>3, <2>1, <2>2, <2>3 DEF ClaimEnds
  <2> QED  BY <2>4
<1>8. ASSUME NEW a \in Article, NEW r \in Run, SelectorClaims(a, r) PROVE Goal
  BY <1>8 DEF SelectorClaims, Claimable
<1>9. ASSUME NEW w \in Worker, WorkerStep(w) PROVE Goal
  <2>1. CASE \/ CallProvider(w) \/ Refused(w) \/ Crash(w)
             \/ \E m \in Message : Deliver(w, m)
             \/ \E x \in Answer : ProviderAnswers(w, x)
    BY <1>1, <2>1 DEF CallProvider, Refused, Crash, Deliver, ProviderAnswers
  <2>2. CASE \/ StartOrdinary(w) \/ \E r \in Run : WorkerClaims(w, r)
             \/ \E x \in Answer : OrdinaryAnswers(w, x)
             \/ \E t \in BOOLEAN : OrdinaryFails(w, t)
    BY <2>2 DEF ManagedOnly, StartOrdinary, WorkerClaims, OrdinaryAnswers, OrdinaryFails
  <2> QED  BY <1>2, <1>4, <1>5, <1>9, <2>1, <2>2 DEF WorkerStep
<1>10. CASE \/ \E r \in Run : SelectorSends(r)
            \/ \E a \in Article, f \in BOOLEAN : Request(a, f)
            \/ \E k \in EditKind, a \in Article : EditReads(k, a)
            \/ Tick \/ UNCHANGED vars
  BY <1>1, <1>10 DEF SelectorSends, Request, EditReads, Tick, vars
<1>11. ~((\E b \in Body : IngestWrites(b)) \/ RetryWrites \/ ReviveWrites)
  BY DEF ManagedOnly, IngestWrites, RetryWrites, ReviveWrites
<1>12. ASSUME NEW a \in Article, Publish(a) PROVE Goal  BY <1>12
<1> HIDE DEF Goal
<1> QED  BY <1>6, <1>7, <1>8, <1>9, <1>10, <1>11, <1>12 DEF Next

\* What a claim writes.
LEMMA Claimed ==
    ASSUME TypeInv, NEW a \in Article, NEW r \in Run, Claim(a, r)
    PROVE  /\ runs[r].status = "none" /\ runs'[r].status = "started"
           /\ runs'[r].article = a /\ runs'[r].claimedAt = now
           /\ \A s \in Run : s # r => runs'[s] = runs[s]
           /\ art'[a].status = "translating" /\ art'[a].started = now
           /\ art'[a].count = art[a].count
           /\ \A b \in Article : b # a => art'[b] = art[b]
  BY DEF Claim, Started, TypeInv, TypeOK, RunRow, Row

\* The open claims stay open claims.
LEMMA OpenStep ==
    ASSUME TypeInv, ClaimInv, ManagedOnly, OpenInv, [Next]_vars
    PROVE  OpenInv'
<1>0. /\ art \in [Article -> Row] /\ runs \in [Run -> RunRow] /\ now # Never
      /\ \A r \in Run : runs[r].article \in Article
  BY DEF TypeInv, TypeOK, RunRow, Never
<1>1. CASE UNCHANGED art /\ \A r \in Run : RunKept(r)
  BY <1>1 DEF OpenInv, RunKept, Holds
<1>2. ASSUME NEW a \in Article, Publish(a) PROVE OpenInv'
  <2>1. /\ UNCHANGED runs /\ art'[a].status = "translated" /\ art[a].status = "translated"
        /\ \A b \in Article : b # a => art'[b] = art[b]
    BY <1>0, <1>2 DEF Publish, Row
  <2> QED  BY <1>0, <2>1 DEF OpenInv, Holds
<1>3. ASSUME NEW a \in Article, NEW r \in Run, Claim(a, r), art[a].status = "failed"
      PROVE  OpenInv'
  <2>1. \A s \in Run : runs[s].status = "started" => runs[s].article # a
    BY <1>3 DEF OpenInv, Holds
  <2> QED  BY <1>0, <1>3, <2>1, Claimed DEF OpenInv, Holds
<1>4. ASSUME NEW r \in Run, NEW phase, NEW row, ClaimEnds(r, phase, row) PROVE OpenInv'
  <2> DEFINE a == runs[r].article
  <2>1. /\ \A s \in Run : s # r => runs'[s] = runs[s]
        /\ runs'[r].status \in {"success", "failed"}
        /\ runs'[r].article = a /\ runs'[r].claimedAt = runs[r].claimedAt
    BY <1>0, <1>4 DEF ClaimEnds, Close, RunRow
  <2>2. /\ art'[a].status \in {"failed", "translated"}
        /\ \A b \in Article : b # a => art'[b] = art[b]
    BY <1>0, <1>4 DEF ClaimEnds, GivenBack
  <2>3. Holds(r)  BY <1>4 DEF ClaimEnds
  \* No other open run is one of the article.
  <2>4. ASSUME NEW s \in Run, s # r, runs[s].status = "started" PROVE runs[s].article # a
    BY <2>3, <2>4 DEF OpenInv, Holds, ClaimInv, Stamps
  <2>5. \A s \in Run : runs'[s].status = "started" => s # r  BY <2>1
  <2> HIDE DEF a
  <2>6. ASSUME NEW s \in Run, runs'[s].status = "started" PROVE Holds(s)'
    BY <1>0, <2>1, <2>2, <2>4, <2>5, <2>6 DEF OpenInv, Holds
  <2>7. ASSUME NEW b \in Article, art'[b].status = "translating"
        PROVE  \E s \in Run : runs'[s].status = "started" /\ runs'[s].article = b
    <3>1. b # a /\ art[b].status = "translating"  BY <2>2, <2>7
    <3>2. PICK s \in Run : runs[s].status = "started" /\ runs[s].article = b
      BY <3>1 DEF OpenInv
    <3>3. s # r  BY <3>1, <3>2 DEF a
    <3> QED  BY <2>1, <3>2, <3>3
  <2>8. \A s \in Run : runs'[s].status # "none" => runs'[s].claimedAt # Never
    BY <2>1, <2>3 DEF OpenInv, Holds
  <2> QED  BY <2>6, <2>7, <2>8 DEF OpenInv
<1> QED  BY <1>1, <1>2, <1>3, <1>4, ManagedWrites

\* Attempts are charged to rows that had one left.
LEMMA AttemptsStep ==
    ASSUME TypeInv, ManagedOnly, OpenInv, AttemptsInv, [Next]_vars
    PROVE  AttemptsInv'
<1>0. /\ art \in [Article -> Row] /\ MaxAttempts \in Nat
      /\ \A r \in Run : runs[r].article \in Article
      /\ \A a \in Article : art[a].count \in Nat
  BY ConstantsAssumption DEF TypeInv, TypeOK, RunRow, Row, ConstantsAssumption
<1>1. CASE UNCHANGED art  BY <1>1 DEF AttemptsInv
<1>2. ASSUME NEW a \in Article, Publish(a) PROVE AttemptsInv'
  <2>1. /\ art'[a].count = art[a].count /\ art[a].status = "translated"
        /\ \A b \in Article : b # a => art'[b] = art[b]
    BY <1>0, <1>2 DEF Publish, Row
  <2> QED  BY <2>1 DEF AttemptsInv
<1>3. ASSUME NEW a \in Article, NEW r \in Run, Claim(a, r), ~art[a].exhausted
      PROVE  AttemptsInv'
  BY <1>3, Claimed DEF AttemptsInv
<1>4. ASSUME NEW r \in Run, NEW phase, NEW row, ClaimEnds(r, phase, row) PROVE AttemptsInv'
  <2>1. PICK a \in Article : a = runs[r].article  BY <1>0
  <2>2. /\ art[a].status = "translating" /\ GivenBack(art[a], row)
        /\ art'[a] = row /\ \A b \in Article : b # a => art'[b] = art[b]
    BY <1>0, <1>4, <2>1 DEF ClaimEnds, Holds
  <2>3. art[a].count < MaxAttempts  BY <2>2 DEF AttemptsInv
  <2>4. \/ row.count < MaxAttempts
        \/ row.count = MaxAttempts /\ row.status = "failed" /\ row.exhausted
    BY <1>0, <2>2, <2>3 DEF GivenBack
  <2> QED  BY <2>2, <2>4 DEF AttemptsInv
<1> QED  BY <1>1, <1>2, <1>3, <1>4, ManagedWrites

LEMMA ManagedInvariant ==
    ASSUME Requests = {}, Editing = {}
    PROVE  Spec => [](CountInv /\ OpenInv /\ AttemptsInv)
<1>1. Init => ManagedOnly /\ NotFailedYet /\ Counts /\ OpenInv /\ AttemptsInv
  <2> SUFFICES ASSUME Init
               PROVE  ManagedOnly /\ NotFailedYet /\ Counts /\ OpenInv /\ AttemptsInv
    OBVIOUS
  <2>1. \A a \in Article : Errors(a) = {}  BY DEF Errors, IsError, Init
  <2>2. \A a \in Article : art[a].count = 0 /\ art[a].status # "translating"
    <3>1. NoRow.count = 0 /\ NoRow.status = "pending"  BY DEF NoRow, NewRow
    <3>2. FailedRow.count = NoRow.count /\ FailedRow.status = "failed"
      BY Defaults DEF FailedRow, Row
    <3> QED  BY <3>1, <3>2 DEF Init
  <2>3. ManagedOnly /\ NotFailedYet
    BY Defaults DEF Init, ManagedOnly, NotFailedYet, NoEdit
  <2>4. Counts  BY <2>1, <2>2, FS_EmptySet DEF Counts
  <2>5. OpenInv  BY <2>2 DEF Init, OpenInv
  <2>6. AttemptsInv  BY <2>2, ConstantsAssumption DEF AttemptsInv, ConstantsAssumption
  <2> QED  BY <2>3, <2>4, <2>5, <2>6
<1>2. CountInv /\ OpenInv /\ AttemptsInv /\ [Next]_vars =>
          (ManagedOnly /\ NotFailedYet /\ Counts /\ OpenInv /\ AttemptsInv)'
  BY ManagedStep, CountStep, OpenStep, AttemptsStep DEF CountInv
<1> QED  BY <1>1, <1>2, ClaimInvariant, PTL DEF Spec, CountInv

\* No provider error is counted twice or lost, and nothing else is counted,
\* whatever is redelivered, taken over or killed - as long as nobody writes
\* the row who does not hold a claim.
THEOREM ErrorsAreCounted ==
    ASSUME Requests = {}, Editing = {}
    PROVE  Spec => []CountsProviderErrors
<1>1. CountInv => CountsProviderErrors
  BY DEF CountInv, Counts, CountsProviderErrors
<1> QED  BY <1>1, ManagedInvariant, PTL

\* Then an article pays for MaxAttempts failed requests at the most: the count
\* that record_translation_failure compares with the limit is the number of
\* them, and an exhausted row is not claimed again (claim_translation_retry).
THEOREM AttemptsAreBounded ==
    ASSUME Requests = {}, Editing = {}
    PROVE  Spec => [](\A a \in Article : Cardinality(Errors(a)) <= MaxAttempts)
<1>1. CountInv /\ AttemptsInv => \A a \in Article : Cardinality(Errors(a)) <= MaxAttempts
  <2>1. TypeInv => \A a \in Article : art[a].count \in Nat
    BY DEF TypeInv, TypeOK, Row
  <2> QED  BY <2>1, ConstantsAssumption DEF CountInv, Counts, AttemptsInv, ConstantsAssumption
<1> QED  BY <1>1, ManagedInvariant, PTL

\* Then, too, stale recovery finds what it looks for: an article being
\* translated has a start time and one open run, which carries that time, so
\* recover_one_stale_translation never gives up on an ambiguous or orphaned
\* claim (the safety half of StaleIsRecovered; a revival breaks it).
THEOREM StaleIsRecoverable ==
    ASSUME Requests = {}, Editing = {}
    PROVE  Spec => [](\A a \in Article : art[a].status = "translating" =>
                         /\ art[a].started # Never
                         /\ \E r \in Run :
                                /\ {s \in Run : runs[s].status = "started"
                                                /\ runs[s].article = a} = {r}
                                /\ runs[r].claimedAt = art[a].started)
<1>1. ASSUME CountInv, OpenInv, NEW a \in Article, art[a].status = "translating"
      PROVE  /\ art[a].started # Never
             /\ \E r \in Run :
                    /\ {s \in Run : runs[s].status = "started" /\ runs[s].article = a} = {r}
                    /\ runs[r].claimedAt = art[a].started
  <2>1. PICK r \in Run : runs[r].status = "started" /\ runs[r].article = a
    BY <1>1 DEF OpenInv
  <2>2. runs[r].claimedAt = art[a].started /\ runs[r].claimedAt # Never
    BY <1>1, <2>1 DEF OpenInv, Holds
  <2>3. ASSUME NEW s \in Run, runs[s].status = "started", runs[s].article = a PROVE s = r
    BY <1>1, <2>1, <2>3 DEF OpenInv, Holds, CountInv, ClaimInv, Stamps
  <2>4. {s \in Run : runs[s].status = "started" /\ runs[s].article = a} = {r}
    BY <2>1, <2>3
  <2> QED  BY <2>2, <2>4
<1>2. CountInv /\ OpenInv => \A a \in Article : art[a].status = "translating" =>
          /\ art[a].started # Never
          /\ \E r \in Run :
                 /\ {s \in Run : runs[s].status = "started" /\ runs[s].article = a} = {r}
                 /\ runs[r].claimedAt = art[a].started
  BY <1>1
<1> QED  BY <1>2, ManagedInvariant, PTL
=============================================================================
