-------------------------- MODULE ResultReviewProofs --------------------------
(***************************************************************************)
(* Proofs about ResultReview, for any number of workers, races, bundles    *)
(* and slots: types, MailedIsOnRecord, ReviewsAreSerial and NeverBlocked.  *)
(***************************************************************************)
EXTENDS ResultReview, TLAPS

Closed == {"prepared", "notified"}

\* A directory that was not written has no contents.
BlankOK ==
    \A b \in Bundle :
        ~bundle[b].written =>
            /\ ~bundle[b].mailed
            /\ \A e \in Event : bundle[b].frozen[e] = None /\ bundle[b].approved[e] = None

\* What a worker has written is its own slot's, and a worker that is to mail
\* it has put it on record.
WorkerOK ==
    \A w \in Worker : LET l == worker[w] IN
        /\ l.bundle # NoBundle => /\ bundle[l.bundle].written
                                  /\ bundle[l.bundle].slot = l.slot
        /\ l.step \in {"claim", "prepare"} => l.bundle = NoBundle
        /\ l.step \in {"mail", "notify"} =>
            /\ l.bundle # NoBundle
            /\ run[l.slot].bundle = l.bundle /\ run[l.slot].status \in Closed

\* Approvals are versions the race has had.
ApprovedOK ==
    \A b \in Bundle, e \in Event : bundle[b].approved[e] <= event[e].version

IInv ==
    /\ TypeOK /\ BlankOK /\ WorkerOK /\ ApprovedOK
    /\ MailedIsOnRecord /\ ReviewsAreSerial

-----------------------------------------------------------------------------

\* Nothing is claimed, written or approved at first.
LEMMA InitIInv == Init => IInv
  BY ReviewAssumption DEF Init, IInv, TypeOK, BlankOK, WorkerOK, ApprovedOK, MailedIsOnRecord,
     ReviewsAreSerial, Run, NoRun, Local, Idle, Contents, Result, None, Slot

\* A claim writes a row.
LEMMA ClaimType ==
    ASSUME NEW w \in Worker, NEW t \in 0 .. Horizon
    PROVE  [NoRun EXCEPT !.status = "claimed", !.holder = w, !.lease = t + Lease] \in Run
<1>1. None \in 0 .. Horizon + Lease /\ t + Lease \in 0 .. Horizon + Lease
  BY ReviewAssumption DEF None
<1>2. QED
  BY <1>1 DEF NoRun, Run

\* What ends a claim keeps the type of the row.
LEMMA EndTypes ==
    ASSUME NEW r \in Run, NEW b \in Bundle \cup {NoBundle}, NEW p \in {"noop", "prepared"}
    PROVE  /\ [r EXCEPT !.status = "failed", !.lease = None, !.receipt = TRUE] \in Run
           /\ [r EXCEPT !.status = p, !.bundle = b, !.lease = None, !.receipt = TRUE] \in Run
<1>1. None \in 0 .. Horizon + Lease
  BY ReviewAssumption DEF None
<1>2. QED
  BY <1>1 DEF Run

\* Reconciliation touches claimed rows only.
LEMMA ReconcileRows ==
    ASSUME TypeOK, Reconcile
    PROVE  /\ run' \in [Slot -> Run]
           /\ \A s \in Slot : run[s].status # "claimed" => run'[s] = run[s]
<1>1. ASSUME NEW s \in Slot
      PROVE  [run[s] EXCEPT !.status = "failed", !.lease = None, !.receipt = TRUE] \in Run
  <2>1. run[s] \in Run /\ None \in 0 .. Horizon + Lease
    BY ReviewAssumption DEF TypeOK, None
  <2>2. QED
    BY <2>1 DEF Run
<1>2. QED
  BY <1>1 DEF Reconcile, Stale, TypeOK

\* No step takes the bundle of a slot from its record.
LEMMA RecordsStay ==
    ASSUME TypeOK, [Next]_vars, NEW s \in Slot, run[s].status \in Closed
    PROVE  run'[s].bundle = run[s].bundle /\ run'[s].status \in Closed
<1> USE DEF Closed
<1>1. CASE Sweep \/ \E w \in Worker : Begin(w)
  BY <1>1, ReconcileRows DEF Sweep, Begin
<1>2. ASSUME NEW w \in Worker, Claim(w) PROVE run'[s] = run[s]
  BY <1>2 DEF Claim, Claimable, TypeOK
<1>3. ASSUME NEW w \in Worker, PrepareFails(w) \/ Finish(w) PROVE run'[s] = run[s]
  <2>1. CASE Owns(w)
    <3>1. worker[w].slot # s
      BY <2>1 DEF Owns
    <3>2. QED
      BY <1>3, <2>1, <3>1 DEF PrepareFails, Finish, Ended, TypeOK
  <2>2. CASE ~Owns(w)
    BY <1>3, <2>2 DEF PrepareFails, Finish
  <2>3. QED
    BY <2>1, <2>2
<1>4. ASSUME NEW w \in Worker, Notify(w)
      PROVE  run'[s].bundle = run[s].bundle /\ run'[s].status \in Closed
  <2>1. run[s] \in Run
    BY DEF TypeOK
  <2>2. QED
    BY <1>4, <2>1 DEF Notify, TypeOK, Run
<1>5. CASE \/ \E w \in Worker : Refuse(w) \/ Prepare(w) \/ NothingDue(w) \/ Mail(w)
                                 \/ MailFails(w) \/ Crash(w)
           \/ \E b \in Bundle, e \in Event : Apply(b, e)
           \/ \E e \in Event : Import(e)
           \/ Tick
           \/ UNCHANGED vars
  BY <1>5 DEF Refuse, Prepare, NothingDue, Mail, MailFails, Crash, Apply, Import, Tick, vars
<1>6. QED
  BY <1>1, <1>2, <1>3, <1>4, <1>5 DEF Next, Step

-----------------------------------------------------------------------------
(* Types.                                                                  *)

\* The steps of a worker inside its run.
LEMMA LocalTypes ==
    ASSUME TypeOK, NEW w \in Worker
    PROVE  /\ [worker EXCEPT ![w] = Idle] \in [Worker -> Local]
           /\ \A p \in {"prepare", "finish", "mail", "notify"} :
                /\ [worker EXCEPT ![w].step = p] \in [Worker -> Local]
                /\ [worker EXCEPT ![w].step = p, ![w].start = 0] \in [Worker -> Local]
                /\ \A b \in Bundle :
                     [worker EXCEPT ![w].step = p, ![w].bundle = b] \in [Worker -> Local]
<1>1. Idle \in Local /\ 0 \in 0 .. Horizon
  BY ReviewAssumption DEF Idle, Local, Slot
<1>2. worker \in [Worker -> Local] /\ worker[w] \in Local
  BY DEF TypeOK
<1>3. QED
  BY <1>1, <1>2 DEF Local

\* Every step keeps the types.
LEMMA TypeStep ==
    ASSUME TypeOK, [Next]_vars
    PROVE  TypeOK'
<1> USE DEF TypeOK
<1>1. ASSUME NEW w \in Worker, Begin(w) PROVE TypeOK'
  <2>1. PICK s \in Slot :
          worker' = [worker EXCEPT ![w] = [Idle EXCEPT !.step = "claim", !.slot = s, !.start = now]]
    BY <1>1 DEF Begin
  <2>2. now \in 0 .. Horizon
    BY <1>1 DEF Begin
  <2>3. [Idle EXCEPT !.step = "claim", !.slot = s, !.start = now] \in Local
    BY <2>2 DEF Idle, Local
  <2>4. QED
    BY <1>1, <2>1, <2>3, ReconcileRows DEF Begin
<1>2. ASSUME NEW w \in Worker, Claim(w) PROVE TypeOK'
  <2>1. worker[w].start \in 0 .. Horizon /\ worker[w].slot \in Slot
    BY DEF Local
  <2>2. [NoRun EXCEPT !.status = "claimed", !.holder = w, !.lease = worker[w].start + Lease] \in Run
    BY <2>1, ClaimType
  <2>3. run' \in [Slot -> Run]
    BY <1>2, <2>2 DEF Claim
  <2>4. QED
    BY <1>2, <2>3, LocalTypes DEF Claim
<1>3. ASSUME NEW w \in Worker, Prepare(w) PROVE TypeOK'
  <2>1. PICK b \in Bundle, candidates \in SUBSET Unsettled :
          /\ bundle' = [bundle EXCEPT ![b].written = TRUE, ![b].slot = worker[w].slot,
               ![b].frozen = [e \in Event |-> IF e \in candidates THEN event[e].version ELSE None]]
          /\ worker' = [worker EXCEPT ![w].step = "finish", ![w].bundle = b]
    BY <1>3 DEF Prepare
  <2>2. [e \in Event |-> IF e \in candidates THEN event[e].version ELSE None] \in [Event -> Nat]
    BY DEF Result, None
  <2>3. worker[w].slot \in Slot /\ bundle[b] \in Contents
    BY DEF Local
  <2>4. bundle' \in [Bundle -> Contents]
    BY <2>1, <2>2, <2>3 DEF Contents
  <2>5. worker' \in [Worker -> Local]
    BY <2>1, LocalTypes
  <2>6. QED
    BY <1>3, <2>4, <2>5 DEF Prepare
<1>4. ASSUME NEW w \in Worker, PrepareFails(w) \/ Finish(w) PROVE TypeOK'
  <2>1. worker[w].slot \in Slot /\ worker[w].bundle \in Bundle \cup {NoBundle}
    BY DEF Local
  <2>2. Ended(w) \in [Slot -> Run]
    <3> DEFINE p == IF worker[w].bundle = NoBundle THEN "noop" ELSE "prepared"
               r == [run[worker[w].slot] EXCEPT !.status = p, !.bundle = worker[w].bundle,
                                                !.lease = None, !.receipt = TRUE]
    <3>1. r \in Run
      <4>1. p \in {"noop", "prepared"} /\ run[worker[w].slot] \in Run
        BY <2>1
      <4> HIDE DEF p
      <4>2. QED
        BY <2>1, <4>1, EndTypes
    <3>2. Ended(w) = [run EXCEPT ![worker[w].slot] = r]
      BY DEF Ended
    <3> HIDE DEF r
    <3>3. QED
      BY <3>1, <3>2
  <2>3. run' \in [Slot -> Run]
    <3> DEFINE r == [run[worker[w].slot] EXCEPT !.status = "failed", !.lease = None,
                                                !.receipt = TRUE]
    <3>1. r \in Run
      <4>1. None \in 0 .. Horizon + Lease /\ run[worker[w].slot] \in Run
        BY <2>1, ReviewAssumption DEF None
      <4>2. QED
        BY <4>1 DEF Run
    <3>2. run' = run \/ run' = [run EXCEPT ![worker[w].slot] = r] \/ run' = Ended(w)
      BY <1>4 DEF PrepareFails, Finish
    <3> HIDE DEF r
    <3>3. QED
      BY <2>2, <3>1, <3>2
  <2>4. worker' \in [Worker -> Local]
    <3>1. worker' = [worker EXCEPT ![w] = Idle] \/ worker' = [worker EXCEPT ![w].step = "mail"]
      BY <1>4 DEF PrepareFails, Finish
    <3>2. CASE worker' = [worker EXCEPT ![w] = Idle]
      BY <3>2, LocalTypes
    <3>3. CASE worker' = [worker EXCEPT ![w].step = "mail"]
      BY <3>3, LocalTypes
    <3>4. QED
      BY <3>1, <3>2, <3>3
  <2>5. QED
    BY <1>4, <2>3, <2>4 DEF PrepareFails, Finish
<1>5. ASSUME NEW w \in Worker, Notify(w) PROVE TypeOK'
  <2>1. run' \in [Slot -> Run]
    <3>1. worker[w].slot \in Slot /\ run[worker[w].slot] \in Run
      BY DEF Local
    <3>2. [run[worker[w].slot] EXCEPT !.status = "notified"] \in Run
      BY <3>1 DEF Run
    <3>3. QED
      BY <1>5, <3>1, <3>2 DEF Notify
  <2>2. QED
    BY <1>5, <2>1, LocalTypes DEF Notify
<1>6. ASSUME NEW w \in Worker, Mail(w) PROVE TypeOK'
  <2>1. bundle' \in [Bundle -> Contents]
    BY <1>6 DEF Mail, Contents
  <2>2. QED
    BY <1>6, <2>1, LocalTypes DEF Mail
<1>7. ASSUME NEW w \in Worker, Refuse(w) \/ NothingDue(w) \/ MailFails(w) \/ Crash(w) PROVE TypeOK'
  <2>1. CASE worker' = [worker EXCEPT ![w] = Idle]
    BY <1>7, <2>1, LocalTypes DEF Refuse, NothingDue, MailFails, Crash
  <2>2. CASE worker' = [worker EXCEPT ![w].step = "finish"]
    BY <1>7, <2>2, LocalTypes DEF Refuse, NothingDue, MailFails, Crash
  <2>3. QED
    BY <1>7, <2>1, <2>2 DEF Refuse, NothingDue, MailFails, Crash
<1>8. ASSUME NEW b \in Bundle, NEW e \in Event, Apply(b, e) PROVE TypeOK'
  <2>1. event[e].version + 1 \in Nat \ {0} /\ bundle[b] \in Contents
    BY DEF Result
  <2>2. bundle' \in [Bundle -> Contents]
    BY <1>8, <2>1 DEF Apply, Approved, Contents
  <2>3. event' \in [Event -> Result]
    BY <1>8, <2>1 DEF Apply, Approved, Result
  <2>4. QED
    BY <1>8, <2>2, <2>3 DEF Apply
<1>9. ASSUME NEW e \in Event, Import(e) PROVE TypeOK'
  <2>1. event[e].version \in Nat \ {0} /\ event[e].version + 1 \in Nat \ {0}
    BY DEF Result
  <2>2. event' \in [Event -> Result]
    BY <1>9, <2>1 DEF Import, Result
  <2>3. QED
    BY <1>9, <2>2 DEF Import
<1>10. CASE Sweep \/ Tick \/ UNCHANGED vars
  BY <1>10, ReconcileRows DEF Sweep, Tick, vars
<1>11. QED
  BY <1>1, <1>2, <1>3, <1>4, <1>5, <1>6, <1>7, <1>8, <1>9, <1>10 DEF Next, Step

-----------------------------------------------------------------------------
(* The invariant.                                                          *)

\* A step that writes neither bundles nor results, and after which w obeys
\* WorkerOK.
LEMMA QuietStep ==
    ASSUME IInv, [Next]_vars, UNCHANGED <<bundle, event>>, NEW w \in Worker,
           \A x \in Worker \ {w} : worker'[x] = worker[x],
           worker'[w].bundle # NoBundle =>
               worker'[w].bundle = worker[w].bundle /\ worker'[w].slot = worker[w].slot,
           worker'[w].step \in {"claim", "prepare"} => worker'[w].bundle = NoBundle,
           worker'[w].step \in {"mail", "notify"} =>
               /\ worker'[w].bundle # NoBundle
               /\ run'[worker'[w].slot].bundle = worker'[w].bundle
               /\ run'[worker'[w].slot].status \in Closed
    PROVE  IInv'
<1> USE DEF IInv
<1>1. TypeOK' /\ BlankOK' /\ ApprovedOK' /\ ReviewsAreSerial'
  BY TypeStep DEF BlankOK, ApprovedOK, ReviewsAreSerial
<1>2. MailedIsOnRecord'
  BY RecordsStay DEF MailedIsOnRecord, Closed, TypeOK, Contents
<1>3. WorkerOK'
  <2>1. ASSUME NEW x \in Worker \ {w}, worker[x].step \in {"mail", "notify"}
        PROVE  run'[worker[x].slot].bundle = worker[x].bundle
               /\ run'[worker[x].slot].status \in Closed
    BY <2>1, RecordsStay DEF WorkerOK, TypeOK, Local
  <2>2. QED
    BY <2>1 DEF WorkerOK
<1>4. QED
  BY <1>1, <1>2, <1>3

\* Steps of the claim, of failures and of the record.
LEMMA RunSteps ==
    ASSUME IInv, [Next]_vars, NEW w \in Worker,
           \/ Begin(w) \/ Claim(w) \/ Refuse(w) \/ NothingDue(w) \/ PrepareFails(w)
           \/ Finish(w) \/ MailFails(w) \/ Notify(w) \/ Crash(w)
    PROVE  IInv'
<1>0. worker \in [Worker -> Local] /\ worker[w] \in Local /\ WorkerOK
  BY DEF IInv, TypeOK
<1>1. CASE worker' = [worker EXCEPT ![w] = Idle]
  <2>1. worker'[w] = Idle /\ \A x \in Worker \ {w} : worker'[x] = worker[x]
    BY <1>0, <1>1
  <2>2. UNCHANGED <<bundle, event>>
    BY DEF Begin, Claim, Refuse, NothingDue, PrepareFails, Finish, MailFails, Notify, Crash
  <2>3. QED
    BY <2>1, <2>2, QuietStep DEF Idle
<1>2. CASE Begin(w)
  <2>1. PICK s \in Slot :
          worker' = [worker EXCEPT ![w] = [Idle EXCEPT !.step = "claim", !.slot = s, !.start = now]]
    BY <1>2 DEF Begin
  <2>2. worker'[w].step = "claim" /\ worker'[w].bundle = NoBundle
    BY <1>0, <2>1 DEF Idle
  <2>3. \A x \in Worker \ {w} : worker'[x] = worker[x]
    BY <1>0, <2>1
  <2>4. UNCHANGED <<bundle, event>>
    BY <1>2 DEF Begin
  <2>5. QED
    BY <2>2, <2>3, <2>4, QuietStep
<1>3. CASE Claim(w) \/ NothingDue(w)
  <2>1. /\ worker'[w].step \in {"prepare", "finish"}
        /\ worker'[w].bundle = worker[w].bundle /\ worker[w].bundle = NoBundle
    BY <1>0, <1>3 DEF Claim, NothingDue, WorkerOK, Local
  <2>2. \A x \in Worker \ {w} : worker'[x] = worker[x]
    BY <1>0, <1>3 DEF Claim, NothingDue
  <2>3. UNCHANGED <<bundle, event>>
    BY <1>3 DEF Claim, NothingDue
  <2>4. QED
    BY <2>1, <2>2, <2>3, QuietStep
<1>4. CASE Finish(w) /\ worker' = [worker EXCEPT ![w].step = "mail"]
  <2>1. CASE Owns(w) /\ worker[w].bundle # NoBundle /\ run' = Ended(w)
    <3>1. /\ worker'[w].bundle = worker[w].bundle /\ worker'[w].slot = worker[w].slot
          /\ worker'[w].step = "mail" /\ worker[w].slot \in Slot
      BY <1>0, <1>4 DEF Local
    <3>2. run'[worker[w].slot].bundle = worker[w].bundle
          /\ run'[worker[w].slot].status = "prepared"
      BY <2>1, <3>1 DEF Ended, IInv, TypeOK, Run
    <3>3. \A x \in Worker \ {w} : worker'[x] = worker[x]
      BY <1>0, <1>4
    <3>4. UNCHANGED <<bundle, event>>
      BY <1>4 DEF Finish
    <3>5. QED
      BY <2>1, <3>1, <3>2, <3>3, <3>4, QuietStep DEF Closed
  <2>2. CASE worker' = [worker EXCEPT ![w] = Idle]
    BY <1>1, <2>2
  <2>3. QED
    BY <1>4, <2>1, <2>2 DEF Finish
<1>5. QED
  BY <1>1, <1>2, <1>3, <1>4
     DEF Refuse, PrepareFails, Finish, MailFails, Notify, Crash

\* A bundle is written where nothing was.
LEMMA PrepareIInv ==
    ASSUME IInv, [Next]_vars, NEW w \in Worker, Prepare(w)
    PROVE  IInv'
<1> USE DEF IInv
<1>1. PICK b \in Bundle, candidates \in SUBSET Unsettled :
        /\ ~bundle[b].written
        /\ bundle' = [bundle EXCEPT ![b].written = TRUE, ![b].slot = worker[w].slot,
             ![b].frozen = [e \in Event |-> IF e \in candidates THEN event[e].version ELSE None]]
        /\ worker' = [worker EXCEPT ![w].step = "finish", ![w].bundle = b]
  BY DEF Prepare
<1>2. UNCHANGED <<run, event>>
  BY DEF Prepare
<1>3. \A c \in Bundle : c # b => bundle'[c] = bundle[c]
  BY <1>1 DEF TypeOK
<1>4. /\ bundle'[b].written /\ bundle'[b].slot = worker[w].slot
      /\ bundle'[b].mailed = bundle[b].mailed /\ bundle'[b].approved = bundle[b].approved
  BY <1>1 DEF TypeOK, Contents
<1>5. ~bundle[b].mailed /\ \A e \in Event : bundle[b].approved[e] = None
  BY <1>1 DEF BlankOK
<1>6. /\ worker'[w].step = "finish" /\ worker'[w].bundle = b /\ worker'[w].slot = worker[w].slot
      /\ \A x \in Worker \ {w} : worker'[x] = worker[x]
  BY <1>1 DEF TypeOK, Local
<1>7. TypeOK' /\ BlankOK' /\ ApprovedOK' /\ MailedIsOnRecord' /\ ReviewsAreSerial'
  BY <1>2, <1>3, <1>4, <1>5, TypeStep
     DEF BlankOK, ApprovedOK, MailedIsOnRecord, ReviewsAreSerial
<1>8. WorkerOK'
  <2>1. ASSUME NEW x \in Worker \ {w}, worker[x].bundle # NoBundle
        PROVE  worker[x].bundle \in Bundle /\ worker[x].bundle # b
    BY <1>1, <2>1 DEF WorkerOK, TypeOK, Local
  <2>2. QED
    BY <1>2, <1>3, <1>4, <1>6, <2>1 DEF WorkerOK
<1>9. QED
  BY <1>7, <1>8

\* Only what is on record is mailed.
LEMMA MailIInv ==
    ASSUME IInv, [Next]_vars, NEW w \in Worker, Mail(w)
    PROVE  IInv'
<1> USE DEF IInv
<1> DEFINE b == worker[w].bundle
<1>1. /\ b \in Bundle /\ bundle[b].written /\ bundle[b].slot = worker[w].slot
      /\ run[worker[w].slot].bundle = b /\ run[worker[w].slot].status \in Closed
  BY DEF Mail, WorkerOK, TypeOK, Local
<1>2. UNCHANGED <<run, event>>
  BY DEF Mail
<1>3. \A c \in Bundle :
        /\ (bundle'[c].written <=> bundle[c].written) /\ bundle'[c].slot = bundle[c].slot
        /\ bundle'[c].frozen = bundle[c].frozen /\ bundle'[c].approved = bundle[c].approved
        /\ c # b => bundle'[c].mailed = bundle[c].mailed
  BY DEF Mail, TypeOK, Contents
<1>4. /\ worker'[w].step = "notify" /\ worker'[w].bundle = b
      /\ worker'[w].slot = worker[w].slot
      /\ \A x \in Worker \ {w} : worker'[x] = worker[x]
  BY DEF Mail, TypeOK, Local
<1>5. TypeOK' /\ BlankOK' /\ ApprovedOK' /\ MailedIsOnRecord' /\ ReviewsAreSerial'
  BY <1>1, <1>2, <1>3, TypeStep
     DEF BlankOK, ApprovedOK, MailedIsOnRecord, ReviewsAreSerial, Closed
<1>6. WorkerOK'
  <2>1. ASSUME NEW x \in Worker, worker[x].bundle # NoBundle
        PROVE  /\ bundle'[worker[x].bundle].written
               /\ bundle'[worker[x].bundle].slot = worker[x].slot
    BY <1>3, <2>1 DEF WorkerOK, TypeOK, Local
  <2>2. \A x \in Worker : worker'[x].bundle = worker[x].bundle /\ worker'[x].slot = worker[x].slot
    BY <1>4
  <2>3. ASSUME NEW x \in Worker, worker'[x].bundle # NoBundle
        PROVE  /\ bundle'[worker'[x].bundle].written
               /\ bundle'[worker'[x].bundle].slot = worker'[x].slot
    <3>1. worker'[x].bundle = worker[x].bundle /\ worker'[x].slot = worker[x].slot
      BY <2>2
    <3>2. QED
      BY <2>1, <2>3, <3>1
  <2>4. ASSUME NEW x \in Worker, worker'[x].step \in {"claim", "prepare"}
        PROVE  worker'[x].bundle = NoBundle
    BY <1>4, <2>4 DEF WorkerOK
  <2>5. ASSUME NEW x \in Worker, worker'[x].step \in {"mail", "notify"}
        PROVE  /\ worker'[x].bundle # NoBundle
               /\ run'[worker'[x].slot].bundle = worker'[x].bundle
               /\ run'[worker'[x].slot].status \in Closed
    BY <1>1, <1>2, <1>4, <2>5, ReviewAssumption DEF WorkerOK
  <2>6. QED
    BY <2>3, <2>4, <2>5 DEF WorkerOK
<1>7. QED
  BY <1>5, <1>6

\* An approval writes the successor of the version its bundle has frozen, and
\* every earlier approval is of no later version.
LEMMA ApplyIInv ==
    ASSUME IInv, [Next]_vars, NEW b \in Bundle, NEW e \in Event, Apply(b, e)
    PROVE  IInv'
<1> USE DEF IInv
<1>1. UNCHANGED <<run, worker>>
  BY DEF Apply
<1>2. /\ bundle'[b].approved[e] = event[e].version + 1 /\ (bundle'[b].written <=> bundle[b].written)
      /\ bundle'[b].slot = bundle[b].slot /\ (bundle'[b].mailed <=> bundle[b].mailed)
      /\ bundle'[b].frozen = bundle[b].frozen
      /\ \A f \in Event : f # e => bundle'[b].approved[f] = bundle[b].approved[f]
      /\ \A c \in Bundle : c # b => bundle'[c] = bundle[c]
  BY DEF Apply, Approved, TypeOK, Contents
<1>3. /\ event'[e].version = event[e].version + 1 /\ event[e].version \in Nat
      /\ \A f \in Event : f # e => event'[f] = event[f]
  BY DEF Apply, Approved, TypeOK, Result
<1>4. bundle[b].frozen[e] # None /\ event[e].version = bundle[b].frozen[e]
  BY DEF Apply, Applies
<1>5. bundle[b].written
  BY <1>4 DEF BlankOK
<1>6. \A c \in Bundle : \A f \in Event : bundle[c].approved[f] \in Nat
  BY DEF TypeOK, Contents
<1>7. TypeOK' /\ BlankOK'
  <2>1. BlankOK'
    BY <1>2, <1>5 DEF BlankOK
  <2>2. QED
    BY <2>1, TypeStep
<1>8. WorkerOK' /\ MailedIsOnRecord'
  BY <1>1, <1>2 DEF WorkerOK, MailedIsOnRecord, TypeOK, Local
<1>9. ApprovedOK'
  BY <1>2, <1>3, <1>6 DEF ApprovedOK
<1>10. ReviewsAreSerial'
  <2>1. \A c \in Bundle : bundle[c].approved[e] <= bundle[b].frozen[e]
    BY <1>4 DEF ApprovedOK
  <2>2. QED
    BY <1>2, <2>1 DEF ReviewsAreSerial
<1>11. QED
  BY <1>7, <1>8, <1>9, <1>10

\* Other jobs only move versions on.
LEMMA ImportIInv ==
    ASSUME IInv, [Next]_vars, NEW e \in Event, Import(e)
    PROVE  IInv'
<1> USE DEF IInv
<1>1. UNCHANGED <<run, worker, bundle>>
  BY DEF Import
<1>2. \A f \in Event : event[f].version \in Nat /\ event[f].version <= event'[f].version
  BY DEF Import, TypeOK, Result
<1>3. ApprovedOK'
  <2>1. \A c \in Bundle : \A f \in Event :
          bundle[c].approved[f] \in Nat /\ event'[f].version \in Nat
    BY TypeStep DEF TypeOK, Contents, Result
  <2>2. QED
    BY <1>1, <1>2, <2>1 DEF ApprovedOK
<1>4. QED
  BY <1>1, <1>3, TypeStep DEF BlankOK, WorkerOK, MailedIsOnRecord, ReviewsAreSerial

\* The sweep ends claims, and no claim is on record; time writes nothing.
LEMMA OtherSteps ==
    ASSUME IInv, [Next]_vars, Sweep \/ Tick \/ UNCHANGED vars
    PROVE  IInv'
<1> USE DEF IInv
<1>1. UNCHANGED <<worker, bundle, event>>
  BY DEF Sweep, Tick, vars
<1>2. TypeOK' /\ BlankOK' /\ ApprovedOK' /\ ReviewsAreSerial'
  BY <1>1, TypeStep DEF BlankOK, ApprovedOK, ReviewsAreSerial
<1>3. MailedIsOnRecord' /\ WorkerOK'
  BY <1>1, RecordsStay DEF MailedIsOnRecord, WorkerOK, Closed, TypeOK, Contents, Local
<1>4. QED
  BY <1>2, <1>3

\* The inductive invariant holds of every behaviour.
THEOREM Invariant == Spec => []IInv
<1>1. ASSUME IInv, [Next]_vars PROVE IInv'
  BY <1>1, RunSteps, PrepareIInv, MailIInv, ApplyIInv, ImportIInv, OtherSteps DEF Next, Step
<1>2. QED
  BY InitIInv, <1>1, PTL DEF Spec

\* Runs, bundles, races and workers keep their types; leases never reach
\* beyond the start of their run by more than a lease.
THEOREM TypeCorrect == Spec => []TypeOK
  BY Invariant, PTL DEF IInv

\* However late workers come back and whichever leases run out under them, a
\* slot mails the bundle it has on record.
THEOREM OnRecord == Spec => []MailedIsOnRecord
  BY Invariant, PTL DEF IInv

\* However many bundles hold a race, its approvals are serial.
THEOREM Serial == Spec => []ReviewsAreSerial
  BY Invariant, PTL DEF IInv

-----------------------------------------------------------------------------
(* The sweep is never blocked.                                             *)

\* A claim has a holder and a lease, and nothing of an earlier run of its slot.
ClaimedBlank ==
    \A s \in Slot :
        run[s].status = "claimed" =>
            /\ run[s].lease # None /\ run[s].holder # NoWorker
            /\ ~run[s].receipt /\ run[s].bundle = NoBundle

\* A claim starts blank, and what records anything on a run ends its claim.
LEMMA ClaimedStep ==
    ASSUME IInv, ClaimedBlank, [Next]_vars
    PROVE  ClaimedBlank'
<1> USE DEF ClaimedBlank
<1>0. /\ run \in [Slot -> Run] /\ worker \in [Worker -> Local]
      /\ \A w \in Worker : worker[w].slot \in Slot
  BY DEF IInv, TypeOK, Local
<1>1. CASE Sweep \/ \E w \in Worker : Begin(w)
  <2>1. Reconcile
    BY <1>1 DEF Sweep, Begin
  <2>2. \A s \in Slot : run'[s] = run[s] \/ run'[s].status = "failed"
    BY <1>0, <2>1 DEF Reconcile, Run
  <2>3. QED
    BY <2>2
<1>2. ASSUME NEW w \in Worker, Claim(w) PROVE ClaimedBlank'
  <2>1. worker[w].start + Lease # None
    BY <1>0, ReviewAssumption DEF Local, None
  <2>2. \A s \in Slot : s # worker[w].slot => run'[s] = run[s]
    BY <1>0, <1>2 DEF Claim
  <2>3. /\ run'[worker[w].slot].lease = worker[w].start + Lease
        /\ run'[worker[w].slot].holder = w
        /\ ~run'[worker[w].slot].receipt /\ run'[worker[w].slot].bundle = NoBundle
    BY <1>0, <1>2 DEF Claim, NoRun
  <2>4. w # NoWorker
    BY ReviewAssumption
  <2>5. ASSUME NEW s \in Slot, run'[s].status = "claimed"
        PROVE  /\ run'[s].lease # None /\ run'[s].holder # NoWorker
               /\ ~run'[s].receipt /\ run'[s].bundle = NoBundle
    <3>1. CASE s = worker[w].slot
      BY <2>1, <2>3, <2>4, <3>1
    <3>2. CASE s # worker[w].slot
      BY <2>2, <2>5, <3>2
    <3>3. QED
      BY <3>1, <3>2
  <2>6. QED
    BY <2>5
<1>3. ASSUME NEW w \in Worker, PrepareFails(w) \/ Finish(w) \/ Notify(w) PROVE ClaimedBlank'
  <2>1. \A s \in Slot : s # worker[w].slot => run'[s] = run[s]
    BY <1>0, <1>3 DEF PrepareFails, Finish, Ended, Notify
  <2>2. worker[w].slot \in Slot /\ run[worker[w].slot] \in Run
    BY <1>0
  <2>3. CASE run' = run
    BY <2>3
  <2>4. CASE run' # run
    <3>1. run'[worker[w].slot].status # "claimed"
      <4>1. CASE PrepareFails(w)
        BY <1>0, <2>2, <2>4, <4>1 DEF PrepareFails, Run
      <4>2. CASE Finish(w)
        <5>1. run' = Ended(w)
          BY <2>4, <4>2 DEF Finish
        <5>2. Ended(w)[worker[w].slot].status \in {"noop", "prepared"}
          BY <1>0, <2>2 DEF Ended, Run
        <5>3. QED
          BY <5>1, <5>2
      <4>3. CASE Notify(w)
        BY <1>0, <2>2, <2>4, <4>3 DEF Notify, Run
      <4>4. QED
        BY <1>3, <4>1, <4>2, <4>3
    <3>2. QED
      BY <2>1, <3>1
  <2>5. QED
    BY <2>3, <2>4
<1>4. CASE \/ \E w \in Worker : Refuse(w) \/ Prepare(w) \/ NothingDue(w) \/ Mail(w)
                                 \/ MailFails(w) \/ Crash(w)
           \/ \E b \in Bundle, e \in Event : Apply(b, e)
           \/ \E e \in Event : Import(e)
           \/ Tick
           \/ UNCHANGED vars
  BY <1>4 DEF Refuse, Prepare, NothingDue, Mail, MailFails, Crash, Apply, Import, Tick, vars
<1>5. QED
  BY <1>1, <1>2, <1>3, <1>4 DEF Next, Step

\* No expired claim ever looks like one that must be left to an operator
\* (_stale_claim_blockers): the sweep can always fail it, and a new run of any
\* slot can always begin.  This is the safety half of ClaimEnds.
THEOREM NeverBlocked == Spec => []~Blocked
<1>1. Init => ClaimedBlank
  BY DEF Init, NoRun, ClaimedBlank
<1>2. IInv /\ ClaimedBlank /\ [Next]_vars => ClaimedBlank'
  BY ClaimedStep
<1>3. ClaimedBlank => ~Blocked
  BY DEF ClaimedBlank, Blocked, Stale
<1>4. QED
  BY <1>1, <1>2, <1>3, Invariant, PTL DEF Spec
=============================================================================
