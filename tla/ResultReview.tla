----------------------------- MODULE ResultReview -----------------------------
(***************************************************************************)
(* The scheduled review of race results                                    *)
(* (stable/services/scheduled_race_result_review.py): twice a day a worker *)
(* claims the slot that is due, freezes the races whose result is missing, *)
(* writes a bundle of candidates, and mails it; an operator applies what   *)
(* was approved.  The task and an external cron may run the same slot, a   *)
(* sweep fails the claims whose lease has run out, and other jobs write    *)
(* results of the same races.                                              *)
(*                                                                         *)
(* The version of an event stands for what compute_event_baseline digests. *)
(* A claim's token is the worker that made it: a later claim of the same   *)
(* worker on the same slot replaces it.  Slots recorded as coalesced are   *)
(* claimed like slots without a row, and are not told apart from them.     *)
(***************************************************************************)
EXTENDS Naturals

CONSTANTS
    Worker, Event,
    Bundle,         \* directories a run may write; a run writes a new one
    NoWorker, NoBundle,
    Lease,          \* the lease of a claim, in ticks
    Every,          \* ticks from one slot to the next
    MaxVersion,     \* bound: versions of an event
    Horizon,        \* bound: last tick at which a run starts
    MaxTime         \* bound: last tick of the clock

ASSUME ReviewAssumption ==
    /\ NoWorker \notin Worker /\ NoBundle \notin Bundle
    /\ Lease \in Nat \ {0} /\ Every \in Nat \ {0} /\ MaxVersion \in Nat
    /\ Horizon \in Nat /\ MaxTime \in Nat

VARIABLES
    now,
    run,     \* RaceResultReviewRun, by slot
    worker,
    bundle,  \* bundles with their delivery and their approvals
    event    \* results of the races

vars == <<now, run, worker, bundle, event>>

Slot == 0 .. Horizon

Due == now \div Every

None == 0  \* no lease; not in the bundle; not approved

\* receipt: selector, summary or end of a run are recorded.
Run == [status : {"none", "claimed", "prepared", "notified", "noop", "failed"},
        holder : Worker \cup {NoWorker}, lease : 0 .. Horizon + Lease,
        receipt : BOOLEAN, bundle : Bundle \cup {NoBundle}]

NoRun == [status |-> "none", holder |-> NoWorker, lease |-> None,
          receipt |-> FALSE, bundle |-> NoBundle]

\* start: the time at which the run began, by which it claims.
Local == [step : {"idle", "claim", "prepare", "finish", "mail", "notify"},
          slot : Slot, start : 0 .. Horizon, bundle : Bundle \cup {NoBundle}]

Idle == [step |-> "idle", slot |-> 0, start |-> 0, bundle |-> NoBundle]

\* frozen: version of each candidate when it was selected; approved: version
\* an approved candidate was written as.
Contents == [written : BOOLEAN, mailed : BOOLEAN, slot : Slot,
             frozen : [Event -> Nat], approved : [Event -> Nat]]

\* settled: complete, confirmed and finished.
Result == [version : Nat \ {0}, settled : BOOLEAN]

TypeOK ==
    /\ now \in Nat
    /\ run \in [Slot -> Run]
    /\ worker \in [Worker -> Local]
    /\ bundle \in [Bundle -> Contents]
    /\ event \in [Event -> Result]

Init ==
    /\ now = 0
    /\ run = [s \in Slot |-> NoRun]
    /\ worker = [w \in Worker |-> Idle]
    /\ bundle = [b \in Bundle |-> [written |-> FALSE, mailed |-> FALSE, slot |-> 0,
                    frozen |-> [e \in Event |-> None], approved |-> [e \in Event |-> None]]]
    /\ event = [e \in Event |-> [version |-> 1, settled |-> FALSE]]

-----------------------------------------------------------------------------
(* Reconciliation of claims whose lease has run out: all or none.          *)

Stale == {s \in Slot : run[s].status = "claimed" /\ run[s].lease <= now}

Blocked == \E s \in Stale :
    run[s].lease = None \/ run[s].holder = NoWorker \/ run[s].receipt \/ run[s].bundle # NoBundle

Reconcile ==
    run' = [s \in Slot |->
              IF s \in Stale THEN [run[s] EXCEPT !.status = "failed", !.lease = None,
                                                 !.receipt = TRUE]
              ELSE run[s]]

\* reconcile_stale_race_result_review_claims_task
Sweep ==
    /\ Stale # {} /\ ~Blocked
    /\ Reconcile
    /\ UNCHANGED <<now, worker, bundle, event>>

-----------------------------------------------------------------------------
(* run_scheduled_prepare.                                                  *)

\* The slot is the latest that is due; the command may name an older one.
Begin(w) ==
    /\ worker[w].step = "idle" /\ now <= Horizon
    /\ ~Blocked
    /\ Reconcile
    /\ \E s \in Slot :
        /\ s <= Due
        /\ worker' = [worker EXCEPT ![w] = [Idle EXCEPT !.step = "claim", !.slot = s, !.start = now]]
    /\ UNCHANGED <<now, bundle, event>>

Claimable(s, t) ==
    run[s].status \notin {"prepared", "notified", "noop"} /\ run[s].lease <= t

\* Defect: a claim keeps what the slot's last run has recorded.
ClaimKeepingReceipt(w) ==
    LET s == worker[w].slot IN
    /\ worker[w].step = "claim" /\ Claimable(s, worker[w].start)
    /\ run' = [run EXCEPT ![s].status = "claimed", ![s].holder = w,
                          ![s].lease = worker[w].start + Lease]
    /\ worker' = [worker EXCEPT ![w].step = "prepare", ![w].start = 0]
    /\ UNCHANGED <<now, bundle, event>>

\* Defect: the lease is counted from the claim while the run keeps its start.
ClaimFromNow(w) ==
    LET s == worker[w].slot IN
    /\ worker[w].step = "claim" /\ Claimable(s, worker[w].start)
    /\ run' = [run EXCEPT ![s] = [NoRun EXCEPT !.status = "claimed", !.holder = w,
                                               !.lease = now + Lease]]
    /\ worker' = [worker EXCEPT ![w].step = "prepare", ![w].start = 0]
    /\ UNCHANGED <<now, bundle, event>>

Claim(w) ==
    LET s == worker[w].slot IN
    /\ worker[w].step = "claim" /\ Claimable(s, worker[w].start)
    /\ run' = [run EXCEPT ![s] = [NoRun EXCEPT !.status = "claimed", !.holder = w,
                                               !.lease = worker[w].start + Lease]]
    /\ worker' = [worker EXCEPT ![w].step = "prepare", ![w].start = 0]
    /\ UNCHANGED <<now, bundle, event>>

\* already_claimed
Refuse(w) ==
    /\ worker[w].step = "claim" /\ ~Claimable(worker[w].slot, worker[w].start)
    /\ worker' = [worker EXCEPT ![w] = Idle]
    /\ UNCHANGED <<now, run, bundle, event>>

Unsettled == {e \in Event : ~event[e].settled}

\* select_due_targets and write_immutable_bundle; nobody sees the bundle in
\* between.  Targets without a complete result are listed, but no candidates.
Prepare(w) ==
    /\ worker[w].step = "prepare" /\ Unsettled # {}
    /\ \E b \in Bundle : ~bundle[b].written
    /\ LET b == CHOOSE c \in Bundle : ~bundle[c].written IN
        /\ \E candidates \in SUBSET Unsettled :
            bundle' = [bundle EXCEPT ![b].written = TRUE, ![b].slot = worker[w].slot,
              ![b].frozen = [e \in Event |-> IF e \in candidates THEN event[e].version ELSE None]]
        /\ worker' = [worker EXCEPT ![w].step = "finish", ![w].bundle = b]
    /\ UNCHANGED <<now, run, event>>

\* No race is due.
NothingDue(w) ==
    /\ worker[w].step = "prepare"
    /\ worker' = [worker EXCEPT ![w].step = "finish"]
    /\ UNCHANGED <<now, run, bundle, event>>

Owns(w) ==
    LET r == run[worker[w].slot] IN r.status = "claimed" /\ r.holder = w

\* An exception; prepare_exception is recorded by whoever still owns the claim.
PrepareFails(w) ==
    /\ worker[w].step = "prepare"
    /\ run' = IF Owns(w)
              THEN [run EXCEPT ![worker[w].slot] = [@ EXCEPT !.status = "failed", !.lease = None,
                                                              !.receipt = TRUE]]
              ELSE run
    /\ worker' = [worker EXCEPT ![w] = Idle]
    /\ UNCHANGED <<now, bundle, event>>

\* The end of the run w has prepared.
Ended(w) ==
    [run EXCEPT ![worker[w].slot] =
        [@ EXCEPT !.status = IF worker[w].bundle = NoBundle THEN "noop" ELSE "prepared",
                  !.bundle = worker[w].bundle, !.lease = None, !.receipt = TRUE]]

\* Defect: the end is recorded without looking at the claim.
FinishAnyway(w) ==
    /\ worker[w].step = "finish"
    /\ run' = Ended(w)
    /\ worker' = IF worker[w].bundle # NoBundle THEN [worker EXCEPT ![w].step = "mail"]
                 ELSE [worker EXCEPT ![w] = Idle]
    /\ UNCHANGED <<now, bundle, event>>

\* Who has lost the claim returns lease_lost, and its bundle is not mailed.
Finish(w) ==
    /\ worker[w].step = "finish"
    /\ IF Owns(w)
       THEN /\ run' = Ended(w)
            /\ worker' = IF worker[w].bundle # NoBundle THEN [worker EXCEPT ![w].step = "mail"]
                         ELSE [worker EXCEPT ![w] = Idle]
       ELSE worker' = [worker EXCEPT ![w] = Idle] /\ UNCHANGED run
    /\ UNCHANGED <<now, bundle, event>>

\* deliver_bundle_email: a bundle has one run, which mails it once.
Mail(w) ==
    /\ worker[w].step = "mail"
    /\ bundle' = [bundle EXCEPT ![worker[w].bundle].mailed = TRUE]
    /\ worker' = [worker EXCEPT ![w].step = "notify"]
    /\ UNCHANGED <<now, run, event>>

\* No recipient, or the mail could not be sent.
MailFails(w) ==
    /\ worker[w].step = "mail"
    /\ worker' = [worker EXCEPT ![w] = Idle]
    /\ UNCHANGED <<now, run, bundle, event>>

Notify(w) ==
    LET s == worker[w].slot IN
    /\ worker[w].step = "notify"
    /\ run' = IF run[s].holder = w /\ run[s].bundle = worker[w].bundle
              THEN [run EXCEPT ![s].status = "notified"] ELSE run
    /\ worker' = [worker EXCEPT ![w] = Idle]
    /\ UNCHANGED <<now, bundle, event>>

Crash(w) ==
    /\ worker[w].step # "idle"
    /\ worker' = [worker EXCEPT ![w] = Idle]
    /\ UNCHANGED <<now, run, bundle, event>>

-----------------------------------------------------------------------------
(* Writers of results.                                                     *)

Approved(b, e) ==
    /\ bundle' = [bundle EXCEPT ![b].approved[e] = event[e].version + 1]
    /\ event' = [event EXCEPT ![e] = [version |-> @.version + 1, settled |-> TRUE]]

Applies(b, e) ==
    /\ bundle[b].frozen[e] # None /\ bundle[b].approved[e] = None
    /\ event[e].version < MaxVersion

\* Defect: the baseline is not compared again.
ApplyUnchecked(b, e) ==
    /\ Applies(b, e)
    /\ Approved(b, e)
    /\ UNCHANGED <<now, run, worker>>

\* apply_reviewed_event_payloads, one event; an event that was applied
\* already or has drifted is left alone.
Apply(b, e) ==
    /\ Applies(b, e)
    /\ event[e].version = bundle[b].frozen[e]
    /\ Approved(b, e)
    /\ UNCHANGED <<now, run, worker>>

\* A synchronisation or a provisional publication replaces the rows.  Only
\* a version that a bundle has frozen has to be told from its successor.
Import(e) ==
    /\ event[e].version < MaxVersion
    /\ \E settled \in BOOLEAN :
        event' = [event EXCEPT ![e] =
            [version |-> IF \E b \in Bundle : bundle[b].frozen[e] = event[e].version
                         THEN @.version + 1 ELSE @.version,
             settled |-> settled]]
    /\ UNCHANGED <<now, run, worker, bundle>>

Tick ==
    /\ now < MaxTime
    /\ now' = now + 1
    /\ UNCHANGED <<run, worker, bundle, event>>

-----------------------------------------------------------------------------

Step(w) ==
    \/ Begin(w) \/ Claim(w) \/ Refuse(w)
    \/ Prepare(w) \/ NothingDue(w) \/ PrepareFails(w)
    \/ Finish(w) \/ Mail(w) \/ MailFails(w) \/ Notify(w)
    \/ Crash(w)

Next ==
    \/ \E w \in Worker : Step(w)
    \/ \E b \in Bundle, e \in Event : Apply(b, e)
    \/ \E e \in Event : Import(e)
    \/ Sweep
    \/ Tick

Spec == Init /\ [][Next]_vars

\* The sweep is scheduled every five minutes.  No worker has to go on.
FairSpec == Spec /\ WF_vars(Sweep) /\ WF_vars(Tick)

-----------------------------------------------------------------------------

\* A bundle that was mailed is the one its slot has on record: no worker that
\* comes late mails a second bundle of a slot, or replaces the record of the
\* first.
MailedIsOnRecord ==
    \A b \in Bundle :
        bundle[b].mailed =>
            /\ run[bundle[b].slot].bundle = b
            /\ run[bundle[b].slot].status \in {"prepared", "notified"}

\* Approvals of one race are serial: of two bundles that were applied to it,
\* one was prepared after the other had been applied.
ReviewsAreSerial ==
    \A b, c \in Bundle : \A e \in Event :
        b # c /\ bundle[b].approved[e] # None /\ bundle[c].approved[e] # None =>
            \/ bundle[b].approved[e] <= bundle[c].frozen[e]
            \/ bundle[c].approved[e] <= bundle[b].frozen[e]

\* A claim ends, whoever dies: nothing on record can block the sweep.
ClaimEnds ==
    \A s \in Slot : run[s].status = "claimed" ~> run[s].status # "claimed"

=============================================================================
