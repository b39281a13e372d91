------------------------------ MODULE QQDelivery ------------------------------
(***************************************************************************)
(* Automatic delivery of published articles to one QQ group                *)
(* (stable/services/qq_auto_push.py, qq_push_delivery_task in              *)
(* stable/tasks.py, the window selection in stable/services/qq_windows.py).*)
(*                                                                         *)
(* A delivery row is created once per article and group and a Celery       *)
(* message is sent for it.  The worker that gets the message throttles the *)
(* group, decides from the copy of the row it read, asks the gateway if it *)
(* is online, CLAIMS an attempt with a compare-and-set, checks the claim,  *)
(* and only then posts.  Sealing rows of a disabled channel is another     *)
(* compare-and-set; every other write of the row is unconditional.         *)
(***************************************************************************)
EXTENDS Integers, FiniteSets

CONSTANTS
    Delivery,     \* QQPushDelivery rows of one push target
    Worker,       \* Celery worker slots
    NoDelivery,   \* what an idle worker works on
    MaxAttempts,  \* QQ_PUSH_MAX_ATTEMPTS
    Stale,        \* QQ_PUSH_SENDING_STALE_SECONDS, in ticks
    MinInterval,  \* QQ_PUSH_MIN_INTERVAL_SECONDS, in ticks
    Switching,    \* may QQ_CHANNEL_ENABLED differ between and within processes?
    MaxMessages,  \* bound: messages of a delivery, queued or being handled
    Horizon,      \* bound: last tick at which an attempt may be claimed
    MaxTime       \* bound: last tick of the clock

ASSUME ConstantsAssumption ==
    /\ IsFiniteSet(Worker) /\ NoDelivery \notin Delivery
    /\ MaxAttempts \in Nat \ {0} /\ Stale \in Nat \ {0} /\ MinInterval \in Nat
    /\ Switching \in BOOLEAN
    /\ MaxMessages \in Nat /\ Horizon \in Nat /\ MaxTime \in Nat

VARIABLES
    now,    \* the clock; claiming an attempt advances it, so stamps are unique
    row,    \* QQPushDelivery rows
    queue,  \* number of waiting messages for each delivery
    wk,     \* worker slots
    on,     \* QQ_CHANNEL_ENABLED as each worker sees it
    posts,  \* messages that reached the group for each delivery
    lost    \* deliveries whose last message was lost

vars == <<now, row, queue, wk, on, posts, lost>>

Never == 0  \* last_attempt_at IS NULL; the clock starts at 1

Row == [status   : {"absent", "pending", "sending", "sent", "failed",
                    "retrying", "skipped"},
        attempts : 0 .. MaxAttempts,
        last     : Nat,
        disabled : BOOLEAN,     \* last_error = QQ_CHANNEL_DISABLED
        receipt  : BOOLEAN]     \* sent_at and message_id are set

DeliveryClaim == [attempts : Nat, last : Nat]

WorkerPC == {"idle", "loaded", "probing", "claimed", "checking", "posted", "refused",
             "failing"}

WorkerRow == [pc : WorkerPC, d : Delivery \cup {NoDelivery}, copy : Row, claim : DeliveryClaim]

TypeOK ==
    /\ now \in Nat \ {0}
    /\ row \in [Delivery -> Row]
    /\ queue \in [Delivery -> Nat]
    /\ wk \in [Worker -> WorkerRow]
    /\ on \in [Worker -> BOOLEAN]
    /\ posts \in [Delivery -> Nat]
    /\ lost \subseteq Delivery

-----------------------------------------------------------------------------
(* Rows.                                                                   *)

StaleSending(r) ==
    r.status = "sending" /\ (r.last = Never \/ r.last + Stale <= now)

IsDisabled(r) == r.status = "skipped" /\ r.disabled

\* Statuses that a claim and the sealing of a disabled channel may take over.
Open(r) ==
    /\ r.status \in {"pending", "retrying", "failed", "skipped"} \/ StaleSending(r)
    /\ ~IsDisabled(r)

Token(r) == [attempts |-> r.attempts, last |-> r.last]

\* _set_delivery_failure: the outcome is computed from copy, and written
\* whatever the row has become.
Failure(r, copy) ==
    [r EXCEPT !.status = IF copy.attempts >= MaxAttempts THEN "failed" ELSE "retrying",
              !.disabled = FALSE]

Sealed(r) == [r EXCEPT !.status = "skipped", !.disabled = TRUE]

\* Defect: a disabled channel seals the row whatever its state is.
SealAnything(d) == row' = [row EXCEPT ![d] = Sealed(@)]

\* skip_disabled_qq_delivery without a claim.
Seal(d) == row' = [row EXCEPT ![d] = IF Open(@) THEN Sealed(@) ELSE @]

\* skip_disabled_qq_delivery with the worker's own claim gives the attempt back.
SealClaim(d, claim) ==
    row' = [row EXCEPT ![d] =
              IF @.status = "sending" /\ Token(@) = claim /\ @.attempts > 0
              THEN [Sealed(@) EXCEPT !.attempts = row[d].attempts - 1] ELSE @]

-----------------------------------------------------------------------------
(* Orchestration.                                                          *)

InFlight(d) == Cardinality({w \in Worker : wk[w].pc # "idle" /\ wk[w].d = d})

\* A message for d is sent, or its dispatch fails after the row is committed.
Dispatch(d) ==
    /\ queue[d] + InFlight(d) < MaxMessages
    /\ \/ queue' = [queue EXCEPT ![d] = @ + 1] /\ lost' = lost \ {d}
       \/ lost' = lost \cup {d} /\ UNCHANGED queue

Ensure(d) ==
    row' = [row EXCEPT ![d] = IF @.status = "absent" THEN [@ EXCEPT !.status = "pending"] ELSE @]

\* qq_auto_push_article_task: publication, or a source that was elevated later,
\* queues every delivery that is not sent and not sealed.
AutoPush(w, d) ==
    /\ on[w]
    /\ ~IsDisabled(row[d]) /\ row[d].status # "sent"
    /\ Ensure(d)
    /\ Dispatch(d)
    /\ UNCHANGED <<now, wk, on, posts>>

\* qq_region_window_task: only new and failed deliveries are queued; a row that
\* is pending, retrying or sending counts as already queued.
WindowPush(w, d) ==
    /\ on[w]
    /\ ~IsDisabled(row[d])
    /\ row[d].status \in {"absent", "failed", "skipped"}
    /\ row[d].attempts < MaxAttempts
    /\ Ensure(d)
    /\ Dispatch(d)
    /\ UNCHANGED <<now, wk, on, posts>>

-----------------------------------------------------------------------------
(* Workers: qq_push_delivery_task and process_qq_push_delivery.            *)

NoRow == [status |-> "absent", attempts |-> 0, last |-> Never, disabled |-> FALSE,
          receipt |-> FALSE]

IdleWorker == [pc |-> "idle", d |-> NoDelivery, copy |-> NoRow, claim |-> Token(NoRow)]

Finish(w) == wk' = [wk EXCEPT ![w] = IdleWorker]

\* The task ends after process_qq_push_delivery returned r.
Return(w, r) ==
    /\ Finish(w)
    /\ IF r.status = "retrying" /\ r.attempts < MaxAttempts
       THEN queue' = [queue EXCEPT ![wk[w].d] = @ + 1]
       ELSE UNCHANGED queue

\* qq_push_next_attempt_delay: some attempt on this group is too recent.
Throttled == \E d \in Delivery : row[d].last # Never /\ now < row[d].last + MinInterval

\* The task starts: a disabled channel seals the row, a sealed row is left
\* alone, a throttled message is queued again, else the row is read.
Deliver(w, d) ==
    /\ wk[w].pc = "idle" /\ queue[d] > 0
    /\ IF ~on[w] \/ IsDisabled(row[d])
       THEN /\ queue' = [queue EXCEPT ![d] = @ - 1]
            /\ IF on[w] THEN UNCHANGED row ELSE Seal(d)
            /\ UNCHANGED wk
       ELSE /\ ~Throttled  \* else apply_async with a countdown: the message stays
            /\ queue' = [queue EXCEPT ![d] = @ - 1]
            /\ wk' = [wk EXCEPT ![w] = [IdleWorker EXCEPT !.pc = "loaded", !.d = d,
                                                                !.copy = row[d]]]
            /\ UNCHANGED row
    /\ UNCHANGED <<now, on, posts, lost>>

\* The channel was switched off after the task had tested it.
SealBeforeClaim(w) ==
    /\ wk[w].pc \in {"loaded", "probing"} /\ ~on[w]
    /\ Seal(wk[w].d)
    /\ Return(w, row'[wk[w].d])
    /\ UNCHANGED <<now, on, posts, lost>>

FreshSending(r) == r.status = "sending" /\ ~StaleSending(r)

\* Nothing to do according to the copy.
Stop(w) ==
    LET copy == wk[w].copy IN
    /\ wk[w].pc = "loaded" /\ on[w]
    /\ IsDisabled(copy) \/ copy.status = "sent" \/ FreshSending(copy)
    /\ Return(w, copy)
    /\ UNCHANGED <<now, row, on, posts, lost>>

Proceeds(w) ==
    LET copy == wk[w].copy IN
    wk[w].pc = "loaded" /\ on[w] /\ copy.status # "sent"
        /\ ~IsDisabled(copy) /\ ~FreshSending(copy)

\* No attempt is left according to the copy.
GiveUp(w) ==
    /\ Proceeds(w) /\ wk[w].copy.attempts >= MaxAttempts
    /\ row' = [row EXCEPT ![wk[w].d] = [@ EXCEPT !.status = "failed"]]
    /\ Finish(w)
    /\ UNCHANGED <<now, queue, on, posts, lost>>

\* The article may not be pushed to this group (any more).
NotEligible(w) ==
    /\ Proceeds(w) /\ wk[w].copy.attempts < MaxAttempts
    /\ row' = [row EXCEPT ![wk[w].d] = [@ EXCEPT !.status = "skipped", !.disabled = FALSE]]
    /\ Finish(w)
    /\ UNCHANGED <<now, queue, on, posts, lost>>

\* pusher.is_online() is asked.
Probe(w) ==
    /\ Proceeds(w) /\ wk[w].copy.attempts < MaxAttempts
    /\ wk' = [wk EXCEPT ![w] = [@ EXCEPT !.pc = "probing"]]
    /\ UNCHANGED <<now, row, queue, on, posts, lost>>

Offline(w) ==
    /\ wk[w].pc = "probing" /\ on[w]
    /\ row' = [row EXCEPT ![wk[w].d] = Failure(@, wk[w].copy)]
    /\ Return(w, Failure(wk[w].copy, wk[w].copy))
    /\ UNCHANGED <<now, on, posts, lost>>

\* What a claim does to the row.
Attempted(r) == [r EXCEPT !.status = "sending", !.attempts = @ + 1, !.last = now]

\* Defect: a worker whose update changed nothing goes on with the claim it reads.
ClaimAdopted(w) ==
    LET d == wk[w].d  free == Open(row[d]) /\ row[d].attempts < MaxAttempts IN
    /\ wk[w].pc = "probing" /\ now <= Horizon
    /\ row' = [row EXCEPT ![d] = IF free THEN Attempted(@) ELSE @]
    /\ now' = IF free THEN now + 1 ELSE now
    /\ wk' = [wk EXCEPT ![w] = [@ EXCEPT !.pc = "claimed", !.claim = Token(row'[d])]]
    /\ UNCHANGED <<queue, on, posts, lost>>

\* Defect: the status is not part of the compare-and-set, nor is the attempt counted.
ClaimUncounted(w) ==
    LET d == wk[w].d IN
    /\ wk[w].pc = "probing" /\ now <= Horizon
    /\ row' = [row EXCEPT ![d] = [@ EXCEPT !.status = "sending", !.last = now]]
    /\ wk' = [wk EXCEPT ![w] = [@ EXCEPT !.pc = "claimed", !.claim = Token(row'[d])]]
    /\ now' = now + 1
    /\ UNCHANGED <<queue, on, posts, lost>>

\* Defect: the attempts left are not part of the compare-and-set.
ClaimUnlimited(w) ==
    LET d == wk[w].d IN
    /\ wk[w].pc = "probing" /\ Open(row[d]) /\ now <= Horizon
    /\ row' = [row EXCEPT ![d] = Attempted(@)]
    /\ wk' = [wk EXCEPT ![w] = [@ EXCEPT !.pc = "claimed", !.claim = Token(row'[d])]]
    /\ now' = now + 1
    /\ UNCHANGED <<queue, on, posts, lost>>

\* The gateway is online: _claim_delivery_attempt takes an attempt by
\* compare-and-set and reads its own claim in the same transaction.
Claim(w) ==
    LET d == wk[w].d IN
    /\ wk[w].pc = "probing"
    /\ IF Open(row[d]) /\ row[d].attempts < MaxAttempts
       THEN /\ now <= Horizon
            /\ row' = [row EXCEPT ![d] = Attempted(@)]
            /\ wk' = [wk EXCEPT ![w] = [@ EXCEPT !.pc = "claimed",
                                                 !.claim = Token(Attempted(row[d]))]]
            /\ now' = now + 1
            /\ UNCHANGED queue
       ELSE Return(w, row[d]) /\ UNCHANGED <<now, row>>
    /\ UNCHANGED <<on, posts, lost>>

Owns(w) == row[wk[w].d].status = "sending" /\ Token(row[wk[w].d]) = wk[w].claim

\* The row is read again: the claim must still be the worker's own.
Recheck(w) ==
    LET d == wk[w].d IN
    /\ wk[w].pc = "claimed"
    /\ IF Owns(w)
       THEN /\ on[w]
            /\ wk' = [wk EXCEPT ![w] = [@ EXCEPT !.pc = "checking", !.copy = row[d]]]
            /\ UNCHANGED queue
       ELSE Return(w, row[d])
    /\ UNCHANGED <<now, row, on, posts, lost>>

\* The channel was switched off after the claim, before the message left.
SealOwnClaim(w) ==
    /\ ~on[w]
    /\ wk[w].pc = "checking" \/ (wk[w].pc = "claimed" /\ Owns(w))
    /\ SealClaim(wk[w].d, wk[w].claim)
    /\ Return(w, row'[wk[w].d])
    /\ UNCHANGED <<now, on, posts, lost>>

\* The public page of the article cannot be read.
Unreachable(w) ==
    /\ wk[w].pc = "checking"
    /\ row' = [row EXCEPT ![wk[w].d] = Failure(@, wk[w].copy)]
    /\ Return(w, Failure(wk[w].copy, wk[w].copy))
    /\ UNCHANGED <<now, on, posts, lost>>

\* send_group_message reaches the gateway.  An error answer, or none, does not
\* say whether the group got the message.
Send(w) ==
    LET d == wk[w].d IN
    /\ wk[w].pc = "checking" /\ on[w]
    /\ \/ /\ posts' = [posts EXCEPT ![d] = @ + 1]
          /\ wk' = [wk EXCEPT ![w] = [@ EXCEPT !.pc = "posted"]]
       \/ /\ posts' \in {posts, [posts EXCEPT ![d] = @ + 1]}
          /\ wk' = [wk EXCEPT ![w] = [@ EXCEPT !.pc = "refused"]]
    /\ UNCHANGED <<now, row, queue, on, lost>>

RecordSent(w) ==
    /\ wk[w].pc = "posted"
    /\ row' = [row EXCEPT ![wk[w].d] = [@ EXCEPT !.status = "sent", !.disabled = FALSE,
                                                      !.receipt = TRUE]]
    /\ Finish(w)
    /\ UNCHANGED <<now, queue, on, posts, lost>>

\* After an error the row is read again, to compute the outcome from.
Reread(w) ==
    /\ wk[w].pc = "refused"
    /\ wk' = [wk EXCEPT ![w] = [@ EXCEPT !.pc = "failing", !.copy = row[wk[w].d]]]
    /\ UNCHANGED <<now, row, queue, on, posts, lost>>

\* Defect: the retry is left to the next window.
RecordErrorOnly(w) ==
    /\ wk[w].pc = "failing"
    /\ row' = [row EXCEPT ![wk[w].d] = Failure(@, wk[w].copy)]
    /\ Finish(w)
    /\ UNCHANGED <<now, queue, on, posts, lost>>

RecordError(w) ==
    /\ wk[w].pc = "failing"
    /\ row' = [row EXCEPT ![wk[w].d] = Failure(@, wk[w].copy)]
    /\ Return(w, Failure(wk[w].copy, wk[w].copy))
    /\ UNCHANGED <<now, on, posts, lost>>

\* The process dies; the message comes back unless it is lost.
Crash(w) ==
    /\ wk[w].pc # "idle"
    /\ Finish(w)
    /\ \/ queue' = [queue EXCEPT ![wk[w].d] = @ + 1] /\ UNCHANGED lost
       \/ lost' = lost \cup {wk[w].d} /\ UNCHANGED queue
    /\ UNCHANGED <<now, row, on, posts>>

SwitchChannel(w) ==
    /\ Switching
    /\ on' = [on EXCEPT ![w] = ~@]
    /\ UNCHANGED <<now, row, queue, wk, posts, lost>>

Tick ==
    /\ now < MaxTime
    /\ now' = now + 1
    /\ UNCHANGED <<row, queue, wk, on, posts, lost>>

-----------------------------------------------------------------------------

Init ==
    /\ now = 1
    /\ row = [d \in Delivery |-> NoRow]
    /\ queue = [d \in Delivery |-> 0]
    /\ wk = [w \in Worker |-> IdleWorker]
    /\ on = [w \in Worker |-> TRUE]
    /\ posts = [d \in Delivery |-> 0]
    /\ lost = {}

Handle(w) ==
    \/ SealBeforeClaim(w) \/ Stop(w) \/ GiveUp(w) \/ Probe(w)
    \/ Offline(w) \/ Claim(w) \/ Recheck(w) \/ SealOwnClaim(w)
    \/ Send(w) \/ RecordSent(w) \/ Reread(w) \/ RecordError(w)

Next ==
    \/ \E w \in Worker, d \in Delivery : AutoPush(w, d) \/ WindowPush(w, d) \/ Deliver(w, d)
    \/ \E w \in Worker : Handle(w)
    \/ \E w \in Worker : NotEligible(w) \/ Unreachable(w) \/ Crash(w) \/ SwitchChannel(w)
    \/ Tick

Spec == Init /\ [][Next]_vars

-----------------------------------------------------------------------------
(* Properties.                                                             *)

\* Whatever workers, crashes, duplicate messages and switches of the channel do,
\* the group gets a delivery at most max_attempts times, each message was
\* counted, and a delivery is recorded as sent only if the group got it.
PostsWithinAttempts ==
    \A d \in Delivery :
        /\ posts[d] <= row[d].attempts /\ row[d].attempts <= MaxAttempts
        /\ row[d].status = "sent" => posts[d] > 0

\* The books of every delivery: CountedSends states what they promise.  In
\* particular the attempt that a switched-off channel gives back has sent
\* nothing, and no receipt is issued for nothing or lost.
Books == INSTANCE CountedSends WITH
             Item <- Delivery, Limit <- MaxAttempts,
             taken <- [d \in Delivery |-> row[d].attempts],
             got <- posts,
             receipt <- [d \in Delivery |-> row[d].receipt]

SendsAreCounted == Books!Spec

Holding == {"claimed", "checking", "posted", "refused", "failing"}

\* Two workers never act on the same claim: a worker whose update changed nothing
\* must not go on with the claim of the worker that was faster.
ClaimsAreOwned ==
    \A w, v \in Worker :
        /\ wk[w].pc \in Holding /\ wk[v].pc \in Holding /\ wk[w].d = wk[v].d
        /\ wk[w].claim = wk[v].claim
        => w = v

\* Switching the channel off never seals a delivery that is recorded as sent, nor
\* one that another worker is sending under a claim that is still fresh.  (A
\* delivery whose record was overwritten after its receipt, as in NotSentAgain,
\* is not recorded as sent any more, and may be sealed.)
DisablingKeepsSent ==
    [][\A d \in Delivery :
          ~IsDisabled(row[d]) /\ IsDisabled(row'[d]) =>
              /\ row[d].status # "sent"
              /\ FreshSending(row[d]) =>
                     \A w \in Worker :
                         wk[w].pc \in Holding /\ wk[w].d = d /\ Owns(w) => wk'[w].pc = "idle"]_vars

\* A delivery that is to be tried again always has a message, waiting or being
\* handled, unless that very message was lost: windows do not queue it again,
\* and workers that overwrite each other's outcome must not drop it.
RetryingIsQueued ==
    \A d \in Delivery :
        row[d].status = "retrying" /\ row[d].attempts < MaxAttempts =>
            queue[d] > 0 \/ d \in lost \/ \E w \in Worker : wk[w].pc # "idle" /\ wk[w].d = d

\* A delivery with a receipt is not sent to the group again.
NotSentAgain == [][\A d \in Delivery : row[d].receipt => posts'[d] = posts[d]]_vars
=============================================================================
