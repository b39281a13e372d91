-------------------------- MODULE TranslationClaim --------------------------
(***************************************************************************)
(* Translation of a news article by Celery workers, with the recovery      *)
(* claim that fences automatic retries                                     *)
(* (stable/services/translation_recovery.py, stable/tasks.py).             *)
(*                                                                         *)
(* An article row says whether it is waiting, being translated, translated *)
(* or failed.  A failed article with a retry time is CLAIMED: one          *)
(* transaction marks the row and creates a TranslationRun whose envelope   *)
(* holds the claim time, the deadline and the hash of the source body.  A  *)
(* worker then prepares the claim, calls the paid provider outside any     *)
(* transaction, stores the answer as a checkpoint and finally applies it;  *)
(* each of those three transactions locks both rows and re-checks the      *)
(* claim.  Beside this managed path lives the ordinary one, used for first *)
(* and forced translations, which holds no claim and writes the whole row  *)
(* from the copy it read before the provider call.                         *)
(***************************************************************************)
EXTENDS Integers, FiniteSets

CONSTANTS
    Article,        \* news articles
    Run,            \* primary keys for managed TranslationRun rows
    Worker,         \* Celery worker slots
    Body,           \* versions of an article's source text
    Answer,         \* texts the provider may return
    NoRun, NoText,  \* NULLs
    MaxAttempts,    \* TRANSLATION_AUTO_RETRY_MAX_ATTEMPTS
    Stale,          \* TRANSLATION_STALE_AFTER_SECONDS, in ticks
    RetryDelay,     \* retry_delay_seconds, in ticks
    Requests,       \* force flags of the ordinary requests that may be made
    Editing,        \* kinds of out-of-band row edits, a subset of EditKind
    Horizon,        \* bound: last tick at which a row may be stamped
    MaxTime         \* bound: last tick of the clock

ASSUME ConstantsAssumption ==
    /\ Article # {} /\ Body # {}
    /\ NoRun \notin Run
    /\ NoText \notin [body : Body, word : Answer]
    /\ MaxAttempts \in Nat \ {0} /\ Stale \in Nat \ {0} /\ RetryDelay \in Nat \ {0}
    /\ Requests \subseteq BOOLEAN
    /\ Editing \subseteq {"ingest", "retry", "revive"}
    /\ Horizon \in Nat /\ MaxTime \in Nat

VARIABLES
    now,     \* the clock; a stamp is unique, so stamping also advances it
    art,     \* NewsArticle rows
    runs,    \* managed TranslationRun rows
    calls,   \* provider calls made for each run
    outbox,  \* claimed by the retry selector, message not sent yet
    inbox,   \* translate_article messages the broker may (re)deliver
    wk,      \* worker slots
    editor   \* an out-of-band read-modify-write of an article row

vars == <<now, art, runs, calls, outbox, inbox, wk, editor>>

Never == 0  \* a NULL time stamp; the clock starts at 1

Text == [body : Body, word : Answer]

Row == [status    : {"pending", "translating", "translated", "failed"},
        workflow  : {"pending_translation", "translation_failed",
                     "pending_edit", "published"},
        started   : Nat,
        due       : Nat,
        count     : Nat,
        exhausted : BOOLEAN,
        transient : BOOLEAN,   \* error category is one of TRANSIENT_CATEGORIES
        revived   : BOOLEAN,   \* decision_reason records a ranked revival
        body      : Body,
        zh        : Text \cup {NoText}]

RunRow == [article   : Article,
           status    : {"none", "started", "success", "failed"},
           phase     : {"claimed", "executing", "completed", "failed", "interrupted"},
           claimedAt : Nat,
           body      : Body,
           result    : Text \cup {NoText}]

Message == [article : Article, run : Run \cup {NoRun}, force : BOOLEAN]

EditKind == {"ingest", "retry", "revive"}

WorkerPC == {"idle", "read", "ordinary", "holding", "prepared", "calling",
             "answered", "saved"}

WorkerRow == [pc : WorkerPC, msg : Message, run : Run \cup {NoRun},
              copy : Row, answer : Text \cup {NoText}]

Edit == [kind : EditKind \cup {"idle"}, article : Article, copy : Row]

TypeOK ==
    /\ now \in Nat \ {0}
    /\ art \in [Article -> Row]
    /\ runs \in [Run -> RunRow]
    /\ calls \in [Run -> Nat]
    /\ outbox \subseteq Run
    /\ inbox \subseteq Message
    /\ wk \in [Worker -> WorkerRow]
    /\ editor \in Edit

-----------------------------------------------------------------------------
(* Rows.                                                                   *)

NewRow(b) == [status |-> "pending", workflow |-> "pending_translation",
              started |-> Never, due |-> Never, count |-> 0,
              exhausted |-> FALSE, transient |-> FALSE, revived |-> FALSE,
              body |-> b, zh |-> NoText]

\* Defect: the count is kept as attempts left.
FailedCountsDown(row, transient, isRetry, preserve) ==
    [row EXCEPT !.status = "failed", !.workflow = "translation_failed", !.started = Never,
                !.count = IF isRetry THEN row.count - 1 ELSE row.count,
                !.transient = transient,
                !.due = IF transient /\ ~preserve THEN now + RetryDelay ELSE Never]

\* Defect: a takeover counts as an attempt.
FailedAlwaysCounts(row, transient, isRetry, preserve) ==
    [row EXCEPT !.status = "failed", !.workflow = "translation_failed", !.started = Never,
                !.count = row.count + 1,
                !.transient = transient,
                !.due = IF transient /\ row.count + 1 < MaxAttempts THEN now + RetryDelay ELSE Never,
                !.exhausted = row.count + 1 >= MaxAttempts]

\* record_translation_failure: what a failure leaves of a row.
Attempts(row, isRetry) == IF isRetry THEN row.count + 1 ELSE row.count

Exhausts(row, isRetry) == isRetry /\ Attempts(row, isRetry) >= MaxAttempts

Failed(row, transient, isRetry, preserve) ==
    [row EXCEPT
        !.status    = "failed",
        !.workflow  = IF preserve THEN @ ELSE "translation_failed",
        !.started   = Never,
        !.count     = Attempts(row, isRetry),
        !.transient = transient,
        !.due       = IF transient /\ ~Exhausts(row, isRetry) /\ ~preserve
                      THEN now + RetryDelay ELSE Never,
        !.exhausted = Exhausts(row, isRetry) /\ ~preserve]

\* apply_translation_result and the status fields written with it.
Translated(row, text) ==
    [row EXCEPT
        !.status    = "translated",
        !.workflow  = IF @ \in {"pending_translation", "translation_failed"}
                      THEN "pending_edit" ELSE @,
        !.started   = Never,
        !.due       = Never,
        !.exhausted = FALSE,
        !.transient = FALSE,
        !.zh        = text]

\* A row that somebody starts translating now.
Started(row) == [row EXCEPT !.status = "translating", !.started = now]

\* The columns in record_translation_failure's update_fields, taken from new.
FailureFields(row, new) ==
    [row EXCEPT !.status = new.status, !.workflow = new.workflow,
                !.started = new.started, !.count = new.count,
                !.transient = new.transient, !.due = new.due,
                !.exhausted = new.exhausted]

-----------------------------------------------------------------------------
(* Claims.                                                                 *)

Deadline(r) == runs[r].claimedAt + Stale

\* The rows still belong to run r: it is open and the article carries its stamp.
Holds(r) ==
    /\ runs[r].status = "started"
    /\ art[runs[r].article].status = "translating"
    /\ art[runs[r].article].started = runs[r].claimedAt

\* Defect: the source text is not compared.
FencedIgnoringInput(r) == Holds(r) /\ now < Deadline(r)

\* _locked_translation_claim with its deadline and input checks.
Fenced(r) ==
    /\ Holds(r)
    /\ now < Deadline(r)
    /\ art[runs[r].article].body = runs[r].body

\* claim_translation_retry: compare-and-set on the retry time that was read.
Claimable(a, due) ==
    art[a].status = "failed" /\ art[a].due = due /\ ~art[a].exhausted

\* Defect: the claim is stamped with the retry time it was read with.
ClaimStampedWithDue(a, r) ==
    /\ runs[r].status = "none"
    /\ now <= Horizon
    /\ art' = [art EXCEPT ![a].status = "translating",
                          ![a].started = art[a].due,
                          ![a].due = Never]
    /\ runs' = [runs EXCEPT ![r] =
                  [article |-> a, status |-> "started", phase |-> "claimed",
                   claimedAt |-> art[a].due, body |-> art[a].body, result |-> NoText]]
    /\ now' = now + 1

Claim(a, r) ==
    /\ runs[r].status = "none"
    /\ now <= Horizon
    /\ art' = [art EXCEPT ![a] = [Started(@) EXCEPT !.due = Never]]
    /\ runs' = [runs EXCEPT ![r] =
                  [article |-> a, status |-> "started", phase |-> "claimed",
                   claimedAt |-> now, body |-> art[a].body, result |-> NoText]]
    /\ now' = now + 1

Close(r, phase) ==
    runs' = [runs EXCEPT ![r] =
               [@ EXCEPT !.phase = phase,
                         !.status = IF phase = "completed" THEN "success" ELSE "failed"]]

-----------------------------------------------------------------------------
(* The retry selector, run by beat.                                        *)

ManagedMessage(r) == [article |-> runs[r].article, run |-> r, force |-> FALSE]

\* dispatch_due_translation_retries: a due transient failure is claimed ...
SelectorClaims(a, r) ==
    /\ art[a].transient /\ art[a].due # Never /\ art[a].due <= now
    /\ Claimable(a, art[a].due)
    /\ Claim(a, r)
    /\ outbox' = outbox \cup {r}
    /\ UNCHANGED <<calls, inbox, wk, editor>>

\* ... and its message is sent; the selector may also die before sending it.
SelectorSends(r) ==
    /\ r \in outbox
    /\ outbox' = outbox \ {r}
    /\ inbox' \in {inbox, inbox \cup {ManagedMessage(r)}}
    /\ UNCHANGED <<now, art, runs, calls, wk, editor>>

\* The failure that release_failed_translation_dispatch records.
Released(row, claimedAt) ==
    [row EXCEPT !.status = "failed", !.workflow = "translation_failed", !.transient = TRUE,
                !.started = Never, !.due = claimedAt + RetryDelay]

\* .delay raised, though the broker may have kept the message:
\* release_failed_translation_dispatch takes an untouched claim back.
SelectorSendFails(r) ==
    /\ r \in outbox
    /\ outbox' = outbox \ {r}
    /\ inbox' \in {inbox, inbox \cup {ManagedMessage(r)}}
    /\ IF Holds(r) /\ runs[r].phase = "claimed"
       THEN /\ art' = [art EXCEPT ![runs[r].article] = Released(@, runs[r].claimedAt)]
            /\ Close(r, "failed")
       ELSE UNCHANGED <<art, runs>>
    /\ UNCHANGED <<now, calls, wk, editor>>

\* Defect: the age of the claim is not tested again under the lock.
RecoverAnyAge(a) ==
    \E r \in Run :
        /\ art[a].status = "translating"
        /\ runs[r].status = "started" /\ runs[r].article = a
        /\ runs[r].claimedAt = art[a].started
        /\ Close(r, "interrupted")
        /\ art' = [art EXCEPT ![a] = Failed(@, TRUE, FALSE, FALSE)]
        /\ UNCHANGED <<now, calls, outbox, inbox, wk, editor>>

\* Defect: only a claim that a worker has consumed is recovered.
RecoverExecutingOnly(a) ==
    \E r \in Run :
        /\ art[a].status = "translating" /\ art[a].started + Stale < now
        /\ runs[r].status = "started" /\ runs[r].article = a
        /\ runs[r].claimedAt = art[a].started /\ runs[r].phase = "executing"
        /\ Close(r, "interrupted")
        /\ art' = [art EXCEPT ![a] = Failed(@, TRUE, FALSE, FALSE)]
        /\ UNCHANGED <<now, calls, outbox, inbox, wk, editor>>

\* recover_one_stale_translation.  Open managed runs of the article must
\* single out the one that stamped the row, or nothing is recovered.
Recover(a) ==
    LET managed  == {r \in Run : runs[r].status = "started" /\ runs[r].article = a}
        matching == {r \in managed : runs[r].claimedAt = art[a].started}
    IN  /\ art[a].status = "translating"
        /\ art[a].started # Never /\ art[a].started + Stale < now
        /\ \/ managed = {} /\ UNCHANGED runs
           \/ \E r \in Run : matching = {r} /\ Close(r, "interrupted")
        /\ art' = [art EXCEPT ![a] = Failed(@, TRUE, FALSE, FALSE)]
        /\ UNCHANGED <<now, calls, outbox, inbox, wk, editor>>

-----------------------------------------------------------------------------
(* Workers: translate_article_task and _translate_managed_claim_task.      *)

NoRow == NewRow(CHOOSE b \in Body : TRUE)

NoMessage == [article |-> CHOOSE a \in Article : TRUE, run |-> NoRun, force |-> FALSE]

IdleWorker == [pc |-> "idle", msg |-> NoMessage, run |-> NoRun,
               copy |-> NoRow, answer |-> NoText]

\* The task returns or raises: its message is acknowledged.
Finish(w) ==
    /\ wk' = [wk EXCEPT ![w] = IdleWorker]
    /\ inbox' = inbox \ {wk[w].msg}

Goto(w, pc) == wk' = [wk EXCEPT ![w] = [@ EXCEPT !.pc = pc]]

\* The task starts.  A message stays in the broker until it is acknowledged,
\* so another worker may get it too.
Deliver(w, m) ==
    /\ wk[w].pc = "idle" /\ m \in inbox
    /\ IF m.run # NoRun
       THEN /\ wk' = [wk EXCEPT ![w] = [IdleWorker EXCEPT !.pc = "holding", !.msg = m,
                                                          !.run = m.run]]
            /\ UNCHANGED inbox
       ELSE IF art[m.article].status = "translating"
       THEN inbox' = inbox \ {m} /\ UNCHANGED wk
       ELSE /\ wk' = [wk EXCEPT ![w] = [IdleWorker EXCEPT !.pc = "read", !.msg = m,
                                                          !.copy = art[m.article]]]
            /\ UNCHANGED inbox
    /\ UNCHANGED <<now, art, runs, calls, outbox, editor>>

\* A failed article with a retry time is claimed instead, unless forced.
WantsClaim(w) ==
    ~wk[w].msg.force /\ wk[w].copy.status = "failed" /\ wk[w].copy.due # Never

WorkerClaims(w, r) ==
    /\ wk[w].pc = "read" /\ WantsClaim(w)
    /\ LET a == wk[w].msg.article IN
       IF Claimable(a, wk[w].copy.due)
       THEN /\ Claim(a, r)
            /\ wk' = [wk EXCEPT ![w] = [@ EXCEPT !.pc = "holding", !.run = r,
                                                 !.copy = NoRow]]
            /\ UNCHANGED inbox
       ELSE Finish(w) /\ UNCHANGED <<now, art, runs>>
    /\ UNCHANGED <<calls, outbox, editor>>

\* Defect: an executing claim without a checkpoint is run again.
PrepareAgain(w) ==
    LET r == wk[w].run IN
    /\ wk[w].pc = "holding" /\ Fenced(r)
    /\ runs' = [runs EXCEPT ![r].phase = "executing"]
    /\ Goto(w, "prepared")
    /\ UNCHANGED <<now, art, calls, outbox, inbox, editor>>

\* prepare_translation_claim: the first delivery takes the claim, a later one
\* resumes from the checkpoint if there is one.
Prepare(w) ==
    LET r == wk[w].run IN
    /\ wk[w].pc = "holding" /\ Fenced(r)
    /\ \/ /\ runs[r].phase = "claimed"
          /\ runs' = [runs EXCEPT ![r] = [@ EXCEPT !.phase = "executing"]]
          /\ Goto(w, "prepared")
       \/ /\ runs[r].phase = "executing" /\ runs[r].result # NoText
          /\ wk' = [wk EXCEPT ![w] = [@ EXCEPT !.pc = "saved", !.answer = runs[r].result]]
          /\ UNCHANGED runs
    /\ UNCHANGED <<now, art, calls, outbox, inbox, editor>>

\* translate_article(managed_run=run): the paid request leaves.
CallProvider(w) ==
    /\ wk[w].pc = "prepared"
    /\ calls' = [calls EXCEPT ![wk[w].run] = @ + 1]
    /\ Goto(w, "calling")
    /\ UNCHANGED <<now, art, runs, outbox, inbox, editor>>

ProviderAnswers(w, x) ==
    /\ wk[w].pc = "calling"
    /\ wk' = [wk EXCEPT ![w] = [@ EXCEPT !.pc = "answered",
                             !.answer = [body |-> runs[wk[w].run].body, word |-> x]]]
    /\ UNCHANGED <<now, art, runs, calls, outbox, inbox, editor>>

\* finalize_translation_claim(error=...).
ProviderFails(w, transient) ==
    LET r == wk[w].run  a == runs[r].article IN
    /\ wk[w].pc = "calling"
    /\ Fenced(r) /\ runs[r].phase = "executing" /\ runs[r].result = NoText
    /\ art' = [art EXCEPT ![a] = Failed(@, transient, TRUE, FALSE)]
    /\ Close(r, "failed")
    /\ Finish(w)
    /\ UNCHANGED <<now, calls, outbox, editor>>

\* Defect: the checkpoint is stored without locking and checking the claim.
SaveCheckpointUnfenced(w) ==
    /\ wk[w].pc = "answered"
    /\ runs' = [runs EXCEPT ![wk[w].run].result = wk[w].answer]
    /\ Goto(w, "saved")
    /\ UNCHANGED <<now, art, calls, outbox, inbox, editor>>

\* save_translation_checkpoint: the first answer is stored, the same one
\* again is accepted.
SaveCheckpoint(w) ==
    LET r == wk[w].run IN
    /\ wk[w].pc = "answered"
    /\ Fenced(r) /\ runs[r].phase = "executing"
    /\ runs[r].result \in {NoText, wk[w].answer}
    /\ runs' = [runs EXCEPT ![r] = [@ EXCEPT !.result = wk[w].answer]]
    /\ Goto(w, "saved")
    /\ UNCHANGED <<now, art, calls, outbox, inbox, editor>>

\* finalize_translation_claim(checkpoint=...): article and run in one commit.
Commit(w) ==
    LET r == wk[w].run  a == runs[r].article IN
    /\ wk[w].pc = "saved"
    /\ Fenced(r) /\ runs[r].phase = "executing" /\ runs[r].result = wk[w].answer
    /\ art' = [art EXCEPT ![a] = Translated(@, wk[w].answer)]
    /\ Close(r, "completed")
    /\ Finish(w)
    /\ UNCHANGED <<now, calls, outbox, editor>>

\* Any of the locked checks refuses: the task logs "skipped" and ends.
Refused(w) ==
    LET r == wk[w].run IN
    /\ wk[w].pc \in {"holding", "calling", "answered", "saved"}
    /\ \/ ~Fenced(r)
       \/ /\ wk[w].pc = "holding"
          /\ runs[r].phase # "claimed" /\ runs[r].result = NoText
       \/ /\ wk[w].pc = "calling"
          /\ runs[r].result # NoText
       \/ /\ wk[w].pc = "answered"
          /\ runs[r].result \notin {NoText, wk[w].answer}
       \/ /\ wk[w].pc = "saved"
          /\ runs[r].result # wk[w].answer
    /\ Finish(w)
    /\ UNCHANGED <<now, art, runs, calls, outbox, editor>>

\* The ordinary path marks the row without looking at it again ...
StartOrdinary(w) ==
    LET a == wk[w].msg.article IN
    /\ wk[w].pc = "read" /\ ~WantsClaim(w) /\ now <= Horizon
    /\ art' = [art EXCEPT ![a] = Started(@)]
    /\ wk' = [wk EXCEPT ![w] = [@ EXCEPT !.pc = "ordinary", !.copy = Started(wk[w].copy)]]
    /\ now' = now + 1
    /\ UNCHANGED <<runs, calls, outbox, inbox, editor>>

\* ... and after the provider call writes every column of its copy.
OrdinaryAnswers(w, x) ==
    LET copy == wk[w].copy IN
    /\ wk[w].pc = "ordinary"
    /\ art' = [art EXCEPT ![wk[w].msg.article] =
                 Translated(copy, [body |-> copy.body, word |-> x])]
    /\ Finish(w)
    /\ UNCHANGED <<now, runs, calls, outbox, editor>>

ForcePublished(w) == wk[w].msg.force /\ wk[w].copy.workflow = "published"

OrdinaryFails(w, transient) ==
    /\ wk[w].pc = "ordinary"
    /\ art' = [art EXCEPT ![wk[w].msg.article] =
                 FailureFields(@, Failed(wk[w].copy, transient, FALSE, ForcePublished(w)))]
    /\ Finish(w)
    /\ UNCHANGED <<now, runs, calls, outbox, editor>>

\* The process dies; with late acknowledgement the message usually survives.
Crash(w) ==
    /\ wk[w].pc # "idle"
    /\ wk' = [wk EXCEPT ![w] = IdleWorker]
    /\ inbox' \in {inbox, inbox \ {wk[w].msg}}
    /\ UNCHANGED <<now, art, runs, calls, outbox, editor>>

-----------------------------------------------------------------------------
(* Everything else that writes the row.                                    *)

PlainMessage(a, force) == [article |-> a, run |-> NoRun, force |-> force]

\* Ingestion, the admin and the editing pages ask for a translation.
Request(a, force) ==
    /\ force \in Requests
    /\ inbox' = inbox \cup {PlainMessage(a, force)}
    /\ UNCHANGED <<now, art, runs, calls, outbox, wk, editor>>

\* The guard of each edit, on the copy that was read.
EditAllowed(kind, row) ==
    \/ kind = "ingest"
    \/ kind = "retry" /\ row.status # "translating"
    \/ /\ kind = "revive"
       /\ row.workflow # "published"
       /\ ~(/\ row.revived
            /\ row.status \in {"pending", "translating"}
            /\ row.workflow = "pending_translation")
       /\ row.status # "translated" \/ row.workflow = "translation_failed"

\* One out-of-band writer at a time.
EditReads(kind, a) ==
    /\ editor.kind = "idle" /\ kind \in Editing
    /\ EditAllowed(kind, art[a])
    /\ editor' = [kind |-> kind, article |-> a, copy |-> art[a]]
    /\ UNCHANGED <<now, art, runs, calls, outbox, inbox, wk>>

NoEdit == [kind |-> "idle", article |-> NoMessage.article, copy |-> NoRow]

EditorDone == editor' = NoEdit

\* upsert_article_from_draft saves the whole row it read, with a new body.
IngestWrites(b) ==
    /\ editor.kind = "ingest"
    /\ art' = [art EXCEPT ![editor.article] = [editor.copy EXCEPT !.body = b]]
    /\ EditorDone
    /\ UNCHANGED <<now, runs, calls, outbox, inbox, wk>>

Reopened(row) ==
    [row EXCEPT !.status = "failed", !.workflow = "translation_failed",
                !.due = now, !.exhausted = FALSE]

Revived(row) ==
    [row EXCEPT !.status = "pending", !.workflow = "pending_translation", !.revived = TRUE]

\* request_manual_translation_retry, then the task is dispatched.
RetryWrites ==
    /\ editor.kind = "retry" /\ now <= Horizon
    /\ art' = [art EXCEPT ![editor.article] = Reopened(@)]
    /\ inbox' = inbox \cup {PlainMessage(editor.article, FALSE)}
    /\ now' = now + 1
    /\ EditorDone
    /\ UNCHANGED <<runs, calls, outbox, wk>>

\* revive_article_after_ranked_source_elevation, then the task is dispatched.
ReviveWrites ==
    /\ editor.kind = "revive"
    /\ art' = [art EXCEPT ![editor.article] = Revived(@)]
    /\ inbox' = inbox \cup {PlainMessage(editor.article, FALSE)}
    /\ EditorDone
    /\ UNCHANGED <<now, runs, calls, outbox, wk>>

\* An edited article is published.
Publish(a) ==
    /\ art[a].status = "translated" /\ art[a].workflow = "pending_edit"
    /\ art' = [art EXCEPT ![a] = [@ EXCEPT !.workflow = "published"]]
    /\ UNCHANGED <<now, runs, calls, outbox, inbox, wk, editor>>

Tick ==
    /\ now < MaxTime
    /\ now' = now + 1
    /\ UNCHANGED <<art, runs, calls, outbox, inbox, wk, editor>>

-----------------------------------------------------------------------------

\* An article is new, or its first translation has failed transiently.
FailedRow == [NoRow EXCEPT !.status = "failed", !.transient = TRUE, !.due = 1,
                           !.workflow = "translation_failed"]

Init ==
    /\ now = 1
    /\ art \in [Article -> {NoRow, FailedRow}]
    /\ runs \in [Run -> {[article |-> NoMessage.article, status |-> "none",
                          phase |-> "claimed", claimedAt |-> 0,
                          body |-> NoRow.body, result |-> NoText]}]
    /\ calls = [r \in Run |-> 0]
    /\ outbox = {}
    /\ inbox = {}
    /\ wk = [w \in Worker |-> IdleWorker]
    /\ editor = NoEdit

WorkerStep(w) ==
    \/ \E m \in Message : Deliver(w, m)
    \/ \E r \in Run : WorkerClaims(w, r)
    \/ Prepare(w)
    \/ CallProvider(w)
    \/ \E x \in Answer : ProviderAnswers(w, x) \/ OrdinaryAnswers(w, x)
    \/ \E t \in BOOLEAN : ProviderFails(w, t) \/ OrdinaryFails(w, t)
    \/ SaveCheckpoint(w)
    \/ Commit(w)
    \/ Refused(w)
    \/ StartOrdinary(w)
    \/ Crash(w)

Next ==
    \/ \E w \in Worker : WorkerStep(w)
    \/ \E a \in Article, r \in Run : SelectorClaims(a, r)
    \/ \E r \in Run : SelectorSends(r) \/ SelectorSendFails(r)
    \/ \E a \in Article : Recover(a) \/ Publish(a)
    \/ \E a \in Article, f \in BOOLEAN : Request(a, f)
    \/ \E k \in EditKind, a \in Article : EditReads(k, a)
    \/ \E b \in Body : IngestWrites(b)
    \/ RetryWrites
    \/ ReviveWrites
    \/ Tick

Spec == Init /\ [][Next]_vars

\* Beat runs recover_stale_translations every five minutes and time passes;
\* nothing is assumed of workers, the broker or the selector.
FairSpec == Spec /\ WF_vars(Tick) /\ \A a \in Article : WF_vars(Recover(a))

-----------------------------------------------------------------------------
(* Properties.                                                             *)

\* At most one run of an article passes the claim check at any time, however
\* often the row was claimed, reset, edited or written back from a stale copy
\* (_locked_translation_claim compares the row's start with the claim's).
UniqueLiveClaim ==
    \A r, s \in Run :
        Holds(r) /\ Holds(s) /\ runs[r].article = runs[s].article => r = s

\* However its message is redelivered, a claim calls the paid provider at
\* most once (prepare_translation_claim consumes the claim before the call).
OneCallPerClaim == \A r \in Run : calls[r] <= 1

RoundOf(r) ==
    IF runs[r].status = "none" THEN "none"
    ELSE IF runs[r].status = "success" THEN "applied"
    ELSE IF runs[r].status = "failed" THEN "closed"
    ELSE IF runs[r].phase = "claimed" THEN "open"
    ELSE IF runs[r].result = NoText THEN "working" ELSE "answered"

\* Every managed run is a paid round: PaidRound states what that means.
Rounds == INSTANCE PaidRound WITH
              round <- [r \in Run |-> RoundOf(r)],
              paid <- calls,
              answer <- [r \in Run |-> runs[r].result]

RunsArePaidRounds == Rounds!Spec

\* Recovery interrupts a claim only when no worker can commit it any more:
\* the age test of recover_stale_translations and the deadline test of
\* _locked_translation_claim never overlap.
RecoveryAfterDeadline ==
    [][\A r \in Run :
          runs[r].status = "started" /\ runs'[r].phase = "interrupted" => now > Deadline(r)]_vars

\* A managed commit never puts the translation of one source text beside
\* another source text, although ingestion may replace the text at any time.
CommitMatchesSource ==
    [][\A r \in Run :
          runs[r].status = "started" /\ runs'[r].status = "success" =>
              LET row == art'[runs[r].article] IN row.zh # NoText /\ row.zh.body = row.body]_vars

\* The run ended with a provider error: a request was paid for and failed.
IsError(r) == runs[r].status = "failed" /\ runs[r].phase = "failed" /\ calls[r] = 1

Errors(a) == {r \in Run : runs[r].article = a /\ IsError(r)}

\* The retry count of an article is the number of its claims that ended with
\* a provider error: takeovers and failed dispatches are not counted, and no
\* provider error is counted twice or lost.
CountsProviderErrors == \A a \in Article : art[a].count = Cardinality(Errors(a))

\* Writers without a claim save whole rows from old copies and may lose an
\* error of the count (record_translation_failure, upsert_article_from_draft);
\* nobody ever counts an attempt that was not paid for, so no article is given
\* up with retries left to it.
CountIsEarned == \A a \in Article : art[a].count <= Cardinality(Errors(a))

\* An article does not stay "translating" for ever: beat's stale recovery
\* takes it back when its worker, message or selector is lost.
StaleIsRecovered ==
    \A a \in Article : art[a].status = "translating" ~> art[a].status # "translating"

\* Publishing an article is not undone by translating it again.
StaysPublished ==
    [][\A a \in Article :
          art[a].workflow = "published" => art'[a].workflow = "published"]_vars
=============================================================================
