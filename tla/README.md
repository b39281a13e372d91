# TLA+ models of the racing-news production system

This directory holds TLA+ specifications of the parts of this repository in which
several processes write the same rows: translation claims and their recovery,
automatic delivery to QQ groups, the exposure slots of a race event on the homepage
and in QQ groups, the windows in which sources are crawled and articles published,
the snapshots that race-data workers share, and the scheduled review of race results.
TLC checks them on small instances, TLAPS proves their safety properties for every
instance.

## 1. The system

A Django application (`server/`), a PostgreSQL database, Celery workers with a Redis
broker, and Celery beat. All shared state is in the database; processes interact
through rows, row locks, unique constraints, and Celery messages. Messages are
acknowledged late (`app/settings.py:926`), so a message whose worker dies is delivered
again; it can also be lost with the broker or with a process that committed a row and
died before sending.

| Component | State | Operations | What is hard |
|---|---|---|---|
| Translation claims (`services/translation_recovery.py`, `translate_article_task`) | translation columns of `NewsArticle`, `TranslationRun` with a claim envelope | retry selector, claim, prepare, provider call, checkpoint, finalize, stale recovery, manual retry, ordinary and forced translation | paid calls outside any transaction, takeovers, redelivery, whole-row saves |
| Ingestion and automation (`ingestion.py`, `automation.py`) | `NewsArticle` | upsert, ranked revival, publication | read-modify-write of rows others have claimed |
| QQ delivery (`qq_auto_push.py`, `qq_push_delivery_task`) | `QQPushDelivery` | creation, throttle, online probe, claim, post, receipt, failure, sealing of a disabled channel | duplicate messages, answers that do not say whether the group got the message, a switch that differs between processes |
| QQ windows (`qq_windows.py`) | deliveries, quota ledgers | choose and queue deliveries | several windows and pushes at once |
| Exposure slots (`race_news_exposure.py`) | `RaceNewsExposure` | reserve, promote, replace, force | decisions on rows that were locked too early or do not exist yet |
| Headline (`editorial_headlines.py`, `signals.py`) | headline selection and recommendation | set, cancel, recommend, accept, invalidate | a check that runs after the save that needs it |
| Production windows (`production_windows.py`, window tasks of `tasks.py`) | `ProductionWindow` | create, claim with a lease, coalesce, finish, rerun | windows left behind by dead tasks; a late worker finishing a window that was taken over |
| Crawling (`crawl_*` tasks, `record_source_crawl_result`) | streaks and back-off of `NewsSource`, crawl messages | select sources, dispatch, crawl, count, back off | selection and claim in two steps, streaks written back from an old copy |
| Publication (`publishing_windows.py`, `publish_region_window_task`) | articles, `QuotaLedger` of the site-hour | choose, reserve, publish, finish | quota paid before the work, windows taken over or rerun meanwhile |
| Shared snapshots (`race_data_sync_control.py`, `race_data_sync_providers.py`) | `RaceDataSnapshotLease`, artifact files | claim, replay, wait, fetch, write, publish, remove the file replaced, clean up | a lease that runs out under a working owner; files shared by content |
| Result review (`scheduled_race_result_review.py`) | `RaceResultReviewRun`, bundles, results of races | claim a slot, prepare, finish, mail, reconcile, apply | a claim that expires under a late worker; results that change between review and approval |
| Retry budget (`translation_retry_budget.py`) | budget roots and attempts | resolve, reserve, record | limits under concurrent reservations |
| Enrollment and claims of race-data sync, historical runner, reprocessing runs | run rows or files with leases | claim, renew, finish, reconcile | expired leases with a live holder |
| Event lifecycle, race live, P0 horses, reference sources | own tables and files | mostly reviewed batch jobs and parsers | long operator procedures |
| Views, admin, models, deployment | – | presentation, schema, shell | – |

What makes them correct, in one line each: an article is never paid for twice under one
claim, never stuck and never gets the wrong text; a group never gets a delivery more
often than allowed and nothing is lost because two workers met; an event never occupies
more than its two places, with different stories, and a waiting article is not forgotten;
a headline never points at a withdrawn article; a source is crawled in windows that
lie together, and neither forgotten nor hammered; an hour publishes no more than its ledger paid
for; an old page never replaces a newer snapshot; a review slot mails one bundle and no
approval is based on results that have changed. `PROJECT.json` lists the components with
their status and the hazards with the line where each one bites.

## 2. Modules

| Module | Models |
|---|---|
| `TranslationClaim` | the claim protocol, the ordinary path and the other writers of the row |
| `PaidRound` | what a managed run promises: the abstract specification `TranslationClaim` implements |
| `QQDelivery` | deliveries of one push target and the workers that handle them |
| `CountedSends` | what the books of a delivery promise to the group: the abstract specification `QQDelivery` implements |
| `ExposureSlots` | the table of exposure rows of one event in one scope, and the decisions on it |
| `QQExposure` | concurrent reservations for a QQ group (uses `ExposureSlots`) |
| `HomepageExposure` | the headline and the homepage slots (uses `ExposureSlots`) |
| `TwoPlaces` | what the two places of an event promise to its readers: the abstract specification both `QQExposure` and `HomepageExposure` implement |
| `ProductionWindow` | the table of windows of one scope, and the decisions on it |
| `CrawlWindow` | the processes that run the scheduling tasks and the crawls of one source (uses `ProductionWindow`) |
| `PublishWindow` | the publication tasks of one region and the site's hourly ledger (uses `ProductionWindow`) |
| `SharedSnapshot` | the lease, the files and the workers of one shared snapshot |
| `ResultReview` | the slots of the result review, their bundles and the races they review |
| `TranslationClaimProofs`, `QQDeliveryProofs`, `QQExposureProofs`, `HomepageExposureProofs`, `CrawlWindowProofs`, `PublishWindowProofs`, `SharedSnapshotProofs`, `ResultReviewProofs` | theorems about the module they are named after |
| `MC...` | instances for TLC where a model needs definitions or symmetry |

A definition whose comment begins with "Defect:" is a faulty variant of the definition
below it. Nothing uses these; they are the faults that the properties are tested with
(`mutants` in `PROJECT.json`).

### TranslationClaim

`art` holds the columns of `NewsArticle` the protocol reads, `runs` the managed
`TranslationRun`s with their envelope, `wk` what each worker has in memory, `inbox` the
messages, `outbox` claims of the selector whose message is not sent yet, `editor` a
read-modify-write of another process, `calls` counts provider calls. Each transaction of
the code is one action; everything between two transactions is a worker state:

    selector:  SelectorClaims -> SelectorSends | SelectorSendFails
    worker:    Deliver -> WorkerClaims -> Prepare -> CallProvider
               -> ProviderAnswers | ProviderFails -> SaveCheckpoint -> Commit
               (Refused wherever a locked check says no; Crash anywhere)
    ordinary:  Deliver -> StartOrdinary -> OrdinaryAnswers | OrdinaryFails
    others:    Recover, Request, EditReads then IngestWrites | RetryWrites | ReviveWrites,
               Publish, Tick

`StartOrdinary` and `OrdinaryAnswers` write the whole row from the worker's copy because
`tasks.py` calls `article.save()` without `update_fields`; the failure path names its
columns. A time stamp is unique in the code (microseconds), hence a step that stamps a row
also advances `now`; `Horizon` is the last tick at which that is allowed and `MaxTime` the
last tick of the clock. An attempt of the provider is one call with one answer out of
`Answer`: the checkpoint is the pair of the source text it was made from and the answer.
The clock is read when a transaction starts, so a check and the write it permits
see the same time.

### QQDelivery

`row` holds the deliveries, `queue` counts waiting messages, `wk` the workers with the
copy they read and the claim they hold, `on` the channel switch as each process sees it
(`QQ_CHANNEL_ENABLED` is a setting of each process), `posts` what reached the group.
`process_qq_push_delivery` is the chain
`Deliver -> Probe -> Claim -> Recheck -> Send -> RecordSent | Reread -> RecordError`,
with `Stop`, `GiveUp`, `NotEligible`, `Offline`, `Unreachable`, `SealBeforeClaim` and
`SealOwnClaim` where the code returns; `lost` are the deliveries whose last message was
lost. Every database access is a step of its own, so
`Offline`, `Unreachable` and `RecordError` write an outcome computed from a copy that may
be old, as `_set_delivery_failure` does. An error answer of the gateway leaves open
whether the group got the message. Automatic messages carry no image, so the second post
of `BotPusher.send_group_message` (without the image) does not occur here. `AutoPush` and
`WindowPush` differ in what they queue again: a publication queues everything that
is neither sent nor sealed, a window only what has no message by its own reckoning.
`CountedSends` keeps the books only: attempts taken, messages the group got, the receipt. A
claim takes an attempt, `Send` posts on it, `SealOwnClaim` gives back one that sent nothing,
`RecordSent` issues the receipt; every other step leaves the books alone.

### ExposureSlots, QQExposure, HomepageExposure

`exposure[a]` is the row of article `a` of one event in one scope; `slot = 0` means no row.
The code compares the ages of `created_at` and `activated_at` with one constant only, so
the rows carry these ages up to `Delay`. `Reserved(t, seen, a)` is `reserve_exposure`: the
table it leaves, given the rows its query found. Promotion of a waiting slot is part of
it, as in the code.

In a QQ group (`QQExposure`) reservations run concurrently. `SELECT ... FOR UPDATE` locks
the rows it finds and nothing else, and does not see rows inserted after it began; so a
reservation is `Look` (which rows exist) and then `Commit` (their contents under lock) or
`Abort` (a unique constraint refuses). `QuotaRejects` is the rollback to the savepoint of a
window. On the homepage (`HomepageExposure`) every request locks the single selection row
first and holds it to the end, so a request is one step; requests that are rejected roll
back and are no step. The check of a saved article is a step of its own (`Invalidate`)
because `signals.py` runs it on commit of the save.

`TwoPlaces` forgets rows, locks, requests and headlines and keeps which article holds which
place, whether the first has had its time, and whether the second is shown. A QQ group
implements it with nobody `Better` than the second article and, since it publishes a
waiting article only later, with `Patient`; the homepage with the better score and without.

### ProductionWindow, CrawlWindow, PublishWindow

Time advances by one window. A row is found by its age: window 0 is the current one, `Gone`
stands for all older than the lookback, and a lease is counted from the start of its window,
so that the state space does not grow as time passes. A task decides by the clock it read
when it began: to it, windows keep the age they had then (`tick.at`, `task[t].late`).
`Claimable`, `Coalescible` and `Starts` are `claim_window`, `_can_coalesce_old_window` and
`_window_starts_to_run`.

    crawl, scheduling task:  Select -> (Look -> Coalesce)* -> Claim -> Send | SendFails
    crawl, worker:           Start -> Crawled -> Record -> Finish
    others:                  TickDies, Crash, Console, Clock
    publication task:        Begin | Rerun -> Claim -> Select | SelectFails
                             -> Publish* -> Finish -> next window
    others:                  Crash, Ignore, Arrive, OtherRegion, Clock

Rows keep the statuses that decisions tell apart: `"open"` is pending, failed, skipped or
partial. In `CrawlWindow` the processes are those of one Celery worker
(`CELERY_WORKER_CONCURRENCY`, two by default, `deploy/docker/start-worker.sh:9`); each runs
scheduling tasks and crawls, so ticks overlap with each other and with crawls. `Overrun`
bounds how many windows may begin while a tick runs. A worker loads the source when it starts and writes the streaks back from
that copy; `source.rest` is the age of `last_crawl_at`. A message that the broker refuses and
that is then run in place behaves like one that is taken at once. In `PublishWindow` the
choice of articles and the reservation of their quota are one step, because nothing a task
does between them is visible to others and a choice that is out of date is published all
the same (from the copies). `ledger[h].used` is the counter of the hour, `spent` counts the
publications it paid for and exists for the property only. `Publish` does not look at the
article again: `publish_article_automatically` saves the copy that was selected.

### SharedSnapshot

`lease` is the row, `files` the artifacts, which are named by their content, `page` what the
provider shows. A generation is compared only with that of the row and every claim but a
replay raises it; hence the row keeps the set of `holders` with its generation. Run ids are
attempts: a message that is delivered again repeats the run id, and so may own the lease
again. The steps are those of `_get_or_fetch_shared_snapshot`: `Acquire`, `Replay` or `Wait`,
then `Fetch`, `Write`, `Publish`, and for the file that was replaced `Retire` (is it named by
the row?) and `Unlink`; `Fail` and `Crash` end a worker early, `Expire` and `ExpireLate` are
the clock (the latter under a working holder or one that removes a file), `Cleanup` is the
hourly removal of files older than the retention, which is at least seven days. A worker
that has just begun may decide by a clock it read earlier (`Acquire` and `Replay` with
`live = FALSE`). `lost` are the files that a worker removed after its own snapshot had run
out; it exists for the property only. Reading row and file of a complete snapshot changes
nothing and is left out.

### ResultReview

    worker:  Begin (reconcile) -> Claim | Refuse -> Prepare | NothingDue | PrepareFails
             -> Finish -> Mail | MailFails -> Notify        (Crash anywhere)
    others:  Sweep, Apply, Import, Tick

`run` holds the rows by slot, `bundle` the directories with their delivery and approvals,
`event` the results of the races. `version` stands for the digest of
`compute_event_baseline`; it is raised only when a bundle has frozen the version, which
assumes that contents do not return exactly to what an older bundle saw. `worker.start` is
the clock a run reads once and claims by, `now` is the clock of the database. A bundle's
digest contains the run's time, so each run writes a bundle of its own and mails it at most
once; the lease and retry branches of the delivery row cannot be reached. Slots recorded as
coalesced are claimed like slots without a row.

## 3. What the runs check

| Run | Instance | Shows |
|---|---|---|
| `claim_writers` | 1 article, 2 runs, 1 worker; ordinary requests; ingestion, manual retries and revivals | `UniqueLiveClaim`, `CountIsEarned`, `RunsArePaidRounds`, `RecoveryAfterDeadline`, `CommitMatchesSource` under every writer of the row |
| `claim_recovery` | 2 workers, 2 attempts, longer clock, fairness | `CountsProviderErrors`, `OneCallPerClaim`; `StaleIsRecovered` |
| `claim_orphan` | one worker and a revival | the code violates `StaleIsRecovered` (finding) |
| `claim_forced` | forced requests | the code violates `StaysPublished` (finding) |
| `qq_claims` | 1 delivery, 2 workers, 2 attempts, losses, a switched channel | `SendsAreCounted`, `ClaimsAreOwned`, `DisablingKeepsSent`, `RetryingIsQueued` |
| `qq_resend` | 2 workers | the code violates `NotSentAgain` (finding) |
| `qq_slots` | 3 articles (two alike), 2 tasks, fairness | `AtMostTwo`, `SlotsArePlaces`, `SecondSlotWaits`, `WaitingIsServed` |
| `home_slots` | 3 articles, 2 of the same angle, all scores different | `SlotsArePlaces`, `PointersArePublic`, `OnlyBetterReplaces`, `HandPickedHasSlot` |
| `crawl` | 1 source, 2 processes, 3 windows, ticks that overlap, fairness | `LiveAreClose`, `SucceededIsFresh`; `SourceIsCrawled`, `FailingIsBackedOff` |
| `publish` | 2 tasks, 2 articles, 1 per window, 2 windows of lookback, 2 windows per hour, limit 2, fairness | `QuotaCoversPublications`; `ReadyIsPublished` |
| `snapshot` | 2 workers, 2 attempts, 2 contents, 2 changes of the page, fairness | `PublishedIsReadable`, `NeverOlder`; `SnapshotComesBack` |
| `review` | 2 workers, 2 slots, 2 bundles, 1 race, fairness | `MailedIsOnRecord`, `ReviewsAreSerial`; `ClaimEnds` |

The type invariant is checked in one run of each module. The largest instances are
`claim_writers` (640,518 distinct states), `review` (635,138), `crawl` (566,282), `publish`
(506,452) and `snapshot` (399,794); `crawl` takes about four minutes, the others less than
three.

**Bounds.** Two workers are what most hazards here need: one that holds old state and one
that changes it; in `claim_writers` the second is the editor, the selector or stale
recovery. Two runs make the second claim of an article, the one that could meet the first.
Two bodies tell a text from its replacement. `Stale = 2` lets a claim be young, at its
deadline and over age; `Stale = 1` would leave no tick at which a worker may proceed. In
`qq_claims` two attempts are one to be lost and a last one, and a stale claim can occur
before the last tick; two deliveries without switching, three ticks of claims and five of
clock pass the safety properties too (2,016,847 states). Three articles are one more than
the slots. `qq_slots` uses `Delay = 1`, which keeps the liveness check fast; the safety
properties are proved for every `Delay`, and the run passes with `Delay = 2` in a few minutes.
In `crawl` a lookback of two windows has one between the current and the oldest, a lease of
three covers them all, so that two live windows could be too far apart; two failures make a
streak, and `Overrun = 1` is a tick that lasts into the next window. In `publish` two windows
per hour are the least for which an hour and a window differ, the limit leaves room for one
task and one other region, and two articles compete for the one of a window. In `snapshot`
three versions of the page over two contents include a page that returns to what it was.
In `review` a slot can be claimed twice and a lease runs out within the clock.

**Deadlock.** The claim instances and `review` end: when the clock is at its bound nothing is
left to do; their cfgs say `CHECK_DEADLOCK FALSE`. So does `qq_resend`, whose channel cannot
be switched. The others check it.

**Symmetry** is used in `claim_writers`, `qq_claims` and `qq_resend`, which check no
liveness and whose workers, runs and deliveries are alike.

**Fairness.**

- `TranslationClaim`: the clock and `Recover`, which beat runs every five minutes. Nothing is
  assumed of workers, messages or the selector: that recovery alone frees a row is the point.
- `QQExposure`: windows handle a group's recent articles again and again, so an article that
  can be looked at infinitely often is, and so is its reservation; a rolled-back task ends.
  Strong fairness is needed because other tasks make the step impossible from time to
  time, and the quota may reject any single try. The assumption is about articles that
  stay in the window's lookback: the code stops looking at an article that is older.
- `CrawlWindow`: beat starts scheduling tasks, processes end what they begin, a message comes
  to its turn (strong, because a process that is free may be given another tick first; the
  queue is first in, first out), time passes (strong, because a step of a tick may hold it
  back for a moment), and from some time on no message is refused and nobody dies half-way.
  Editors may ask for crawls for ever.
- `PublishWindow`: the same for its tasks; that time passes again and again is assumed outright,
  because tasks that take turns on the oldest window would stop the bounded clock. From some time
  on nothing raises or dies, and other regions leave room in the hour; reruns, ignored and
  new articles go on. Articles are not followed out of the age limit of the candidate pool,
  so `ReadyIsPublished` is about articles that stay candidates.
- `SharedSnapshot`: workers work and ask again, leases run out, and from some time on a
  fetch, a publication and the removal that follows it end within the snapshot's lease. The
  page changes at most `MaxVersion` times. Snapshots run out by the clock only, whoever is at
  work: what is assumed of removals is assumed of `SnapshotComesBack` alone.
- `ResultReview`: the sweep, which beat runs every five minutes, and the clock. No worker has
  to go on.

"From some time on" is stated as `<>[][Undisturbed]_vars`: every later step is one the
undisturbed system can make. A death that cannot be told from an ordinary step (a worker that
dies when it had nothing left to do) is such a step too, so the formula forbids no step of the
code. Each of these specifications has behaviours in which every kind of work goes on for
ever; this was checked by having TLC refute that there are none.

Safety properties assume no fairness anywhere.

### What the runs found

1. `claim_orphan`: a ranked revival sets a claimed row to pending; an ordinary worker stamps
   it anew. The claim's run stays open and matches no stamp, so
   `recover_one_stale_translation` declines for ever (`translation_recovery.py:1104-1106`),
   and when the ordinary worker dies the article stays `translating`.
2. `claim_forced`: the ordinary path ends with `article.save()` of all columns
   (`tasks.py:2049`); a publication between its read and its write is undone.
3. `qq_resend`: a worker that read the row early and finds the gateway offline writes
   `retrying` over another worker's receipt (`qq_auto_push.py:298`); the group gets the
   article twice. Such a row is not recorded as sent any more, so switching the channel off
   can seal it: `DisablingKeepsSent` speaks of what is on record.

Some statements of the documents do not hold either; the models have these behaviours, but
they are not runs of their own because they are short to explain:

- Attempts: a takeover is recorded with `is_retry=False` (`translation_recovery.py:1117`), so
  crashes can use more provider calls than `TRANSLATION_AUTO_RETRY_MAX_ATTEMPTS`
  (`docs/news_production_recovery_plan_20260722.md:158`). `CountsProviderErrors` states
  what is counted.
- Interval: two workers test the group's interval before either claims (`tasks.py:3005`), so
  posts can be closer than `docs/current_state.md:5142` says.
- Stuck sending: a delivery whose worker died and whose message was lost stays `sending`; a
  stale claim could be taken over, but windows do not queue such a row
  (`qq_windows.py:127`, `docs/decisions.md:2165`).
- Failed deliveries keep their slot: `reclaim_expired_lease` is called by tests only
  (`docs/changes/govern-race-news-exposure/design.md:117-118`).
- Headlines: accepting a recommendation reserves no slot (`editorial_headlines.py:839`), so
  the homepage can show a third article of the event (spec.md:18 of that change); a
  headline set by hand activates a waiting second slot at once
  (`editorial_headlines.py:506`, design.md:103-104), and the article of the first slot cannot
  be made the headline while another one holds the second (`editorial_headlines.py:471`,
  spec.md:56).
- Crawl windows: a source with a running window under a valid lease is not dispatched again
  (`docs/current_state.md:5763`), but two ticks that overlap may both select the source
  before either claims; when a new window begins in between they claim one each
  (`tasks.py:1773`) and the source is crawled twice at once. `LiveAreClose` says how far
  apart such windows can be.
- Shared snapshots: a worker that publishes, is held up for longer than its snapshot is valid
  (150 seconds) and then removes the file it replaced can remove what another worker has
  written or published meanwhile, when the page has returned to its old content
  (`race_data_sync_providers.py:251-300`, `race_data_sync_control.py:2464-2486`). Readers
  then fail until that snapshot runs out. `PublishedIsReadable` says that nothing else
  makes a shared snapshot unreadable.
- Result review: a mail that failed is never sent again. The slot stays `prepared`, which
  later runs refuse, whereas `docs/changes/scheduled-race-result-review/spec.md` section 5
  has it retried by the next schedule. A candidate also leaves the pending backlog
  (`scheduled_race_result_review.py:1240`) before its bundle is on record, so a preparation
  that fails after the 72 hours of the window forgets the race (section 2 of that spec).

Other behaviour a reader of the code may not expect, on which the documents are silent: an
editor's decision to ignore an article is overwritten by a publication already under way
(`automation.py:884`); a task that ends late writes its status over a window that another
one holds, which opens that window to a third (`tasks.py:2296`); a rerun from the console
ignores a live lease. `QuotaCoversPublications` and `ReadyIsPublished` hold in spite of
them; crawl workers finish late in the same way.

## 4. What is proved

All theorems assume only the named assumptions on the constants: sizes positive, numbers
natural, `NULL`s outside the sets they stand beside, and finite sets where something is
counted. They hold for any number of articles, runs, workers, deliveries, tasks and windows,
and any clock bound. Every safety property and every refinement a passing run checks is proved:

- `TranslationClaimProofs`: `TypeCorrect`; `OneLiveClaim` (`UniqueLiveClaim`), `OnePaidCall`
  (`OneCallPerClaim`), `RunsImplementRounds` (the refinement of `PaidRound`),
  `RecoveredIsOver` (`RecoveryAfterDeadline`), `CommitIsSourced` (`CommitMatchesSource`),
  `CountEarned` (`CountIsEarned`), `ErrorsAreCounted` (`CountsProviderErrors`),
  `AttemptsAreBounded`, `StaleIsRecoverable`. None of them is inductive. The invariant
  `ClaimInv` has four parts: claim times are in the past and belong to one run (`Stamps`);
  a run nobody consumed is unpaid and unanswered (`RunShape`); a worker between
  preparation and checkpoint owns a consumed, unanswered run and knows whether it was
  paid for (`BusyShape`); no two such workers own one run (`Exclusive`). Two runs that both
  match the row's start time have one stamp, hence are one run. Most steps leave runs
  alone and only make workers calmer (`CalmWorkers`), which one lemma handles. `Sourced`
  adds that a stored answer was made from the text of its run. `CountEarned` holds under
  every writer: its invariant says that not only the count of the row but also every count
  in a worker's or an editor's copy, which may still be written back, was `Earned` by errors
  on record before it was read. The other direction does not hold under every writer, since
  a whole-row write of another process can put an old count back; hence the last three are
  proved where only claims write the row (`Requests = {}` and `Editing = {}`, as in
  `claim_recovery`). `ManagedInvariant` carries them: counts equal the errors (`Counts`), a
  row that is being translated has an open run and every open run holds its article's row
  (`OpenInv`), and an article has attempts left or was given up after the
  last of them (`AttemptsInv`). From it
  follow a bound on failed paid requests and that recovery never meets an ambiguous claim.
- `QQDeliveryProofs`: `TypeCorrect`, `PostsBounded` (`PostsWithinAttempts`),
  `SendsImplementBooks` (the refinement of `CountedSends`), `ClaimsOwned`, `DisablingIsSafe`,
  `RetriesAreQueued`. What makes `PostsWithinAttempts` inductive is `Counted`: the posts of a
  delivery plus the workers that hold a claim and have not posted are at most its attempts;
  a claim raises both sides, a post moves one from the workers to the posts, and giving
  an attempt back needs one's own claim. `Stamped` (a held claim is older than the clock)
  makes claims unique. Steps that neither claim, post, record nor give back are `Quiet`
  and share one lemma. `Counted` is also what the refinement needs: a worker that may
  still post or give back holds an attempt that has sent nothing (`Unspent`).
  `RetriesAreQueued` needs `Tended`: a delivery to be retried has a
  message, a lost message, or a worker that will not simply stop, which is one that read
  it as `retrying` or is past reading it.
- `QQExposureProofs`: `TypeCorrect`, `TwoDeliveries` (`AtMostTwo`), `StoriesDiffer`
  (`SlotsDiffer`), `SecondSlotIsSpaced` (`SecondSlotWaits`), `SlotsImplementPlaces` (the
  refinement of `TwoPlaces`). The invariant `SlotInv` says that the
  rows are well formed, a slot has at most one live row, and `Spaced`: a live second slot
  stands beside an active first slot of another known angle that has been shown at least
  as long as the second has waited. The last clause is what a reservation that works
  with a stale list cannot break, and why promotion by age of the second row alone never
  comes too early.
- `HomepageExposureProofs`: `TypeCorrect`, `StoriesDiffer`, `PointersStayPublic`,
  `ReplacedByBetter`, `HeadlineKeepsSlot`, `SlotsImplementPlaces` (the refinement of
  `TwoPlaces`). In both exposure modules the refinement goes by two lemmas: every step makes
  one of a few moves of the table (`StepMoves`), and each move is one of `TwoPlaces` or a
  stutter (`MovesArePlaces`). Between two requests the table is `Good`: rows are
  `Sound` (none waits, the first slot is never given up), a slot has one holder, the two
  holders differ in a known angle, and a second slot has a first one beside it.
- `CrawlWindowProofs`: `TypeCorrect`, `LiveClose` (`LiveAreClose`), `SuccessIsEarned`
  (`SucceededIsFresh`), `StreaksStayTrue` (`StreaksAgree`). `NearLive` says that between
  selection and claim of a tick every live window of the source is within `Overrun` of the
  window the tick will claim: none is live when it selects, and whatever another tick claims
  meanwhile is as near. `LiveClose` holds for every `Overrun`: it says how the distance depends
  on the length of a tick, and assumes no number of ticks. `CrawledIsFresh` that
  whoever has crawled stamped the source after the window began that it will finish.
  `StreaksAgree` relates a source's streaks to its back-off and interval; it is inductive
  with the same statement about the copies workers will write back (`CopiesAgree`).
- `PublishWindowProofs`: `TypeCorrect`, `LedgerCovers` (`QuotaCoversPublications`). `Owed(h)` are
  the articles tasks have chosen and not published in windows of hour `h`; a selection
  raises it by what it pays, a publication moves one from it to `spent`, and when an hour
  ends everything is one hour older. The limit of publications in an hour follows: that
  `spent` keeps its type is part of `TypeCorrect`, and needs the quota property.
- `SharedSnapshotProofs`: `TypeCorrect`, `Readable` (`PublishedIsReadable`), `Fenced`
  (`NeverOlder`), `SharedIsThePage` (`PublishedIsThePage`). `FetchedOK` says that what a worker has fetched is a page the provider
  has shown, `HolderOK` that a holder fetched after the last publication and that its file
  is there, or `lost`, when it publishes, `RetireOK` that a worker removes another file than
  its own and that, while its snapshot has not run out, its own is the one that is shared.
  `Readable` assumes nothing of how long a removal takes. The content of
  a snapshot goes with its version from the fetch to the row (`FetchedIsThePage`).
- `ResultReviewProofs`: `TypeCorrect`, `OnRecord` (`MailedIsOnRecord`), `Serial`
  (`ReviewsAreSerial`), `NeverBlocked` (`~Blocked`). A bundle nobody has written is blank (`BlankOK`), a worker that may
  still finish or mail has a bundle of its own slot (`WorkerOK`), and approvals are not
  above the version of the race (`ApprovedOK`); the lemma `RecordsStay` shows that no claim
  replaces the record of a slot that was mailed. `NeverBlocked` rests on `ClaimedBlank`: a
  claim has a holder and a lease and nothing of an earlier run, so no expired claim looks
  like one that only an operator may close.

`PostsBounded`, both `StoriesDiffer`, `AttemptsAreBounded`, `StaleIsRecoverable`,
`StreaksStayTrue`, `SharedIsThePage` and `NeverBlocked` are not properties of a run of their own. The
first three follow the refinements that the runs check; the others were found by TLC to
hold on the instances of `claim_recovery`, `crawl`, `snapshot` and `review` before they
were proved.

Only model-checked: liveness (`StaleIsRecovered`, `WaitingIsServed`, `SourceIsCrawled`,
`FailingIsBackedOff`, `ReadyIsPublished`, `SnapshotComesBack`, `ClaimEnds`), which the prover
does not handle. `StaleIsRecoverable` and `NeverBlocked` are the parts of `StaleIsRecovered` and
`ClaimEnds` that are safety: that recovery and sweep are never in doubt when they run.

## 5. What is left out

- Contents: texts, prompts, terms, scores and angles are constants or model values.
- `on_commit` callbacks run in the end; a process that dies in between loses its check, and
  bulk updates bypass `signals.py`. `PointersArePublic` says what holds while checks are
  pending.
- Budget-bound variants of the claim functions: they run only under an offline test binding.
- Crawling: the major-race mode, pauses and approvals by hand, and
  `reconcile_stale_crawl_jobs`, with it the branch `terminal_state_claimed=False` of
  `_finish_crawl_job` (`tasks.py:1236-1245`). It is a command of an operator, which closes a
  job only when Celery can be inspected and shows no crawl of the source, and no live window
  holds it (`news_production_integrity.py:244-319`). Were the crawl running all the same, it
  would finish its window without stamping the source, and `SucceededIsFresh` says nothing of
  that.
- Publication: soft fill and deduplication of candidates, the ledgers of regions and groups.
  QQ windows coalesce as crawl windows do and charge ledgers of group and site as
  publication does; of them `QQDelivery` and `QQExposure` model what concerns deliveries and
  slots.
- Shared snapshots: `reserve_race_data_host_request`, which only tests call.
- Result review: which races are due, the pending backlog, the collection from the sites, the
  verification of bundle files, the reconciliation manifest an operator may sign. Celery
  ends the task after 960 seconds, below the lease of 20 minutes; the command, run by cron,
  has no limit, which is why workers come late in the model.
- Isolation is PostgreSQL's default, read committed. Statements that only read are
  merged with the step that uses them when no decision of another process lies between.
- Components with status `not_modelled` in `PROJECT.json`, each with its reason: parsers and
  network clients, operator tools, presentation, migrations, deployment. They are most of
  the repository's lines (batch imports, adapters, views, tests); those among them with
  state that several processes write are in the plan.

## 6. Plan

Done: translation claims, QQ delivery, exposure slots, production windows, shared snapshots,
result review, each with the proofs of its safety properties. Next, in this order:

1. Claims of race-data sync (`claim_due_enrollments`, completion, failure, rotation) and
   the runs of term-gate reprocessing and attribution, as implementations of one abstract
   lease: at most one unexpired holder, a stale holder cannot finish.
2. The pending backlog of the result review, with the loss of candidates described above.
3. The ledgers of QQ windows; they compose `PublishWindow`'s hours with `QQExposure` through
   the savepoint of `select_qq_window_deliveries`.
4. `TranslationBudget`, once its mode leaves the offline binding: today every reservation
   locks the root row, and what it counts is sequential.
5. The historical runner's lock, checkpoint and resume; event lifecycle enrollment.

Runs stay few: one passing run per question, and a violated one only where a document
disagrees with the code.
