----------------------------- MODULE CrawlWindow -----------------------------
(***************************************************************************)
(* Crawling one news source: the scheduling tasks                          *)
(* crawl_production_sources_window_task, which claim a window and send a   *)
(* message, and the workers of crawl_news_source_task, which crawl, keep   *)
(* the source's streaks and finish the window (stable/tasks.py).           *)
(*                                                                         *)
(* Scheduling tasks may overlap: beat starts one every five minutes, and   *)
(* only the row that is claimed is locked, not the source.  A worker loads *)
(* the source when it starts and writes the streaks back from that copy    *)
(* (record_source_crawl_result); nothing is locked.                        *)
(***************************************************************************)
EXTENDS ProductionWindow

CONSTANTS
    Process,              \* CELERY_WORKER_CONCURRENCY processes serve the queue
    Overrun,              \* windows that may begin while a scheduling task runs
    Backoff,              \* MULTIREGION_CRAWL_BACKOFF_MINUTES, in windows
    BlockedBackoff,       \* MULTIREGION_CRAWL_BLOCKED_BACKOFF_MINUTES, in windows
    SlowInterval,         \* crawl interval after a back-off, in windows
    FailuresToBackoff,    \* MULTIREGION_CRAWL_FAILURES_TO_BACKOFF
    SuccessesToRecover    \* MULTIREGION_CRAWL_SUCCESSES_TO_RECOVER

ASSUME CrawlAssumption ==
    /\ Overrun \in 0..Lookback
    /\ Backoff \in Nat \ {0} /\ BlockedBackoff \in Nat \ {0}
    /\ SlowInterval \in Nat \ {0}
    /\ FailuresToBackoff \in Nat \ {0} /\ SuccessesToRecover \in Nat \ {0}

VARIABLES
    source,  \* streaks, what is left of the back-off, interval, age of last_crawl_at
    tick,    \* the scheduling task that a process runs
    queue,   \* messages of crawl_news_source_task, by the age of their window
    worker   \* the crawl that a process runs

crawlVars == <<window, source, tick, queue, worker>>

MaxBackoff == IF Backoff > BlockedBackoff THEN Backoff ELSE BlockedBackoff

\* Streaks are followed up to the length that counts.
Streaks == [fails : 0..FailuresToBackoff, goods : 0..SuccessesToRecover,
            backoff : 0..MaxBackoff, slow : BOOLEAN]

\* A window outside the lookback, or a crawl asked for in the console.
Message == Age \cup {Gone}

IdleTick   == [step |-> "idle", at |-> 0, old |-> {}]
IdleWorker == [step |-> "idle", window |-> Gone, ok |-> FALSE,
               copy |-> [fails |-> 0, goods |-> 0, backoff |-> 0, slow |-> FALSE]]

TypeOK ==
    /\ window \in [Age -> Row]
    /\ source \in [streaks : Streaks, rest : 0..SlowInterval]
    /\ tick \in [Process -> [step : {"idle", "coalesce", "write", "send"},
                          at : 0..Overrun, old : SUBSET Age]]
    /\ queue \subseteq Message
    /\ worker \in [Process -> [step : {"idle", "crawl", "record", "finish"},
                              window : Message, ok : BOOLEAN, copy : Streaks]]

Init ==
    /\ window = [p \in Age |-> NoRow]
    /\ source = [streaks |-> IdleWorker.copy, rest |-> SlowInterval]
    /\ tick = [t \in Process |-> IdleTick]
    /\ queue = {}
    /\ worker = [w \in Process |-> IdleWorker]

Free(p) == tick[p].step = "idle" /\ worker[p].step = "idle"

-----------------------------------------------------------------------------
(* crawl_production_sources_window_task *)

\* _source_interval_minutes
Interval == IF source.streaks.slow THEN SlowInterval ELSE 1

\* Defect: a window that is being crawled does not hold the source back.
SelectableAnyhow == source.streaks.backoff = 0 /\ source.rest >= Interval

\* Defect: a source that has failed often enough waits for a success.
SelectableUntilFailed ==
    /\ source.streaks.fails < FailuresToBackoff
    /\ ~\E p \in Age : Live(window[p], p)
    /\ source.rest >= Interval

\* select_production_sources
Selectable ==
    /\ source.streaks.backoff = 0
    /\ ~\E p \in Age : Live(window[p], p)
    /\ source.rest >= Interval

\* The source is selected and its windows are listed.
Select(t) ==
    /\ Free(t) /\ Selectable
    /\ \E before \in BOOLEAN :
        tick' = [tick EXCEPT ![t] = [step |-> "coalesce", at |-> 0, old |-> Starts(before) \ {0}]]
    /\ UNCHANGED <<window, source, queue, worker>>

\* The next old window: created when it has no row, otherwise looked at.
Look(t) ==
    /\ tick[t].step = "coalesce"
    /\ \E p \in tick[t].old :
        /\ \A q \in tick[t].old : q <= p
        /\ LET created == window[p].status = "none"
           IN  /\ window' = IF created THEN [window EXCEPT ![p] = Written("open")] ELSE window
               /\ tick' = IF created \/ Coalescible(window[p], p - tick[t].at)
                          THEN [tick EXCEPT ![t].step = "write"]
                          ELSE [tick EXCEPT ![t].old = @ \ {p}]
    /\ UNCHANGED <<source, queue, worker>>

\* It is written as skipped, whatever it has become since.
Coalesce(t) ==
    /\ tick[t].step = "write"
    /\ \E p \in tick[t].old :
        /\ \A q \in tick[t].old : q <= p
        /\ window' = [window EXCEPT ![p] = Written("open")]
        /\ tick' = [tick EXCEPT ![t].step = "coalesce", ![t].old = @ \ {p}]
    /\ UNCHANGED <<source, queue, worker>>

\* claim_window on the current window, which is created first.
Claim(t) ==
    /\ tick[t].step = "coalesce" /\ tick[t].old = {}
    /\ IF Claimable(window[tick[t].at], 0)
       THEN /\ window' = [window EXCEPT ![tick[t].at] = Claimed(0)]
            /\ tick' = [tick EXCEPT ![t].step = "send"]
       ELSE /\ tick' = [tick EXCEPT ![t] = IdleTick]
            /\ UNCHANGED window
    /\ UNCHANGED <<source, queue, worker>>

\* Defect: a message sent counts as a crawl done.
SendAndSucceed(t) ==
    /\ tick[t].step = "send"
    /\ queue' = queue \cup {tick[t].at}
    /\ window' = [window EXCEPT ![tick[t].at] = Written("succeeded")]
    /\ tick' = [tick EXCEPT ![t] = IdleTick]
    /\ UNCHANGED <<source, worker>>

\* dispatch_task; the row is then only given a note.
Send(t) ==
    /\ tick[t].step = "send"
    /\ queue' = queue \cup {tick[t].at}
    /\ tick' = [tick EXCEPT ![t] = IdleTick]
    /\ UNCHANGED <<window, source, worker>>

SendFails(t) ==
    /\ tick[t].step = "send"
    /\ window' = [window EXCEPT ![tick[t].at] = Written("open")]
    /\ tick' = [tick EXCEPT ![t] = IdleTick]
    /\ UNCHANGED <<source, queue, worker>>

TickDies(t) ==
    /\ tick[t].step # "idle"
    /\ tick' = [tick EXCEPT ![t] = IdleTick]
    /\ UNCHANGED <<window, source, queue, worker>>

\* source_test_crawl: an editor asks for a crawl, without a window.
Console ==
    /\ source.streaks.backoff = 0
    /\ queue' = queue \cup {Gone}
    /\ UNCHANGED <<window, source, tick, worker>>

-----------------------------------------------------------------------------
(* crawl_news_source_task *)

Start(w, m) ==
    /\ Free(w) /\ m \in queue
    /\ worker' = [worker EXCEPT ![w] = [step |-> "crawl", window |-> m, ok |-> FALSE,
                                        copy |-> source.streaks]]
    /\ queue' = queue \ {m}
    /\ UNCHANGED <<window, source, tick>>

\* The crawl ends; _finish_crawl_job stamps the source.
Crawled(w, ok) ==
    /\ worker[w].step = "crawl"
    /\ worker' = [worker EXCEPT ![w].step = "record", ![w].ok = ok]
    /\ source' = [source EXCEPT !.rest = 0]
    /\ UNCHANGED <<window, tick, queue>>

\* Defect: streaks are counted past the length that matters.
CountPast(n, limit) == IF n <= limit THEN n + 1 ELSE n

Count(n, limit) == IF n < limit THEN n + 1 ELSE n

\* record_source_crawl_result: the streaks after a failure or a success.
Failure(c, b) ==
    LET fails == Count(c.fails, FailuresToBackoff)
    IN  [fails |-> fails, goods |-> 0,
         backoff |-> IF fails = FailuresToBackoff THEN b ELSE c.backoff,
         slow |-> c.slow \/ fails = FailuresToBackoff]

Success(c) ==
    LET goods == Count(c.goods, SuccessesToRecover)
        enough == goods = SuccessesToRecover
    IN  [fails |-> 0, goods |-> goods,
         backoff |-> IF enough THEN 0 ELSE c.backoff,
         slow |-> c.slow /\ ~enough]

\* Defect: the exception leaves the task before the failure is recorded.
RecordSuccess(w) ==
    /\ worker[w].step = "record"
    /\ source' = IF worker[w].ok
                 THEN [streaks |-> Success(worker[w].copy), rest |-> 0] ELSE source
    /\ worker' = [worker EXCEPT ![w].step = "finish", ![w].copy = IdleWorker.copy]
    /\ UNCHANGED <<window, tick, queue>>

Record(w) ==
    /\ worker[w].step = "record"
    /\ \E b \in {Backoff, BlockedBackoff} :
        source' = [streaks |-> IF worker[w].ok THEN Success(worker[w].copy)
                               ELSE Failure(worker[w].copy, b),
                   rest |-> 0]
    /\ worker' = [worker EXCEPT ![w].step = "finish", ![w].copy = IdleWorker.copy]
    /\ UNCHANGED <<window, tick, queue>>

\* _finish_crawl_window: whatever the row has become.
Finish(w) ==
    /\ worker[w].step = "finish"
    /\ window' = IF worker[w].window = Gone THEN window
                 ELSE [window EXCEPT ![worker[w].window] =
                           Written(IF worker[w].ok THEN "succeeded" ELSE "open")]
    /\ worker' = [worker EXCEPT ![w] = IdleWorker]
    /\ UNCHANGED <<source, tick, queue>>

\* The worker is killed; its message, acknowledged late, comes back or not.
Crash(w) ==
    /\ worker[w].step # "idle"
    /\ worker' = [worker EXCEPT ![w] = IdleWorker]
    /\ queue' \in {queue, queue \cup {worker[w].window}}
    /\ UNCHANGED <<window, source, tick>>

-----------------------------------------------------------------------------

Less(n) == IF n > 0 THEN n - 1 ELSE 0

\* A new window begins.  No task is followed beyond Overrun, and coalescing
\* is over by then.
Clock ==
    /\ \A t \in Process : tick[t].old = {} /\ (tick[t].step # "idle" => tick[t].at < Overrun)
    /\ window' = Aged(window)
    /\ source' = [source EXCEPT !.rest = Count(@, SlowInterval), !.streaks.backoff = Less(@)]
    /\ tick' = [t \in Process |->
                  IF tick[t].step = "idle" THEN tick[t] ELSE [tick[t] EXCEPT !.at = @ + 1]]
    /\ queue' = {Later(m) : m \in queue}
    /\ worker' = [w \in Process |->
                    IF worker[w].step = "idle" THEN worker[w]
                    ELSE [worker[w] EXCEPT !.window = Later(@), !.copy.backoff = Less(@)]]

Schedule(t) == Look(t) \/ Coalesce(t) \/ Claim(t) \/ Send(t)

Work(w) == (\E ok \in BOOLEAN : Crawled(w, ok)) \/ Record(w) \/ Finish(w)

Undisturbed ==
    \/ Console \/ Clock
    \/ \E t \in Process : Select(t) \/ Schedule(t)
    \/ \E w \in Process : Work(w) \/ \E m \in Message : Start(w, m)

Disturbed ==
    \/ \E t \in Process : SendFails(t) \/ TickDies(t)
    \/ \E w \in Process : Crash(w)

Next == Undisturbed \/ Disturbed

Spec == Init /\ [][Next]_crawlVars

\* Beat starts a scheduling task every five minutes, time passes, a message
\* comes to its turn in the queue however often the processes are busy with
\* something else, and from some time on every step is an undisturbed one: the
\* broker accepts messages and no task is killed half-way.
Fairness ==
    /\ WF_crawlVars(\E t \in Process : Select(t))
    /\ SF_crawlVars(\E w \in Process, m \in Message : Start(w, m))
    /\ \A p \in Process : WF_crawlVars(Schedule(p) \/ Work(p))
    /\ SF_crawlVars(Clock)
    /\ <>[][Undisturbed]_crawlVars

FairSpec == Spec /\ Fairness

-----------------------------------------------------------------------------

\* Nothing locks the source between its selection and the claim of a window, so
\* scheduling tasks that overlap may each claim a window of it, although a
\* live window is to hold its source back (docs/current_state.md, on running
\* windows).  That is all they can do: windows that are live at once are no
\* further apart than such a task lasts.
LiveAreClose ==
    \A p, q \in Age : Live(window[p], p) /\ Live(window[q], q) => p - q <= Overrun

\* A window that succeeded was crawled: the source's last_crawl_at is not
\* older than the window, so that no tick takes the source for a late one
\* (docs/decisions.md, on windows marked as succeeded too early).
SucceededIsFresh ==
    \A p \in Age : window[p].status = "succeeded" => source.rest <= p

\* The source is crawled again and again, whatever is lost or dies.
SourceIsCrawled == []<>(source.rest = 0)

\* Back-off cannot be missed: a source that never answers again is put in
\* back-off, although concurrent crawls overwrite each other's streaks.
FailingIsBackedOff ==
    \/ []<><<\E w \in Process : Crawled(w, TRUE)>>_crawlVars
    \/ []<>(source.streaks.backoff > 0)
=============================================================================
