-------------------------- MODULE CrawlWindowProofs --------------------------
(***************************************************************************)
(* Proofs about CrawlWindow, for any lookback, lease, number of processes, *)
(* length of a scheduling task and back-off: types, LiveAreClose and       *)
(* SucceededIsFresh, and that streaks and back-off agree (StreaksAgree).   *)
(***************************************************************************)
EXTENDS CrawlWindow, TLAPS

Near(p, q) == p - q <= Overrun /\ q - p <= Overrun

\* Between selection and claim the source has live windows only when they began,
\* or were claimed by a task that began, while this task was under way.
NearLive ==
    \A t \in Process :
        tick[t].step \in {"coalesce", "write"}
        => \A p \in Age : Live(window[p], p) => Near(tick[t].at, p)

\* Whoever has crawled did so after the window began that it will finish.
CrawledIsFresh ==
    \A w \in Process :
        worker[w].step \in {"record", "finish"} /\ worker[w].window # Gone
        => source.rest <= worker[w].window

IInv == TypeOK /\ NearLive /\ LiveAreClose /\ CrawledIsFresh /\ SucceededIsFresh

TickLocal == [step : {"idle", "coalesce", "write", "send"}, at : 0..Overrun, old : SUBSET Age]

WorkerLocal == [step : {"idle", "crawl", "record", "finish"},
                window : Message, ok : BOOLEAN, copy : Streaks]

-----------------------------------------------------------------------------
(* Facts about the parts of the state.                                     *)

LEMMA Constants ==
    /\ Lookback \in Nat /\ Lookback >= 1 /\ Lease \in Nat /\ Lease >= 1
    /\ SlowInterval \in Nat /\ SlowInterval >= 1
    /\ FailuresToBackoff \in Nat /\ FailuresToBackoff >= 1
    /\ SuccessesToRecover \in Nat /\ SuccessesToRecover >= 1
    /\ Overrun \in Nat /\ Overrun <= Lookback
    /\ MaxBackoff \in Nat /\ Backoff \in 0..MaxBackoff /\ BlockedBackoff \in 0..MaxBackoff
  BY WindowAssumption, CrawlAssumption DEF MaxBackoff

LEMMA Ages == 0 \in Age /\ 0..Overrun \subseteq Age /\ Age \subseteq Nat /\ Gone \in Nat /\ Gone \notin Age
              /\ \A m \in Message : m # Gone => m \in Age
  BY Constants DEF Age, Gone, Message

\* A table keeps its shape when a status is written, and no row is newly live.
LEMMA StatusWritten ==
    ASSUME NEW q \in Age, NEW s \in Status, s # "running", window \in [Age -> Row],
           window' = [window EXCEPT ![q] = Written(s)]
    PROVE  /\ window' \in [Age -> Row]
           /\ \A p \in Age : Live(window'[p], p) => Live(window[p], p)
           /\ \A p \in Age : window'[p].status = IF p = q THEN s ELSE window[p].status
<1>1. Written(s) \in Row /\ Written(s).status = s
  BY Constants DEF Written, Row
<1>2. window' \in [Age -> Row]
  BY <1>1
<1>3. (\A p \in Age : p # q => window'[p] = window[p]) /\ window'[q] = Written(s)
  OBVIOUS
<1>4. QED
  BY <1>1, <1>2, <1>3 DEF Live

LEMMA CountType ==
    ASSUME NEW limit \in Nat, NEW n \in 0..limit
    PROVE  Count(n, limit) \in 0..limit /\ Count(n, limit) <= n + 1
  BY DEF Count

LEMMA LessType ==
    ASSUME NEW limit \in Nat, NEW n \in 0..limit
    PROVE  Less(n) \in 0..limit
  BY DEF Less

\* A worker that has nothing to do has an empty copy.
LEMMA IdleType ==
    /\ IdleWorker.copy \in Streaks
    /\ IdleWorker \in WorkerLocal
    /\ IdleWorker.step = "idle"
    /\ IdleTick \in TickLocal
    /\ IdleTick.step = "idle"
  BY Constants DEF IdleWorker, IdleTick, Streaks, Message, WorkerLocal, TickLocal

\* Streaks after a crawl are streaks.
LEMMA StreaksType ==
    ASSUME NEW c \in Streaks
    PROVE  /\ Success(c) \in Streaks
           /\ \A b \in {Backoff, BlockedBackoff} : Failure(c, b) \in Streaks
<1>1. c.fails \in 0..FailuresToBackoff /\ c.goods \in 0..SuccessesToRecover
      /\ c.backoff \in 0..MaxBackoff /\ c.slow \in BOOLEAN
  BY DEF Streaks
<1>2. /\ Count(c.fails, FailuresToBackoff) \in 0..FailuresToBackoff
      /\ Count(c.goods, SuccessesToRecover) \in 0..SuccessesToRecover
  BY <1>1, Constants, CountType
<1>3. Success(c) \in Streaks
  BY <1>1, <1>2, Constants DEF Success, Streaks
<1>4. ASSUME NEW b \in {Backoff, BlockedBackoff} PROVE Failure(c, b) \in Streaks
  BY <1>1, <1>2, Constants DEF Failure, Streaks
<1>5. QED
  BY <1>3, <1>4

LEMMA InitIInv == Init => IInv
<1> SUFFICES ASSUME Init PROVE IInv
  OBVIOUS
<1>1. NoRow \in Row /\ NoRow.status = "none"
  BY Constants DEF NoRow, Row, Status
<1>2. TypeOK
  BY <1>1, IdleType, Constants DEF Init, TypeOK, TickLocal, WorkerLocal
<1>3. \A p \in Age : window[p].status = "none"
  BY <1>1 DEF Init
<1>4. \A w \in Process : tick[w].step = "idle" /\ worker[w].step = "idle"
  BY IdleType DEF Init
<1>5. QED
  BY <1>2, <1>3, <1>4 DEF IInv, NearLive, LiveAreClose, CrawledIsFresh, SucceededIsFresh, Live

-----------------------------------------------------------------------------
(* The scheduling tasks.                                                   *)

\* Steps that leave crawls and the source alone, make no window live and let
\* none succeed.
LEMMA Quiet ==
    ASSUME IInv, UNCHANGED <<source, worker>>, TypeOK', NearLive',
           \A p \in Age : Live(window'[p], p) => Live(window[p], p),
           \A p \in Age : window'[p].status = "succeeded" => window[p].status = "succeeded"
    PROVE  IInv'
  BY DEF IInv, LiveAreClose, CrawledIsFresh, SucceededIsFresh

\* A step of one scheduling task that makes no window live.
LEMMA TickStep ==
    ASSUME IInv, NEW t \in Process, NEW x \in TickLocal, tick' = [tick EXCEPT ![t] = x],
           UNCHANGED <<source, worker>>, queue' \subseteq Message, window' \in [Age -> Row],
           \A p \in Age : Live(window'[p], p) => Live(window[p], p),
           \A p \in Age : window'[p].status = "succeeded" => window[p].status = "succeeded",
           x.step \in {"coalesce", "write"} =>
               \A p \in Age : Live(window[p], p) => Near(x.at, p)
    PROVE  IInv'
<1>1. tick \in [Process -> TickLocal]
  BY DEF IInv, TypeOK, TickLocal
<1>2. tick' \in [Process -> TickLocal] /\ tick'[t] = x
      /\ \A u \in Process : u # t => tick'[u] = tick[u]
  BY <1>1
<1>3. TypeOK'
  BY <1>2 DEF IInv, TypeOK, TickLocal
<1>4. NearLive'
  <2> SUFFICES ASSUME NEW u \in Process, tick'[u].step \in {"coalesce", "write"},
                      NEW p \in Age, Live(window'[p], p)
               PROVE  Near(tick'[u].at, p)
    BY DEF NearLive, Near
  <2>1. CASE u = t
    BY <1>2, <2>1
  <2>2. CASE u # t
    BY <1>2, <2>2 DEF IInv, NearLive
  <2>3. QED
    BY <2>1, <2>2
<1>5. QED
  BY <1>3, <1>4, Quiet

LEMMA SelectIInv == \A t \in Process : IInv /\ Select(t) => IInv'
<1> SUFFICES ASSUME NEW t \in Process, IInv, Select(t) PROVE IInv'
  OBVIOUS
<1>1. PICK before \in BOOLEAN :
        tick' = [tick EXCEPT ![t] = [step |-> "coalesce", at |-> 0, old |-> Starts(before) \ {0}]]
  BY DEF Select
<1>2. Starts(before) \subseteq Age
  BY Ages DEF Starts
<1>3. PICK x : x = [step |-> "coalesce", at |-> 0, old |-> Starts(before) \ {0}]
  OBVIOUS
<1>4. x \in TickLocal /\ tick' = [tick EXCEPT ![t] = x]
  BY <1>1, <1>2, <1>3, Constants DEF TickLocal
<1>5. UNCHANGED <<window, source, queue, worker>> /\ ~\E p \in Age : Live(window[p], p)
  BY DEF Select, Selectable
<1>6. queue' \subseteq Message /\ window' \in [Age -> Row]
  BY <1>5 DEF IInv, TypeOK
<1>7. QED
  BY <1>4, <1>5, <1>6, TickStep

LEMMA LookIInv == \A t \in Process : IInv /\ Look(t) => IInv'
<1> SUFFICES ASSUME NEW t \in Process, IInv, Look(t) PROVE IInv'
  OBVIOUS
<1> DEFINE created(q) == window[q].status = "none"
<1>1. PICK q \in tick[t].old :
        /\ window' = IF created(q) THEN [window EXCEPT ![q] = Written("open")] ELSE window
        /\ \/ tick' = [tick EXCEPT ![t].step = "write"]
           \/ tick' = [tick EXCEPT ![t].old = @ \ {q}]
  BY DEF Look
<1>2. /\ tick \in [Process -> TickLocal] /\ tick[t].old \subseteq Age
      /\ window \in [Age -> Row] /\ tick[t].step = "coalesce"
  BY DEF IInv, TypeOK, TickLocal, Look
<1>3. PICK x \in TickLocal :
        tick' = [tick EXCEPT ![t] = x] /\ x.at = tick[t].at
  <2>1. [tick[t] EXCEPT !.step = "write"] \in TickLocal
        /\ [tick[t] EXCEPT !.step = "write"].at = tick[t].at
    BY <1>2 DEF TickLocal
  <2>2. [tick[t] EXCEPT !.old = @ \ {q}] \in TickLocal
        /\ [tick[t] EXCEPT !.old = @ \ {q}].at = tick[t].at
    BY <1>2 DEF TickLocal
  <2>3. QED
    BY <1>1, <1>2, <2>1, <2>2
<1>4. /\ window' \in [Age -> Row]
      /\ \A p \in Age : Live(window'[p], p) => Live(window[p], p)
      /\ \A p \in Age : window'[p].status = "succeeded" => window[p].status = "succeeded"
  <2>1. CASE created(q)
    <3>1. window' = [window EXCEPT ![q] = Written("open")] /\ q \in Age /\ "open" \in Status
      BY <1>1, <1>2, <2>1 DEF Status
    <3>2. /\ window' \in [Age -> Row]
          /\ \A p \in Age : Live(window'[p], p) => Live(window[p], p)
          /\ \A p \in Age : window'[p].status = IF p = q THEN "open" ELSE window[p].status
      BY <1>2, <3>1, StatusWritten
    <3>3. QED
      BY <3>2
  <2>2. CASE ~created(q)
    BY <1>1, <1>2, <2>2
  <2>3. QED
    BY <2>1, <2>2
<1>5. UNCHANGED <<source, worker>> /\ queue' \subseteq Message
  BY DEF Look, IInv, TypeOK
<1>6. \A p \in Age : Live(window[p], p) => Near(x.at, p)
  BY <1>2, <1>3 DEF IInv, NearLive
<1>7. QED
  BY <1>3, <1>4, <1>5, <1>6, TickStep

LEMMA CoalesceIInv == \A t \in Process : IInv /\ Coalesce(t) => IInv'
<1> SUFFICES ASSUME NEW t \in Process, IInv, Coalesce(t) PROVE IInv'
  OBVIOUS
<1>1. PICK q \in tick[t].old :
        /\ window' = [window EXCEPT ![q] = Written("open")]
        /\ tick' = [tick EXCEPT ![t].step = "coalesce", ![t].old = @ \ {q}]
  BY DEF Coalesce
<1>2. /\ tick \in [Process -> TickLocal] /\ q \in Age
      /\ window \in [Age -> Row] /\ tick[t].step = "write" /\ "open" \in Status
  BY DEF IInv, TypeOK, TickLocal, Coalesce, Status
<1>3. PICK x : x = [tick[t] EXCEPT !.step = "coalesce", !.old = @ \ {q}]
  OBVIOUS
<1>4. x \in TickLocal /\ x.at = tick[t].at /\ tick' = [tick EXCEPT ![t] = x]
  BY <1>1, <1>2, <1>3 DEF TickLocal
<1>5. /\ window' \in [Age -> Row]
      /\ \A p \in Age : Live(window'[p], p) => Live(window[p], p)
      /\ \A p \in Age : window'[p].status = IF p = q THEN "open" ELSE window[p].status
  BY <1>1, <1>2, StatusWritten
<1>6. UNCHANGED <<source, worker>> /\ queue' \subseteq Message
  BY DEF Coalesce, IInv, TypeOK
<1>7. \A p \in Age : Live(window[p], p) => Near(x.at, p)
  BY <1>2, <1>4 DEF IInv, NearLive
<1>8. \A p \in Age : window'[p].status = "succeeded" => window[p].status = "succeeded"
  BY <1>5
<1>9. QED
  BY <1>4, <1>5, <1>6, <1>7, <1>8, TickStep

\* The window that is claimed is near to every live one, and near to whatever
\* another task is about to claim.
LEMMA ClaimIInv == \A t \in Process : IInv /\ Claim(t) => IInv'
<1> SUFFICES ASSUME NEW t \in Process, IInv, Claim(t) PROVE IInv'
  OBVIOUS
<1>1. PICK a : a = tick[t].at
  OBVIOUS
<1>2. /\ tick \in [Process -> TickLocal] /\ window \in [Age -> Row]
      /\ a \in 0..Overrun /\ a \in Age
      /\ \A p \in Age : Live(window[p], p) => Near(a, p)
  BY <1>1, Ages DEF IInv, TypeOK, TickLocal, NearLive, Claim
<1>3. UNCHANGED <<source, queue, worker>> /\ queue' \subseteq Message
  BY DEF Claim, IInv, TypeOK
<1>4. CASE Claimable(window[a], 0)
  <2>1. /\ window' = [window EXCEPT ![a] = Claimed(0)]
        /\ tick' = [tick EXCEPT ![t].step = "send"]
    BY <1>1, <1>4 DEF Claim
  <2>2. Claimed(0) \in Row /\ Claimed(0).status = "running"
    BY Constants DEF Claimed, Row, Status
  <2>3. /\ window' \in [Age -> Row] /\ \A p \in Age : p # a => window'[p] = window[p]
        /\ window'[a].status = "running"
    BY <1>2, <2>1, <2>2
  <2>4. /\ tick' \in [Process -> TickLocal]
        /\ tick'[t].step = "send" /\ \A u \in Process : u # t => tick'[u] = tick[u]
    BY <1>2, <2>1 DEF TickLocal
  <2>5. TypeOK'
    BY <1>3, <2>3, <2>4 DEF IInv, TypeOK, TickLocal
  <2>6. NearLive'
    <3> SUFFICES ASSUME NEW u \in Process, tick'[u].step \in {"coalesce", "write"},
                        NEW p \in Age, Live(window'[p], p)
                 PROVE  Near(tick'[u].at, p)
      BY DEF NearLive, Near
    <3>1. u # t /\ tick'[u] = tick[u] /\ tick[u].at \in 0..Overrun
      BY <1>2, <2>4 DEF TickLocal
    <3>2. CASE p = a
      BY <1>2, <3>1, <3>2, Constants DEF Near
    <3>3. CASE p # a
      BY <2>3, <3>1, <3>3 DEF IInv, NearLive
    <3>4. QED
      BY <3>2, <3>3
  <2>7. LiveAreClose'
    <3> SUFFICES ASSUME NEW p \in Age, NEW q \in Age, Live(window'[p], p), Live(window'[q], q)
                 PROVE  p - q <= Overrun
      BY DEF LiveAreClose
    <3>1. CASE p # a /\ q # a
      BY <2>3, <3>1 DEF IInv, LiveAreClose
    <3>2. CASE p = a /\ q = a
      BY <3>2, <1>2, Constants
    <3>3. CASE p = a /\ q # a
      BY <1>2, <2>3, <3>3 DEF Near
    <3>4. CASE p # a /\ q = a
      BY <1>2, <2>3, <3>4 DEF Near
    <3>5. QED
      BY <3>1, <3>2, <3>3, <3>4
  <2>8. CrawledIsFresh'
    BY <1>3 DEF IInv, CrawledIsFresh
  <2>9. SucceededIsFresh'
    BY <1>3, <2>3 DEF IInv, SucceededIsFresh
  <2>10. QED
    BY <2>5, <2>6, <2>7, <2>8, <2>9 DEF IInv
<1>5. CASE ~Claimable(window[a], 0)
  <2>1. window' = window /\ tick' = [tick EXCEPT ![t] = IdleTick]
    BY <1>1, <1>5 DEF Claim
  <2>2. QED
    BY <1>2, <1>3, <2>1, IdleType, TickStep
<1>6. QED
  BY <1>4, <1>5

\* The task ends, with its message sent or not.
LEMMA TickEndsIInv ==
    \A t \in Process : IInv /\ (Send(t) \/ SendFails(t) \/ TickDies(t)) => IInv'
<1> SUFFICES ASSUME NEW t \in Process, IInv, Send(t) \/ SendFails(t) \/ TickDies(t)
             PROVE  IInv'
  OBVIOUS
<1>0. PICK a : a = tick[t].at
  OBVIOUS
<1>1. a \in Age /\ window \in [Age -> Row] /\ "open" \in Status
  BY <1>0, Ages DEF IInv, TypeOK, Status
<1>2. UNCHANGED <<source, worker>> /\ tick' = [tick EXCEPT ![t] = IdleTick]
  BY DEF Send, SendFails, TickDies
<1>3. queue' \subseteq Message
  BY <1>0, <1>1 DEF IInv, TypeOK, Send, SendFails, TickDies, Message
<1>4. /\ window' \in [Age -> Row]
      /\ \A p \in Age : Live(window'[p], p) => Live(window[p], p)
      /\ \A p \in Age : window'[p].status = "succeeded" => window[p].status = "succeeded"
  <2>1. CASE SendFails(t)
    <3>1. window' = [window EXCEPT ![a] = Written("open")]
      BY <1>0, <2>1 DEF SendFails
    <3>2. /\ window' \in [Age -> Row]
          /\ \A p \in Age : Live(window'[p], p) => Live(window[p], p)
          /\ \A p \in Age : window'[p].status = IF p = a THEN "open" ELSE window[p].status
      BY <1>1, <3>1, StatusWritten
    <3>3. QED
      BY <3>2
  <2>2. CASE Send(t) \/ TickDies(t)
    BY <1>1, <2>2 DEF Send, TickDies
  <2>3. QED
    BY <2>1, <2>2
<1>5. QED
  BY <1>2, <1>3, <1>4, IdleType, TickStep

LEMMA ConsoleIInv == IInv /\ Console => IInv'
<1> SUFFICES ASSUME IInv, Console PROVE IInv'
  OBVIOUS
<1>1. UNCHANGED <<window, source, tick, worker>> /\ queue' \subseteq Message
  BY DEF IInv, TypeOK, Console, Message
<1>2. TypeOK' /\ NearLive'
  BY <1>1 DEF IInv, TypeOK, NearLive, Near
<1>3. QED
  BY <1>1, <1>2, Quiet

-----------------------------------------------------------------------------
(* A worker.                                                               *)

\* A crawl starts or dies.
LEMMA CalmIInv ==
    ASSUME IInv, NEW w \in Process, NEW l, UNCHANGED <<window, source, tick>>,
           worker' = [worker EXCEPT ![w] = l], queue' \subseteq Message,
           l \in WorkerLocal,
           l.step \notin {"record", "finish"}
    PROVE  IInv'
<1>1. TypeOK'
  BY DEF IInv, TypeOK, WorkerLocal
<1>2. CrawledIsFresh'
  BY DEF IInv, CrawledIsFresh, TypeOK
<1>3. QED
  BY <1>1, <1>2 DEF IInv, NearLive, Near, LiveAreClose, SucceededIsFresh

LEMMA StartIInv == \A w \in Process, m \in Message : IInv /\ Start(w, m) => IInv'
<1> SUFFICES ASSUME NEW w \in Process, NEW m \in Message, IInv, Start(w, m) PROVE IInv'
  OBVIOUS
<1> DEFINE l == [step |-> "crawl", window |-> m, ok |-> FALSE, copy |-> source.streaks]
<1>1. l \in WorkerLocal /\ l.step = "crawl"
  BY DEF IInv, TypeOK, WorkerLocal
<1>2. worker' = [worker EXCEPT ![w] = l] /\ queue' \subseteq Message
      /\ UNCHANGED <<window, source, tick>>
  BY DEF Start, IInv, TypeOK
<1> HIDE DEF l
<1>3. QED
  BY <1>1, <1>2, CalmIInv

LEMMA CrashIInv == \A w \in Process : IInv /\ Crash(w) => IInv'
<1> SUFFICES ASSUME NEW w \in Process, IInv, Crash(w) PROVE IInv'
  OBVIOUS
<1>1. worker[w].window \in Message
  BY DEF IInv, TypeOK
<1>2. queue' \subseteq Message
  BY <1>1 DEF IInv, TypeOK, Crash
<1>3. worker' = [worker EXCEPT ![w] = IdleWorker] /\ UNCHANGED <<window, source, tick>>
  BY DEF Crash
<1>4. IdleWorker.step \notin {"record", "finish"}
  BY IdleType
<1>5. QED
  BY <1>2, <1>3, <1>4, IdleType, CalmIInv

\* Steps that stamp the source: everything is fresh then.
LEMMA StampedIInv ==
    ASSUME IInv, NEW w \in Process, NEW l, UNCHANGED <<window, tick, queue>>,
           worker' = [worker EXCEPT ![w] = l],
           source' \in [streaks : Streaks, rest : 0..SlowInterval], source'.rest = 0,
           l \in WorkerLocal
    PROVE  IInv'
<1>1. TypeOK'
  BY DEF IInv, TypeOK, WorkerLocal
<1>2. CrawledIsFresh'
  <2>1. \A x \in Process : worker'[x].window \in Message
    BY <1>1 DEF TypeOK
  <2>2. \A m \in Message : 0 <= m
    BY Ages, Constants DEF Message, Gone
  <2>3. QED
    BY <2>1, <2>2 DEF CrawledIsFresh
<1>3. SucceededIsFresh'
  BY Ages DEF SucceededIsFresh
<1>4. QED
  BY <1>1, <1>2, <1>3 DEF IInv, NearLive, Near, LiveAreClose

LEMMA CrawledIInv == \A w \in Process, ok \in BOOLEAN : IInv /\ Crawled(w, ok) => IInv'
<1> SUFFICES ASSUME NEW w \in Process, NEW ok \in BOOLEAN, IInv, Crawled(w, ok) PROVE IInv'
  OBVIOUS
<1> DEFINE l == [worker[w] EXCEPT !.step = "record", !.ok = ok]
<1>1. l \in WorkerLocal
  BY DEF IInv, TypeOK, WorkerLocal
<1>2. source' \in [streaks : Streaks, rest : 0..SlowInterval] /\ source'.rest = 0
  BY Constants DEF IInv, TypeOK, Crawled
<1>3. worker' = [worker EXCEPT ![w] = l] /\ UNCHANGED <<window, tick, queue>>
  BY DEF Crawled, IInv, TypeOK
<1> HIDE DEF l
<1>4. QED
  BY <1>1, <1>2, <1>3, StampedIInv

LEMMA RecordIInv == \A w \in Process : IInv /\ Record(w) => IInv'
<1> SUFFICES ASSUME NEW w \in Process, IInv, Record(w) PROVE IInv'
  OBVIOUS
<1> DEFINE l == [worker[w] EXCEPT !.step = "finish", !.copy = IdleWorker.copy]
<1>1. l \in WorkerLocal
  BY IdleType DEF IInv, TypeOK, WorkerLocal
<1>2. PICK b \in {Backoff, BlockedBackoff} :
        source' = [streaks |-> IF worker[w].ok THEN Success(worker[w].copy)
                               ELSE Failure(worker[w].copy, b),
                   rest |-> 0]
  BY DEF Record
<1>3. worker[w].copy \in Streaks
  BY DEF IInv, TypeOK
<1>4. Success(worker[w].copy) \in Streaks /\ Failure(worker[w].copy, b) \in Streaks
  BY <1>3, StreaksType
<1>5. source' \in [streaks : Streaks, rest : 0..SlowInterval] /\ source'.rest = 0
  BY <1>2, <1>4, Constants
<1>6. worker' = [worker EXCEPT ![w] = l] /\ UNCHANGED <<window, tick, queue>>
  BY DEF Record, IInv, TypeOK
<1> HIDE DEF l
<1>7. QED
  BY <1>1, <1>5, <1>6, StampedIInv

LEMMA FinishIInv == \A w \in Process : IInv /\ Finish(w) => IInv'
<1> SUFFICES ASSUME NEW w \in Process, IInv, Finish(w) PROVE IInv'
  OBVIOUS
<1> DEFINE m == worker[w].window
<1>1. worker' = [worker EXCEPT ![w] = IdleWorker] /\ UNCHANGED <<source, tick, queue>>
      /\ worker[w].step = "finish" /\ m \in Message /\ window \in [Age -> Row]
      /\ "succeeded" \in Status /\ "open" \in Status
  BY DEF Finish, IInv, TypeOK, Status
<1>2. /\ window' \in [Age -> Row]
      /\ \A p \in Age : Live(window'[p], p) => Live(window[p], p)
      /\ \A p \in Age : window'[p].status = "succeeded" =>
                          p = m \/ window[p].status = "succeeded"
  <2>1. CASE m = Gone
    BY <1>1, <2>1 DEF Finish
  <2>2. CASE m # Gone
    <3> DEFINE s == IF worker[w].ok THEN "succeeded" ELSE "open"
    <3>1. m \in Age /\ s \in Status /\ s # "running"
      BY <1>1, <2>2, Ages
    <3>2. window' = [window EXCEPT ![m] = Written(s)]
      BY <2>2 DEF Finish
    <3> HIDE DEF s, m
    <3>3. /\ window' \in [Age -> Row]
          /\ \A p \in Age : Live(window'[p], p) => Live(window[p], p)
          /\ \A p \in Age : window'[p].status = IF p = m THEN s ELSE window[p].status
      BY <1>1, <3>1, <3>2, StatusWritten
    <3>4. QED
      BY <3>3
  <2>3. QED
    BY <2>1, <2>2
<1>3. TypeOK'
  BY <1>1, <1>2, IdleType DEF IInv, TypeOK, WorkerLocal
<1>4. NearLive' /\ LiveAreClose'
  BY <1>1, <1>2 DEF IInv, NearLive, Near, LiveAreClose
<1>5. CrawledIsFresh'
  BY <1>1, IdleType DEF IInv, CrawledIsFresh, TypeOK
<1>6. SucceededIsFresh'
  <2>1. m # Gone => source.rest <= m
    BY <1>1 DEF IInv, CrawledIsFresh
  <2>2. QED
    BY <1>1, <1>2, <2>1, Ages DEF IInv, SucceededIsFresh
<1>7. QED
  BY <1>3, <1>4, <1>5, <1>6 DEF IInv

-----------------------------------------------------------------------------
(* A new window begins: rows, messages and the source age alike.           *)

LEMMA ClockIInv == IInv /\ Clock => IInv'
<1> SUFFICES ASSUME IInv, Clock PROVE IInv'
  OBVIOUS
<1>1. /\ window \in [Age -> Row]
      /\ source.rest \in 0..SlowInterval /\ source.streaks \in Streaks
  BY DEF IInv, TypeOK
<1>2. NoRow \in Row /\ NoRow.status = "none"
  BY Constants DEF NoRow, Row, Status
<1>3. \A p \in Age : p # 0 => p - 1 \in Age
  BY Constants DEF Age
<1>4. \A p \in Age : window'[p] = IF p = 0 THEN NoRow ELSE window[p - 1]
  BY DEF Clock, Aged
<1>5. window' \in [Age -> Row]
  BY <1>1, <1>2, <1>3 DEF Clock, Aged
<1>6. \A p \in Age : Live(window'[p], p) => p # 0 /\ Live(window[p - 1], p - 1)
  <2> SUFFICES ASSUME NEW p \in Age, Live(window'[p], p)
               PROVE  p # 0 /\ Live(window[p - 1], p - 1)
    OBVIOUS
  <2>1. p # 0
    BY <1>2, <1>4 DEF Live
  <2>2. window[p - 1].lease \in Int /\ p \in Nat
    BY <1>1, <1>3, <2>1, Ages, Constants DEF Row
  <2>3. QED
    BY <1>4, <2>1, <2>2 DEF Live
<1>7. /\ source'.rest \in 0..SlowInterval /\ source'.rest <= source.rest + 1
      /\ source' \in [streaks : Streaks, rest : 0..SlowInterval]
  <2>1. /\ Count(source.rest, SlowInterval) \in 0..SlowInterval
        /\ Count(source.rest, SlowInterval) <= source.rest + 1
    BY <1>1, Constants, CountType
  <2>2. source.streaks.backoff \in 0..MaxBackoff /\ Less(source.streaks.backoff) \in 0..MaxBackoff
    BY <1>1, Constants, LessType DEF Streaks
  <2>3. [source.streaks EXCEPT !.backoff = Less(@)] \in Streaks
    BY <1>1, <2>2 DEF Streaks
  <2>4. source' = [source EXCEPT !.rest = Count(@, SlowInterval), !.streaks.backoff = Less(@)]
        /\ source \in [streaks : Streaks, rest : 0..SlowInterval]
    BY DEF Clock, IInv, TypeOK
  <2>5. source' = [streaks |-> [source.streaks EXCEPT !.backoff = Less(@)],
                   rest |-> Count(source.rest, SlowInterval)]
    BY <2>4
  <2>6. QED
    BY <2>1, <2>3, <2>5
<1>8. \A m \in Message : Later(m) \in Message /\ (Later(m) # Gone => m # Gone /\ Later(m) = m + 1)
  BY Constants DEF Later, Message, Age, Gone
<1>9. \A w \in Process :
        /\ worker'[w] \in WorkerLocal
        /\ worker'[w].step = worker[w].step
        /\ worker[w].step # "idle" => worker'[w].window = Later(worker[w].window)
  <2> SUFFICES ASSUME NEW w \in Process
               PROVE  /\ worker'[w] \in WorkerLocal
                      /\ worker'[w].step = worker[w].step
                      /\ worker[w].step # "idle" => worker'[w].window = Later(worker[w].window)
    OBVIOUS
  <2>1. worker[w] \in WorkerLocal
    BY DEF IInv, TypeOK, WorkerLocal
  <2>2. worker'[w] = IF worker[w].step = "idle" THEN worker[w]
                     ELSE [worker[w] EXCEPT !.window = Later(@), !.copy.backoff = Less(@)]
    BY DEF Clock
  <2>3. worker[w].copy.backoff \in 0..MaxBackoff /\ Less(worker[w].copy.backoff) \in 0..MaxBackoff
    BY <2>1, Constants, LessType DEF Streaks, WorkerLocal
  <2>4. [worker[w].copy EXCEPT !.backoff = Less(@)] \in Streaks
    BY <2>1, <2>3 DEF Streaks, WorkerLocal
  <2>5. Later(worker[w].window) \in Message
    BY <1>8, <2>1 DEF WorkerLocal
  <2>6. CASE worker[w].step = "idle"
    BY <2>1, <2>2, <2>6
  <2>7. CASE worker[w].step # "idle"
    <3>1. worker'[w] = [worker[w] EXCEPT !.window = Later(worker[w].window),
                                         !.copy = [worker[w].copy EXCEPT !.backoff = Less(@)]]
      BY <2>1, <2>2, <2>7
    <3>2. QED
      BY <2>1, <2>4, <2>5, <3>1 DEF WorkerLocal
  <2>8. QED
    BY <2>6, <2>7
<1>10. /\ tick' \in [Process -> TickLocal]
       /\ \A t \in Process : tick'[t].step \in {"coalesce", "write"} =>
              tick[t].step \in {"coalesce", "write"} /\ tick'[t].at = tick[t].at + 1
  <2>1. tick \in [Process -> TickLocal]
    BY DEF IInv, TypeOK, TickLocal
  <2>2. tick' = [t \in Process |->
                   IF tick[t].step = "idle" THEN tick[t] ELSE [tick[t] EXCEPT !.at = @ + 1]]
    BY DEF Clock
  <2>3. ASSUME NEW t \in Process, tick[t].step # "idle"
        PROVE  /\ tick'[t] \in TickLocal /\ tick'[t].at = tick[t].at + 1
               /\ tick'[t].step = tick[t].step
    <3>1. tick[t] \in TickLocal /\ tick[t].at < Overrun
      BY <2>1, <2>3 DEF Clock
    <3>2. tick[t].at + 1 \in 0..Overrun
      BY <3>1, Constants DEF TickLocal
    <3>3. tick'[t] = [tick[t] EXCEPT !.at = @ + 1]
      BY <2>2, <2>3
    <3>4. QED
      BY <3>1, <3>2, <3>3 DEF TickLocal
  <2>4. ASSUME NEW t \in Process, tick[t].step = "idle"
        PROVE  tick'[t] \in TickLocal /\ tick'[t].step = "idle"
    BY <2>1, <2>2, <2>4
  <2>5. \A t \in Process : tick'[t] \in TickLocal
    BY <2>3, <2>4
  <2>6. tick' \in [Process -> TickLocal]
    BY <2>2, <2>5
  <2>7. QED
    BY <2>3, <2>4, <2>6
<1>11. TypeOK'
  <2>1. queue' \subseteq Message
    <3>1. queue' = {Later(m) : m \in queue} /\ queue \subseteq Message
      BY DEF Clock, IInv, TypeOK
    <3>2. \A m \in queue : Later(m) \in Message
      BY <1>8, <3>1
    <3>3. QED
      BY <3>1, <3>2
  <2>2. worker' \in [Process -> WorkerLocal]
    BY <1>9 DEF Clock
  <2>3. QED
    BY <1>5, <1>7, <1>10, <2>1, <2>2 DEF TypeOK, TickLocal, WorkerLocal
<1>12. NearLive'
  <2> SUFFICES ASSUME NEW t \in Process, tick'[t].step \in {"coalesce", "write"},
                      NEW p \in Age, Live(window'[p], p)
               PROVE  Near(tick'[t].at, p)
    BY DEF NearLive, Near
  <2>1. p # 0 /\ p - 1 \in Age /\ Live(window[p - 1], p - 1)
    BY <1>3, <1>6
  <2>2. Near(tick[t].at, p - 1) /\ tick'[t].at = tick[t].at + 1 /\ tick[t].at \in Int
    BY <1>10, <2>1 DEF IInv, NearLive, TypeOK
  <2>3. p \in Int
    BY Ages
  <2>4. QED
    BY <2>2, <2>3, Constants DEF Near
<1>13. LiveAreClose'
  <2> SUFFICES ASSUME NEW p \in Age, NEW q \in Age, Live(window'[p], p), Live(window'[q], q)
               PROVE  p - q <= Overrun
    BY DEF LiveAreClose
  <2>1. /\ p - 1 \in Age /\ Live(window[p - 1], p - 1)
        /\ q - 1 \in Age /\ Live(window[q - 1], q - 1)
    BY <1>3, <1>6
  <2>2. (p - 1) - (q - 1) <= Overrun
    BY <2>1 DEF IInv, LiveAreClose
  <2>3. QED
    BY <2>2, Ages
<1>14. CrawledIsFresh'
  <2> SUFFICES ASSUME NEW w \in Process, worker'[w].step \in {"record", "finish"},
                      worker'[w].window # Gone
               PROVE  source'.rest <= worker'[w].window
    BY DEF CrawledIsFresh
  <2>1. worker[w].window \in Message /\ worker'[w].window = Later(worker[w].window)
    BY <1>9 DEF IInv, TypeOK
  <2>2. worker[w].window # Gone /\ worker'[w].window = worker[w].window + 1
    BY <1>8, <2>1
  <2>3. source.rest <= worker[w].window
    BY <1>9, <2>2 DEF IInv, CrawledIsFresh
  <2>4. worker[w].window \in Nat
    BY <2>1, <2>2, Ages
  <2>5. QED
    BY <1>1, <1>7, <2>2, <2>3, <2>4, Constants
<1>15. SucceededIsFresh'
  <2> SUFFICES ASSUME NEW p \in Age, window'[p].status = "succeeded"
               PROVE  source'.rest <= p
    BY DEF SucceededIsFresh
  <2>1. p # 0 /\ window[p - 1].status = "succeeded"
    BY <1>2, <1>4
  <2>2. source.rest <= p - 1
    BY <1>3, <2>1 DEF IInv, SucceededIsFresh
  <2>3. QED
    BY <1>1, <1>7, <2>2, Ages, Constants
<1>16. QED
  BY <1>11, <1>12, <1>13, <1>14, <1>15 DEF IInv

-----------------------------------------------------------------------------

\* The strengthened invariant holds throughout: what a claim or a finish relies
\* on is true whenever it runs.
THEOREM Invariant == Spec => []IInv
<1>1. IInv /\ [Next]_crawlVars => IInv'
  <2> SUFFICES ASSUME IInv, [Next]_crawlVars PROVE IInv'
    OBVIOUS
  <2>1. CASE UNCHANGED crawlVars
    BY <2>1 DEF IInv, TypeOK, NearLive, Near, LiveAreClose, CrawledIsFresh,
       SucceededIsFresh, crawlVars
  <2>2. CASE \E t \in Process : Select(t) \/ Look(t) \/ Coalesce(t) \/ Claim(t)
    BY <2>2, SelectIInv, LookIInv, CoalesceIInv, ClaimIInv
  <2>3. CASE \E t \in Process : Send(t) \/ SendFails(t) \/ TickDies(t)
    BY <2>3, TickEndsIInv
  <2>4. CASE Console \/ Clock \/ \E w \in Process, m \in Message : Start(w, m)
    BY <2>4, ConsoleIInv, ClockIInv, StartIInv
  <2>5. CASE \E w \in Process, ok \in BOOLEAN : Crawled(w, ok)
    BY <2>5, CrawledIInv
  <2>6. CASE \E w \in Process : Record(w) \/ Finish(w) \/ Crash(w)
    BY <2>6, RecordIInv, FinishIInv, CrashIInv
  <2>7. QED
    BY <2>1, <2>2, <2>3, <2>4, <2>5, <2>6 
    DEF Next, Undisturbed, Disturbed, Schedule, Work
<1>2. QED
  BY InitIInv, <1>1, PTL DEF Spec

\* TypeOK: windows, the source, the scheduling tasks and the crawls keep their
\* types.
THEOREM TypeCorrect == Spec => []TypeOK
<1>1. IInv => TypeOK
  BY DEF IInv
<1>2. QED
  BY Invariant, <1>1, PTL

\* LiveAreClose: nothing is locked between selection and claim, and still windows
\* of a source that are live at once are no further apart than a scheduling
\* task lasts.
THEOREM LiveClose == Spec => []LiveAreClose
<1>1. IInv => LiveAreClose
  BY DEF IInv
<1>2. QED
  BY Invariant, <1>1, PTL

\* SucceededIsFresh: a window is finished as a success only after the source
\* was crawled in it or later, however late its message came.
THEOREM SuccessIsEarned == Spec => []SucceededIsFresh
<1>1. IInv => SucceededIsFresh
  BY DEF IInv
<1>2. QED
  BY Invariant, <1>1, PTL

-----------------------------------------------------------------------------
(* The streaks of a source and its back-off agree.                         *)

\* A source has a streak of failures or of successes; it is slow while it is
\* backed off and once it has failed often enough; whoever has succeeded often
\* enough is neither slow nor held back.
Agrees(c) ==
    /\ c.fails = 0 \/ c.goods = 0
    /\ c.backoff > 0 => c.slow
    /\ c.fails = FailuresToBackoff => c.slow
    /\ c.goods = SuccessesToRecover => ~c.slow /\ c.backoff = 0

StreaksAgree == Agrees(source.streaks)

\* The copies that workers will write back agree as well.
CopiesAgree == \A w \in Process : Agrees(worker[w].copy)

\* A crawl recorded on streaks that agree leaves streaks that agree.
LEMMA RecordedAgree ==
    ASSUME NEW c \in Streaks, Agrees(c)
    PROVE  /\ Agrees(Success(c))
           /\ \A b \in {Backoff, BlockedBackoff} : Agrees(Failure(c, b))
<1>1. c.fails \in 0..FailuresToBackoff /\ c.goods \in 0..SuccessesToRecover
      /\ c.backoff \in 0..MaxBackoff /\ c.slow \in BOOLEAN
  BY DEF Streaks
<1>2. Agrees(Success(c))
  <2>1. /\ Success(c).fails = 0 /\ Success(c).goods = Count(c.goods, SuccessesToRecover)
        /\ Success(c).backoff = IF Success(c).goods = SuccessesToRecover THEN 0 ELSE c.backoff
        /\ Success(c).slow <=> (c.slow /\ ~(Success(c).goods = SuccessesToRecover))
    BY DEF Success
  <2>2. QED
    BY <1>1, <2>1, Constants DEF Agrees
<1>3. ASSUME NEW b \in {Backoff, BlockedBackoff}
      PROVE  Agrees(Failure(c, b))
  <2>1. /\ Failure(c, b).goods = 0
        /\ Failure(c, b).backoff = IF Failure(c, b).fails = FailuresToBackoff THEN b ELSE c.backoff
        /\ Failure(c, b).slow <=> (c.slow \/ Failure(c, b).fails = FailuresToBackoff)
    BY DEF Failure
  <2>2. QED
    BY <1>1, <2>1, Constants DEF Agrees
<1>4. QED
  BY <1>2, <1>3

\* Time only shortens a back-off.
LEMMA AgedAgree ==
    ASSUME NEW c \in Streaks, NEW d, Agrees(c), d = [c EXCEPT !.backoff = Less(@)]
    PROVE  Agrees(d)
<1>1. /\ d.fails = c.fails /\ d.goods = c.goods /\ d.slow = c.slow
      /\ d.backoff = Less(c.backoff) /\ c.backoff \in 0..MaxBackoff
  BY DEF Streaks
<1>2. Less(c.backoff) > 0 => c.backoff > 0
  BY <1>1, Constants DEF Less
<1>3. c.backoff = 0 => Less(c.backoff) = 0
  BY DEF Less
<1>4. QED
  BY <1>1, <1>2, <1>3 DEF Agrees

\* Whatever copy of the streaks a worker writes back, and whatever it
\* overwrites, every step keeps them in agreement.
LEMMA NextAgrees ==
    ASSUME IInv, StreaksAgree, CopiesAgree, [Next]_crawlVars
    PROVE  StreaksAgree' /\ CopiesAgree'
<1>0. /\ worker \in [Process -> WorkerLocal]
      /\ source \in [streaks : Streaks, rest : 0..SlowInterval]
  BY DEF IInv, TypeOK, WorkerLocal
<1>i. Agrees(IdleWorker.copy)
  BY Constants DEF Agrees, IdleWorker
\* Steps that write at most one worker's copy.
<1>1. ASSUME source'.streaks = source.streaks, NEW w \in Process, NEW l, Agrees(l.copy),
             worker' = [worker EXCEPT ![w] = l]
      PROVE  StreaksAgree' /\ CopiesAgree'
  BY <1>0, <1>1 DEF StreaksAgree, CopiesAgree, Agrees
<1>2. CASE UNCHANGED <<source, worker>>
  BY <1>2 DEF StreaksAgree, CopiesAgree, Agrees
<1>3. ASSUME NEW w \in Process, NEW m \in Message, Start(w, m)
      PROVE  StreaksAgree' /\ CopiesAgree'
  <2>1. PICK l : l = [step |-> "crawl", window |-> m, ok |-> FALSE, copy |-> source.streaks]
    OBVIOUS
  <2>2. Agrees(l.copy)
    BY <2>1 DEF StreaksAgree
  <2>3. worker' = [worker EXCEPT ![w] = l] /\ source' = source
    BY <1>3, <2>1 DEF Start
  <2>4. QED
    BY <1>1, <2>2, <2>3
<1>4. ASSUME NEW w \in Process, NEW ok \in BOOLEAN, Crawled(w, ok)
      PROVE  StreaksAgree' /\ CopiesAgree'
  <2>1. PICK l : l = [worker[w] EXCEPT !.step = "record", !.ok = ok]
    OBVIOUS
  <2>2. l.copy = worker[w].copy
    BY <1>0, <2>1
  <2>3. Agrees(l.copy)
    BY <2>2 DEF CopiesAgree
  <2>4. worker' = [worker EXCEPT ![w] = l] /\ source'.streaks = source.streaks
    BY <1>0, <1>4, <2>1 DEF Crawled
  <2>5. QED
    BY <1>1, <2>3, <2>4
<1>5. ASSUME NEW w \in Process, Record(w)
      PROVE  StreaksAgree' /\ CopiesAgree'
  <2>1. worker[w].copy \in Streaks /\ Agrees(worker[w].copy)
    BY <1>0 DEF CopiesAgree, WorkerLocal
  <2>2. PICK b \in {Backoff, BlockedBackoff} :
          source' = [streaks |-> IF worker[w].ok THEN Success(worker[w].copy)
                                 ELSE Failure(worker[w].copy, b),
                     rest |-> 0]
    BY <1>5 DEF Record
  <2>3. Agrees(Success(worker[w].copy)) /\ Agrees(Failure(worker[w].copy, b))
    BY <2>1, RecordedAgree
  <2>4. PICK s : s = source'.streaks
    OBVIOUS
  <2>5. Agrees(s)
    BY <2>2, <2>3, <2>4
  <2>6. StreaksAgree'
    BY <2>4, <2>5 DEF StreaksAgree, Agrees
  <2>7. PICK l : l = [worker[w] EXCEPT !.step = "finish", !.copy = IdleWorker.copy]
    OBVIOUS
  <2>8. l.copy = IdleWorker.copy
    BY <1>0, <2>7
  <2>9. worker' = [worker EXCEPT ![w] = l]
    BY <1>0, <1>5, <2>7 DEF Record
  <2>10. CopiesAgree'
    BY <1>0, <1>i, <2>8, <2>9 DEF CopiesAgree, Agrees
  <2>11. QED
    BY <2>6, <2>10
<1>6. ASSUME NEW w \in Process, Finish(w) \/ Crash(w)
      PROVE  StreaksAgree' /\ CopiesAgree'
  <2>1. worker' = [worker EXCEPT ![w] = IdleWorker] /\ source' = source
    BY <1>6 DEF Finish, Crash
  <2>2. QED
    BY <1>1, <1>i, <2>1
<1>7. CASE Clock
  <2>1. source' = [source EXCEPT !.rest = Count(@, SlowInterval), !.streaks.backoff = Less(@)]
    BY <1>7 DEF Clock
  <2>2. PICK s : s = source'.streaks
    OBVIOUS
  <2>3. s = [source.streaks EXCEPT !.backoff = Less(@)]
    BY <1>0, <2>1, <2>2
  <2>4. Agrees(s)
    BY <1>0, <2>3, AgedAgree DEF StreaksAgree
  <2>5. StreaksAgree'
    BY <2>2, <2>4 DEF StreaksAgree, Agrees
  <2>6. ASSUME NEW w \in Process
        PROVE  Agrees(worker[w].copy)'
    <3>1. worker'[w] = IF worker[w].step = "idle" THEN worker[w]
                       ELSE [worker[w] EXCEPT !.window = Later(@), !.copy.backoff = Less(@)]
      BY <1>7 DEF Clock
    <3>2. PICK c : c = worker'[w].copy
      OBVIOUS
    <3>3. c = worker[w].copy \/ c = [worker[w].copy EXCEPT !.backoff = Less(@)]
      BY <1>0, <3>1, <3>2
    <3>4. worker[w].copy \in Streaks /\ Agrees(worker[w].copy)
      BY <1>0 DEF CopiesAgree, WorkerLocal
    <3>5. Agrees(c)
      BY <3>3, <3>4, AgedAgree
    <3>6. QED
      BY <3>2, <3>5 DEF Agrees
  <2>7. QED
    BY <2>5, <2>6 DEF CopiesAgree
<1>8. CASE (\E t \in Process : \/ Select(t) \/ Look(t) \/ Coalesce(t) \/ Claim(t)
                                \/ Send(t) \/ SendFails(t) \/ TickDies(t))
           \/ Console \/ UNCHANGED crawlVars
  BY <1>2, <1>8
  DEF Select, Look, Coalesce, Claim, Send, SendFails, TickDies, Console, crawlVars
<1>9. QED
  BY <1>3, <1>4, <1>5, <1>6, <1>7, <1>8 DEF Next, Undisturbed, Disturbed, Schedule, Work

\* Concurrent crawls overwrite each other's streaks, each from the copy it read
\* at its start: still no source is held back that counts as recovered, and
\* none is backed off without being slowed down.
THEOREM StreaksStayTrue == Spec => []StreaksAgree
<1>1. Init => StreaksAgree /\ CopiesAgree
  BY Constants DEF Init, StreaksAgree, CopiesAgree, Agrees, IdleWorker
<1>2. IInv /\ StreaksAgree /\ CopiesAgree /\ [Next]_crawlVars => StreaksAgree' /\ CopiesAgree'
  BY NextAgrees
<1>3. QED
  BY <1>1, <1>2, Invariant, PTL DEF Spec
=============================================================================
