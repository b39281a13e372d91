---------------------------- MODULE SharedSnapshot ----------------------------
(***************************************************************************)
(* One shared snapshot of a provider's page: workers that need it agree    *)
(* through a lease on which of them fetches it, the others wait and use    *)
(* the file it publishes (_get_or_fetch_shared_snapshot of                 *)
(* stable/services/race_data_sync_providers.py and the lease functions of  *)
(* stable/services/race_data_sync_control.py).                             *)
(*                                                                         *)
(* Files are named by their content.  A generation is compared only with   *)
(* the generation of the row, which every claim but a replay raises: the   *)
(* row's holders are the workers whose generation is the row's.            *)
(***************************************************************************)
EXTENDS Naturals

CONSTANTS
    Worker,
    Run,        \* attempts; a repeated message repeats its attempt
    Content,    \* what the page may hold
    NoRun, NoContent,
    MaxVersion  \* changes of the page that are followed

ASSUME SnapshotAssumption ==
    NoRun \notin Run /\ NoContent \notin Content /\ MaxVersion \in Nat

VARIABLES
    page,       \* the provider's page
    lease,      \* the row of RaceDataSnapshotLease
    files,      \* the contents there are files of
    worker,
    published,  \* version of the page that was published last
    lost        \* contents whose file a worker removed after its own snapshot ran out

vars == <<page, lease, files, worker, published, lost>>

\* live: the lease, the validity of the snapshot, or the pause after a
\* failure has not run out.  previous: the artifact that will be superseded.
Lease == [state : {"none", "claimed", "complete", "failed"}, owner : Run \cup {NoRun},
          holders : SUBSET Worker, live : BOOLEAN,
          artifact : Content \cup {NoContent}, previous : Content \cup {NoContent}]

NoLease == [state |-> "none", owner |-> NoRun, holders |-> {}, live |-> FALSE,
            artifact |-> NoContent, previous |-> NoContent]

\* intime: the lease was live when the page had been fetched; after the
\* publication, the snapshot has not run out since.
Local == [step : {"idle", "wait", "fetch", "write", "publish", "retire", "unlink"},
          run : Run \cup {NoRun}, content : Content \cup {NoContent}, version : Nat,
          intime : BOOLEAN, previous : Content \cup {NoContent}]

Idle == [step |-> "idle", run |-> NoRun, content |-> NoContent, version |-> 0,
         intime |-> FALSE, previous |-> NoContent]

TypeOK ==
    /\ page \in [content : Content, version : Nat]
    /\ lease \in Lease
    /\ files \subseteq Content
    /\ worker \in [Worker -> Local]
    /\ published \in Nat
    /\ lost \subseteq Content

Init ==
    /\ page \in [content : Content, version : {0}]
    /\ lease = NoLease
    /\ files = {}
    /\ worker = [w \in Worker |-> Idle]
    /\ published = 0
    /\ lost = {}

-----------------------------------------------------------------------------
(* claim_snapshot_lease, by a clock that was read long ago if the worker    *)
(* has just begun.  live: the lease given is live by the present clock.    *)

Asks(w, r) ==
    \/ worker[w].step = "idle" /\ r \in Run
    \/ worker[w].step = "wait" /\ r = worker[w].run

Clock(w, live) == live \/ worker[w].step = "idle"

\* Defect: whoever dies keeps its lease.
Forever == lease.state = "claimed" \/ (lease.state # "none" /\ lease.live)

Held == lease.state # "none" /\ lease.live

Granted(w, r) ==
    worker' = [worker EXCEPT ![w] = [Idle EXCEPT !.step = "fetch", !.run = r,
                                                 !.previous = lease'.previous]]

\* There is no row, or it is taken over.
Acquire(w, r, live) ==
    /\ Asks(w, r) /\ ~Held /\ Clock(w, live)
    /\ lease' = [state |-> "claimed", owner |-> r, holders |-> {w}, live |-> live,
                 artifact |-> NoContent,
                 previous |-> IF lease.artifact # NoContent THEN lease.artifact
                              ELSE lease.previous]
    /\ Granted(w, r)
    /\ UNCHANGED <<page, files, published, lost>>

\* The same attempt asks again.
Replay(w, r, live) ==
    /\ Asks(w, r) /\ Clock(w, live)
    /\ lease.state = "claimed" /\ lease.owner = r /\ lease.live = live
    /\ lease' = [lease EXCEPT !.holders = @ \cup {w}]
    /\ Granted(w, r)
    /\ UNCHANGED <<page, files, published, lost>>

\* Another attempt is fetching.
Wait(w, r) ==
    /\ worker[w].step = "idle" /\ r \in Run
    /\ lease.state = "claimed" /\ lease.owner # r
    /\ worker' = [worker EXCEPT ![w].step = "wait", ![w].run = r]
    /\ UNCHANGED <<page, lease, files, published, lost>>

\* The snapshot is used, a failure is still recent, or the polls are over.
Leave(w) ==
    /\ worker[w].step = "wait"
    /\ worker' = [worker EXCEPT ![w] = Idle]
    /\ UNCHANGED <<page, lease, files, published, lost>>

-----------------------------------------------------------------------------

\* Defect: a page that could not be fetched is taken for an empty one.
FetchEmpty(w) ==
    /\ worker[w].step = "fetch"
    /\ worker' = [worker EXCEPT ![w].step = "write", ![w].version = page.version,
                                ![w].intime = lease.live]
    /\ UNCHANGED <<page, lease, files, published, lost>>

\* The pages are fetched and the clock is read.
Fetch(w) ==
    /\ worker[w].step = "fetch"
    /\ worker' = [worker EXCEPT ![w].step = "write", ![w].content = page.content,
                                ![w].version = page.version, ![w].intime = lease.live]
    /\ UNCHANGED <<page, lease, files, published, lost>>

\* _write_snapshot_artifact
Write(w) ==
    /\ worker[w].step = "write"
    /\ files' = files \cup {worker[w].content}
    /\ lost' = lost \ {worker[w].content}
    /\ worker' = [worker EXCEPT ![w].step = "publish"]
    /\ UNCHANGED <<page, lease, published>>

\* Defect: the generation is not compared.
IsOwner(w) == lease.state = "claimed" /\ lease.owner = worker[w].run

Holds(w) == lease.state = "claimed" /\ lease.owner = worker[w].run /\ w \in lease.holders

\* publish_snapshot
Publish(w) ==
    /\ worker[w].step = "publish"
    /\ IF Holds(w) /\ worker[w].intime
       THEN /\ lease' = [NoLease EXCEPT !.state = "complete", !.live = TRUE,
                                        !.artifact = worker[w].content]
            /\ published' = worker[w].version
            /\ worker' = [worker EXCEPT ![w].step = "retire"]
       ELSE /\ worker' = [worker EXCEPT ![w] = Idle]
            /\ UNCHANGED <<lease, published>>
    /\ UNCHANGED <<page, files, lost>>

\* Defect: the file that was replaced is removed even when it is the new one.
RetireAnyway(w) ==
    /\ worker[w].step = "retire"
    /\ worker' = [worker EXCEPT ![w].step = "unlink"]
    /\ UNCHANGED <<page, lease, files, published, lost>>

\* _delete_unreferenced_snapshot_artifact: the replaced file is looked up in
\* the row,
Retire(w) ==
    /\ worker[w].step = "retire"
    /\ worker' = IF worker[w].previous \in {NoContent, worker[w].content, lease.artifact}
                 THEN [worker EXCEPT ![w] = Idle]
                 ELSE [worker EXCEPT ![w].step = "unlink"]
    /\ UNCHANGED <<page, lease, files, published, lost>>

\* and removed, whatever the row refers to by then.
Unlink(w) ==
    /\ worker[w].step = "unlink"
    /\ files' = files \ {worker[w].previous}
    /\ lost' = IF worker[w].intime THEN lost ELSE lost \cup (files \cap {worker[w].previous})
    /\ worker' = [worker EXCEPT ![w] = Idle]
    /\ UNCHANGED <<page, lease, published>>

\* fail_snapshot_lease: the fetch or the write raised.
Fail(w) ==
    /\ worker[w].step \in {"fetch", "write"}
    /\ lease' = IF Holds(w) /\ lease.live
                THEN [lease EXCEPT !.state = "failed", !.owner = NoRun, !.holders = {}]
                ELSE lease
    /\ worker' = [worker EXCEPT ![w] = Idle]
    /\ UNCHANGED <<page, files, published, lost>>

Crash(w) ==
    /\ worker[w].step # "idle"
    /\ worker' = [worker EXCEPT ![w] = Idle]
    /\ UNCHANGED <<page, lease, files, published, lost>>

-----------------------------------------------------------------------------

\* A holder is at work.
Working == \E w \in Worker : w \in lease.holders /\ worker[w].step \in {"fetch", "write", "publish"}

\* The lease, the snapshot or the pause runs out, whoever relies on it.
RunsOut ==
    /\ lease.live
    /\ lease' = [lease EXCEPT !.live = FALSE]
    /\ worker' = [w \in Worker |->
                    IF lease.state = "complete" /\ worker[w].step \in {"retire", "unlink"}
                    THEN [worker[w] EXCEPT !.intime = FALSE] ELSE worker[w]]
    /\ UNCHANGED <<page, files, published, lost>>

Expire     == RunsOut /\ ~Working
ExpireLate == RunsOut /\ Working

\* cleanup_expired_shared_snapshots: the file, then the row, when the row has
\* not changed for the retention of at least 7 days, longer than a worker lives.
Cleanup ==
    /\ lease.state = "complete" /\ ~lease.live /\ lease.artifact \in files
    /\ \A w \in Worker : worker[w].step = "idle"
    /\ files' = files \ {lease.artifact}
    /\ lease' \in {lease, NoLease}
    /\ UNCHANGED <<page, worker, published, lost>>

\* The provider changes its page.
Change ==
    /\ page.version < MaxVersion
    /\ page' \in [content : Content, version : {page.version + 1}]
    /\ UNCHANGED <<lease, files, worker, published, lost>>

Work(w) == Fetch(w) \/ Write(w) \/ Publish(w) \/ Retire(w) \/ Unlink(w) \/ Leave(w)

Claim(w) == \E r \in Run : Acquire(w, r, TRUE) \/ Replay(w, r, TRUE) \/ Wait(w, r)

Undisturbed ==
    \/ Expire \/ Cleanup \/ Change
    \/ \E w \in Worker : Claim(w) \/ Work(w)

Disturbed ==
    \/ ExpireLate
    \/ \E w \in Worker :
        \/ Fail(w) \/ Crash(w)
        \/ \E r \in Run : Acquire(w, r, FALSE) \/ Replay(w, r, FALSE)

Next == Undisturbed \/ Disturbed

Spec == Init /\ [][Next]_vars

\* Workers work and ask again, leases run out, and from some time on every
\* step is an undisturbed one: a lease is given by a clock just read, the
\* provider answers within it and no worker dies.
Fairness ==
    /\ \A w \in Worker : WF_vars(Work(w)) /\ WF_vars(\E r \in Run : Acquire(w, r, TRUE))
    /\ WF_vars(Expire)
    /\ <>[][Undisturbed]_vars

FairSpec == Spec /\ Fairness

-----------------------------------------------------------------------------

\* Single flight is fenced: a worker whose lease ran out cannot put an older
\* page over a newer one, even when its own attempt holds the lease again
\* (docs/changes/automate-race-data-lifecycle-sync/design.md, section 8).
NeverOlder == [][published' >= published]_vars

\* The manifest that is shared names a file there is, although files are
\* shared by content and removed by workers that no longer hold the lease.
\* One exception: a file that was removed by a worker whose own snapshot had
\* run out meanwhile, and that nobody has written again since.
PublishedIsReadable ==
    lease.state = "complete" /\ lease.live => lease.artifact \in files \cup lost

\* A dead or failed owner does not stop the snapshot: again and again one is
\* published that can be read.
SnapshotComesBack ==
    []<>(lease.state = "complete" /\ lease.live /\ lease.artifact \in files)
=============================================================================
