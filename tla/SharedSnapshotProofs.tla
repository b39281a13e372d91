------------------------ MODULE SharedSnapshotProofs ------------------------
(***************************************************************************)
(* Proofs about SharedSnapshot, for any number of workers, attempts and    *)
(* contents: types, PublishedIsReadable and NeverOlder, and that what is   *)
(* shared is the provider's page (PublishedIsThePage).                     *)
(***************************************************************************)
EXTENDS SharedSnapshot, TLAPS

\* What a worker has fetched is a page of the provider's.
FetchedOK ==
    \A w \in Worker :
        /\ worker[w].version <= page.version
        /\ worker[w].step \in {"write", "publish"} => worker[w].content \in Content

\* A holder has fetched after the last publication, and its file is there.
HolderOK ==
    /\ published <= page.version
    /\ lease.state # "claimed" => lease.holders = {}
    /\ \A w \in Worker :
        w \in lease.holders =>
            /\ worker[w].step \in {"write", "publish"} => published <= worker[w].version
            /\ worker[w].step = "publish" => worker[w].content \in files \cup lost

\* A worker that removes a file removes another one than its own, and while it
\* is in time its own is the one that is shared.
RetireOK ==
    \A w \in Worker :
        /\ worker[w].step \in {"retire", "unlink"} /\ worker[w].intime
           => lease.state = "complete" /\ lease.live /\ lease.artifact = worker[w].content
        /\ worker[w].step = "unlink" => worker[w].previous # worker[w].content

IInv == TypeOK /\ FetchedOK /\ HolderOK /\ RetireOK /\ PublishedIsReadable

-----------------------------------------------------------------------------

\* Nothing is published, fetched or held at first.
LEMMA InitIInv == Init => IInv
  BY SnapshotAssumption DEF Init, IInv, TypeOK, FetchedOK, HolderOK, RetireOK,
     PublishedIsReadable, NoLease, Lease, Idle, Local

\* A claim makes its worker a holder that has fetched nothing yet, and no
\* file is being removed then.
LEMMA AcquireIInv ==
    ASSUME IInv, NEW w \in Worker, NEW r \in Run, NEW live \in BOOLEAN, Acquire(w, r, live)
    PROVE  IInv'
<1> USE DEF IInv, Acquire, Granted, Idle
<1>1. ~(lease.state = "complete" /\ lease.live)
  BY DEF Held, TypeOK, Lease
<1>2. lease' \in Lease /\ lease'.holders = {w} /\ lease'.state = "claimed"
  <2>1. lease' = [state |-> "claimed", owner |-> r, holders |-> {w}, live |-> live,
                    artifact |-> NoContent,
                    previous |-> IF lease.artifact # NoContent THEN lease.artifact
                                 ELSE lease.previous]
    OBVIOUS
  <2>2. lease.artifact \in Content \cup {NoContent} /\ lease.previous \in Content \cup {NoContent}
    BY DEF TypeOK, Lease
  <2>3. QED
    BY <2>1, <2>2 DEF Lease
<1>3. worker' \in [Worker -> Local]
  BY <1>2 DEF TypeOK, Lease, Local
<1>4. \A x \in Worker : x # w => worker'[x] = worker[x]
  BY DEF TypeOK
<1>5. worker'[w].step = "fetch" /\ worker'[w].version = 0
  BY DEF TypeOK
<1>6. TypeOK'
  BY <1>2, <1>3 DEF TypeOK
<1>7. FetchedOK'
  BY <1>4, <1>5 DEF FetchedOK, TypeOK
<1>8. HolderOK'
  BY <1>2, <1>4, <1>5 DEF HolderOK
<1>9. RetireOK' /\ PublishedIsReadable'
  BY <1>1, <1>2, <1>4, <1>5 DEF RetireOK, PublishedIsReadable
<1>10. QED
  BY <1>6, <1>7, <1>8, <1>9

LEMMA ReplayIInv ==
    ASSUME IInv, NEW w \in Worker, NEW r \in Run, NEW live \in BOOLEAN, Replay(w, r, live)
    PROVE  IInv'
<1> USE DEF IInv, Replay, Granted, Idle
<1>2. lease' \in Lease /\ lease'.holders = lease.holders \cup {w} /\ lease'.state = "claimed"
  BY DEF TypeOK, Lease
<1>3. worker' \in [Worker -> Local]
  BY <1>2 DEF TypeOK, Lease, Local
<1>4. \A x \in Worker : x # w => worker'[x] = worker[x]
  BY DEF TypeOK
<1>5. worker'[w].step = "fetch" /\ worker'[w].version = 0
  BY DEF TypeOK
<1>6. TypeOK'
  BY <1>2, <1>3 DEF TypeOK
<1>7. FetchedOK'
  BY <1>4, <1>5 DEF FetchedOK, TypeOK
<1>8. HolderOK'
  BY <1>2, <1>4, <1>5 DEF HolderOK
<1>9. RetireOK' /\ PublishedIsReadable'
  BY <1>2, <1>4, <1>5 DEF RetireOK, PublishedIsReadable
<1>10. QED
  BY <1>6, <1>7, <1>8, <1>9

\* Steps of one worker that leave the row and the files as they are: the
\* worker waits, forgets what it did, or fetches.
LEMMA LocalIInv ==
    ASSUME IInv, NEW w \in Worker,
           (\E r \in Run : Wait(w, r)) \/ Leave(w) \/ Crash(w) \/ Fetch(w)
    PROVE  IInv'
<1> USE DEF IInv
<1>1. UNCHANGED <<page, lease, files, published, lost>>
  BY DEF Wait, Leave, Crash, Fetch
<1>2. \A x \in Worker : x # w => worker'[x] = worker[x]
  BY DEF Wait, Leave, Crash, Fetch, TypeOK
<1>3. worker' \in [Worker -> Local]
  <2>1. worker \in [Worker -> Local] /\ worker[w] \in Local
    BY DEF TypeOK
  <2>2. ASSUME NEW r \in Run, Wait(w, r)
        PROVE  worker' \in [Worker -> Local]
    <3>1. [worker[w] EXCEPT !.step = "wait", !.run = r] \in Local
      BY <2>1 DEF Local
    <3>2. QED
      BY <2>1, <2>2, <3>1 DEF Wait
  <2>3. CASE Leave(w) \/ Crash(w)
    <3>1. Idle \in Local
      BY DEF Idle, Local
    <3>2. QED
      BY <2>1, <2>3, <3>1 DEF Leave, Crash
  <2>4. CASE Fetch(w)
    <3>1. lease.live \in BOOLEAN /\ page.content \in Content /\ page.version \in Nat
      BY DEF TypeOK, Lease
    <3>2. [worker[w] EXCEPT !.step = "write", !.content = page.content,
                            !.version = page.version, !.intime = lease.live] \in Local
      BY <2>1, <3>1 DEF Local
    <3>3. QED
      BY <2>1, <2>4, <3>2 DEF Fetch
  <2>5. QED
    BY <2>2, <2>3, <2>4
<1>4. \/ worker'[w].step \in {"idle", "wait"} /\ worker'[w].version \in {0, worker[w].version}
      \/ /\ worker'[w].step = "write" /\ worker'[w].content = page.content
         /\ worker'[w].version = page.version
  BY DEF Wait, Leave, Crash, Fetch, TypeOK, Idle, Local
<1>5. TypeOK'
  BY <1>1, <1>3 DEF TypeOK
<1>6. FetchedOK'
  BY <1>1, <1>2, <1>4 DEF FetchedOK, TypeOK
<1>7. HolderOK'
  BY <1>1, <1>2, <1>4 DEF HolderOK
<1>8. RetireOK' /\ PublishedIsReadable'
  BY <1>1, <1>2, <1>4 DEF RetireOK, PublishedIsReadable
<1>9. QED
  BY <1>5, <1>6, <1>7, <1>8

LEMMA WriteIInv ==
    ASSUME IInv, NEW w \in Worker, Write(w)
    PROVE  IInv'
<1> USE DEF IInv, Write
<1>1. /\ files' = files \cup {worker[w].content} /\ worker[w].content \in Content
      /\ lost' = lost \ {worker[w].content}
  BY DEF FetchedOK
<1>2. \A x \in Worker : x # w => worker'[x] = worker[x]
  BY DEF TypeOK
<1>3. /\ worker' \in [Worker -> Local]
      /\ worker'[w].step = "publish" /\ worker'[w].version = worker[w].version
      /\ worker'[w].content = worker[w].content
  BY DEF TypeOK, Local
<1>4. TypeOK'
  BY <1>1, <1>3 DEF TypeOK
<1>5. FetchedOK'
  BY <1>1, <1>2, <1>3 DEF FetchedOK
<1>6. HolderOK'
  BY <1>1, <1>2, <1>3 DEF HolderOK
<1>7. RetireOK' /\ PublishedIsReadable'
  BY <1>1, <1>2, <1>3 DEF RetireOK, PublishedIsReadable
<1>8. QED
  BY <1>4, <1>5, <1>6, <1>7

\* Only a holder publishes: its file is there and its page is not older.
LEMMA PublishIInv ==
    ASSUME IInv, NEW w \in Worker, Publish(w)
    PROVE  IInv' /\ published' >= published
<1> USE DEF IInv
<1>1. \A x \in Worker : x # w => worker'[x] = worker[x]
  BY DEF Publish, TypeOK
<1>2. CASE Holds(w) /\ worker[w].intime
  <2>1. /\ lease' = [NoLease EXCEPT !.state = "complete", !.live = TRUE,
                                    !.artifact = worker[w].content]
        /\ published' = worker[w].version
        /\ worker' = [worker EXCEPT ![w].step = "retire"]
        /\ page' = page /\ files' = files /\ lost' = lost
    BY <1>2 DEF Publish
  <2>2. /\ worker[w].content \in files \cup lost /\ published <= worker[w].version
        /\ worker[w].content \in Content /\ lease.state = "claimed"
    BY <1>2 DEF Publish, Holds, HolderOK, FetchedOK
  <2>3. /\ lease' \in Lease /\ lease'.state = "complete" /\ lease'.live
        /\ lease'.holders = {} /\ lease'.artifact = worker[w].content
    BY <2>1, <2>2 DEF NoLease, Lease
  <2>4. /\ worker' \in [Worker -> Local] /\ worker'[w].step = "retire"
        /\ worker'[w].version = worker[w].version /\ worker'[w].content = worker[w].content
    BY <2>1 DEF TypeOK, Local
  <2>5. TypeOK'
    BY <2>1, <2>3, <2>4 DEF TypeOK, Local
  <2>6. FetchedOK'
    BY <1>1, <2>1, <2>4 DEF FetchedOK
  <2>7. HolderOK'
    BY <2>1, <2>3 DEF HolderOK, FetchedOK
  <2>8. RetireOK' /\ PublishedIsReadable'
    BY <1>1, <2>1, <2>2, <2>3, <2>4 DEF RetireOK, PublishedIsReadable
  <2>9. published' >= published
    BY <2>1, <2>2 DEF TypeOK, Local
  <2>10. QED
    BY <2>5, <2>6, <2>7, <2>8, <2>9
<1>3. CASE ~(Holds(w) /\ worker[w].intime)
  <2>1. /\ UNCHANGED <<page, lease, files, published, lost>>
        /\ worker' = [worker EXCEPT ![w] = Idle]
    BY <1>3 DEF Publish
  <2>2. worker' \in [Worker -> Local] /\ worker'[w].step = "idle" /\ worker'[w].version = 0
    BY <2>1 DEF TypeOK, Idle, Local
  <2>3. TypeOK' /\ FetchedOK'
    BY <1>1, <2>1, <2>2 DEF TypeOK, FetchedOK
  <2>4. HolderOK' /\ RetireOK' /\ PublishedIsReadable'
    BY <1>1, <2>1, <2>2 DEF HolderOK, RetireOK, PublishedIsReadable
  <2>5. QED
    BY <2>1, <2>3, <2>4 DEF TypeOK
<1>4. QED
  BY <1>2, <1>3

\* The replaced file is left alone, or its worker goes on to remove it.
LEMMA RetireIInv ==
    ASSUME IInv, NEW w \in Worker, Retire(w)
    PROVE  IInv'
<1> USE DEF IInv, Retire
<1>1. UNCHANGED <<page, lease, files, published, lost>>
  OBVIOUS
<1>2. \A x \in Worker : x # w => worker'[x] = worker[x]
  BY DEF TypeOK
<1>3. CASE worker[w].previous \in {NoContent, worker[w].content, lease.artifact}
  <2>1. worker' \in [Worker -> Local] /\ worker'[w].step = "idle" /\ worker'[w].version = 0
    BY <1>3 DEF TypeOK, Idle, Local
  <2>2. QED
    BY <1>1, <1>2, <2>1 DEF TypeOK, FetchedOK, HolderOK, RetireOK, PublishedIsReadable
<1>4. CASE worker[w].previous \notin {NoContent, worker[w].content, lease.artifact}
  <2>1. /\ worker' = [worker EXCEPT ![w].step = "unlink"]
        /\ worker[w].previous # worker[w].content
    BY <1>4
  <2>2. /\ worker' \in [Worker -> Local] /\ worker'[w].step = "unlink"
        /\ worker'[w].version = worker[w].version /\ worker'[w].content = worker[w].content
        /\ worker'[w].previous = worker[w].previous /\ (worker'[w].intime <=> worker[w].intime)
    BY <2>1 DEF TypeOK, Local
  <2>3. TypeOK' /\ FetchedOK'
    BY <1>1, <1>2, <2>2 DEF TypeOK, FetchedOK
  <2>4. HolderOK' /\ PublishedIsReadable'
    BY <1>1, <1>2, <2>2 DEF HolderOK, PublishedIsReadable
  <2>5. RetireOK'
    BY <1>1, <1>2, <2>1, <2>2 DEF RetireOK
  <2>6. QED
    BY <2>3, <2>4, <2>5
<1>5. QED
  BY <1>3, <1>4

\* In time, there is no holder and the shared file is another one; too late,
\* what is removed is lost.
LEMMA UnlinkIInv ==
    ASSUME IInv, NEW w \in Worker, Unlink(w)
    PROVE  IInv'
<1> USE DEF IInv, Unlink
<1>1. files' = files \ {worker[w].previous} /\ UNCHANGED <<page, lease, published>>
  OBVIOUS
<1>2. \A x \in Worker : x # w => worker'[x] = worker[x]
  BY DEF TypeOK
<1>3. worker' \in [Worker -> Local] /\ worker'[w].step = "idle" /\ worker'[w].version = 0
  BY DEF TypeOK, Idle, Local
<1>4. lost' \subseteq Content
  BY DEF TypeOK
<1>5. TypeOK' /\ FetchedOK' /\ RetireOK'
  BY <1>1, <1>2, <1>3, <1>4 DEF TypeOK, FetchedOK, RetireOK
<1>6. HolderOK' /\ PublishedIsReadable'
  <2>1. CASE worker[w].intime
    <3>1. /\ lease.state = "complete" /\ lease.holders = {} /\ lost' = lost
          /\ lease.artifact # worker[w].previous
      BY <2>1 DEF RetireOK, HolderOK
    <3>2. QED
      BY <1>1, <1>2, <1>3, <3>1 DEF HolderOK, PublishedIsReadable
  <2>2. CASE ~worker[w].intime
    <3>1. files' \cup lost' = files \cup lost
      BY <1>1, <2>2
    <3>2. HolderOK'
      BY <1>1, <1>2, <1>3, <3>1 DEF HolderOK
    <3>3. PublishedIsReadable'
      BY <1>1, <3>1 DEF PublishedIsReadable
    <3>4. QED
      BY <3>2, <3>3
  <2>3. QED
    BY <2>1, <2>2
<1>7. QED
  BY <1>5, <1>6

LEMMA FailIInv ==
    ASSUME IInv, NEW w \in Worker, Fail(w)
    PROVE  IInv'
<1> USE DEF IInv, Fail
<1>1. \A x \in Worker : x # w => worker'[x] = worker[x]
  BY DEF TypeOK
<1>2. worker' \in [Worker -> Local] /\ worker'[w].step = "idle" /\ worker'[w].version = 0
  BY DEF TypeOK, Idle, Local
<1>3. \/ lease' = lease
      \/ /\ lease.state = "claimed"
         /\ lease' = [lease EXCEPT !.state = "failed", !.owner = NoRun, !.holders = {}]
  BY DEF Holds
<1>4. TypeOK'
  BY <1>2, <1>3 DEF TypeOK, Lease
<1>5. FetchedOK'
  BY <1>1, <1>2 DEF FetchedOK, TypeOK
<1>6. HolderOK'
  BY <1>1, <1>2, <1>3 DEF HolderOK, TypeOK, Lease
<1>7. RetireOK' /\ PublishedIsReadable'
  BY <1>1, <1>2, <1>3 DEF RetireOK, PublishedIsReadable, TypeOK, Lease
<1>8. QED
  BY <1>4, <1>5, <1>6, <1>7

\* Time, the retention and the provider.
LEMMA OutsideIInv ==
    ASSUME IInv, RunsOut \/ Cleanup \/ Change
    PROVE  IInv'
<1> USE DEF IInv
<1>1. CASE RunsOut
  <2>1. /\ lease' = [lease EXCEPT !.live = FALSE] /\ lease \in Lease
        /\ UNCHANGED <<page, files, published, lost>>
    BY <1>1 DEF RunsOut, TypeOK
  <2>2. /\ lease' \in Lease /\ ~lease'.live /\ lease'.state = lease.state
        /\ lease'.holders = lease.holders
    BY <2>1 DEF Lease
  <2>3. \A w \in Worker :
          /\ worker'[w] \in Local /\ worker'[w].step = worker[w].step
          /\ worker'[w].version = worker[w].version /\ worker'[w].content = worker[w].content
          /\ worker'[w].previous = worker[w].previous
          /\ worker'[w].step \in {"retire", "unlink"} /\ worker'[w].intime
             => worker[w].intime /\ lease.state # "complete"
    BY <1>1 DEF RunsOut, TypeOK, Local
  <2>4. worker' \in [Worker -> Local]
    BY <1>1, <2>3 DEF RunsOut
  <2>5. TypeOK' /\ FetchedOK'
    BY <2>1, <2>2, <2>3, <2>4 DEF TypeOK, FetchedOK
  <2>6. HolderOK' /\ PublishedIsReadable'
    BY <2>1, <2>2, <2>3 DEF HolderOK, PublishedIsReadable
  <2>7. RetireOK'
    BY <2>3 DEF RetireOK
  <2>8. QED
    BY <2>5, <2>6, <2>7
<1>2. CASE Cleanup
  <2>1. /\ lease' \in Lease /\ lease'.holders = {}
        /\ ~lease'.live /\ files' \subseteq files
    <3>1. NoLease \in Lease /\ NoLease.holders = {} /\ ~NoLease.live
      BY DEF NoLease, Lease
    <3>2. lease \in Lease /\ lease.holders = {} /\ ~lease.live
      BY <1>2 DEF Cleanup, TypeOK, HolderOK
    <3>3. QED
      BY <1>2, <3>1, <3>2 DEF Cleanup
  <2>2. TypeOK' /\ FetchedOK' /\ RetireOK'
    BY <1>2, <2>1 DEF Cleanup, TypeOK, FetchedOK, RetireOK
  <2>3. HolderOK' /\ PublishedIsReadable'
    BY <1>2, <2>1 DEF Cleanup, HolderOK, PublishedIsReadable
  <2>4. QED
    BY <2>2, <2>3
<1>3. CASE Change
  BY <1>3 DEF Change, TypeOK, Local, FetchedOK, HolderOK, RetireOK, PublishedIsReadable
<1>4. QED
  BY <1>1, <1>2, <1>3

-----------------------------------------------------------------------------

\* Every step keeps the invariant and publishes nothing older.
LEMMA NextIInv ==
    ASSUME IInv, [Next]_vars
    PROVE  IInv' /\ published' >= published
<1> USE DEF IInv
<1>1. ASSUME NEW w \in Worker, Claim(w)
      PROVE  IInv' /\ published' = published
  BY <1>1, AcquireIInv, ReplayIInv, LocalIInv DEF Claim, Acquire, Replay, Wait
<1>2. ASSUME NEW w \in Worker, Work(w)
      PROVE  IInv' /\ published' >= published
  <2>0. published >= published
    BY DEF TypeOK
  <2>1. CASE Fetch(w) \/ Leave(w)
    BY <2>0, <2>1, LocalIInv DEF Fetch, Leave
  <2>2. CASE Write(w)
    BY <2>0, <2>2, WriteIInv DEF Write
  <2>3. CASE Publish(w)
    BY <2>3, PublishIInv
  <2>4. CASE Retire(w) \/ Unlink(w)
    BY <2>0, <2>4, RetireIInv, UnlinkIInv DEF Retire, Unlink
  <2>5. QED
    BY <1>2, <2>1, <2>2, <2>3, <2>4 DEF Work
<1>3. ASSUME NEW w \in Worker,
             Fail(w) \/ Crash(w) \/ \E r \in Run : Acquire(w, r, FALSE) \/ Replay(w, r, FALSE)
      PROVE  IInv' /\ published' = published
  BY <1>3, FailIInv, LocalIInv, AcquireIInv, ReplayIInv DEF Fail, Crash, Acquire, Replay
<1>4. ASSUME Expire \/ ExpireLate \/ Cleanup \/ Change
      PROVE  IInv' /\ published' = published
  BY <1>4, OutsideIInv DEF Expire, ExpireLate, RunsOut, Cleanup, Change
<1>5. CASE UNCHANGED vars
  BY <1>5 DEF vars, TypeOK, FetchedOK, HolderOK, RetireOK, PublishedIsReadable
<1>6. ASSUME Next
      PROVE  IInv' /\ published' >= published
  <2>1. ASSUME published' = published
        PROVE  published' >= published
    BY <2>1 DEF TypeOK
  <2>2. CASE Undisturbed
    BY <1>1, <1>2, <1>4, <2>1, <2>2 DEF Undisturbed
  <2>3. CASE Disturbed
    BY <1>3, <1>4, <2>1, <2>3 DEF Disturbed
  <2>4. QED
    BY <1>6, <2>2, <2>3 DEF Next
<1>7. QED
  BY <1>5, <1>6 DEF TypeOK, vars

\* The invariant of SharedSnapshot: it adds to the properties what ties the
\* holders of the lease to the files and to the last publication.
THEOREM Invariant == Spec => []IInv
<1>1. Init => IInv
  BY InitIInv
<1>2. IInv /\ [Next]_vars => IInv'
  BY NextIInv
<1>3. QED
  BY <1>1, <1>2, PTL DEF Spec

\* Types, for every set of workers, attempts and contents.
THEOREM TypeCorrect == Spec => []TypeOK
<1>1. IInv => TypeOK
  BY DEF IInv
<1>2. QED
  BY <1>1, Invariant, PTL

\* The snapshot that is shared can be read, unless a worker whose own snapshot
\* had run out removed its file: however many workers hold, repeat, lose and
\* take over the lease, at whatever moment it runs out.
THEOREM Readable == Spec => []PublishedIsReadable
<1>1. IInv => PublishedIsReadable
  BY DEF IInv
<1>2. QED
  BY <1>1, Invariant, PTL

\* A late worker cannot publish an older page.
THEOREM Fenced == Spec => NeverOlder
<1>1. IInv /\ [Next]_vars => [published' >= published]_vars
  BY NextIInv
<1>2. QED
  BY <1>1, Invariant, PTL DEF Spec, NeverOlder

-----------------------------------------------------------------------------
(* What is shared is the page.                                             *)

\* A worker that has fetched this version of the page has its content.
FetchedIsThePage ==
    \A w \in Worker :
        worker[w].step \in {"write", "publish"} /\ worker[w].version = page.version
        => worker[w].content = page.content

\* The snapshot that was published from this version of the page is the page.
PublishedIsThePage ==
    lease.state = "complete" /\ published = page.version => lease.artifact = page.content

PageInv == FetchedIsThePage /\ PublishedIsThePage

\* The content travels with its version through fetch, write and publication;
\* a change of the page leaves both behind.
LEMMA NextPage ==
    ASSUME IInv, PageInv, [Next]_vars
    PROVE  PageInv'
<1> USE DEF PageInv, FetchedIsThePage, PublishedIsThePage
<1>0. worker \in [Worker -> Local] /\ page \in [content : Content, version : Nat]
  BY DEF IInv, TypeOK
<1>1. ASSUME NEW w \in Worker, NEW r \in Run, NEW live \in BOOLEAN,
             Acquire(w, r, live) \/ Replay(w, r, live) \/ Wait(w, r)
      PROVE  PageInv'
  <2>1. page' = page /\ published' = published /\ worker'[w].step \in {"fetch", "wait"}
    <3>1. CASE Wait(w, r)
      BY <1>0, <3>1 DEF Wait, Local
    <3>2. CASE Acquire(w, r, live) \/ Replay(w, r, live)
      <4>1. [Idle EXCEPT !.step = "fetch", !.run = r, !.previous = lease'.previous].step = "fetch"
        BY DEF Idle
      <4>2. QED
        BY <1>0, <3>2, <4>1 DEF Acquire, Replay, Granted
    <3>3. QED
      BY <1>1, <3>1, <3>2
  <2>2. \A x \in Worker : x # w => worker'[x] = worker[x]
    BY <1>0, <1>1 DEF Acquire, Replay, Wait, Granted
  <2>3. lease'.state = "claimed" \/ lease' = lease
    <3>1. lease \in Lease
      BY DEF IInv, TypeOK
    <3>2. CASE Replay(w, r, live)
      BY <3>1, <3>2 DEF Replay, Lease
    <3>3. CASE Acquire(w, r, live)
      BY <3>3 DEF Acquire
    <3>4. QED
      BY <1>1, <3>2, <3>3 DEF Wait
  <2>4. QED
    BY <2>1, <2>2, <2>3
<1>2. ASSUME NEW w \in Worker, Fetch(w)
      PROVE  PageInv'
  BY <1>0, <1>2 DEF Fetch, Local
<1>3. ASSUME NEW w \in Worker, Write(w)
      PROVE  PageInv'
  BY <1>0, <1>3 DEF Write, Local
<1>4. ASSUME NEW w \in Worker, Publish(w)
      PROVE  PageInv'
  <2>1. \A x \in Worker : x # w => worker'[x] = worker[x]
    BY <1>0, <1>4 DEF Publish
  <2>2. worker'[w].step \in {"idle", "retire"} /\ page' = page
    BY <1>0, <1>4 DEF Publish, Idle, Local
  <2>3. \/ UNCHANGED <<lease, published>>
        \/ /\ worker[w].step = "publish" /\ published' = worker[w].version
           /\ lease'.artifact = worker[w].content
    BY <1>4 DEF Publish, NoLease
  <2>4. QED
    BY <2>1, <2>2, <2>3
<1>5. ASSUME NEW w \in Worker, Retire(w) \/ Unlink(w) \/ Leave(w) \/ Crash(w) \/ Fail(w)
      PROVE  PageInv'
  <2>1. \A x \in Worker : x # w => worker'[x] = worker[x]
    BY <1>0, <1>5 DEF Retire, Unlink, Leave, Crash, Fail
  <2>2. worker'[w].step \in {"idle", "unlink"} /\ page' = page /\ published' = published
    BY <1>0, <1>5 DEF Retire, Unlink, Leave, Crash, Fail, Idle, Local
  <2>3. lease' = lease \/ lease'.state = "failed"
    BY <1>5 DEF Retire, Unlink, Leave, Crash, Fail, IInv, TypeOK, Lease
  <2>4. QED
    BY <2>1, <2>2, <2>3
<1>6. CASE RunsOut
  BY <1>0, <1>6 DEF RunsOut, IInv, TypeOK, Lease, Local
<1>7. CASE Cleanup
  BY <1>7 DEF Cleanup, NoLease
<1>8. CASE Change
  <2>1. page'.version = page.version + 1 /\ UNCHANGED <<lease, worker, published>>
    BY <1>8 DEF Change
  <2>2. published <= page.version /\ published \in Nat
        /\ \A w \in Worker : worker[w].version <= page.version /\ worker[w].version \in Nat
    BY <1>0 DEF IInv, HolderOK, FetchedOK, TypeOK, Local
  <2>3. QED
    BY <1>0, <2>1, <2>2
<1>9. CASE UNCHANGED vars
  BY <1>9 DEF vars
<1>10. QED
  BY <1>1, <1>2, <1>3, <1>4, <1>5, <1>6, <1>7, <1>8, <1>9
  DEF Next, Undisturbed, Disturbed, Claim, Work, Expire, ExpireLate

\* Whoever shares the snapshot of the page's current version shares its
\* content, however the leases were lost, repeated or taken over meanwhile.
THEOREM SharedIsThePage == Spec => []PublishedIsThePage
<1>1. Init => PageInv
  BY DEF Init, PageInv, FetchedIsThePage, PublishedIsThePage, Idle, NoLease
<1>2. IInv /\ PageInv /\ [Next]_vars => PageInv'
  BY NextPage
<1>3. PageInv => PublishedIsThePage
  BY DEF PageInv
<1>4. QED
  BY <1>1, <1>2, <1>3, Invariant, PTL DEF Spec
=============================================================================
