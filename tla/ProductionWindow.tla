--------------------------- MODULE ProductionWindow ---------------------------
(***************************************************************************)
(* The production windows of one scope: a source to crawl or a region to   *)
(* publish (stable/services/production_windows.py and the window tasks of  *)
(* stable/tasks.py).  This module holds the table of ProductionWindow rows *)
(* and the decisions taken on it; CrawlWindow and PublishWindow are the    *)
(* tasks that work on it.                                                  *)
(*                                                                         *)
(* Time advances by one window.  A row is found by its age: window p began *)
(* p windows ago, window 0 is the current one, and Gone stands for every   *)
(* window older than the lookback.  A lease is counted from the start of   *)
(* its window, so it does not change as time goes by.                      *)
(***************************************************************************)
EXTENDS Integers, FiniteSets

CONSTANTS
    Lookback,  \* MULTIREGION_PRODUCTION_WINDOW_LOOKBACK_HOURS, in windows
    Lease      \* MULTIREGION_PRODUCTION_WINDOW_LEASE_MINUTES, in windows

ASSUME WindowAssumption ==
    /\ Lookback \in Nat \ {0} /\ Lease \in Nat \ {0}
    /\ Lease <= Lookback + 1

VARIABLE window  \* the rows, by age

Age  == 0..Lookback
Gone == Lookback + 1

\* "none": there is no row; "open": the row is pending, failed, skipped or
\* partial, which no decision below tells apart.  lease 0: none was given.
Status == {"none", "open", "running", "succeeded"}
Row    == [status : Status, lease : 0..(Lookback + Lease)]
NoRow  == [status |-> "none", lease |-> 0]

-----------------------------------------------------------------------------
(* A task decides by the clock it read when it began: to it, a window has  *)
(* the age p that the window had then.                                     *)

\* The lease of the row has not expired.
Live(r, p) == r.status = "running" /\ r.lease > p

\* claim_window
Claimable(r, p) == r.status # "succeeded" /\ ~Live(r, p)

Claimed(p) == [status |-> "running", lease |-> p + Lease]

\* The row is written with a status that does not run; its lease counts for
\* nothing then.
Written(s) == [status |-> s, lease |-> 0]

\* _can_coalesce_old_window: crawls leave no window partial.
Coalescible(r, p) == r.status = "open" \/ (r.status = "running" /\ ~Live(r, p))

\* _window_starts_to_run: the current window, those missed since the last
\* success, and the unfinished ones.  before: a window older than the
\* lookback has succeeded.
Starts(before) ==
    LET older     == Age \ {0}
        succeeded == {p \in older : window[p].status = "succeeded"}
        missed    == {p \in older : /\ before \/ succeeded # {}
                                    /\ \A s \in succeeded : p < s}
    IN  {0} \cup missed \cup {p \in older : window[p].status \notin {"none", "succeeded"}}

\* Time passes: a new window begins.
Aged(t) == [p \in Age |-> IF p = 0 THEN NoRow ELSE t[p - 1]]

Later(p) == IF p < Gone THEN p + 1 ELSE p
=============================================================================
