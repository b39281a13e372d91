-------------------------- MODULE MCHomepageExposure --------------------------
(* TLC instances of HomepageExposure. *)
EXTENDS HomepageExposure, TLC

CONSTANTS a1, a2, a3, winner, market, other

\* a2 and a3 compete for the second slot of a1, and a1 for theirs.
Angles == a1 :> winner @@ a2 :> market @@ a3 :> market

Scores == a1 :> 2 @@ a2 :> 1 @@ a3 :> 3
=============================================================================
