----------------------------- MODULE MCQQExposure -----------------------------
(* TLC instances of QQExposure. *)
EXTENDS QQExposure, TLC

CONSTANTS a1, a2, a3, winner, market, other

\* Two articles tell the same story.
TwoAlike == a1 :> winner @@ a2 :> winner @@ a3 :> market
=============================================================================
