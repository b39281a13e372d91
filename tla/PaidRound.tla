----------------------------- MODULE PaidRound -----------------------------
(***************************************************************************)
(* What a managed translation run promises, whatever messages, crashes and *)
(* takeovers do to it: a round is opened once, its claim is consumed once, *)
(* the provider is paid for at most once, the first stored answer is the   *)
(* only one that can be applied, and a round that was closed stays closed. *)
(***************************************************************************)
EXTENDS Naturals

CONSTANTS Run, Text, NoText

VARIABLES
    round,   \* how far each round has got
    paid,    \* provider calls made for it
    answer   \* the stored answer

vars == <<round, paid, answer>>

Init ==
    /\ round = [r \in Run |-> "none"]
    /\ paid = [r \in Run |-> 0]
    /\ answer = [r \in Run |-> NoText]

Move(r, from, to) ==
    /\ round[r] \in from
    /\ round' = [round EXCEPT ![r] = to]

Open(r) == Move(r, {"none"}, "open") /\ UNCHANGED <<paid, answer>>

Consume(r) == Move(r, {"open"}, "working") /\ UNCHANGED <<paid, answer>>

\* The request may leave after its round was closed: the worker was slow.
Pay(r) ==
    /\ round[r] \in {"working", "closed"} /\ paid[r] = 0
    /\ paid' = [paid EXCEPT ![r] = 1]
    /\ UNCHANGED <<round, answer>>

Store(r, x) ==
    /\ Move(r, {"working"}, "answered") /\ paid[r] = 1
    /\ answer' = [answer EXCEPT ![r] = x]
    /\ UNCHANGED paid

Apply(r) == Move(r, {"answered"}, "applied") /\ UNCHANGED <<paid, answer>>

Shut(r) == Move(r, {"open", "working", "answered"}, "closed") /\ UNCHANGED <<paid, answer>>

Next ==
    \E r \in Run :
        \/ Open(r) \/ Consume(r) \/ Pay(r) \/ Apply(r) \/ Shut(r)
        \/ \E x \in Text : Store(r, x)

Spec == Init /\ [][Next]_vars
=============================================================================
