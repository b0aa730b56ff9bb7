------------------------------ MODULE MCMboxd ------------------------------
(* A small instance of Mboxd for TLC. *)
EXTENDS Mboxd, TLC

CONSTANTS b1, b2, m1, m2

\* One file announces two mails, the other none.
TwoAndOne == (b1 :> <<m1, m2>>) @@ (b2 :> <<>>)
=============================================================================
