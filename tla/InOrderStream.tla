------------------------------ MODULE InOrderStream ------------------------------
(***************************************************************************)
(* What the E2E protection promises: payloads are numbered as they are sent, *)
(* and come out undamaged, in order, each at most once.  A payload is        *)
(* missing only together with whole turns of the sequence counter.           *)
(***************************************************************************)
EXTENDS Integers, Sequences

CONSTANT Turn   \* the values of the counter

VARIABLES
  sent,   \* how many payloads have been sent; payload n is the n-th
  got     \* the payloads that have come out

vars == <<sent, got>>

Init == sent = 0 /\ got = <<>>

Send == sent' = sent + 1 /\ UNCHANGED got

\* The next payload, or the one that many turns later.
Follows(n) == got # <<>> => n > got[Len(got)] /\ (n - got[Len(got)]) % Turn = 1

Deliver(n) ==
  /\ n \in 1..sent /\ Follows(n)
  /\ got' = Append(got, n)
  /\ UNCHANGED sent

Next == Send \/ \E n \in 1..sent : Deliver(n)

Spec == Init /\ [][Next]_vars
===================================================================================
