------------------------------ MODULE SequenceLemmas ------------------------------
(***************************************************************************)
(* What Append, Tail, Reverse and \o do to the elements and to the ends of a   *)
(* sequence: the facts the proofs about channels share.                      *)
(***************************************************************************)
EXTENDS Integers, Sequences, SequencesExt, TLAPS

\* Append adds one element.
LEMMA Appended ==
  ASSUME NEW S, NEW q \in Seq(S), NEW e \in S
  PROVE  ToSet(Append(q, e)) = ToSet(q) \cup {e}
<1>1. /\ DOMAIN Append(q, e) = 1..(Len(q) + 1) /\ DOMAIN q = 1..Len(q) /\ Len(q) \in Nat
      /\ \A i \in 1..Len(q) : Append(q, e)[i] = q[i]
      /\ Append(q, e)[Len(q) + 1] = e
  OBVIOUS
<1> DEFINE b == Append(q, e)
<1>2. \A i \in DOMAIN b : i \in DOMAIN q \/ i = Len(q) + 1
  BY <1>1
<1>3. \A i \in DOMAIN q : i \in DOMAIN b
  BY <1>1
<1>4. Len(q) + 1 \in DOMAIN b
  BY <1>1
<1> HIDE DEF b
<1>5. /\ \A i \in DOMAIN q : b[i] = q[i]
      /\ b[Len(q) + 1] = e
  BY <1>1 DEF b
<1> QED
  BY <1>2, <1>3, <1>4, <1>5 DEF ToSet, b

\* q is the end of a.
Ends(q, a) == Len(q) <= Len(a) /\ \A i \in 1..Len(q) : q[i] = a[(Len(a) - Len(q)) + i]

LEMMA EndIsSuffix ==
  ASSUME NEW S, NEW q \in Seq(S), NEW a \in Seq(S), Ends(q, a)
  PROVE  IsSuffix(q, a)
<1> DEFINE rq == Reverse(q)
           ra == Reverse(a)
<1>1. Len(q) \in Nat /\ Len(a) \in Nat /\ Len(q) <= Len(a)
  BY DEF Ends
<1>2. /\ rq \in Seq(S) /\ Len(rq) = Len(q) /\ \A i \in 1..Len(q) : rq[i] = q[(Len(q) - i) + 1]
  BY DEF Reverse
<1>3. /\ ra \in Seq(S) /\ Len(ra) = Len(a) /\ \A i \in 1..Len(a) : ra[i] = a[(Len(a) - i) + 1]
  BY DEF Reverse
<1>4. ASSUME NEW i \in 1..Len(q) PROVE rq[i] = ra[i]
  <2>1. /\ (Len(q) - i) + 1 \in 1..Len(q) /\ i \in 1..Len(a)
        /\ (Len(a) - Len(q)) + ((Len(q) - i) + 1) = (Len(a) - i) + 1
    BY <1>1
  <2>2. q[(Len(q) - i) + 1] = a[(Len(a) - Len(q)) + ((Len(q) - i) + 1)]
    BY <2>1 DEF Ends
  <2> QED
    BY <1>2, <1>3, <2>1, <2>2
<1> HIDE DEF rq, ra
<1>5. SubSeq(rq, 1, Len(rq)) = SubSeq(ra, 1, Len(rq))
  <2>1. \A i \in 1..Len(q) : SubSeq(rq, 1, Len(q))[i] = SubSeq(ra, 1, Len(q))[i]
    BY <1>1, <1>2, <1>3, <1>4
  <2>2. /\ SubSeq(rq, 1, Len(q)) \in Seq(S) /\ SubSeq(ra, 1, Len(q)) \in Seq(S)
        /\ Len(SubSeq(rq, 1, Len(q))) = Len(q) /\ Len(SubSeq(ra, 1, Len(q))) = Len(q)
    BY <1>1, <1>2, <1>3
  <2> QED
    BY <1>2, <2>1, <2>2
<1> QED
  BY <1>1, <1>2, <1>3, <1>5 DEF IsSuffix, IsPrefix, rq, ra

\* A channel takes a frame at its end and gives one up at its head.
LEMMA EndsKept ==
  ASSUME NEW S, NEW q \in Seq(S), NEW a \in Seq(S), Ends(q, a)
  PROVE  /\ q # << >> => Ends(Tail(q), a)
         /\ \A e \in S : Ends(Append(q, e), Append(a, e))
<1>1. Len(q) \in Nat /\ Len(a) \in Nat /\ Len(q) <= Len(a)
  BY DEF Ends
<1>2. ASSUME q # << >> PROVE Ends(Tail(q), a)
  <2>1. Len(q) > 0
    BY <1>2
  <2> DEFINE r == Tail(q)
  <2>2. Len(r) = Len(q) - 1 /\ \A i \in 1..Len(r) : r[i] = q[i + 1]
    BY <1>1, <2>1
  <2> HIDE DEF r
  <2>3. \A i \in 1..Len(r) : /\ i + 1 \in 1..Len(q)
                            /\ (Len(a) - Len(q)) + (i + 1) = (Len(a) - Len(r)) + i
    BY <1>1, <2>2
  <2>4. \A i \in 1..Len(q) : q[i] = a[(Len(a) - Len(q)) + i]
    BY DEF Ends
  <2>5. \A i \in 1..Len(r) : r[i] = a[(Len(a) - Len(r)) + i]
    BY <2>2, <2>3, <2>4
  <2>6. Len(r) <= Len(a)
    BY <1>1, <2>2
  <2> QED
    BY <2>5, <2>6 DEF Ends, r
<1>3. ASSUME NEW e \in S PROVE Ends(Append(q, e), Append(a, e))
  <2>1. /\ Len(Append(q, e)) = Len(q) + 1 /\ Len(Append(a, e)) = Len(a) + 1
        /\ \A i \in 1..Len(q) : Append(q, e)[i] = q[i]
        /\ \A i \in 1..Len(a) : Append(a, e)[i] = a[i]
        /\ Append(q, e)[Len(q) + 1] = e /\ Append(a, e)[Len(a) + 1] = e
    OBVIOUS
  <2>2. ASSUME NEW i \in 1..(Len(q) + 1)
        PROVE  Append(q, e)[i] = Append(a, e)[((Len(a) + 1) - (Len(q) + 1)) + i]
    <3>1. CASE i = Len(q) + 1
      BY <1>1, <2>1, <3>1
    <3>2. CASE i \in 1..Len(q)
      <4>1. (Len(a) - Len(q)) + i \in 1..Len(a) /\ ((Len(a) + 1) - (Len(q) + 1)) + i = (Len(a) - Len(q)) + i
        BY <1>1, <3>2
      <4> QED
        BY <2>1, <3>2, <4>1 DEF Ends
    <3> QED
      BY <1>1, <3>1, <3>2
  <2> QED
    BY SMTT(30), <1>1, <2>1, <2>2 DEF Ends
<1> QED
  BY <1>2, <1>3

\* The first part of a sequence is a prefix of it.
LEMMA PrefixOfConcat ==
  ASSUME NEW S, NEW a \in Seq(S), NEW b \in Seq(S)
  PROVE  IsPrefix(a, a \o b)
<1> DEFINE c == a \o b
<1>1. /\ c \in Seq(S) /\ Len(a) \in Nat /\ Len(b) \in Nat /\ Len(c) = Len(a) + Len(b)
      /\ \A i \in 1..Len(a) : c[i] = a[i]
  OBVIOUS
<1> HIDE DEF c
<1>2. SubSeq(a, 1, Len(a)) = a
  OBVIOUS
<1>3. SubSeq(c, 1, Len(a)) = a
  <2>1. /\ SubSeq(c, 1, Len(a)) \in Seq(S) /\ Len(SubSeq(c, 1, Len(a))) = Len(a)
        /\ \A i \in 1..Len(a) : SubSeq(c, 1, Len(a))[i] = a[i]
    BY <1>1
  <2> QED
    BY <2>1
<1> QED
  BY <1>1, <1>2, <1>3 DEF IsPrefix, c

\* A sequence grows at its end, also when it is the second part of another.
LEMMA AppendAfter ==
  ASSUME NEW S, NEW a \in Seq(S), NEW b \in Seq(S), NEW e \in S
  PROVE  a \o Append(b, e) = Append(a \o b, e)
<1> DEFINE l == a \o Append(b, e)
           r == Append(a \o b, e)
<1>1. Append(b, e) \in Seq(S) /\ a \o b \in Seq(S) /\ l \in Seq(S) /\ r \in Seq(S)
  OBVIOUS
<1>2. Len(l) = Len(a) + Len(b) + 1 /\ Len(r) = Len(a) + Len(b) + 1
  BY <1>1
<1>3. \A i \in 1..Len(l) : l[i] = r[i]
  BY <1>1, <1>2
<1> HIDE DEF l, r
<1> QED
  BY <1>1, <1>2, <1>3

====================================================================================
