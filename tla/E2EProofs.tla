-------------------------------- MODULE E2EProofs --------------------------------
(***************************************************************************)
(* Proofs about E2E for every number of callers, every range of the counter  *)
(* and every lifetime below it: types, intact payloads, no false gap, and    *)
(* the refinement of InOrderStream.                                          *)
(***************************************************************************)
EXTENDS E2E, TLAPS

-----------------------------------------------------------------------------
(* Remainders *)

\* Division with remainder.
LEMMA DivMod ==
  ASSUME NEW m \in Nat \ {0}, NEW a \in Int
  PROVE  /\ a % m \in 0..(m - 1) /\ a \div m \in Int
         /\ a = m * (a \div m) + (a % m)
  BY SMT

\* A multiple that is not zero is at least as large as the number itself.
LEMMA Multiple ==
  ASSUME NEW m \in Nat \ {0}, NEW k \in Int
  PROVE  (k >= 1 => m * k >= m) /\ (k <= -1 => m * k <= -m)
  BY SMT

\* The remainder is the only number of its range that leaves a multiple.
LEMMA Remainder ==
  ASSUME NEW m \in Nat \ {0}, NEW q \in Int, NEW r \in 0..(m - 1)
  PROVE  (m * q + r) % m = r
<1> DEFINE a == m * q + r
           p == a \div m
           s == a % m
<1>1. /\ a \in Int /\ p \in Int /\ s \in 0..(m - 1) /\ a = m * p + s
  BY DivMod
<1>2. m * (q - p) = s - r
  BY <1>1, SMT
<1>3. q - p = 0
  BY <1>1, <1>2, Multiple, SMT
<1> QED
  BY <1>1, <1>2, <1>3, SMT

\* If the remainder of a follows the one of b in the circle, then a and b + 1
\* differ by a multiple.
LEMMA Follower ==
  ASSUME NEW m \in Nat \ {0}, NEW a \in Int, NEW b \in Int,
         a % m = ((b % m) + 1) % m
  PROVE  \E k \in Int : a - b = m * k + 1
<1> DEFINE p == a \div m
           q == b \div m
           s == b % m
<1>1. /\ p \in Int /\ q \in Int /\ s \in 0..(m - 1)
      /\ a = m * p + (a % m) /\ b = m * q + s
  BY DivMod
<1>2. CASE s + 1 < m
  <2>1. (s + 1) % m = s + 1
    BY <1>1, <1>2, SMT
  <2>2. a - b = m * (p - q) + 1
    BY <1>1, <2>1, SMT
  <2> WITNESS p - q \in Int
  <2> QED
    BY <2>2
<1>3. CASE s + 1 = m
  <2>1. (s + 1) % m = 0
    <3>1. (m * 1 + 0) % m = 0
      BY Remainder, SMT
    <3> QED
      BY <1>1, <1>3, <3>1, SMT
  <2>2. a - b = m * (p - q - 1) + 1
    BY <1>1, <1>3, <2>1, SMT
  <2> WITNESS p - q - 1 \in Int
  <2> QED
    BY <2>2
<1> QED
  BY <1>1, <1>2, <1>3, SMT

\* The remainder of a successor is the successor of the remainder.
LEMMA Successor ==
  ASSUME NEW m \in Nat \ {0}, NEW a \in Int
  PROVE  (a + 1) % m = ((a % m) + 1) % m
<1>1. /\ a % m \in 0..(m - 1) /\ a \div m \in Int
      /\ a = m * (a \div m) + (a % m)
  BY DivMod
<1>2. CASE (a % m) + 1 < m
  <2>1. a + 1 = m * (a \div m) + ((a % m) + 1)
    BY <1>1, SMT
  <2>2. (a + 1) % m = (a % m) + 1
    <3>0. (a % m) + 1 \in 0..(m - 1)
      BY <1>1, <1>2, SMT
    <3>1. (m * (a \div m) + ((a % m) + 1)) % m = (a % m) + 1
      BY <1>1, <3>0, Remainder, Zenon
    <3> QED
      BY <2>1, <3>1
  <2>3. (m * 0 + ((a % m) + 1)) % m = (a % m) + 1
    BY <1>1, <1>2, Remainder, SMT
  <2> QED
    BY <1>1, <2>2, <2>3, SMT
<1>3. CASE (a % m) + 1 = m
  <2>1. a + 1 = m * ((a \div m) + 1) + 0
    BY <1>1, <1>3, SMT
  <2>2. (m * ((a \div m) + 1) + 0) % m = 0
    BY <1>1, Remainder, SMT
  <2>3. (m * 1 + 0) % m = 0
    BY Remainder, SMT
  <2> QED
    BY <1>1, <1>3, <2>1, <2>2, <2>3, SMT
<1> QED
  BY <1>1, <1>2, <1>3, SMT

\* The argument of the sequence check: a number that follows in the circle and is
\* less than a turn older is newer, by one and some turns.
LEMMA Newer ==
  ASSUME NEW m \in Nat, m > 1, NEW n \in Int, NEW prev \in Int,
         (n - 1) % m = (((prev - 1) % m) + 1) % m,
         n > prev + 1 - m
  PROVE  n > prev /\ (n - prev) % m = 1
<1>1. PICK k \in Int : (n - 1) - (prev - 1) = m * k + 1
  <2>1. n - 1 \in Int /\ prev - 1 \in Int /\ m \in Nat \ {0}
    BY SMT
  <2> QED
    BY <2>1, Follower, Zenon
<1>2. n - prev = m * k + 1
  BY <1>1, SMT
<1>3. k >= 0
  BY <1>2, Multiple, SMT
<1>4. m * k >= 0
  BY <1>3, Multiple, SMT
<1>5. (m * k + 1) % m = 1
  BY Remainder, SMT
<1> QED
  BY <1>2, <1>4, <1>5, SMT

-----------------------------------------------------------------------------
(* The invariant *)

\* A caller that has passed the checksum holds a frame as it was sent, not older
\* than its lifetime.
Genuine(r) ==
  pc[r] = "checked" =>
    /\ frame[r].n \in 1..sends /\ sends < frame[r].n + Lifetime
    /\ frame[r].payload = frame[r].n
    /\ frame[r].seq = (frame[r].n - 1) % SeqModulus

\* The receiver's state is that of the last payload returned.
Baseline ==
  /\ first \in BOOLEAN /\ (first <=> accepted = <<>>)
  /\ last \in 0..(SeqModulus - 1)
  /\ ~first => last = (accepted[Len(accepted)] - 1) % SeqModulus

Inv ==
  /\ sends \in 0..MaxSends /\ seq = sends % SeqModulus
  /\ pc \in [Callers -> {"idle", "checked"}]
  /\ frame = [r \in Callers |-> frame[r]]
  /\ accepted \in Seq(1..sends)
  /\ Baseline
  /\ \A r \in Callers : Genuine(r)

\* Damage is noticed: what passes the checksum carries the number and the payload
\* of one frame that was sent.
LEMMA DamageNoticed ==
  ASSUME NEW n \in Int, NEW kind \in Kinds, CrcMatches(Damaged(Sent(n), kind))
  PROVE  LET f == Damaged(Sent(n), kind) IN
           f.n = n /\ f.payload = n /\ f.seq = (n - 1) % SeqModulus
<1> USE DEF Damaged, Sent, Frame, Crc, CrcMatches
<1>1. CASE kind \in {"none", "short", "ids"}
  BY <1>1
<1>2. CASE kind = "seq"
  BY <1>2
<1>3. CASE kind = "crc"
  BY <1>3
<1>4. CASE kind = "payload"
  BY <1>4
<1>5. CASE kind = "foreign"
  BY <1>5
<1> QED
  BY <1>1, <1>2, <1>3, <1>4, <1>5 DEF Kinds

LEMMA InitInv == Init => Inv
  BY E2EAssumption, SMT DEF Init, Inv, Baseline, Genuine

\* A caller that has just verified a checksum holds a genuine frame.
LEMMA CheckInv ==
  ASSUME Inv, NEW r \in Callers, Check(r)
  PROVE  Inv'
<1> USE DEF Inv
<1>1. PICK n \in InFlight, kind \in Damage :
        LET f == Damaged(Sent(n), kind) IN
          \/ UNCHANGED <<pc, frame>>
          \/ /\ CrcMatches(f)
             /\ pc' = [pc EXCEPT ![r] = "checked"]
             /\ frame' = [frame EXCEPT ![r] = f]
  BY Zenon DEF Check
<1>2. UNCHANGED <<seq, sends, last, first, accepted>>
  BY DEF Check
<1>3. n \in 1..sends /\ sends < n + Lifetime /\ n \in Int /\ kind \in Kinds
  BY E2EAssumption DEF InFlight, E2EAssumption
<1>4. CASE UNCHANGED <<pc, frame>>
  BY <1>2, <1>4 DEF Baseline, Genuine
<1>5. CASE /\ CrcMatches(Damaged(Sent(n), kind))
           /\ pc' = [pc EXCEPT ![r] = "checked"]
           /\ frame' = [frame EXCEPT ![r] = Damaged(Sent(n), kind)]
  <2> DEFINE f == Damaged(Sent(n), kind)
  <2>1. f.n = n /\ f.payload = n /\ f.seq = (n - 1) % SeqModulus
    BY <1>3, <1>5, DamageNoticed, Zenon
  <2> HIDE DEF f
  <2>2. pc' \in [Callers -> {"idle", "checked"}] /\ frame' = [u \in Callers |-> frame'[u]]
    BY <1>5
  <2>3. ASSUME NEW u \in Callers PROVE Genuine(u)'
    <3>1. CASE u = r
      <4>1. frame'[u] = f
        BY <1>5, <3>1 DEF f
      <4> QED
        BY <1>2, <1>3, <2>1, <4>1 DEF Genuine
    <3>2. CASE u # r
      <4>1. pc'[u] = pc[u] /\ frame'[u] = frame[u]
        BY <1>5, <3>2
      <4> QED
        BY <1>2, <4>1 DEF Genuine
    <3> QED
      BY <3>1, <3>2
  <2> QED
    BY <1>2, <2>2, <2>3 DEF Baseline
<1> QED
  BY <1>1, <1>4, <1>5

\* A caller that returns leaves the others as they are.
LEMMA ReturnKeeps ==
  ASSUME Inv, NEW r \in Callers, NEW what, Return(r, what), sends' = sends
  PROVE  /\ pc' \in [Callers -> {"idle", "checked"}] /\ frame' = [u \in Callers |-> frame'[u]]
         /\ \A u \in Callers : Genuine(u)'
<1>1. pc' \in [Callers -> {"idle", "checked"}] /\ frame' = [u \in Callers |-> frame'[u]]
  BY DEF Inv, Return
<1>2. ASSUME NEW u \in Callers PROVE Genuine(u)'
  <2>1. pc'[r] = "idle" /\ (u # r => pc'[u] = pc[u] /\ frame'[u] = frame[u])
    BY DEF Inv, Return
  <2> QED
    BY <2>1 DEF Inv, Genuine
<1> QED
  BY <1>1, <1>2

LEMMA AcceptInv ==
  ASSUME Inv, NEW r \in Callers, Accept(r)
  PROVE  Inv'
<1>1. /\ sends' = sends /\ seq' = seq /\ first' = FALSE /\ last' = frame[r].seq
      /\ accepted' = Append(accepted, frame[r].payload) /\ Return(r, "ok")
  BY DEF Accept
<1>2. /\ frame[r].payload \in 1..sends
      /\ frame[r].seq = (frame[r].payload - 1) % SeqModulus
  BY DEF Inv, Genuine, Accept
<1>3. accepted' \in Seq(1..sends') /\ accepted' # <<>>
      /\ accepted'[Len(accepted')] = frame[r].payload
  BY <1>1, <1>2 DEF Inv
<1>4. frame[r].seq \in 0..(SeqModulus - 1)
  <2>1. SeqModulus \in Nat \ {0} /\ frame[r].payload - 1 \in Int
    BY <1>2, E2EAssumption DEF E2EAssumption, Inv
  <2> QED
    BY <1>2, <2>1, DivMod
<1>5. Baseline'
  BY <1>1, <1>2, <1>3, <1>4 DEF Baseline
<1> QED
  BY <1>1, <1>3, <1>5, ReturnKeeps DEF Inv

LEMMA ProtectInv ==
  ASSUME Inv, Protect
  PROVE  Inv'
<1>1. /\ sends' = sends + 1 /\ sends < MaxSends /\ seq' = (seq + 1) % SeqModulus
      /\ UNCHANGED <<last, first, pc, frame, accepted>>
  BY DEF Protect
<1>2. sends' \in 0..MaxSends /\ seq' = sends' % SeqModulus
  <2>1. SeqModulus \in Nat \ {0} /\ sends \in Int
    BY E2EAssumption DEF E2EAssumption, Inv
  <2>2. (sends + 1) % SeqModulus = ((sends % SeqModulus) + 1) % SeqModulus
    BY <2>1, Successor
  <2> QED
    BY <1>1, <2>2, E2EAssumption DEF E2EAssumption, Inv
<1>3. accepted' \in Seq(1..sends')
  BY <1>1 DEF Inv
<1>4. ASSUME NEW r \in Callers PROVE Genuine(r)'
  BY <1>1 DEF Inv, Genuine, Protect
<1> QED
  BY <1>1, <1>2, <1>3, <1>4 DEF Inv, Baseline

LEMMA NextInv == Inv /\ [Next]_vars => Inv'
<1> SUFFICES ASSUME Inv, [Next]_vars PROVE Inv'
  OBVIOUS
<1>1. CASE UNCHANGED vars
  BY <1>1 DEF vars, Inv, Baseline, Genuine
<1>2. CASE Protect
  BY <1>2, ProtectInv
<1>3. ASSUME NEW r \in Callers, Check(r) PROVE Inv'
  BY <1>3, CheckInv
<1>4. ASSUME NEW r \in Callers, Reject(r) PROVE Inv'
  <2>1. UNCHANGED <<seq, sends, last, first, accepted>> /\ Return(r, "SequenceGap")
    BY <1>4 DEF Reject
  <2> QED
    BY <2>1, ReturnKeeps DEF Inv, Baseline
<1>5. ASSUME NEW r \in Callers, Accept(r) PROVE Inv'
  BY <1>5, AcceptInv
<1> QED
  BY <1>1, <1>2, <1>3, <1>4, <1>5 DEF Next

-----------------------------------------------------------------------------
(* The theorems *)

LEMMA Invariance == Spec => []Inv
  BY InitInv, NextInv, PTL DEF Spec

\* The receiver's state is always that of the last payload it returned, the sender's
\* counter that of the payloads sent, and no caller holds a frame beyond its
\* lifetime, for every number of callers.
THEOREM TypeCorrect == Spec => []TypeOK
<1>1. Inv => TypeOK
  BY DEF Inv, Baseline, Genuine, TypeOK
<1> QED
  BY <1>1, Invariance, PTL

\* Only payloads that were sent are returned, undamaged: what passes the checksum
\* carries the number and the payload of one frame (e2e.cpp:104-109).
THEOREM Intact == Spec => []PayloadIntact
<1>1. Inv => PayloadIntact
  BY DEF Inv, Genuine, PayloadIntact, Sent, Frame
<1> QED
  BY <1>1, Invariance, PTL

\* The successor of the last accepted frame is never refused for its number,
\* wherever the counter wraps (e2e.cpp:112).
THEOREM SuccessorAccepted == Spec => NoFalseGap
<1>1. ASSUME Inv, [Next]_vars, NEW r \in Callers,
             pc[r] = "checked", pc'[r] = "idle", accepted' = accepted
      PROVE  accepted # <<>> /\ frame[r].n # accepted[Len(accepted)] + 1
  <2>1. Reject(r)
    <3>1. pc'[r] # pc[r]
      BY <1>1
    <3>2. ~Protect /\ ~UNCHANGED vars
      BY <3>1 DEF Protect, vars
    <3>3. PICK u \in Callers : Check(u) \/ Reject(u) \/ Accept(u)
      BY <1>1, <3>2 DEF Next
    <3>4. ~Accept(u)
      <4>1. accepted \in Seq(1..sends)
        BY <1>1 DEF Inv
      <4> DEFINE longer == Append(accepted, frame[u].payload)
      <4>2. Len(longer) = Len(accepted) + 1
        BY <4>1
      <4>3. longer # accepted
        <5>1. Len(accepted) + 1 # Len(accepted)
          BY <4>1
        <5> HIDE DEF longer
        <5> QED
          BY <4>2, <5>1
      <4> QED
        BY <1>1, <4>3 DEF Accept
    <3>5. ~Check(r)
      BY <1>1 DEF Check
    <3>6. u = r
      BY <1>1, <3>1, <3>3, <3>4 DEF Inv, Check, Reject, Return
    <3> QED
      BY <3>3, <3>4, <3>5, <3>6
  <2>2. ~first /\ frame[r].seq # (last + 1) % SeqModulus
    BY <2>1 DEF Reject, Gap
  <2>3. /\ accepted # <<>> /\ accepted[Len(accepted)] \in 1..sends
        /\ last = (accepted[Len(accepted)] - 1) % SeqModulus
        /\ frame[r].seq = (frame[r].n - 1) % SeqModulus
    BY <1>1, <2>2 DEF Inv, Baseline, Genuine
  <2> DEFINE newest == accepted[Len(accepted)]
  <2>4. ((newest - 1) + 1) % SeqModulus = (((newest - 1) % SeqModulus) + 1) % SeqModulus
    <3>1. SeqModulus \in Nat \ {0} /\ newest - 1 \in Int
      BY <2>3, E2EAssumption DEF E2EAssumption
    <3> QED
      BY <3>1, Successor, Zenon
  <2>5. (newest - 1) + 1 = newest /\ (newest + 1) - 1 = newest
    BY <2>3
  <2> QED
    BY <2>2, <2>3, <2>4, <2>5
<1>2. Inv /\ [Next]_vars =>
        \A r \in Callers : pc[r] = "checked" /\ pc'[r] = "idle" /\ accepted' = accepted
          => accepted # <<>> /\ frame[r].n # accepted[Len(accepted)] + 1
  BY <1>1
<1> QED
  BY <1>2, Invariance, PTL DEF Spec, NoFalseGap

\* Accepting a frame is delivering its payload.
LEMMA AcceptDelivers ==
  ASSUME Inv, NEW r \in Callers, Accept(r)
  PROVE  Stream!Deliver(frame[r].payload) /\ frame[r].payload \in 1..sends
<1> DEFINE n == frame[r].payload
           newest == accepted[Len(accepted)]
<1>1. /\ n \in 1..sends /\ n = frame[r].n /\ sends < n + Lifetime
      /\ frame[r].seq = (n - 1) % SeqModulus
  BY DEF Inv, Genuine, Accept
<1>2. ASSUME accepted # <<>> PROVE n > newest /\ (n - newest) % SeqModulus = 1
  <2>1. newest \in 1..sends
    BY <1>2 DEF Inv
  <2>2. (n - 1) % SeqModulus = (((newest - 1) % SeqModulus) + 1) % SeqModulus
    BY <1>1, <1>2 DEF Inv, Baseline, Accept, Gap
  <2>3. /\ SeqModulus \in Nat /\ SeqModulus > 1 /\ n \in Int /\ newest \in Int
        /\ n > newest + 1 - SeqModulus
    BY SMTT(30), <1>1, <2>1, E2EAssumption DEF E2EAssumption, Inv
  <2> QED
    BY <2>2, <2>3, Newer, Zenon
<1>3. accepted' = Append(accepted, n) /\ sends' = sends
  BY DEF Accept
<1> QED
  BY <1>1, <1>2, <1>3 DEF Stream!Deliver, Stream!Follows

\* For every loss, repetition, reordering and damage, any number of callers that
\* overtake each other and any range of the counter: what unwrap returns is a
\* behaviour of InOrderStream (e2e.cpp:75-127).
THEOREM Refinement == Spec => ImplementsStream
<1>1. Init => Stream!Init
  BY DEF Init, Stream!Init
<1>2. Inv /\ [Next]_vars => [Stream!Next]_(Stream!vars)
  <2> SUFFICES ASSUME Inv, [Next]_vars PROVE [Stream!Next]_(Stream!vars)
    OBVIOUS
  <2>1. CASE UNCHANGED vars
    BY <2>1 DEF vars, Stream!vars
  <2>2. CASE Protect
    BY <2>2 DEF Protect, Stream!Next, Stream!Send
  <2>3. ASSUME NEW r \in Callers, Check(r) \/ Reject(r) PROVE UNCHANGED Stream!vars
    BY <2>3 DEF Check, Reject, Stream!vars
  <2>4. ASSUME NEW r \in Callers, Accept(r) PROVE Stream!Next
    BY <2>4, AcceptDelivers DEF Stream!Next
  <2> QED
    BY <2>1, <2>2, <2>3, <2>4 DEF Next
<1> QED
  BY <1>1, <1>2, Invariance, PTL DEF Spec, ImplementsStream, Stream!Spec
==================================================================================
