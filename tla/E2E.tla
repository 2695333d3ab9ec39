---------------------------------- MODULE E2E ----------------------------------
(***************************************************************************)
(* can::safety (src/safety/e2e.cpp): a Protector numbers and checksums       *)
(* payloads, a Receiver checks them.  Between the two is a medium that       *)
(* loses, repeats, reorders and damages frames.  Several threads may call    *)
(* unwrap on one Receiver: the checksum is verified before its mutex is      *)
(* taken, the sequence number after.  Protector has no mutex: one thread     *)
(* calls protect.                                                            *)
(*                                                                           *)
(* A payload is the number of the call of protect that carried it.  The      *)
(* checksum is ideal: it is equal only on equal contents.                    *)
(***************************************************************************)
EXTENDS Integers, Sequences

CONSTANTS
  Callers,     \* threads that call unwrap
  SeqModulus,  \* 2^32: the sequence counter is a uint32_t
  Lifetime,    \* bound: a frame is delivered before this many later ones are sent
  MaxSends,    \* bound: calls of protect
  Damage       \* what the medium does to a frame it delivers

Kinds == {"none", "short", "ids", "seq", "crc", "payload", "foreign"}

ASSUME E2EAssumption ==
  /\ SeqModulus \in Nat /\ Lifetime \in Nat /\ MaxSends \in Nat
  /\ 0 < Lifetime /\ Lifetime < SeqModulus
  /\ Damage \subseteq Kinds

VARIABLES
  seq,       \* Protector::seq_
  sends,     \* calls of protect so far
  last,      \* Receiver::last_seq_
  first,     \* Receiver::first_
  pc,        \* pc[r]: "idle", or "checked": r's frame has passed the checksum
  frame,     \* frame[r]: the frame r is unwrapping
  result,    \* result[r]: how the last unwrap of r ended
  accepted   \* history: the payloads unwrap has returned, in the order of the mutex

vars == <<seq, sends, last, first, pc, frame, result, accepted>>

Ours == "ours"       \* data_id and source_id of the stream
Theirs == "theirs"   \* those of another stream
Garbage == 0         \* a damaged payload

\* The checksum covers the configured ids, the sequence number and the payload.
Crc(ids, s, payload) == <<ids, s, payload>>

\* The frame of the n-th call of protect.
Frame(n, s) == [n |-> n, long |-> TRUE, ids |-> Ours, seq |-> s, payload |-> n,
                crc |-> Crc(Ours, s, n)]

NoFrame == Frame(0, 0)

Init ==
  /\ seq = 0 /\ sends = 0
  /\ last = 0 /\ first = TRUE
  /\ pc = [r \in Callers |-> "idle"]
  /\ frame = [r \in Callers |-> NoFrame]
  /\ result = [r \in Callers |-> "none"]
  /\ accepted = <<>>

-----------------------------------------------------------------------------
(* Protector::protect *)

\* Fault: the counter has one value more than its type.
Protect_NoWrap ==
  /\ sends < MaxSends
  /\ \A r \in Callers : pc[r] = "checked" => sends + 1 < frame[r].n + Lifetime
  /\ sends' = sends + 1
  /\ seq' = (seq + 1) % (SeqModulus + 1)
  /\ UNCHANGED <<last, first, pc, frame, result, accepted>>

\* Bound: no caller sits on a frame beyond its lifetime.
Protect ==
  /\ sends < MaxSends
  /\ \A r \in Callers : pc[r] = "checked" => sends + 1 < frame[r].n + Lifetime
  /\ sends' = sends + 1
  /\ seq' = (seq + 1) % SeqModulus
  /\ UNCHANGED <<last, first, pc, frame, result, accepted>>

\* Frames the medium may still deliver, any number of times in any order; one
\* it never delivers is lost.
InFlight == {n \in 1..sends : sends < n + Lifetime}

Sent(n) == Frame(n, (n - 1) % SeqModulus)

\* What arrives when the medium damages f.
Damaged(f, kind) ==
  CASE kind = "none"    -> f
    [] kind = "short"   -> [f EXCEPT !.long = FALSE]
    [] kind = "ids"     -> [f EXCEPT !.ids = Theirs]
    [] kind = "seq"     -> [f EXCEPT !.seq = (@ + 1) % SeqModulus]
    [] kind = "crc"     -> [f EXCEPT !.crc = Crc(Ours, f.seq, Garbage)]
    [] kind = "payload" -> [f EXCEPT !.payload = Garbage]
    [] kind = "foreign" -> [f EXCEPT !.ids = Theirs, !.crc = Crc(Theirs, f.seq, f.payload)]

-----------------------------------------------------------------------------
(* Receiver::unwrap *)

\* Fault: the checksum is compared with that of an empty payload's header.
CrcMatches_HeaderOnly(f) == f.crc[1] = Ours /\ f.crc[2] = f.seq

\* Recomputed over the receiver's own ids: those in the frame are not looked at.
CrcMatches(f) == f.crc = Crc(Ours, f.seq, f.payload)

\* The part of unwrap before the mutex.
Check(r) ==
  /\ pc[r] = "idle"
  /\ \E n \in InFlight, kind \in Damage :
       LET f == Damaged(Sent(n), kind) IN
         \/ /\ ~f.long
            /\ result' = [result EXCEPT ![r] = "HeaderTooShort"]
            /\ UNCHANGED <<pc, frame>>
         \/ /\ f.long /\ ~CrcMatches(f)
            /\ result' = [result EXCEPT ![r] = "CRCMismatch"]
            /\ UNCHANGED <<pc, frame>>
         \/ /\ f.long /\ CrcMatches(f)
            /\ pc' = [pc EXCEPT ![r] = "checked"]
            /\ frame' = [frame EXCEPT ![r] = f]
            /\ UNCHANGED result
  /\ UNCHANGED <<seq, sends, last, first, accepted>>

Return(r, what) ==
  /\ pc' = [pc EXCEPT ![r] = "idle"]
  /\ frame' = [frame EXCEPT ![r] = NoFrame]
  /\ result' = [result EXCEPT ![r] = what]

\* Fault: last_seq_ + 1 without the wrap of its type.
Gap_NoWrap(s) == ~first /\ s # last + 1

Gap(s) == ~first /\ s # (last + 1) % SeqModulus

\* Fault: the rejected frame becomes the new baseline.
Reject_Advances(r) ==
  /\ pc[r] = "checked" /\ Gap(frame[r].seq)
  /\ Return(r, "SequenceGap")
  /\ last' = frame[r].seq
  /\ UNCHANGED <<seq, sends, first, accepted>>

\* With the mutex held: a gap leaves the receiver as it was.
Reject(r) ==
  /\ pc[r] = "checked" /\ Gap(frame[r].seq)
  /\ Return(r, "SequenceGap")
  /\ UNCHANGED <<seq, sends, last, first, accepted>>

Accept(r) ==
  /\ pc[r] = "checked" /\ ~Gap(frame[r].seq)
  /\ Return(r, "ok")
  /\ first' = FALSE
  /\ last' = frame[r].seq
  /\ accepted' = Append(accepted, frame[r].payload)
  /\ UNCHANGED <<seq, sends>>

-----------------------------------------------------------------------------
Next == Protect \/ \E r \in Callers : Check(r) \/ Reject(r) \/ Accept(r)

Spec == Init /\ [][Next]_vars

-----------------------------------------------------------------------------
\* Types, and what ties the receiver to its history: last_seq_ is the number of
\* the last payload returned, the counter that of the next one to be sent, and
\* a frame on its way to the mutex is within its lifetime.
TypeOK ==
  /\ sends \in 0..MaxSends
  /\ seq = sends % SeqModulus
  /\ first = (accepted = <<>>)
  /\ last \in 0..(SeqModulus - 1)
  /\ \A r \in Callers : /\ pc[r] \in {"idle", "checked"}
                         /\ pc[r] = "checked" => sends < frame[r].n + Lifetime

\* unwrap returns only payloads that protect was given, undamaged: whatever the
\* medium does to a frame, a caller that has passed the checksum holds the
\* sequence number and the payload that were sent together (e2e.cpp:104-109).
PayloadIntact ==
  /\ \A i \in DOMAIN accepted : accepted[i] \in 1..sends
  /\ \A r \in Callers : pc[r] = "checked" =>
       frame[r].payload = frame[r].n /\ frame[r].seq = Sent(frame[r].n).seq

\* The calls of protect and what unwrap has returned, as a stream.
Stream == INSTANCE InOrderStream WITH Turn <- SeqModulus, sent <- sends, got <- accepted

\* What a receiver returns is a run of consecutive payloads: nothing twice,
\* nothing out of order, and a step in the numbering is noticed unless it is a
\* multiple of the counter's range - for any loss, repetition and reordering,
\* across the wrap of the counter, and with callers that overtake each other
\* between the checksum and the mutex (e2e.cpp:111-126, REQ-SEC-006).
ImplementsStream == Stream!Spec

\* "shall succeed for a sequence of consecutive frames with correct CRC"
\* (REQ-SAFETY-010): only a frame that is not the successor of the last accepted
\* one is rejected for its number, also where the counter wraps (e2e.cpp:112).
NoFalseGap ==
  [][\A r \in Callers :
       pc[r] = "checked" /\ pc'[r] = "idle" /\ accepted' = accepted
         => accepted # <<>> /\ frame[r].n # accepted[Len(accepted)] + 1]_vars

===============================================================================
