------------------------------- MODULE J1939Frames -------------------------------
(***************************************************************************)
(* can::j1939::Bus without reassembly (src/j1939/pgn.cpp): send packs        *)
(* priority, PGN, source and destination into the id of a CAN frame, or      *)
(* hands a longer payload to send_tp; the thread that subscribe starts takes *)
(* the ids of the frames on the bus apart again.  A payload is the place of  *)
(* its frame in the log of the bus.                                          *)
(***************************************************************************)
EXTENDS Integers, Sequences, SequencesExt

CONSTANTS
  Ecus, Address,   \* the buses that send, and their source addresses
  Requests,        \* what send may be given: [priority, pgn, dst, size]
  PgnFilter,       \* the PGNs given to subscribe; {} for all
  Others,          \* frames of other nodes: [id, ext]
  RawDepth,        \* capacity of the subscription of the CAN bus
  FramesDepth,     \* capacity of the channel of frames (64)
  MaxRequests,     \* bound: calls of send
  MaxOthers        \* bound: frames of other nodes

ASSUME J1939FramesAssumption ==
  /\ Address \in [Ecus -> 0..255]
  /\ Requests \subseteq [priority : 0..255, pgn : Nat, dst : 0..255, size : Nat]
  /\ Others \subseteq [id : 0..(2^29 - 1), ext : BOOLEAN]
  /\ {RawDepth, FramesDepth} \subseteq Nat \ {0} /\ {MaxRequests, MaxOthers} \subseteq Nat

VARIABLES
  canClosed,  \* the CAN bus is closed
  pending,    \* pending[e]: the CAN frames send_tp of e has still to send
  rawFrames,  \* places in log: what the thread of subscribe has not read
  frames,     \* the channel handed to the subscriber, not yet read
  framesClosed,
  requests,   \* calls of send so far, for the bound
  others,     \* frames of other nodes so far, for the bound
  log,        \* history: what was sent on the CAN bus: [id, ext, meant], where meant
              \* holds what send was given, if it was
  handed,     \* history: what entered frames
  missed      \* history: a channel was full

framesVars == <<canClosed, pending, rawFrames, frames, framesClosed, requests, others, log, handed, missed>>

-----------------------------------------------------------------------------
(* The id of 29 bits *)

kBroadcastAddr == 255
kPgnTPCM == 60416
kPgnTPDT == 60160

PduFormat(pgn) == (pgn \div 2^8) % 256
IsPeerToPeer(pgn) == PduFormat(pgn) < 240

EncodeId(priority, pgn, src) ==
  ((priority % 8) * 2^26) + (((pgn \div 2^16) % 2) * 2^24) + (PduFormat(pgn) * 2^16)
    + (IF PduFormat(pgn) >= 240 THEN ((pgn % 256) * 2^8) ELSE 0) + src

\* Fault: the destination is taken for a part of the PGN.
DecodeId_KeepsPs(id) ==
  [priority |-> (id \div 2^26) % 8, pgn |-> (((id \div 2^24) % 2) * 2^16) + ((id \div 2^8) % 2^16), src |-> id % 256]

DecodeId(id) ==
  LET pf == (id \div 2^16) % 256
      ps == IF pf < 240 THEN 0 ELSE (id \div 2^8) % 256
  IN [priority |-> (id \div 2^26) % 8, pgn |-> (((id \div 2^24) % 2) * 2^16) + (pf * 2^8) + ps, src |-> id % 256]

-----------------------------------------------------------------------------
(* send *)

FramesInit ==
  /\ canClosed = FALSE /\ pending = [e \in Ecus |-> <<>>]
  /\ rawFrames = <<>> /\ frames = <<>> /\ framesClosed = FALSE
  /\ requests = 0 /\ others = 0
  /\ log = <<>> /\ handed = <<>> /\ missed = FALSE

\* can_->send: a full subscription of the bus misses the frame.
OnBus(f) ==
  /\ log' = Append(log, f)
  /\ IF Len(rawFrames) < RawDepth
       THEN rawFrames' = Append(rawFrames, Len(log')) /\ UNCHANGED missed
       ELSE missed' = TRUE /\ UNCHANGED rawFrames

\* The destination goes into the byte the PGN leaves free.
FrameToSend(e, r) ==
  [id |-> EncodeId(r.priority, r.pgn, Address[e]) + (IF IsPeerToPeer(r.pgn) THEN (r.dst * 2^8) ELSE 0),
   ext |-> TRUE, meant |-> <<[priority |-> r.priority, pgn |-> r.pgn, dst |-> r.dst, src |-> Address[e]]>>]

\* A frame of the transport protocol goes to everybody, whatever the PGN of the payload.
TransportFrame(e, r, pgn) ==
  [id |-> EncodeId(r.priority, pgn, Address[e]) + (kBroadcastAddr * 2^8), ext |-> TRUE,
   meant |-> <<[priority |-> r.priority, pgn |-> pgn, dst |-> kBroadcastAddr, src |-> Address[e]]>>]

DataFrames(e, r) == [i \in 1..((r.size + 6) \div 7) |-> TransportFrame(e, r, kPgnTPDT)]

\* What send_tp of e still has to send.
Remaining(e, fs) == pending' = [pending EXCEPT ![e] = fs]

Request(e) == pending[e] = <<>> /\ requests < MaxRequests /\ requests' = requests + 1

SendFrame(e) ==
  /\ Request(e) /\ ~canClosed
  /\ \E r \in Requests : r.size <= 8 /\ OnBus(FrameToSend(e, r))
  /\ UNCHANGED <<canClosed, pending, frames, framesClosed, others, handed>>

\* send_tp announces the payload, or refuses one that is too long.
SendLong(e) ==
  /\ Request(e) /\ ~canClosed
  /\ \E r \in Requests :
       /\ r.size \in 9..1785
       /\ OnBus(TransportFrame(e, r, kPgnTPCM))
       /\ Remaining(e, DataFrames(e, r))
  /\ UNCHANGED <<canClosed, frames, framesClosed, others, handed>>

SendPacket(e) ==
  /\ pending[e] # <<>> /\ ~canClosed
  /\ OnBus(Head(pending[e]))
  /\ Remaining(e, Tail(pending[e]))
  /\ UNCHANGED <<canClosed, frames, framesClosed, requests, others, handed>>

\* The first error ends send_tp.
SendFails(e) ==
  /\ pending[e] # <<>> /\ canClosed
  /\ Remaining(e, <<>>)
  /\ UNCHANGED <<canClosed, rawFrames, frames, framesClosed, requests, others, log, handed, missed>>

OtherFrame ==
  /\ others < MaxOthers /\ ~canClosed
  /\ \E f \in Others : OnBus([id |-> f.id, ext |-> f.ext, meant |-> <<>>])
  /\ others' = others + 1
  /\ UNCHANGED <<canClosed, pending, frames, framesClosed, requests, handed>>

-----------------------------------------------------------------------------
(* The thread of subscribe *)

MatchesPgns(pgn) == PgnFilter = {} \/ pgn \in PgnFilter

\* try_send of the frame the k-th CAN frame stands for.
ReadRaw ==
  /\ rawFrames # <<>> /\ rawFrames' = Tail(rawFrames)
  /\ LET k == Head(rawFrames)
         id == log[k].id
         decoded == DecodeId(id)
         dst == IF IsPeerToPeer(decoded.pgn) THEN (id \div 2^8) % 256 ELSE kBroadcastAddr
         f == [priority |-> decoded.priority, pgn |-> decoded.pgn, src |-> decoded.src, dst |-> dst, data |-> k]
     IN \/ /\ ~log[k].ext \/ ~MatchesPgns(decoded.pgn)
           /\ UNCHANGED <<frames, handed, missed>>
        \/ /\ log[k].ext /\ MatchesPgns(decoded.pgn)
           /\ IF Len(frames) < FramesDepth
                THEN frames' = Append(frames, f) /\ handed' = Append(handed, f) /\ UNCHANGED missed
                ELSE missed' = TRUE /\ UNCHANGED <<frames, handed>>
  /\ UNCHANGED <<canClosed, pending, framesClosed, requests, others, log>>

EndOfRaw ==
  /\ rawFrames = <<>> /\ canClosed /\ ~framesClosed
  /\ framesClosed' = TRUE
  /\ UNCHANGED <<canClosed, pending, rawFrames, frames, requests, others, log, handed, missed>>

RecvFrame ==
  /\ frames # <<>> /\ frames' = Tail(frames)
  /\ UNCHANGED <<canClosed, pending, rawFrames, framesClosed, requests, others, log, handed, missed>>

CloseCan ==
  /\ ~canClosed /\ canClosed' = TRUE
  /\ UNCHANGED <<pending, rawFrames, frames, framesClosed, requests, others, log, handed, missed>>

-----------------------------------------------------------------------------
FramesNext ==
  \/ \E e \in Ecus : SendFrame(e) \/ SendLong(e) \/ SendPacket(e) \/ SendFails(e)
  \/ OtherFrame \/ ReadRaw \/ EndOfRaw \/ RecvFrame \/ CloseCan

FramesSpec == FramesInit /\ [][FramesNext]_framesVars

-----------------------------------------------------------------------------
\* The PGN of 17 bits others know a PGN by: the low byte of one that is for a single
\* receiver means nothing.
Canonical(pgn) == IF IsPeerToPeer(pgn) THEN (pgn % 2^17) - (pgn % 2^8) ELSE pgn % 2^17

Describes(d, m) ==
  /\ d.priority = m.priority % 8 /\ d.pgn = Canonical(m.pgn) /\ d.src = m.src
  /\ d.dst = IF IsPeerToPeer(m.pgn) THEN m.dst ELSE kBroadcastAddr

Concerns(f) == f.ext /\ MatchesPgns(IF f.meant = <<>> THEN DecodeId(f.id).pgn ELSE Canonical(f.meant[1].pgn))

\* A subscriber gets the frames of the PGNs it asked for in the order they were on
\* the bus, each once and with the priority, PGN, source and destination it was sent
\* with - the packets of a longer payload as frames of their own - and, unless a
\* channel was full, all of them (REQ-J1939-005, 006; pgn.cpp:54-61, 79-94).
FramesArrive ==
  /\ \A i \in DOMAIN handed :
       LET f == log[handed[i].data]
       IN Concerns(f) /\ (f.meant # <<>> => Describes(handed[i], f.meant[1]))
  /\ \A i, j \in DOMAIN handed : i < j => handed[i].data < handed[j].data
  /\ rawFrames = <<>> /\ ~missed =>
       \A k \in DOMAIN log : Concerns(log[k]) => \E i \in DOMAIN handed : handed[i].data = k
===================================================================================
