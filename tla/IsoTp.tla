--------------------------------- MODULE IsoTp ---------------------------------
(***************************************************************************)
(* can::isotp::Conn (src/isotp/transport.cpp): ISO 15765-2 segmentation     *)
(* between two connections on one bus.  Conn::send runs in one thread and   *)
(* Conn::recv in another; both read the frames of the peer from the same    *)
(* subscription rx_ch_, a DropNewest channel.  A payload is its number and  *)
(* its length: a frame carries the interval of the payload's bytes that it  *)
(* transports, so that what is reassembled can be compared with what was    *)
(* sent.                                                                    *)
(***************************************************************************)
EXTENDS Naturals, Sequences, FiniteSets

CONSTANTS
  A, B,           \* the two connections
  Lengths,        \* payload lengths that are sent
  BlockSize,      \* cfg_.block_size of both
  SnModulus,      \* 16: sequence numbers are four bits
  Depth,          \* capacity of rx_ch_ (64: the default of the bus)
  MaxMsgs,        \* bound: MaxMsgs[e], the calls of send on e
  MaxLoss,        \* bound: frames the medium loses
  FlowStatus,     \* the flow status a receiver answers with: this library only
                  \* says "CTS"; another ECU may also say "Wait" or "Overflow"
  AfterWait,      \* what a receiver that has said Wait says next
  MaxWaits,       \* bound: flow control frames a receiver adds after a Wait
  Retries,        \* an application calls send again after a failed send
  Patient         \* time-outs are long: one fires only when nothing else can happen

Ends == {A, B}
Peer(e) == IF e = A THEN B ELSE A

ASSUME IsoTpAssumption ==
  /\ A # B
  /\ Lengths \subseteq Nat
  /\ BlockSize \in 0..255 /\ SnModulus \in Nat \ {0, 1} /\ Depth \in Nat \ {0}
  /\ MaxMsgs \in [Ends -> Nat] /\ MaxLoss \in Nat /\ MaxWaits \in Nat
  /\ "CTS" \in FlowStatus /\ FlowStatus \subseteq {"CTS", "Wait", "Overflow"}
  /\ AfterWait \subseteq FlowStatus
  /\ Retries \in BOOLEAN /\ Patient \in BOOLEAN

VARIABLES
  rx,         \* rx[e]: rx_ch_ of e, the frames of the peer e has not read
  closed,     \* the bus has been closed
  snd,        \* snd[e]: the locals of send: stage, payload, offset, sn, block count, FC in force
  rcv,        \* rcv[e]: the locals of recv: stage, buf and its size, length, sn, CFs in
              \* the block
  sent,       \* sent[e]: the lengths of the payloads e has sent; m is the m-th of them
  result,     \* result[e]: what the last send of e returned
  delivered,  \* delivered[e]: the payloads recv has returned to the application of e
  lost,       \* frames the medium has lost
  waits       \* flow control frames added after a Wait

vars == <<rx, closed, snd, rcv, sent, result, delivered, lost, waits>>

MaxPayload == 4095
FirstBytes == 6   \* payload bytes in a First Frame
NextBytes == 7    \* payload bytes in a Consecutive or Single Frame

AtMost(a, b) == IF a < b THEN a ELSE b

\* The bytes from+1 .. from+n of payload m.
Chunk(m, from, n) == [m |-> m, from |-> from, n |-> n]

SF(m, n) == [type |-> "SF", chunk |-> Chunk(m, 0, n)]
FF(m, len) == [type |-> "FF", len |-> len, chunk |-> Chunk(m, 0, FirstBytes)]
CF(m, from, n, sn) == [type |-> "CF", sn |-> sn, chunk |-> Chunk(m, from, n)]
FC(fs) == [type |-> "FC", fs |-> fs, bs |-> BlockSize]

SendIdle == [stage |-> "idle", m |-> 0, offset |-> 0, sn |-> 0, block |-> 0,
             fs |-> "CTS", bs |-> 0]
RecvIdle == [stage |-> "idle", buf |-> <<>>, size |-> 0, length |-> 0, sn |-> 0,
             block |-> 0, hold |-> FALSE]

Init ==
  /\ rx = [e \in Ends |-> <<>>]
  /\ closed = FALSE
  /\ snd = [e \in Ends |-> SendIdle]
  /\ rcv = [e \in Ends |-> RecvIdle]
  /\ sent = [e \in Ends |-> <<>>]
  /\ result = [e \in Ends |-> "ok"]
  /\ delivered = [e \in Ends |-> {}]
  /\ lost = 0 /\ waits = 0

-----------------------------------------------------------------------------
\* bus_->send: the frame reaches the peer's channel, unless the channel is full
\* or the medium loses it.  in is rx with what e itself has just read taken out.
Transmit(e, f, in) ==
  \/ /\ rx' = IF Len(in[Peer(e)]) < Depth THEN [in EXCEPT ![Peer(e)] = Append(@, f)] ELSE in
     /\ UNCHANGED lost
  \/ /\ lost < MaxLoss
     /\ lost' = lost + 1
     /\ rx' = in

\* rx_ch_ without its oldest frame.
Rest(e) == [rx EXCEPT ![e] = Tail(@)]

SendReturn(e, r) ==
  /\ snd' = [snd EXCEPT ![e] = SendIdle]
  /\ result' = [result EXCEPT ![e] = r]

-----------------------------------------------------------------------------
(* Conn::send *)

MayCall(e) ==
  /\ Len(sent[e]) < MaxMsgs[e]
  /\ snd[e].stage = "idle"
  /\ result[e] \in {"ok", "refused"} \/ Retries

\* An empty payload or one too long is refused before anything is sent.
SendRefused(e) ==
  /\ MayCall(e)
  /\ \E len \in Lengths : len = 0 \/ len > MaxPayload
  /\ SendReturn(e, "refused")
  /\ UNCHANGED <<rx, closed, rcv, sent, delivered, lost, waits>>

SendClosed(e) ==
  /\ MayCall(e) /\ closed
  /\ sent' = [sent EXCEPT ![e] = Append(@, NextBytes)]
  /\ SendReturn(e, "closed")
  /\ UNCHANGED <<rx, closed, rcv, delivered, lost, waits>>

SendSingle(e) ==
  /\ MayCall(e) /\ ~closed
  /\ \E len \in Lengths :
       /\ len \in 1..NextBytes
       /\ sent' = [sent EXCEPT ![e] = Append(@, len)]
       /\ Transmit(e, SF(Len(sent[e]) + 1, len), rx)
  /\ SendReturn(e, "ok")
  /\ UNCHANGED <<closed, rcv, delivered, waits>>

\* Fault: the consecutive frames do not wait for flow control.
SendFirst_NoWait(e) ==
  /\ MayCall(e) /\ ~closed
  /\ \E len \in Lengths :
       /\ len \in (NextBytes + 1)..MaxPayload
       /\ sent' = [sent EXCEPT ![e] = Append(@, len)]
       /\ Transmit(e, FF(Len(sent[e]) + 1, len), rx)
  /\ snd' = [snd EXCEPT ![e] = [SendIdle EXCEPT !.stage = "cf", !.m = Len(sent[e]) + 1,
                                           !.offset = FirstBytes, !.sn = 1]]
  /\ UNCHANGED <<closed, rcv, result, delivered, waits>>

SendFirst(e) ==
  /\ MayCall(e) /\ ~closed
  /\ \E len \in Lengths :
       /\ len \in (NextBytes + 1)..MaxPayload
       /\ sent' = [sent EXCEPT ![e] = Append(@, len)]
       /\ Transmit(e, FF(Len(sent[e]) + 1, len), rx)
  /\ snd' = [snd EXCEPT ![e] = [SendIdle EXCEPT !.stage = "wait_first", !.m = Len(sent[e]) + 1,
                                           !.offset = FirstBytes, !.sn = 1]]
  /\ UNCHANGED <<closed, rcv, result, delivered, waits>>

Length(e) == sent[e][snd[e].m]

\* The loop ends when the payload is out.
SendDone(e) ==
  /\ snd[e].stage = "cf" /\ snd[e].offset >= Length(e)
  /\ SendReturn(e, "ok")
  /\ UNCHANGED <<rx, closed, rcv, sent, delivered, lost, waits>>

\* A Wait in force holds the next frame back until one more flow control frame
\* has come, whatever that one says.
SendHold(e) ==
  /\ snd[e].stage = "cf" /\ snd[e].offset < Length(e) /\ snd[e].fs = "Wait"
  /\ snd' = [snd EXCEPT ![e].stage = "wait_wait"]
  /\ UNCHANGED <<rx, closed, rcv, sent, result, delivered, lost, waits>>

\* The sender may put its next consecutive frame on the bus.
MayPut(e) ==
  \/ snd[e].stage = "cf" /\ snd[e].offset < Length(e) /\ snd[e].fs # "Wait"
  \/ snd[e].stage = "go"

\* Fault: one frame too many.
BlockDone_Late(s) == s.bs > 0 /\ s.block + 1 > s.bs

\* The frame after which the sender waits for flow control.
BlockDone(s) == s.bs > 0 /\ s.block + 1 >= s.bs

\* One consecutive frame; at the end of a block the sender waits for a flow
\* control frame before it looks whether anything is left to send.
SendNext(e) ==
  /\ MayPut(e) /\ ~closed
  /\ LET s == snd[e]
         n == AtMost(NextBytes, Length(e) - s.offset)
     IN /\ Transmit(e, CF(s.m, s.offset, n, s.sn % SnModulus), rx)
        /\ snd' = [snd EXCEPT ![e] =
             [s EXCEPT !.offset = @ + n, !.sn = (@ + 1) % 256, !.block = @ + 1,
                       !.stage = IF BlockDone(s) THEN "wait_block" ELSE "cf"]]
  /\ UNCHANGED <<closed, rcv, sent, result, delivered, waits>>

SendNextClosed(e) ==
  /\ MayPut(e) /\ closed
  /\ SendReturn(e, "closed")
  /\ UNCHANGED <<rx, closed, rcv, sent, delivered, lost, waits>>

Waiting(e) == snd[e].stage \in {"wait_first", "wait_wait", "wait_block"}

\* wait_fc: everything that is not a flow control frame is thrown away.
DiscardFrame(e) ==
  /\ Waiting(e) /\ rx[e] # <<>>
  /\ Head(rx[e]).type # "FC"
  /\ rx' = Rest(e)
  /\ UNCHANGED <<closed, snd, rcv, sent, result, delivered, lost, waits>>

\* Overflow ends the transfer only as the first answer.
Overflow(e) ==
  /\ snd[e].stage = "wait_first" /\ rx[e] # <<>>
  /\ Head(rx[e]).type = "FC" /\ Head(rx[e]).fs = "Overflow"
  /\ rx' = Rest(e)
  /\ SendReturn(e, "no_buffer_space")
  /\ UNCHANGED <<closed, rcv, sent, delivered, lost, waits>>

TakeFc(e) ==
  /\ Waiting(e) /\ rx[e] # <<>>
  /\ Head(rx[e]).type = "FC"
  /\ snd[e].stage = "wait_first" => Head(rx[e]).fs # "Overflow"
  /\ rx' = Rest(e)
  /\ LET s == snd[e]
         f == Head(rx[e])
     IN snd' = [snd EXCEPT ![e] =
          [s EXCEPT !.fs = f.fs, !.bs = f.bs, !.block = 0,
                    !.stage = IF s.stage = "wait_wait" THEN "go" ELSE "cf"]]
  /\ UNCHANGED <<closed, rcv, sent, result, delivered, lost, waits>>

WaitFcAborted(e) ==
  /\ Waiting(e) /\ rx[e] = <<>> /\ closed
  /\ SendReturn(e, "aborted")
  /\ UNCHANGED <<rx, closed, rcv, sent, delivered, lost, waits>>

-----------------------------------------------------------------------------
(* Conn::recv *)

RecvCall(e) ==
  /\ rcv[e].stage = "idle" /\ MaxMsgs[Peer(e)] > 0
  /\ rcv' = [rcv EXCEPT ![e].stage = "first"]
  /\ UNCHANGED <<rx, closed, snd, sent, result, delivered, lost, waits>>

\* recv returns: with an error, or with the payload buf.
RecvFails(e) == rcv' = [rcv EXCEPT ![e] = RecvIdle] /\ UNCHANGED delivered
RecvReturns(e, buf) ==
  /\ rcv' = [rcv EXCEPT ![e] = RecvIdle]
  /\ delivered' = [delivered EXCEPT ![e] = @ \cup {buf}]

RecvFirst(e) ==
  /\ rcv[e].stage = "first" /\ rx[e] # <<>>
  /\ LET f == Head(rx[e]) IN
     \/ /\ f.type = "SF"
        /\ RecvReturns(e, <<f.chunk>>)
        /\ rx' = Rest(e) /\ UNCHANGED lost
     \/ /\ f.type = "FF" /\ ~closed
        /\ \E fs \in FlowStatus :
             /\ Transmit(e, FC(fs), Rest(e))
             /\ rcv' = [rcv EXCEPT ![e] = [RecvIdle EXCEPT !.stage = "cf", !.buf = <<f.chunk>>,
                                 !.size = f.chunk.n, !.sn = 1, !.length = f.len, !.hold = (fs = "Wait")]]
        /\ UNCHANGED delivered
     \/ /\ f.type \in {"CF", "FC"} \/ (f.type = "FF" /\ closed)
        /\ RecvFails(e)
        /\ rx' = Rest(e) /\ UNCHANGED lost
  /\ UNCHANGED <<closed, snd, sent, result, waits>>

\* Fault: the last byte is not noticed.
More_Late(r, size) == size <= r.length

More(r, size) == size < r.length

\* The frame after which the receiver sends flow control, if more is to come.
Boundary(r) == BlockSize # 0 /\ r.block + 1 = BlockSize

\* recv_cf: everything that is not a consecutive frame is thrown away.
SkipFrame(e) ==
  /\ rcv[e].stage = "cf" /\ rx[e] # <<>>
  /\ Head(rx[e]).type # "CF"
  /\ rx' = Rest(e)
  /\ UNCHANGED <<closed, snd, rcv, sent, result, delivered, lost, waits>>

BadSequence(e) ==
  /\ rcv[e].stage = "cf" /\ rx[e] # <<>>
  /\ Head(rx[e]).type = "CF" /\ Head(rx[e]).sn # rcv[e].sn % SnModulus
  /\ rx' = Rest(e)
  /\ RecvFails(e)
  /\ UNCHANGED <<closed, snd, sent, result, lost, waits>>

\* The expected frame: append it, and at the end of a block that does not end
\* the payload answer with another flow control frame.
RecvNext(e) ==
  /\ rcv[e].stage = "cf" /\ rx[e] # <<>>
  /\ Head(rx[e]).type = "CF" /\ Head(rx[e]).sn = rcv[e].sn % SnModulus
  /\ LET r == rcv[e]
         c == Head(rx[e]).chunk
         n == AtMost(c.n, r.length - r.size)
         buf == Append(r.buf, [c EXCEPT !.n = n])
         more == More(r, r.size + n)
         boundary == Boundary(r)
     IN \/ /\ ~more
           /\ RecvReturns(e, buf)
           /\ rx' = Rest(e) /\ UNCHANGED lost
        \/ /\ more /\ ~boundary
           /\ rcv' = [rcv EXCEPT ![e] = [r EXCEPT !.buf = buf, !.size = @ + n, !.sn = (@ + 1) % 256,
                                          !.block = IF BlockSize # 0 THEN @ + 1 ELSE @]]
           /\ rx' = Rest(e) /\ UNCHANGED <<delivered, lost, waits>>
        \/ /\ more /\ boundary /\ ~closed
           /\ \E fs \in FlowStatus :
                /\ Transmit(e, FC(fs), Rest(e))
                /\ rcv' = [rcv EXCEPT ![e] = [r EXCEPT !.buf = buf, !.size = @ + n, !.sn = (@ + 1) % 256,
                                               !.block = 0, !.hold = (fs = "Wait")]]
           /\ UNCHANGED delivered
        \/ /\ more /\ boundary /\ closed
           /\ RecvFails(e)
           /\ rx' = Rest(e) /\ UNCHANGED lost
  /\ UNCHANGED <<closed, snd, sent, result, waits>>

RecvAborted(e) ==
  /\ rcv[e].stage \in {"first", "cf"} /\ rx[e] = <<>> /\ closed
  /\ RecvFails(e)
  /\ UNCHANGED <<rx, closed, snd, sent, result, lost, waits>>

\* Another ECU that has said Wait says more later.
Resume(e) ==
  /\ rcv[e].stage = "cf" /\ rcv[e].hold /\ waits < MaxWaits /\ ~closed
  /\ waits' = waits + 1
  /\ \E fs \in AfterWait :
       /\ Transmit(e, FC(fs), rx)
       /\ rcv' = [rcv EXCEPT ![e].hold = (fs = "Wait")]
  /\ UNCHANGED <<closed, snd, sent, result, delivered>>

-----------------------------------------------------------------------------
CloseBus ==
  /\ ~closed /\ closed' = TRUE
  /\ UNCHANGED <<rx, snd, rcv, sent, result, delivered, lost, waits>>

SendStep(e) ==
  \/ SendDone(e) \/ SendHold(e) \/ SendNext(e) \/ SendNextClosed(e)
  \/ DiscardFrame(e) \/ Overflow(e) \/ TakeFc(e) \/ WaitFcAborted(e)
RecvStep(e) ==
  RecvFirst(e) \/ SkipFrame(e) \/ BadSequence(e) \/ RecvNext(e) \/ RecvAborted(e)

\* Nothing but a time-out can happen.
Quiet ==
  \A e \in Ends :
    /\ snd[e].stage \notin {"cf", "go"} /\ ~MayCall(e)
    /\ Waiting(e) => rx[e] = <<>> /\ ~closed
    /\ rcv[e].hold => waits = MaxWaits
    /\ rcv[e].stage # "idle" => rx[e] = <<>> /\ ~closed
    /\ rcv[e].stage = "idle" => MaxMsgs[Peer(e)] = 0

\* Fault: only the first wait has a deadline.
SendTimeout_FirstOnly(e) ==
  /\ snd[e].stage = "wait_first" /\ (Patient => Quiet)
  /\ SendReturn(e, "timeout")
  /\ UNCHANGED <<rx, closed, rcv, sent, delivered, lost, waits>>

SendTimeout(e) ==
  /\ Waiting(e) /\ (Patient => Quiet)
  /\ SendReturn(e, "timeout")
  /\ UNCHANGED <<rx, closed, rcv, sent, delivered, lost, waits>>

\* recv_cf looks at the clock between two frames; the first wait takes a frame
\* that is there even when its time is up.
RecvTimeout(e) ==
  /\ rcv[e].stage \in {"first", "cf"} /\ (Patient => Quiet)
  /\ rcv[e].stage = "first" => rx[e] = <<>>
  /\ RecvFails(e)
  /\ UNCHANGED <<rx, closed, snd, sent, result, lost, waits>>

Next ==
  \/ \E e \in Ends :
       \/ SendRefused(e) \/ SendClosed(e) \/ SendSingle(e) \/ SendFirst(e) \/ SendStep(e) \/ SendTimeout(e)
       \/ RecvCall(e) \/ RecvStep(e) \/ RecvTimeout(e) \/ Resume(e)
  \/ CloseBus

Spec == Init /\ [][Next]_vars

\* Both threads run and their timers fire.
Fairness ==
  \A e \in Ends : /\ WF_vars(SendStep(e)) /\ WF_vars(SendTimeout(e))
                  /\ WF_vars(RecvStep(e)) /\ WF_vars(RecvTimeout(e))

FairSpec == Spec /\ Fairness

-----------------------------------------------------------------------------
Stages == {"idle", "wait_first", "wait_wait", "wait_block", "cf", "go"}

\* Types, and what the two loops keep: the offset never runs past the payload,
\* the reassembly buffer never past the announced length.
TypeOK ==
  /\ closed \in BOOLEAN /\ lost \in 0..MaxLoss /\ waits \in 0..MaxWaits
  /\ \A e \in Ends :
       /\ Len(rx[e]) <= Depth
       /\ snd[e].stage \in Stages
       /\ snd[e].stage # "idle" => snd[e].m \in DOMAIN sent[e] /\ snd[e].offset <= Length(e)
       /\ rcv[e].stage \in {"idle", "first", "cf"}
       /\ rcv[e].stage = "cf" => rcv[e].size < rcv[e].length

\* Where the last chunk of buf ends.
End(buf) == buf[Len(buf)].from + buf[Len(buf)].n

\* buf is exactly payload m of e: its bytes, all of them, in order.
IsPayload(e, m, buf) ==
  /\ \A i \in DOMAIN buf :
       /\ buf[i].m = m
       /\ buf[i].from = IF i = 1 THEN 0 ELSE buf[i - 1].from + buf[i - 1].n
  /\ buf # <<>> /\ End(buf) = sent[e][m]

\* recv returns only payloads that the peer has sent, whole and unmixed,
\* whatever is lost, dropped, discarded or timed out ("preventing
\* partial-payload delivery from interleaved or injected frames", REQ-SEC-011).
\* False when an application sends again after a failed send: the flow control
\* frame of the abandoned transfer answers the retry (transport.cpp:81-83,
\* 161-164, 198-230).  False too when a Wait follows a Wait: the second one lets
\* the next frame go (an "if" where transport.cpp:93 needs a "while"), and the
\* flow control frame it made superfluous answers the next send.
Integrity ==
  \A e \in Ends : \A buf \in delivered[e] :
    \E m \in DOMAIN sent[Peer(e)] : IsPayload(Peer(e), m, buf)

\* The consecutive frames in a channel.
Cfs(q) == {i \in DOMAIN q : q[i].type = "CF"}

\* Flow control bounds what is in flight: with a block size, the unread
\* consecutive frames never exceed a block, so rx_ch_ does not overflow
\* (transport.cpp:111-116, 179-184).
FlowControlled ==
  BlockSize # 0 => \A e \in Ends : Cardinality(Cfs(rx[e])) <= BlockSize

\* With long time-outs on a medium that loses nothing, a send to a peer that is
\* receiving does not time out.  False when the consecutive frames of a payload
\* fill a whole number of blocks: the sender waits for one more flow control
\* frame than the receiver sends (transport.cpp:111 and 179).
NoTimeout == \A e \in Ends : result[e] # "timeout"

\* Every call of send and recv returns: frames that wait_fc or recv_cf throw away
\* do not put the deadline off (transport.cpp:194-230).
EveryCallReturns ==
  \A e \in Ends : /\ snd[e].stage # "idle" ~> snd[e].stage = "idle"
                  /\ rcv[e].stage # "idle" ~> rcv[e].stage = "idle"

===============================================================================
