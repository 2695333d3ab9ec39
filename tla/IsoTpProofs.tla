------------------------------ MODULE IsoTpProofs ------------------------------
(***************************************************************************)
(* What isotp::Conn keeps for every number of messages, block size, depth   *)
(* of rx_ch_ and payload length.  The types hold whatever the peer answers; *)
(* the two safety properties hold when a peer that has answered "Wait" says *)
(* something else next (this library never answers "Wait") and no           *)
(* application sends again after a failed send.                             *)
(*                                                                         *)
(* The two directions are alike: Dir relates the payloads of one end, the   *)
(* frames of it the peer has not read, the flow control frames on their way *)
(* back, the sender's locals and the peer's recv.                           *)
(***************************************************************************)
EXTENDS IsoTp, FiniteSetTheorems, TLAPS

\* No Wait follows a Wait, and a failed send is the application's last.
Orderly == "Wait" \notin AfterWait /\ ~Retries

-----------------------------------------------------------------------------
(* Types *)

ChunkSet == [m : Nat, from : Nat, n : Nat]

Frame ==
  [type : {"SF"}, chunk : ChunkSet]
    \cup [type : {"FF"}, len : (NextBytes + 1)..MaxPayload, chunk : [m : Nat, from : {0}, n : {FirstBytes}]]
    \cup [type : {"CF"}, sn : Nat, chunk : ChunkSet]
    \cup [type : {"FC"}, fs : FlowStatus, bs : {BlockSize}]

SendState == [stage : Stages, m : Nat, offset : Nat, sn : Nat, block : Nat, fs : FlowStatus, bs : Nat]
RecvState == [stage : {"idle", "first", "cf"}, buf : Seq(ChunkSet), size : Nat, length : Nat,
              sn : Nat, block : Nat, hold : BOOLEAN]
Results == {"ok", "refused", "closed", "aborted", "timeout", "no_buffer_space"}

RxTyped(in) == in \in [Ends -> Seq(Frame)] /\ \A e \in Ends : Len(in[e]) <= Depth

\* The payload a sender is at, and how far.
InPayload(s, ms) == s.stage # "idle" => s.m \in DOMAIN ms /\ s.offset <= ms[s.m]

\* A reassembly misses bytes.
Unfinished(r) == r.stage = "cf" => r.size < r.length

TypeInv ==
  /\ closed \in BOOLEAN /\ lost \in 0..MaxLoss /\ waits \in 0..MaxWaits
  /\ RxTyped(rx)
  /\ sent \in [Ends -> Seq(Nat)]
  /\ snd \in [Ends -> SendState] /\ \A e \in Ends : InPayload(snd[e], sent[e])
  /\ rcv \in [Ends -> RecvState] /\ \A e \in Ends : Unfinished(rcv[e])
  /\ result \in [Ends -> Results]
  /\ delivered \in [Ends -> SUBSET Seq(ChunkSet)]

-----------------------------------------------------------------------------
(* One direction: q, the frames of the sender the peer has not read; back,   *)
(* the frames of the peer; s, res and ms, the sender's locals, its last      *)
(* result and its payloads; r and del, the peer's recv and what it returned. *)

Alive(res) == res \in {"ok", "refused"}

\* f carries bytes of a payload that was sent: a Consecutive Frame is full unless it is
\* the last.
OfPayload(f, ms) ==
  /\ f.chunk.m \in DOMAIN ms
  /\ f.type = "SF" => f.chunk.from = 0 /\ f.chunk.n = ms[f.chunk.m]
  /\ f.type = "FF" => f.len = ms[f.chunk.m]
  /\ f.type = "CF" =>
       /\ f.chunk.n >= 1 /\ f.chunk.from + f.chunk.n <= ms[f.chunk.m]
       /\ f.chunk.n = NextBytes \/ f.chunk.from + f.chunk.n = ms[f.chunk.m]

Genuine(q, ms) == \A i \in DOMAIN q : q[i].type # "FC" => OfPayload(q[i], ms)

\* Nothing of a transfer comes after a First Frame; Consecutive Frames are of
\* one payload and in order.
Ordered(q) ==
  \A i, j \in DOMAIN q : i < j =>
    /\ q[i].type = "FF" => q[j].type \notin {"FF", "CF"}
    /\ q[i].type = "CF" /\ q[j].type = "CF" =>
         q[i].chunk.m = q[j].chunk.m /\ q[i].chunk.from + q[i].chunk.n <= q[j].chunk.from

\* Every chunk starts where the one before it ends.
Joined(buf) == \A i \in DOMAIN buf : i > 1 => buf[i].from = buf[i - 1].from + buf[i - 1].n

\* What is reassembled is of one payload, ends before the frames still to be
\* read, and has a gap only when bytes are missing.
Session(q, ms, r) ==
  /\ r.stage # "cf" => r.block = 0 /\ ~r.hold
  /\ r.stage = "cf" =>
       /\ r.buf # <<>>
       /\ \A i \in DOMAIN r.buf : r.buf[i].m = r.buf[1].m
       /\ r.buf[1].from = 0 /\ r.buf[1].m \in DOMAIN ms
       /\ r.length = ms[r.buf[1].m]
       /\ r.size <= End(r.buf) /\ End(r.buf) <= r.length
       /\ r.size = End(r.buf) => Joined(r.buf)
       /\ \A i \in DOMAIN q : q[i].type = "CF" =>
            q[i].chunk.m = r.buf[1].m /\ q[i].chunk.from >= End(r.buf)

\* A Wait is in force: the next frame is held back.
Paused(s) == s.stage = "wait_wait" \/ (s.stage = "cf" /\ s.fs = "Wait")

\* A flow control frame is due.
Expecting(s) == s.stage \in {"wait_first", "wait_block"} \/ Paused(s)

Sender(s, res, ms) ==
  s.stage # "idle" =>
    /\ Alive(res)
    /\ s.m \in DOMAIN ms /\ s.offset <= ms[s.m]
    /\ s.stage = "wait_first" => s.offset = FirstBytes
    /\ Paused(s) \/ s.stage = "go" => s.offset < ms[s.m]
    /\ s.stage = "go" => s.fs # "Wait"

Pending(q) == Cardinality(Cfs(q))

\* recv has nothing of payload s.m that s has not sent.
Behind(r, s) == r.stage = "cf" => r.buf[1].m = s.m /\ End(r.buf) <= s.offset

\* A flow control frame is due, and recv has everything s has sent.
UpToDate(q, s, ms, r) ==
  /\ Expecting(s) /\ s.offset < ms[s.m]
  /\ r.block = 0
  /\ \A i \in DOMAIN q : q[i].type \notin {"FF", "CF"}
  /\ r.stage = "cf" => r.buf[1].m = s.m /\ r.size = End(r.buf) /\ End(r.buf) = s.offset

\* Whose turn it is, while no send has failed: of two flow control frames on their way
\* the first says Wait and the second does not.
FlowInBack(q, back, s, ms, r) ==
  /\ \A i, j \in DOMAIN back : i < j /\ back[i].type = "FC" /\ back[j].type = "FC" =>
       back[i].fs = "Wait" /\ back[j].fs # "Wait"
  /\ r.hold \/ (\E i \in DOMAIN back : back[i].type = "FC") => UpToDate(q, s, ms, r)
  /\ \A i \in DOMAIN back : back[i].type = "FC" =>
       (Paused(s) => back[i].fs # "Wait") /\ (r.hold => back[i].fs = "Wait")

FirstWaits(q, s) ==
  \A i \in DOMAIN q : q[i].type = "FF" => s.stage = "wait_first" /\ q[i].chunk.m = s.m

\* As long as bytes are to come, what recv has and the frames of the block it has not
\* counted reach as far as s is, and past the frames that are unread.
Reach(q, s, r) ==
  r.stage = "cf" /\ End(r.buf) < r.length =>
    /\ s.offset + NextBytes * r.block <= r.size + NextBytes * s.block
    /\ \A i \in DOMAIN q : q[i].type = "CF" =>
         q[i].chunk.from + NextBytes + NextBytes * r.block <= r.size + NextBytes * s.block

InBlock(q, s, r) ==
  /\ s.stage \in {"cf", "go", "wait_wait", "wait_block"} =>
       /\ s.bs = BlockSize
       /\ \A i \in DOMAIN q : q[i].type = "CF" =>
            q[i].chunk.m = s.m /\ q[i].chunk.from + q[i].chunk.n <= s.offset
       /\ Behind(r, s)
       /\ BlockSize # 0 => Pending(q) + r.block <= s.block /\ Reach(q, s, r)
  /\ s.stage \in {"cf", "go", "wait_wait"} /\ BlockSize # 0 => s.block < BlockSize
  /\ s.stage = "wait_block" => BlockSize # 0 /\ s.block = BlockSize
  /\ s.stage \in {"idle", "wait_first"} /\ BlockSize # 0 => Pending(q) + r.block < BlockSize

Turn(q, back, s, ms, r) == FlowInBack(q, back, s, ms, r) /\ FirstWaits(q, s) /\ InBlock(q, s, r)

\* buf is exactly payload m of ms.
Whole(ms, m, buf) ==
  /\ \A i \in DOMAIN buf :
       /\ buf[i].m = m
       /\ buf[i].from = IF i = 1 THEN 0 ELSE buf[i - 1].from + buf[i - 1].n
  /\ buf # <<>> /\ End(buf) = ms[m]

Returned(ms, del) == \A buf \in del : \E m \in DOMAIN ms : Whole(ms, m, buf)

Dir(q, back, s, res, ms, r, del) ==
  /\ Genuine(q, ms) /\ Ordered(q)
  /\ Session(q, ms, r) /\ Sender(s, res, ms)
  /\ Alive(res) => Turn(q, back, s, ms, r)
  /\ BlockSize # 0 => Pending(q) <= BlockSize
  /\ Returned(ms, del)

DirOf(e) == Dir(rx[Peer(e)], rx[e], snd[e], result[e], sent[e], rcv[Peer(e)], delivered[Peer(e)])

\* Both directions, at every moment.
LibInv == \A e \in Ends : DirOf(e)

-----------------------------------------------------------------------------
(* The types are kept *)

LEMMA EndsFacts == \A e \in Ends : Peer(e) \in Ends /\ Peer(e) # e /\ Peer(Peer(e)) = e
                                   /\ \A x \in Ends : x = e \/ x = Peer(e)
BY IsoTpAssumption DEF Ends, Peer

LEMMA RestTyped ==
  ASSUME NEW e \in Ends, RxTyped(rx), rx[e] # <<>>
  PROVE  RxTyped(Rest(e))
<1>1. Tail(rx[e]) \in Seq(Frame) /\ Len(Tail(rx[e])) = Len(rx[e]) - 1 /\ Len(rx[e]) \in Nat
  BY DEF RxTyped
<1>2. Depth \in Nat
  BY IsoTpAssumption
<1> QED BY <1>1, <1>2 DEF RxTyped, Rest

LEMMA TransmitTyped ==
  ASSUME NEW e \in Ends, NEW f \in Frame, NEW in, RxTyped(in), lost \in 0..MaxLoss,
         Transmit(e, f, in)
  PROVE  RxTyped(rx') /\ lost' \in 0..MaxLoss
<1> MaxLoss \in Nat /\ Depth \in Nat
  BY IsoTpAssumption
<1> Peer(e) \in Ends
  BY EndsFacts
<1>1. CASE rx' = in
  BY <1>1 DEF Transmit
<1>2. CASE Len(in[Peer(e)]) < Depth /\ rx' = [in EXCEPT ![Peer(e)] = Append(@, f)] /\ lost' = lost
  <2>1. Append(in[Peer(e)], f) \in Seq(Frame) /\ Len(Append(in[Peer(e)], f)) = Len(in[Peer(e)]) + 1
        /\ Len(in[Peer(e)]) \in Nat
    BY DEF RxTyped
  <2> QED BY <1>2, <2>1 DEF RxTyped
<1> QED BY <1>1, <1>2 DEF Transmit

LEMMA FrameFacts ==
  ASSUME NEW f \in Frame
  PROVE  /\ f.type \in {"SF", "FF", "CF", "FC"}
         /\ f.type # "FC" => f.chunk \in ChunkSet
         /\ f.type = "FF" => /\ f.len \in (NextBytes + 1)..MaxPayload
                             /\ f.chunk.from = 0 /\ f.chunk.n = FirstBytes
         /\ f.type = "FC" => f.fs \in FlowStatus /\ f.bs = BlockSize
BY DEF Frame, ChunkSet, FirstBytes

LEMMA FramesMade ==
  /\ \A m, n \in Nat : SF(m, n) \in Frame
  /\ \A m \in Nat, len \in (NextBytes + 1)..MaxPayload : FF(m, len) \in Frame
  /\ \A m, from, n, sn \in Nat : CF(m, from, n, sn) \in Frame
  /\ \A fs \in FlowStatus : FC(fs) \in Frame
<1>1. ASSUME NEW m \in Nat, NEW n \in Nat PROVE SF(m, n) \in Frame
  BY DEF SF, Chunk, Frame, ChunkSet
<1>2. ASSUME NEW m \in Nat, NEW len \in (NextBytes + 1)..MaxPayload PROVE FF(m, len) \in Frame
  BY DEF FF, Chunk, Frame, FirstBytes
<1>3. ASSUME NEW m \in Nat, NEW from \in Nat, NEW n \in Nat, NEW sn \in Nat PROVE CF(m, from, n, sn) \in Frame
  BY DEF CF, Chunk, Frame, ChunkSet
<1>4. ASSUME NEW fs \in FlowStatus PROVE FC(fs) \in Frame
  BY <1>4 DEF FC, Frame
<1> QED BY <1>1, <1>2, <1>3, <1>4

LEMMA TypeInvTypeOK == TypeInv => TypeOK
BY DEF TypeInv, TypeOK, RxTyped, InPayload, Unfinished, SendState, RecvState, Length

LEMMA Idles == /\ SendIdle \in SendState /\ SendIdle.stage = "idle"
               /\ RecvIdle \in RecvState /\ RecvIdle.stage = "idle"
<1>1. "CTS" \in FlowStatus
  BY IsoTpAssumption
<1>2. <<>> \in Seq(ChunkSet)
  OBVIOUS
<1> QED BY <1>1, <1>2 DEF SendIdle, SendState, RecvIdle, RecvState, Stages

LEMMA InitTyped == Init => TypeInv
<1> SUFFICES ASSUME Init PROVE TypeInv
  OBVIOUS
<1>1. MaxLoss \in Nat /\ MaxWaits \in Nat /\ Depth \in Nat
  BY IsoTpAssumption
<1>2. RxTyped(rx)
  BY <1>1 DEF Init, RxTyped
<1>3. sent \in [Ends -> Seq(Nat)] /\ result \in [Ends -> Results] /\ delivered \in [Ends -> SUBSET Seq(ChunkSet)]
  BY DEF Init, Results
<1>4. snd \in [Ends -> SendState] /\ rcv \in [Ends -> RecvState]
  BY Idles DEF Init
<1>5. \A e \in Ends : InPayload(snd[e], sent[e]) /\ Unfinished(rcv[e])
  BY Idles DEF Init, InPayload, Unfinished
<1>6. closed \in BOOLEAN
  BY DEF Init
<1>7. lost \in 0..MaxLoss /\ waits \in 0..MaxWaits
  BY <1>1 DEF Init
<1> QED BY <1>2, <1>3, <1>4, <1>5, <1>6, <1>7 DEF TypeInv

\* send or recv has returned.
LEMMA SendReturnTyped ==
  ASSUME TypeInv, NEW e \in Ends, NEW r \in Results, SendReturn(e, r)
  PROVE  /\ snd' \in [Ends -> SendState] /\ result' \in [Ends -> Results]
         /\ \A x \in Ends : x # e => snd'[x] = snd[x]
         /\ snd'[e].stage = "idle" /\ \A ms : InPayload(snd'[e], ms)
BY Idles DEF TypeInv, SendReturn, InPayload

LEMMA RecvFailsTyped ==
  ASSUME TypeInv, NEW e \in Ends, RecvFails(e)
  PROVE  /\ rcv' \in [Ends -> RecvState] /\ delivered' = delivered
         /\ \A x \in Ends : Unfinished(rcv'[x])
<1>1. Unfinished(RecvIdle)
  BY Idles DEF Unfinished
<1> QED BY <1>1, Idles DEF TypeInv, RecvFails

LEMMA RecvReturnsTyped ==
  ASSUME TypeInv, NEW e \in Ends, NEW buf \in Seq(ChunkSet), RecvReturns(e, buf)
  PROVE  /\ rcv' \in [Ends -> RecvState] /\ delivered' \in [Ends -> SUBSET Seq(ChunkSet)]
         /\ \A x \in Ends : Unfinished(rcv'[x])
<1>1. Unfinished(RecvIdle)
  BY Idles DEF Unfinished
<1> QED BY <1>1, Idles DEF TypeInv, RecvReturns

LEMMA HeadTyped ==
  ASSUME TypeInv, NEW e \in Ends, rx[e] # <<>>
  PROVE  Head(rx[e]) \in Frame /\ Head(rx[e]) = rx[e][1] /\ 1 \in DOMAIN rx[e]
BY DEF TypeInv, RxTyped

\* What keeps a payload keeps it when more is sent.
LEMMA InPayloadAppend ==
  ASSUME NEW s, NEW ms \in Seq(Nat), NEW x \in Nat, InPayload(s, ms)
  PROVE  InPayload(s, Append(ms, x))
BY DEF InPayload

\* Actions that end a call of send, and touch nothing else but rx.
LEMMA ReturnTyped ==
  ASSUME TypeInv, NEW e \in Ends, NEW r \in Results, SendReturn(e, r),
         RxTyped(rx'), UNCHANGED <<closed, rcv, sent, delivered, lost, waits>>
  PROVE  TypeInv'
<1>1. \A x \in Ends : InPayload(snd'[x], sent'[x])
  BY SendReturnTyped DEF TypeInv
<1> QED BY <1>1, SendReturnTyped DEF TypeInv

LEMMA SendClosedTyped == ASSUME TypeInv, NEW e \in Ends, SendClosed(e) PROVE TypeInv'
<1>1. Append(sent[e], NextBytes) \in Seq(Nat)
  BY DEF TypeInv, NextBytes
<1>2. sent' \in [Ends -> Seq(Nat)] /\ \A x \in Ends : x # e => sent'[x] = sent[x]
  BY <1>1 DEF TypeInv, SendClosed
<1>3. SendReturn(e, "closed") /\ "closed" \in Results
  BY DEF SendClosed, Results
<1>4. \A x \in Ends : InPayload(snd'[x], sent'[x])
  BY <1>2, <1>3, SendReturnTyped DEF TypeInv
<1> QED BY <1>2, <1>3, <1>4, SendReturnTyped DEF TypeInv, SendClosed

LEMMA SendSingleTyped == ASSUME TypeInv, NEW e \in Ends, SendSingle(e) PROVE TypeInv'
<1>1. PICK len \in Lengths :
        /\ len \in 1..NextBytes
        /\ sent' = [sent EXCEPT ![e] = Append(@, len)]
        /\ Transmit(e, SF(Len(sent[e]) + 1, len), rx)
  BY DEF SendSingle
<1>2. len \in Nat /\ Len(sent[e]) + 1 \in Nat
  BY <1>1 DEF TypeInv, NextBytes
<1>3. sent' \in [Ends -> Seq(Nat)] /\ \A x \in Ends : x # e => sent'[x] = sent[x]
  BY <1>1, <1>2 DEF TypeInv
<1>4. SendReturn(e, "ok") /\ "ok" \in Results
  BY DEF SendSingle, Results
<1>5. \A x \in Ends : InPayload(snd'[x], sent'[x])
  BY <1>3, <1>4, SendReturnTyped DEF TypeInv
<1>6. SF(Len(sent[e]) + 1, len) \in Frame
  BY <1>2, FramesMade
<1>7. RxTyped(rx') /\ lost' \in 0..MaxLoss
  BY <1>1, <1>6, TransmitTyped DEF TypeInv
<1> QED BY <1>3, <1>4, <1>5, <1>7, SendReturnTyped DEF TypeInv, SendSingle

LEMMA SendFirstTyped == ASSUME TypeInv, NEW e \in Ends, SendFirst(e) PROVE TypeInv'
<1>1. PICK len \in Lengths :
        /\ len \in (NextBytes + 1)..MaxPayload
        /\ sent' = [sent EXCEPT ![e] = Append(@, len)]
        /\ Transmit(e, FF(Len(sent[e]) + 1, len), rx)
  BY DEF SendFirst
<1>2. len \in Nat /\ len >= NextBytes + 1 /\ Len(sent[e]) + 1 \in Nat
  BY <1>1 DEF TypeInv, NextBytes, MaxPayload
<1>3. sent' \in [Ends -> Seq(Nat)] /\ \A x \in Ends : x # e => sent'[x] = sent[x]
  BY <1>1, <1>2 DEF TypeInv
<1>4. sent'[e] = Append(sent[e], len) /\ Len(sent[e]) + 1 \in DOMAIN sent'[e]
      /\ sent'[e][Len(sent[e]) + 1] = len
  BY <1>1, <1>2 DEF TypeInv
<1> DEFINE s2 == [SendIdle EXCEPT !.stage = "wait_first", !.m = Len(sent[e]) + 1,
                                 !.offset = FirstBytes, !.sn = 1]
<1>5. s2 \in SendState /\ s2.stage = "wait_first" /\ s2.m = Len(sent[e]) + 1 /\ s2.offset = FirstBytes
  BY <1>2, IsoTpAssumption DEF SendIdle, SendState, Stages, FirstBytes
<1>6. snd' = [snd EXCEPT ![e] = s2]
  BY DEF SendFirst
<1> HIDE DEF s2
<1>7. snd' \in [Ends -> SendState] /\ snd'[e] = s2 /\ \A x \in Ends : x # e => snd'[x] = snd[x]
  BY <1>5, <1>6 DEF TypeInv
<1>8. InPayload(s2, sent'[e])
  BY <1>2, <1>4, <1>5 DEF InPayload, FirstBytes, NextBytes
<1>9. \A x \in Ends : InPayload(snd'[x], sent'[x])
  BY <1>3, <1>7, <1>8 DEF TypeInv
<1>10. FF(Len(sent[e]) + 1, len) \in Frame
  BY <1>1, <1>2, FramesMade
<1>11. RxTyped(rx') /\ lost' \in 0..MaxLoss
  BY <1>1, <1>10, TransmitTyped DEF TypeInv
<1> QED BY <1>3, <1>7, <1>9, <1>11 DEF TypeInv, SendFirst

LEMMA SendHoldTyped == ASSUME TypeInv, NEW e \in Ends, SendHold(e) PROVE TypeInv'
<1> DEFINE s2 == [snd[e] EXCEPT !.stage = "wait_wait"]
<1>1. s2 \in SendState /\ s2.m = snd[e].m /\ s2.offset = snd[e].offset /\ snd[e].stage # "idle"
  BY DEF TypeInv, SendState, SendHold, Stages
<1>2. snd' = [snd EXCEPT ![e] = s2]
  BY DEF SendHold, TypeInv
<1> HIDE DEF s2
<1>3. snd' \in [Ends -> SendState] /\ snd'[e] = s2 /\ \A x \in Ends : x # e => snd'[x] = snd[x]
  BY <1>1, <1>2 DEF TypeInv
<1>4. InPayload(s2, sent[e])
  BY <1>1 DEF InPayload, TypeInv
<1>5. \A x \in Ends : InPayload(snd'[x], sent[x])
  BY <1>3, <1>4 DEF TypeInv
<1> QED BY <1>3, <1>5 DEF TypeInv, SendHold

LEMMA TakeFcTyped == ASSUME TypeInv, NEW e \in Ends, TakeFc(e) PROVE TypeInv'
<1> DEFINE f == Head(rx[e])
           s == snd[e]
           s2 == [s EXCEPT !.fs = f.fs, !.bs = f.bs, !.block = 0,
                           !.stage = IF s.stage = "wait_wait" THEN "go" ELSE "cf"]
<1>0. rx[e] # <<>> /\ f.type = "FC" /\ snd' = [snd EXCEPT ![e] = s2]
  BY DEF TakeFc
<1>1. f.fs \in FlowStatus /\ f.bs = BlockSize
  <2>1. f \in Frame
    BY <1>0, HeadTyped
  <2> HIDE DEF f
  <2> QED BY <1>0, <2>1, FrameFacts
<1>b. BlockSize \in Nat
  BY IsoTpAssumption
<1>2. s \in SendState /\ s.stage # "idle"
  BY DEF TypeInv, TakeFc, Waiting
<1>3. s2 \in SendState /\ s2.m = s.m /\ s2.offset = s.offset
  BY <1>1, <1>2, <1>b DEF SendState, Stages
<1>5. InPayload(s, sent[e])
  BY DEF TypeInv
<1> HIDE DEF s2
<1>6. snd' \in [Ends -> SendState] /\ snd'[e] = s2 /\ \A x \in Ends : x # e => snd'[x] = snd[x]
  BY <1>0, <1>3 DEF TypeInv
<1>7. InPayload(s2, sent[e])
  BY <1>2, <1>3, <1>5 DEF InPayload
<1>8. \A x \in Ends : InPayload(snd'[x], sent[x])
  BY <1>6, <1>7 DEF TypeInv
<1>9. RxTyped(rx')
  BY RestTyped DEF TypeInv, TakeFc
<1> QED BY <1>6, <1>8, <1>9 DEF TypeInv, TakeFc

LEMMA SendNextTyped == ASSUME TypeInv, NEW e \in Ends, SendNext(e) PROVE TypeInv'
<1> DEFINE s == snd[e]
           n == AtMost(NextBytes, Length(e) - s.offset)
           f == CF(s.m, s.offset, n, s.sn % SnModulus)
           s2 == [s EXCEPT !.offset = @ + n, !.sn = (@ + 1) % 256, !.block = @ + 1,
                           !.stage = IF BlockDone(s) THEN "wait_block" ELSE "cf"]
<1>1. s \in SendState /\ s.stage # "idle"
  BY DEF TypeInv, SendNext, MayPut
<1>2. s.m \in DOMAIN sent[e] /\ s.offset <= sent[e][s.m]
  BY <1>1 DEF TypeInv, InPayload
<1>3. s.m \in Nat /\ s.offset \in Nat /\ s.sn \in Nat /\ s.block \in Nat /\ Length(e) \in Nat
  <2>1. sent[e] \in Seq(Nat)
    BY DEF TypeInv
  <2> QED BY <1>1, <1>2, <2>1 DEF SendState, Length
<1>4. n \in Nat /\ s.offset + n <= Length(e)
  BY <1>2, <1>3 DEF AtMost, NextBytes, Length
<1>5. SnModulus \in Nat \ {0} /\ s.sn % SnModulus \in Nat
  BY <1>3, IsoTpAssumption
<1>6. Transmit(e, f, rx) /\ snd' = [snd EXCEPT ![e] = s2]
  BY DEF SendNext
<1> HIDE DEF n
<1>7. s2 \in SendState /\ s2.m = s.m /\ s2.offset = s.offset + n
  <2>1. s.offset + n \in Nat /\ (s.sn + 1) % 256 \in Nat /\ s.block + 1 \in Nat
    BY <1>3, <1>4
  <2> QED BY ZenonT(60), <1>1, <2>1 DEF SendState, Stages
<1>8. f \in Frame
  BY <1>3, <1>4, <1>5, FramesMade
<1> HIDE DEF s2, f
<1>9. snd' \in [Ends -> SendState] /\ snd'[e] = s2 /\ \A x \in Ends : x # e => snd'[x] = snd[x]
  BY <1>6, <1>7 DEF TypeInv
<1>10. InPayload(s2, sent[e])
  BY <1>2, <1>4, <1>7 DEF InPayload, Length
<1>11. \A x \in Ends : InPayload(snd'[x], sent[x])
  BY <1>9, <1>10 DEF TypeInv
<1>12. RxTyped(rx') /\ lost' \in 0..MaxLoss
  BY <1>6, <1>8, TransmitTyped DEF TypeInv
<1> QED BY <1>9, <1>11, <1>12 DEF TypeInv, SendNext

\* Actions that end a call of recv with an error.
LEMMA FailTyped ==
  ASSUME TypeInv, NEW e \in Ends, RecvFails(e), RxTyped(rx'),
         UNCHANGED <<closed, snd, sent, result, lost, waits>>
  PROVE  TypeInv'
BY RecvFailsTyped DEF TypeInv

\* recv goes on with r2.
LEMMA RecvOnTyped ==
  ASSUME TypeInv, NEW e \in Ends, NEW r2 \in RecvState, Unfinished(r2),
         rcv' = [rcv EXCEPT ![e] = r2], RxTyped(rx'), lost' \in 0..MaxLoss, waits' \in 0..MaxWaits,
         UNCHANGED <<closed, snd, sent, result, delivered>>
  PROVE  TypeInv'
<1>1. rcv' \in [Ends -> RecvState] /\ \A x \in Ends : Unfinished(rcv'[x])
  BY DEF TypeInv
<1> QED BY <1>1 DEF TypeInv

LEMMA ReturnBufTyped ==
  ASSUME TypeInv, NEW e \in Ends, NEW buf \in Seq(ChunkSet), RecvReturns(e, buf), RxTyped(rx'),
         UNCHANGED <<closed, snd, sent, result, lost, waits>>
  PROVE  TypeInv'
BY RecvReturnsTyped DEF TypeInv

LEMMA RecvFirstTyped == ASSUME TypeInv, NEW e \in Ends, RecvFirst(e) PROVE TypeInv'
<1> DEFINE f == Head(rx[e])
<1>1. rx[e] # <<>> /\ UNCHANGED <<closed, snd, sent, result, waits>>
  BY DEF RecvFirst
<1>2. RxTyped(Rest(e))
  BY <1>1, RestTyped DEF TypeInv
<1>3. f \in Frame
  BY <1>1, HeadTyped
<1>4. CASE f.type = "SF" /\ RecvReturns(e, <<f.chunk>>) /\ rx' = Rest(e) /\ UNCHANGED lost
  <2> HIDE DEF f
  <2>1. <<f.chunk>> \in Seq(ChunkSet)
    BY <1>3, <1>4, FrameFacts
  <2> QED BY <1>1, <1>2, <1>4, <2>1, ReturnBufTyped
<1>5. ASSUME f.type = "FF", UNCHANGED delivered, NEW fs \in FlowStatus, Transmit(e, FC(fs), Rest(e)),
             rcv' = [rcv EXCEPT ![e] = [RecvIdle EXCEPT !.stage = "cf", !.buf = <<f.chunk>>,
                         !.size = f.chunk.n, !.sn = 1, !.length = f.len, !.hold = (fs = "Wait")]]
      PROVE  TypeInv'
  <2> DEFINE r2 == [RecvIdle EXCEPT !.stage = "cf", !.buf = <<f.chunk>>,
                         !.size = f.chunk.n, !.sn = 1, !.length = f.len, !.hold = (fs = "Wait")]
  <2>1. rcv' = [rcv EXCEPT ![e] = r2]
    BY <1>5
  <2> HIDE DEF f
  <2>2. f.chunk \in ChunkSet /\ f.len \in Nat /\ f.chunk.n = FirstBytes /\ FirstBytes < f.len
        /\ FirstBytes \in Nat
    <3>1. f.type = "FF"
      BY <1>5
    <3>2. f.chunk \in ChunkSet /\ f.len \in (NextBytes + 1)..MaxPayload /\ f.chunk.n = FirstBytes
      BY <1>3, <3>1, FrameFacts
    <3>3. \A k \in (NextBytes + 1)..MaxPayload : k \in Nat /\ FirstBytes < k
      BY DEF MaxPayload, FirstBytes, NextBytes
    <3>4. FirstBytes \in Nat
      BY DEF FirstBytes
    <3> QED BY <3>2, <3>3, <3>4
  <2>3. <<f.chunk>> \in Seq(ChunkSet) /\ (fs = "Wait") \in BOOLEAN
    BY <2>2
  <2>4. r2 \in RecvState /\ r2.stage = "cf" /\ r2.size = FirstBytes /\ r2.length = f.len
    BY <2>2, <2>3 DEF RecvIdle, RecvState
  <2> HIDE DEF r2
  <2>5. RxTyped(rx') /\ lost' \in 0..MaxLoss
    BY <1>2, <1>5, FramesMade, TransmitTyped DEF TypeInv
  <2>6. waits' \in 0..MaxWaits
    BY <1>1 DEF TypeInv
  <2>7. Unfinished(r2)
    BY <2>2, <2>4 DEF Unfinished
  <2> QED BY <1>1, <1>5, <2>1, <2>4, <2>5, <2>6, <2>7, RecvOnTyped
<1>6. CASE RecvFails(e) /\ rx' = Rest(e) /\ UNCHANGED lost
  BY <1>1, <1>2, <1>6, FailTyped
<1> QED BY <1>4, <1>5, <1>6 DEF RecvFirst

LEMMA ModNat == \A x \in Nat, k \in Nat \ {0} : x % k \in Nat
OBVIOUS

\* recv has taken a frame, and answered it.
Taken(r, buf, size, sn, block) == [r EXCEPT !.buf = buf, !.size = size, !.sn = sn, !.block = block]
Answered(r, buf, size, sn, hold) ==
  [r EXCEPT !.buf = buf, !.size = size, !.sn = sn, !.block = 0, !.hold = hold]

LEMMA TakenTyped ==
  \A r \in RecvState, buf \in Seq(ChunkSet), size, sn, block \in Nat :
    /\ Taken(r, buf, size, sn, block) \in RecvState
    /\ Taken(r, buf, size, sn, block).size = size
    /\ Taken(r, buf, size, sn, block).length = r.length
<1> SUFFICES ASSUME NEW r \in RecvState, NEW buf \in Seq(ChunkSet), NEW size \in Nat, NEW sn \in Nat,
                    NEW block \in Nat
             PROVE  /\ Taken(r, buf, size, sn, block) \in RecvState
                    /\ Taken(r, buf, size, sn, block).size = size
                    /\ Taken(r, buf, size, sn, block).length = r.length
  OBVIOUS
<1> QED BY DEF RecvState, Taken

LEMMA AnsweredTyped ==
  \A r \in RecvState, buf \in Seq(ChunkSet), size, sn \in Nat, hold \in BOOLEAN :
    /\ Answered(r, buf, size, sn, hold) \in RecvState
    /\ Answered(r, buf, size, sn, hold).size = size
    /\ Answered(r, buf, size, sn, hold).length = r.length
<1> SUFFICES ASSUME NEW r \in RecvState, NEW buf \in Seq(ChunkSet), NEW size \in Nat, NEW sn \in Nat,
                    NEW hold \in BOOLEAN
             PROVE  /\ Answered(r, buf, size, sn, hold) \in RecvState
                    /\ Answered(r, buf, size, sn, hold).size = size
                    /\ Answered(r, buf, size, sn, hold).length = r.length
  OBVIOUS
<1> QED BY DEF RecvState, Answered

LEMMA RecvNextTyped == ASSUME TypeInv, NEW e \in Ends, RecvNext(e) PROVE TypeInv'
<1> DEFINE r == rcv[e]
           c == Head(rx[e]).chunk
           n == AtMost(c.n, r.length - r.size)
           buf == Append(r.buf, [c EXCEPT !.n = n])
<1>1. /\ r.stage = "cf" /\ rx[e] # <<>> /\ Head(rx[e]).type = "CF"
      /\ UNCHANGED <<closed, snd, sent, result, waits>>
  BY DEF RecvNext
<1>2. RxTyped(Rest(e))
  BY <1>1, RestTyped DEF TypeInv
<1>3. c \in ChunkSet
  BY <1>1, HeadTyped, FrameFacts
<1>4. r \in RecvState /\ r.size < r.length
  BY <1>1 DEF TypeInv, Unfinished
<1>5. r.size \in Nat /\ r.length \in Nat /\ r.sn \in Nat /\ r.block \in Nat /\ r.buf \in Seq(ChunkSet)
  BY <1>4 DEF RecvState
<1>6. n \in Nat /\ r.size + n \in Nat
  <2>1. c.n \in Nat
    BY <1>3 DEF ChunkSet
  <2> HIDE DEF c, r
  <2> QED BY <2>1, <1>4, <1>5 DEF AtMost
<1>7. (r.sn + 1) % 256 \in Nat /\ r.block + 1 \in Nat
  BY SMTT(30), <1>5, ModNat
<1> HIDE DEF n
<1>8. buf \in Seq(ChunkSet)
  <2>1. [c EXCEPT !.n = n] \in ChunkSet
    BY <1>3, <1>6 DEF ChunkSet
  <2> QED BY <1>5, <2>1
<1>9. CASE RecvReturns(e, buf) /\ rx' = Rest(e) /\ UNCHANGED lost
  <2> HIDE DEF buf
  <2> QED BY <1>1, <1>2, <1>8, <1>9, ReturnBufTyped
<1> HIDE DEF buf
<1>10. ASSUME NEW r2 \in RecvState, r2.size = r.size + n, r2.length = r.length,
              More(r, r.size + n), rcv' = [rcv EXCEPT ![e] = r2],
              RxTyped(rx'), lost' \in 0..MaxLoss, UNCHANGED delivered
       PROVE  TypeInv'
  <2>1. Unfinished(r2)
    BY <1>10 DEF More, Unfinished
  <2>2. waits' \in 0..MaxWaits
    BY <1>1 DEF TypeInv
  <2> QED BY <1>1, <1>10, <2>1, <2>2, RecvOnTyped
<1>11. CASE /\ More(r, r.size + n)
            /\ rcv' = [rcv EXCEPT ![e] = [r EXCEPT !.buf = buf, !.size = @ + n, !.sn = (@ + 1) % 256,
                                          !.block = IF BlockSize # 0 THEN @ + 1 ELSE @]]
            /\ rx' = Rest(e) /\ UNCHANGED <<delivered, lost, waits>>
  <2> DEFINE r2 == Taken(r, buf, r.size + n, (r.sn + 1) % 256,
                             IF BlockSize # 0 THEN r.block + 1 ELSE r.block)
  <2>1. rcv' = [rcv EXCEPT ![e] = r2]
    BY <1>11 DEF Taken
  <2>2. (IF BlockSize # 0 THEN r.block + 1 ELSE r.block) \in Nat
    BY <1>5, <1>7
  <2>3. r2 \in RecvState /\ r2.size = r.size + n /\ r2.length = r.length
    <3> HIDE DEF r
    <3>1. PICK size \in Nat : size = r.size + n
      BY <1>6
    <3>2. PICK sn \in Nat : sn = (r.sn + 1) % 256
      BY <1>7
    <3>3. PICK block \in Nat : block = IF BlockSize # 0 THEN r.block + 1 ELSE r.block
      BY <2>2
    <3>4. r2 = Taken(r, buf, size, sn, block)
      BY <3>1, <3>2, <3>3
    <3> HIDE DEF r2
    <3>5. r \in RecvState
      BY <1>4
    <3>6. /\ Taken(r, buf, size, sn, block) \in RecvState
          /\ Taken(r, buf, size, sn, block).size = size
          /\ Taken(r, buf, size, sn, block).length = r.length
      BY <1>8, <3>5, TakenTyped
    <3> QED BY <3>1, <3>4, <3>6
  <2> HIDE DEF r2
  <2>4. RxTyped(rx') /\ lost' \in 0..MaxLoss
    BY <1>2, <1>11 DEF TypeInv
  <2> QED BY <1>10, <1>11, <2>1, <2>3, <2>4
<1>12. ASSUME NEW fs \in FlowStatus, More(r, r.size + n), Transmit(e, FC(fs), Rest(e)),
              rcv' = [rcv EXCEPT ![e] = [r EXCEPT !.buf = buf, !.size = @ + n, !.sn = (@ + 1) % 256,
                                               !.block = 0, !.hold = (fs = "Wait")]],
              UNCHANGED delivered
       PROVE  TypeInv'
  <2> DEFINE r2 == Answered(r, buf, r.size + n, (r.sn + 1) % 256, fs = "Wait")
  <2>1. rcv' = [rcv EXCEPT ![e] = r2]
    BY <1>12 DEF Answered
  <2>2. (fs = "Wait") \in BOOLEAN
    OBVIOUS
  <2>3. r2 \in RecvState /\ r2.size = r.size + n /\ r2.length = r.length
    <3> HIDE DEF r
    <3>1. PICK size \in Nat : size = r.size + n
      BY <1>6
    <3>2. PICK sn \in Nat : sn = (r.sn + 1) % 256
      BY <1>7
    <3>3. PICK hold \in BOOLEAN : hold = (fs = "Wait")
      BY <2>2
    <3>4. r2 = Answered(r, buf, size, sn, hold)
      BY <3>1, <3>2, <3>3
    <3> HIDE DEF r2
    <3>5. r \in RecvState
      BY <1>4
    <3>6. r2 \in RecvState /\ r2.size = size /\ r2.length = r.length
      BY <1>8, <3>4, <3>5, AnsweredTyped
    <3> QED BY <3>1, <3>6
  <2> HIDE DEF r2
  <2>4. RxTyped(rx') /\ lost' \in 0..MaxLoss
    BY <1>2, <1>12, FramesMade, TransmitTyped DEF TypeInv
  <2> QED BY <1>10, <1>12, <2>1, <2>3, <2>4
<1>13. CASE RecvFails(e) /\ rx' = Rest(e) /\ UNCHANGED lost
  BY <1>1, <1>2, <1>13, FailTyped
<1> QED
  <2> USE DEF buf, n
  <2> QED BY <1>9, <1>11, <1>12, <1>13 DEF RecvNext

LEMMA ResumeTyped == ASSUME TypeInv, NEW e \in Ends, Resume(e) PROVE TypeInv'
<1>0. PICK fs \in AfterWait : Transmit(e, FC(fs), rx) /\ rcv' = [rcv EXCEPT ![e].hold = (fs = "Wait")]
  BY DEF Resume
<1>1. fs \in FlowStatus /\ Transmit(e, FC(fs), rx) /\ rcv' = [rcv EXCEPT ![e].hold = (fs = "Wait")]
  BY <1>0, IsoTpAssumption
<1> DEFINE r2 == [rcv[e] EXCEPT !.hold = (fs = "Wait")]
<1>2. rcv' = [rcv EXCEPT ![e] = r2]
  BY <1>1 DEF TypeInv
<1>3. rcv[e] \in RecvState /\ Unfinished(rcv[e])
  BY DEF TypeInv
<1>4. r2 \in RecvState /\ r2.stage = rcv[e].stage /\ r2.size = rcv[e].size /\ r2.length = rcv[e].length
  BY <1>3 DEF RecvState
<1> HIDE DEF r2
<1>5. Unfinished(r2)
  BY <1>3, <1>4 DEF Unfinished
<1>6. RxTyped(rx') /\ lost' \in 0..MaxLoss
  BY <1>1, FramesMade, TransmitTyped DEF TypeInv
<1>7. waits' \in 0..MaxWaits
  BY IsoTpAssumption DEF TypeInv, Resume
<1> QED BY <1>2, <1>4, <1>5, <1>6, <1>7, RecvOnTyped DEF Resume

LEMMA RecvCallTyped == ASSUME TypeInv, NEW e \in Ends, RecvCall(e) PROVE TypeInv'
<1> DEFINE r2 == [rcv[e] EXCEPT !.stage = "first"]
<1>1. rcv' = [rcv EXCEPT ![e] = r2] /\ rcv[e] \in RecvState
  BY DEF TypeInv, RecvCall
<1>2. r2 \in RecvState /\ r2.stage = "first"
  BY <1>1 DEF RecvState
<1> HIDE DEF r2
<1>3. Unfinished(r2)
  BY <1>2 DEF Unfinished
<1> QED BY <1>1, <1>2, <1>3, RecvOnTyped DEF RecvCall, TypeInv

LEMMA NextTyped == ASSUME TypeInv, [Next]_vars PROVE TypeInv'
<1>1. ASSUME NEW e \in Ends, SendStep(e) PROVE TypeInv'
  <2>1. \A r \in {"refused", "ok", "closed", "no_buffer_space", "aborted", "timeout"} : r \in Results
    BY DEF Results
  <2>2. CASE SendDone(e) \/ SendNextClosed(e) \/ WaitFcAborted(e)
    BY <2>1, <2>2, ReturnTyped DEF SendDone, SendNextClosed, WaitFcAborted, TypeInv
  <2>3. CASE Overflow(e)
    BY <2>1, <2>3, RestTyped, ReturnTyped DEF Overflow, TypeInv
  <2>4. CASE DiscardFrame(e)
    BY <2>4, RestTyped DEF DiscardFrame, TypeInv
  <2> QED BY <1>1, <2>2, <2>3, <2>4, SendHoldTyped, SendNextTyped, TakeFcTyped DEF SendStep
<1>2. ASSUME NEW e \in Ends, RecvStep(e) PROVE TypeInv'
  <2>1. CASE SkipFrame(e)
    BY <2>1, RestTyped DEF SkipFrame, TypeInv
  <2>2. CASE BadSequence(e)
    BY <2>2, RestTyped, FailTyped DEF BadSequence, TypeInv
  <2>3. CASE RecvAborted(e)
    BY <2>3, FailTyped DEF RecvAborted, TypeInv
  <2> QED BY <1>2, <2>1, <2>2, <2>3, RecvFirstTyped, RecvNextTyped DEF RecvStep
<1>3. ASSUME NEW e \in Ends, SendRefused(e) \/ SendTimeout(e) PROVE TypeInv'
  <2>1. "refused" \in Results /\ "timeout" \in Results
    BY DEF Results
  <2> QED BY <1>3, <2>1, ReturnTyped DEF SendRefused, SendTimeout, TypeInv
<1>4. ASSUME NEW e \in Ends, RecvTimeout(e) PROVE TypeInv'
  BY <1>4, FailTyped DEF RecvTimeout, TypeInv
<1>5. CASE CloseBus
  BY <1>5 DEF CloseBus, TypeInv
<1>6. CASE UNCHANGED vars
  BY <1>6 DEF vars, TypeInv
<1> QED
  BY <1>1, <1>2, <1>3, <1>4, <1>5, <1>6, SendClosedTyped, SendSingleTyped, SendFirstTyped,
     RecvCallTyped, ResumeTyped DEF Next

\* What the two loops keep: the offset never runs past the payload, and what is
\* reassembled never past the announced length, whatever the peer answers and
\* whatever the medium loses.
THEOREM Types == Spec => []TypeOK
<1>1. TypeInv /\ [Next]_vars => TypeInv'
  BY NextTyped
<1>2. Spec => []TypeInv
  BY InitTyped, <1>1, PTL DEF Spec
<1> QED BY <1>2, TypeInvTypeOK, PTL

-----------------------------------------------------------------------------
(* Lemmas about frames in a channel *)

LEMMA InChannel ==
  ASSUME NEW q \in Seq(Frame), NEW i \in DOMAIN q
  PROVE  /\ i \in Nat /\ i >= 1 /\ i <= Len(q) /\ Len(q) \in Nat
         /\ q[i] \in Frame
         /\ q[i].type \in {"SF", "FF", "CF", "FC"}
         /\ q[i].type # "FC" => q[i].chunk.m \in Nat /\ q[i].chunk.from \in Nat /\ q[i].chunk.n \in Nat
<1>1. i \in Nat /\ i >= 1 /\ i <= Len(q) /\ Len(q) \in Nat /\ q[i] \in Frame
  OBVIOUS
<1> QED BY <1>1, FrameFacts DEF ChunkSet

\* The data frames, or the flow control frames, of q2 are frames of q, in the same order.
Part(q2, q) ==
  \E d \in {0, 1} : \A i \in DOMAIN q2 :
    q2[i].type # "FC" => i + d \in DOMAIN q /\ q2[i] = q[i + d]
PartFc(q2, q) ==
  \E d \in {0, 1} : \A i \in DOMAIN q2 :
    q2[i].type = "FC" => i + d \in DOMAIN q /\ q2[i] = q[i + d]

LEMMA PartSelf == ASSUME NEW q \in Seq(Frame) PROVE Part(q, q) /\ PartFc(q, q)
<1>1. \A i \in DOMAIN q : i + 0 \in DOMAIN q /\ q[i] = q[i + 0]
  BY InChannel
<1> QED BY <1>1 DEF Part, PartFc

LEMMA TailFacts ==
  ASSUME NEW q \in Seq(Frame), q # <<>>
  PROVE  /\ Tail(q) \in Seq(Frame) /\ Head(q) = q[1] /\ 1 \in DOMAIN q
         /\ \A i \in DOMAIN Tail(q) : i \in Nat /\ i >= 1 /\ i + 1 \in DOMAIN q /\ Tail(q)[i] = q[i + 1]
OBVIOUS

LEMMA PartTail == ASSUME NEW q \in Seq(Frame), q # <<>> PROVE Part(Tail(q), q) /\ PartFc(Tail(q), q)
BY TailFacts DEF Part, PartFc

LEMMA AppendFacts ==
  ASSUME NEW q \in Seq(Frame), NEW f \in Frame
  PROVE  /\ Append(q, f) \in Seq(Frame)
         /\ Len(q) \in Nat /\ Len(q) + 1 \in DOMAIN Append(q, f) /\ Append(q, f)[Len(q) + 1] = f
         /\ \A i \in DOMAIN q : i \in DOMAIN Append(q, f) /\ Append(q, f)[i] = q[i]
         /\ \A i \in DOMAIN Append(q, f) : i \in DOMAIN q \/ i = Len(q) + 1
         /\ \A i \in DOMAIN q : i \in Nat /\ i <= Len(q)
OBVIOUS

LEMMA PartAppend ==
  ASSUME NEW q2 \in Seq(Frame), NEW q, NEW f \in Frame
  PROVE  /\ Part(q2, q) /\ f.type = "FC" => Part(Append(q2, f), q)
         /\ PartFc(q2, q) /\ f.type # "FC" => PartFc(Append(q2, f), q)
<1>1. ASSUME Part(q2, q), f.type = "FC" PROVE Part(Append(q2, f), q)
  BY <1>1, AppendFacts DEF Part
<1>2. ASSUME PartFc(q2, q), f.type # "FC" PROVE PartFc(Append(q2, f), q)
  BY <1>2, AppendFacts DEF PartFc
<1> QED BY <1>1, <1>2

LEMMA CfsFinite ==
  ASSUME NEW q \in Seq(Frame)
  PROVE  IsFiniteSet(Cfs(q)) /\ Pending(q) \in Nat
<1>1. IsFiniteSet(1..Len(q))
  BY FS_Interval
<1>2. Cfs(q) \subseteq 1..Len(q)
  BY DEF Cfs
<1>3. IsFiniteSet(Cfs(q))
  BY <1>1, <1>2, FS_Subset
<1> QED BY <1>3, FS_CardinalityType DEF Pending

LEMMA PendingPart ==
  ASSUME NEW q2 \in Seq(Frame), NEW q \in Seq(Frame), Part(q2, q)
  PROVE  Pending(q2) <= Pending(q)
<1>1. PICK d \in {0, 1} : \A i \in DOMAIN q2 :
        q2[i].type # "FC" => i + d \in DOMAIN q /\ q2[i] = q[i + d]
  BY DEF Part
<1> DEFINE g == [i \in Cfs(q2) |-> i + d]
<1>2. \A i \in Cfs(q2) : i \in Nat /\ i + d \in Cfs(q)
  BY <1>1, InChannel DEF Cfs
<1>3. g \in Injection(Cfs(q2), Cfs(q))
  BY <1>2 DEF Injection, IsInjective
<1> QED BY <1>3, CfsFinite, FS_Injection DEF Pending

LEMMA PendingTail ==
  ASSUME NEW q \in Seq(Frame), q # <<>>, Head(q).type = "CF"
  PROVE  Pending(Tail(q)) + 1 <= Pending(q)
<1> DEFINE g == [i \in Cfs(Tail(q)) |-> i + 1]
           T == Cfs(q) \ {1}
<1>1. 1 \in Cfs(q)
  BY TailFacts DEF Cfs
<1>2. \A i \in Cfs(Tail(q)) : i \in Nat /\ i >= 1 /\ i + 1 \in T
  BY TailFacts DEF Cfs
<1>3. g \in Injection(Cfs(Tail(q)), T)
  BY <1>2 DEF Injection, IsInjective
<1>4. IsFiniteSet(T) /\ Cardinality(T) = Cardinality(Cfs(q)) - 1
  BY <1>1, CfsFinite, FS_RemoveElement
<1>5. Cardinality(Cfs(Tail(q))) <= Cardinality(T)
  BY <1>3, <1>4, FS_Injection
<1>6. Tail(q) \in Seq(Frame)
  BY TailFacts
<1>7. Pending(q) \in Nat /\ Pending(Tail(q)) \in Nat
  BY <1>6, CfsFinite
<1> QED BY <1>4, <1>5, <1>7 DEF Pending

LEMMA PendingAppend ==
  ASSUME NEW q \in Seq(Frame), NEW f \in Frame
  PROVE  /\ Pending(Append(q, f)) <= Pending(q) + 1
         /\ f.type # "CF" => Pending(Append(q, f)) = Pending(q)
<1>1. CASE f.type # "CF"
  <2>1. Cfs(Append(q, f)) = Cfs(q)
    BY <1>1, AppendFacts DEF Cfs
  <2> QED BY <2>1, <1>1, CfsFinite DEF Pending
<1>2. CASE f.type = "CF"
  <2>1. Cfs(Append(q, f)) = Cfs(q) \cup {Len(q) + 1}
    BY <1>2, AppendFacts DEF Cfs
  <2>2. Len(q) + 1 \notin Cfs(q)
    BY DEF Cfs
  <2>3. Cardinality(Cfs(Append(q, f))) = Cardinality(Cfs(q)) + 1
    BY <2>1, <2>2, CfsFinite, FS_AddElement
  <2> QED BY <1>2, <2>3, CfsFinite DEF Pending
<1> QED BY <1>1, <1>2

-----------------------------------------------------------------------------
(* Steps that add no data frame of this direction, and no answer to one *)

\* ms2 is ms, perhaps with one more payload.
Grown(ms, ms2) == \A i \in DOMAIN ms : i \in DOMAIN ms2 /\ ms2[i] = ms[i]

LEMMA GenuinePart ==
  ASSUME NEW q, NEW q2, NEW ms, NEW ms2, Genuine(q, ms), Part(q2, q), Grown(ms, ms2)
  PROVE  Genuine(q2, ms2)
<1>1. PICK d \in {0, 1} : \A i \in DOMAIN q2 :
        q2[i].type # "FC" => i + d \in DOMAIN q /\ q2[i] = q[i + d]
  BY DEF Part
<1> SUFFICES ASSUME NEW i \in DOMAIN q2, q2[i].type # "FC" PROVE OfPayload(q2[i], ms2)
  BY DEF Genuine
<1>2. OfPayload(q2[i], ms)
  BY <1>1 DEF Genuine
<1> QED BY <1>2 DEF OfPayload, Grown

LEMMA OrderedPart ==
  ASSUME NEW q \in Seq(Frame), NEW q2 \in Seq(Frame), Ordered(q), Part(q2, q)
  PROVE  Ordered(q2)
<1>1. PICK d \in {0, 1} : \A i \in DOMAIN q2 :
        q2[i].type # "FC" => i + d \in DOMAIN q /\ q2[i] = q[i + d]
  BY DEF Part
<1> SUFFICES ASSUME NEW i \in DOMAIN q2, NEW j \in DOMAIN q2, i < j,
                    q2[i].type \in {"FF", "CF"}, q2[j].type \in {"FF", "CF"}
             PROVE  /\ q2[i].type = "FF" => q2[j].type \notin {"FF", "CF"}
                    /\ q2[i].type = "CF" /\ q2[j].type = "CF" =>
                         q2[i].chunk.m = q2[j].chunk.m
                         /\ q2[i].chunk.from + q2[i].chunk.n <= q2[j].chunk.from
  BY DEF Ordered
<1>2. i + d \in DOMAIN q /\ q2[i] = q[i + d] /\ j + d \in DOMAIN q /\ q2[j] = q[j + d] /\ i + d < j + d
  BY <1>1, InChannel
<1>3. PICK k \in DOMAIN q, l \in DOMAIN q : k < l /\ q2[i] = q[k] /\ q2[j] = q[l]
  BY <1>2
<1> QED BY <1>3 DEF Ordered

LEMMA SessionPart ==
  ASSUME NEW q, NEW q2, NEW ms, NEW ms2, NEW r, Session(q, ms, r), Part(q2, q), Grown(ms, ms2)
  PROVE  Session(q2, ms2, r)
<1>1. PICK d \in {0, 1} : \A i \in DOMAIN q2 :
        q2[i].type # "FC" => i + d \in DOMAIN q /\ q2[i] = q[i + d]
  BY DEF Part
<1>2. \A i \in DOMAIN q2 : q2[i].type = "CF" => \E j \in DOMAIN q : q2[i] = q[j]
  BY <1>1
<1>3. CASE r.stage = "cf"
  <2>1. r.buf[1].m \in DOMAIN ms2 /\ r.length = ms2[r.buf[1].m]
    BY <1>3 DEF Session, Grown
  <2>2. \A i \in DOMAIN q2 : q2[i].type = "CF" =>
          q2[i].chunk.m = r.buf[1].m /\ q2[i].chunk.from >= End(r.buf)
    BY <1>2, <1>3 DEF Session
  <2> QED BY <1>3, <2>1, <2>2 DEF Session
<1> QED BY <1>3 DEF Session

\* A call of recv that has not begun a reassembly.
Fresh(r) == r.stage # "cf" /\ r.block = 0 /\ ~r.hold

LEMMA SessionFresh == \A q, ms, r : Fresh(r) => Session(q, ms, r)
BY DEF Fresh, Session

LEMMA SenderGrown ==
  ASSUME NEW s, NEW res, NEW ms, NEW ms2, Sender(s, res, ms), Grown(ms, ms2)
  PROVE  Sender(s, res, ms2)
BY DEF Sender, Grown

LEMMA SenderIdle == \A s, res, ms : s.stage = "idle" => Sender(s, res, ms)
BY DEF Sender

LEMMA UpToDatePart ==
  ASSUME NEW q, NEW q2, NEW s, NEW ms, NEW ms2, NEW r, NEW r2, UpToDate(q, s, ms, r),
         Part(q2, q), Grown(ms, ms2), s.m \in DOMAIN ms, r2 = r \/ Fresh(r2)
  PROVE  UpToDate(q2, s, ms2, r2)
<1>1. PICK d \in {0, 1} : \A i \in DOMAIN q2 :
        q2[i].type # "FC" => i + d \in DOMAIN q /\ q2[i] = q[i + d]
  BY DEF Part
<1>2. \A i \in DOMAIN q2 : q2[i].type \notin {"FF", "CF"}
  BY <1>1 DEF UpToDate
<1>3. s.offset < ms2[s.m]
  BY DEF UpToDate, Grown
<1> QED BY <1>2, <1>3 DEF UpToDate, Fresh

LEMMA ReachPart ==
  ASSUME NEW q, NEW q2, NEW s, NEW r, NEW r2, Reach(q, s, r), Part(q2, q), r2 = r \/ Fresh(r2)
  PROVE  Reach(q2, s, r2)
<1>1. PICK d \in {0, 1} : \A i \in DOMAIN q2 :
        q2[i].type # "FC" => i + d \in DOMAIN q /\ q2[i] = q[i + d]
  BY DEF Part
<1>2. \A i \in DOMAIN q2 : q2[i].type = "CF" => \E j \in DOMAIN q : q2[i] = q[j]
  BY <1>1
<1>3. CASE Fresh(r2)
  BY <1>3 DEF Fresh, Reach
<1>4. CASE r2 = r
  <2> SUFFICES ASSUME r.stage = "cf", End(r.buf) < r.length
               PROVE  /\ s.offset + NextBytes * r.block <= r.size + NextBytes * s.block
                      /\ \A i \in DOMAIN q2 : q2[i].type = "CF" =>
                           q2[i].chunk.from + NextBytes + NextBytes * r.block <= r.size + NextBytes * s.block
    BY <1>4 DEF Reach
  <2>1. s.offset + NextBytes * r.block <= r.size + NextBytes * s.block
    BY DEF Reach
  <2>2. ASSUME NEW i \in DOMAIN q2, q2[i].type = "CF"
        PROVE  q2[i].chunk.from + NextBytes + NextBytes * r.block <= r.size + NextBytes * s.block
    <3>1. PICK j \in DOMAIN q : q2[i] = q[j]
      BY <1>2, <2>2
    <3> QED BY <2>2, <3>1 DEF Reach
  <2> QED BY <2>1, <2>2
<1> QED BY <1>3, <1>4

LEMMA TurnPart ==
  ASSUME NEW q \in Seq(Frame), NEW q2 \in Seq(Frame), NEW back \in Seq(Frame), NEW back2 \in Seq(Frame),
         NEW s \in SendState, NEW ms, NEW ms2, NEW r \in RecvState, NEW r2 \in RecvState,
         Turn(q, back, s, ms, r), Part(q2, q), PartFc(back2, back), Grown(ms, ms2),
         s.stage # "idle" => s.m \in DOMAIN ms, r2 = r \/ Fresh(r2)
  PROVE  Turn(q2, back2, s, ms2, r2)
<1>1. PICK d \in {0, 1} : \A i \in DOMAIN q2 :
        q2[i].type # "FC" => i + d \in DOMAIN q /\ q2[i] = q[i + d]
  BY DEF Part
<1>2. \A i \in DOMAIN q2 : q2[i].type \in {"FF", "CF"} => \E j \in DOMAIN q : q2[i] = q[j]
  BY <1>1
<1>3. PICK b \in {0, 1} : \A i \in DOMAIN back2 :
        back2[i].type = "FC" => i + b \in DOMAIN back /\ back2[i] = back[i + b]
  BY DEF PartFc
<1>4. Behind(r, s) => Behind(r2, s)
  BY DEF Behind, Fresh
<1>5. r2.block \in Nat /\ r2.block <= r.block /\ r.block \in Nat /\ s.block \in Nat
      /\ (r.block = 0 => r2.block = 0)
  BY SMTT(30) DEF RecvState, SendState, Fresh
<1>6. Pending(q2) <= Pending(q) /\ Pending(q2) \in Nat /\ Pending(q) \in Nat
  BY PendingPart, CfsFinite
<1>7. FlowInBack(q2, back2, s, ms2, r2)
  <2>0. FlowInBack(q, back, s, ms, r)
    BY DEF Turn
  <2>1. ASSUME NEW i \in DOMAIN back2, NEW j \in DOMAIN back2, i < j,
               back2[i].type = "FC", back2[j].type = "FC"
        PROVE  back2[i].fs = "Wait" /\ back2[j].fs # "Wait"
    <3>1. i + b \in DOMAIN back /\ j + b \in DOMAIN back /\ back2[i] = back[i + b] /\ back2[j] = back[j + b]
      BY <1>3, <2>1
    <3>2. i + b < j + b
      BY <2>1, InChannel
    <3> QED BY <2>0, <2>1, <3>1, <3>2 DEF FlowInBack
  <2>2. r2.hold => r.hold
    BY DEF Fresh
  <2>3. ASSUME r2.hold \/ (\E i \in DOMAIN back2 : back2[i].type = "FC")
        PROVE  UpToDate(q2, s, ms2, r2)
    <3>1. r.hold \/ (\E i \in DOMAIN back : back[i].type = "FC")
      BY <1>3, <2>2, <2>3
    <3>2. UpToDate(q, s, ms, r)
      BY <2>0, <3>1 DEF FlowInBack
    <3>3. s.m \in DOMAIN ms
      BY <3>2 DEF UpToDate, Expecting, Paused
    <3> QED BY <3>2, <3>3, UpToDatePart
  <2>4. ASSUME NEW i \in DOMAIN back2, back2[i].type = "FC"
        PROVE  (Paused(s) => back2[i].fs # "Wait") /\ (r2.hold => back2[i].fs = "Wait")
    <3>1. i + b \in DOMAIN back /\ back2[i] = back[i + b]
      BY <1>3, <2>4
    <3> QED BY <2>0, <2>2, <2>4, <3>1 DEF FlowInBack
  <2> QED BY <2>1, <2>3, <2>4 DEF FlowInBack
<1>8. FirstWaits(q2, s)
  BY <1>2 DEF Turn, FirstWaits
<1>9. InBlock(q2, s, r2)
  <2>0. BlockSize \in Nat
    BY IsoTpAssumption
  <2>1. InBlock(q, s, r)
    BY DEF Turn
  <2>2. CASE s.stage \in {"cf", "go", "wait_wait", "wait_block"}
    <3>1. s.bs = BlockSize /\ Behind(r2, s)
      BY <1>4, <2>1, <2>2 DEF InBlock
    <3>2. \A i \in DOMAIN q2 : q2[i].type = "CF" =>
            q2[i].chunk.m = s.m /\ q2[i].chunk.from + q2[i].chunk.n <= s.offset
      BY <1>2, <2>1, <2>2 DEF InBlock
    <3>3. BlockSize # 0 => Pending(q2) + r2.block <= s.block
      BY <1>5, <1>6, <2>1, <2>2 DEF InBlock
    <3>4. BlockSize # 0 => Reach(q2, s, r2)
      BY <2>1, <2>2, ReachPart DEF InBlock
    <3> QED BY <2>1, <2>2, <3>1, <3>2, <3>3, <3>4 DEF InBlock
  <2>3. CASE s.stage \in {"idle", "wait_first"}
    <3>1. BlockSize # 0 => Pending(q2) + r2.block < BlockSize
      BY <1>5, <1>6, <2>0, <2>1, <2>3 DEF InBlock
    <3> QED BY <2>3, <3>1 DEF InBlock
  <2> QED BY <2>2, <2>3 DEF InBlock
<1> QED BY <1>7, <1>8, <1>9 DEF Turn

LEMMA ReturnedGrown ==
  ASSUME NEW ms, NEW ms2, NEW del, Returned(ms, del), Grown(ms, ms2)
  PROVE  Returned(ms2, del)
BY DEF Returned, Grown, Whole

LEMMA Calm ==
  ASSUME NEW q \in Seq(Frame), NEW q2 \in Seq(Frame), NEW back \in Seq(Frame), NEW back2 \in Seq(Frame),
         NEW s \in SendState, NEW s2 \in SendState, NEW res, NEW res2, NEW ms, NEW ms2,
         NEW r \in RecvState, NEW r2 \in RecvState, NEW del,
         Dir(q, back, s, res, ms, r, del), Part(q2, q), PartFc(back2, back), Grown(ms, ms2),
         (s2 = s /\ res2 = res) \/ (s2 = SendIdle /\ ~Alive(res2)),
         r2 = r \/ Fresh(r2)
  PROVE  Dir(q2, back2, s2, res2, ms2, r2, del)
<1>1. Genuine(q2, ms2) /\ Ordered(q2)
  BY GenuinePart, OrderedPart DEF Dir
<1>2. Session(q2, ms2, r2)
  BY SessionPart, SessionFresh DEF Dir
<1>3. Sender(s2, res2, ms2)
  BY SenderGrown, SenderIdle, Idles DEF Dir, SendIdle
<1>4. Alive(res2) => Turn(q2, back2, s2, ms2, r2)
  BY TurnPart DEF Dir, Sender
<1>5. BlockSize # 0 => Pending(q2) <= BlockSize
  BY PendingPart, CfsFinite, IsoTpAssumption DEF Dir
<1>6. Returned(ms2, del)
  BY ReturnedGrown DEF Dir
<1> QED BY <1>1, <1>2, <1>3, <1>4, <1>5, <1>6 DEF Dir

-----------------------------------------------------------------------------
(* The steps of send *)

LEMMA GrownAppend == ASSUME NEW ms \in Seq(Nat), NEW n \in Nat PROVE Grown(ms, Append(ms, n))
BY DEF Grown

\* The frames the step adds, and the payload they are of.
LEMMA GenuineAppend ==
  ASSUME NEW q \in Seq(Frame), NEW f \in Frame, NEW ms, Genuine(q, ms), OfPayload(f, ms)
  PROVE  Genuine(Append(q, f), ms)
BY AppendFacts DEF Genuine

\* Nothing of a transfer is unread but Consecutive Frames of f's payload before f.
LEMMA OrderedAppend ==
  ASSUME NEW q \in Seq(Frame), NEW f \in Frame, Ordered(q),
         f.type = "SF" \/ \A i \in DOMAIN q : q[i].type # "FF",
         f.type = "CF" => \A i \in DOMAIN q : q[i].type = "CF" =>
           q[i].chunk.m = f.chunk.m /\ q[i].chunk.from + q[i].chunk.n <= f.chunk.from
  PROVE  Ordered(Append(q, f))
<1> DEFINE q2 == Append(q, f)
<1> SUFFICES ASSUME NEW i \in DOMAIN q2, NEW j \in DOMAIN q2, i < j
             PROVE  /\ q2[i].type = "FF" => q2[j].type \notin {"FF", "CF"}
                    /\ q2[i].type = "CF" /\ q2[j].type = "CF" =>
                         q2[i].chunk.m = q2[j].chunk.m
                         /\ q2[i].chunk.from + q2[i].chunk.n <= q2[j].chunk.from
  BY DEF Ordered
<1>1. i \in DOMAIN q /\ q2[i] = q[i]
  BY AppendFacts
<1>2. (j \in DOMAIN q /\ q2[j] = q[j]) \/ q2[j] = f
  BY AppendFacts
<1> HIDE DEF q2
<1>3. CASE j \in DOMAIN q /\ q2[j] = q[j]
  BY <1>1, <1>3 DEF Ordered
<1>4. CASE q2[j] = f
  BY <1>1, <1>4
<1> QED BY <1>2, <1>3, <1>4

LEMMA SessionAppend ==
  ASSUME NEW q \in Seq(Frame), NEW f \in Frame, NEW ms, NEW r, Session(q, ms, r),
         f.type = "CF" /\ r.stage = "cf" => f.chunk.m = r.buf[1].m /\ f.chunk.from >= End(r.buf)
  PROVE  Session(Append(q, f), ms, r)
<1> DEFINE q2 == Append(q, f)
<1>1. \A i \in DOMAIN q2 : q2[i] = f \/ (i \in DOMAIN q /\ q2[i] = q[i])
  BY AppendFacts
<1> HIDE DEF q2
<1>2. r.stage = "cf" =>
        \A i \in DOMAIN q2 : q2[i].type = "CF" =>
          q2[i].chunk.m = r.buf[1].m /\ q2[i].chunk.from >= End(r.buf)
  BY <1>1 DEF Session
<1>3. Session(q2, ms, r)
  BY <1>2 DEF Session
<1> QED BY <1>3 DEF q2

\* No flow control frame is due: none is on its way, and recv holds none back.
LEMMA NoneDue ==
  ASSUME NEW q, NEW back, NEW s, NEW ms, NEW r, FlowInBack(q, back, s, ms, r), ~UpToDate(q, s, ms, r)
  PROVE  ~r.hold /\ \A i \in DOMAIN back : back[i].type # "FC"
BY DEF FlowInBack

LEMMA NoneOnItsWay ==
  ASSUME NEW q, NEW back, NEW s, NEW ms, NEW r, ~r.hold, \A i \in DOMAIN back : back[i].type # "FC"
  PROVE  FlowInBack(q, back, s, ms, r)
BY DEF FlowInBack

\* A send that has nothing on the way returns.
LEMMA TurnRest ==
  ASSUME NEW q \in Seq(Frame), NEW back, NEW s \in SendState, NEW s2, NEW ms, NEW r \in RecvState,
         Turn(q, back, s, ms, r), s.stage \in {"idle", "cf"}, ~Expecting(s), s2.stage = "idle"
  PROVE  Turn(q, back, s2, ms, r)
<1>1. ~r.hold /\ \A i \in DOMAIN back : back[i].type # "FC"
  <2>1. ~UpToDate(q, s, ms, r)
    BY DEF UpToDate
  <2> QED BY <2>1, NoneDue DEF Turn
<1>2. FlowInBack(q, back, s2, ms, r)
  BY <1>1, NoneOnItsWay
<1>3. FirstWaits(q, s2)
  BY DEF Turn, FirstWaits
<1>4. BlockSize \in Nat /\ s.block \in Nat /\ r.block \in Nat /\ Pending(q) \in Nat
  BY CfsFinite, IsoTpAssumption DEF SendState, RecvState
<1>5. BlockSize # 0 => Pending(q) + r.block < BlockSize
  BY <1>4 DEF Turn, InBlock
<1> QED BY <1>2, <1>3, <1>5 DEF Turn, InBlock

LEMMA DirRest ==
  ASSUME NEW q \in Seq(Frame), NEW back, NEW s \in SendState, NEW res, NEW res2, NEW ms,
         NEW r \in RecvState, NEW del, Dir(q, back, s, res, ms, r, del), s.stage \in {"idle", "cf"},
         ~Expecting(s), Alive(res)
  PROVE  Dir(q, back, SendIdle, res2, ms, r, del)
<1>1. Turn(q, back, SendIdle, ms, r)
  BY TurnRest, Idles DEF Dir
<1>2. Sender(SendIdle, res2, ms)
  BY SenderIdle, Idles
<1> QED BY <1>1, <1>2 DEF Dir

\* A Single Frame disturbs nothing.
LEMMA DirSingle ==
  ASSUME NEW q \in Seq(Frame), NEW f \in Frame, NEW back \in Seq(Frame), NEW s \in SendState, NEW res,
         NEW ms, NEW r \in RecvState, NEW del, Dir(q, back, s, res, ms, r, del),
         f.type = "SF", OfPayload(f, ms)
  PROVE  Dir(Append(q, f), back, s, res, ms, r, del)
<1> DEFINE q2 == Append(q, f)
<1>1. Genuine(q2, ms) /\ Ordered(q2) /\ Session(q2, ms, r)
  BY GenuineAppend, OrderedAppend, SessionAppend DEF Dir
<1>2. Pending(q2) = Pending(q)
  BY PendingAppend
<1>3. \A i \in DOMAIN q2 : q2[i].type \in {"FF", "CF"} => i \in DOMAIN q /\ q2[i] = q[i]
  BY AppendFacts
<1> HIDE DEF q2
<1>4. Alive(res) => Turn(q2, back, s, ms, r)
  <2> SUFFICES ASSUME Turn(q, back, s, ms, r) PROVE Turn(q2, back, s, ms, r)
    BY DEF Dir
  <2>1. UpToDate(q, s, ms, r) => UpToDate(q2, s, ms, r)
    BY <1>3 DEF UpToDate
  <2>2. FlowInBack(q2, back, s, ms, r)
    BY <2>1 DEF Turn, FlowInBack
  <2>3. FirstWaits(q2, s)
    BY <1>3 DEF Turn, FirstWaits
  <2>4. Reach(q, s, r) => Reach(q2, s, r)
    BY <1>3 DEF Reach
  <2>5. InBlock(q2, s, r)
    BY <1>2, <1>3, <2>4 DEF Turn, InBlock
  <2> QED BY <2>2, <2>3, <2>5 DEF Turn
<1>5. Dir(q2, back, s, res, ms, r, del)
  BY <1>1, <1>2, <1>4 DEF Dir
<1> QED BY <1>5 DEF q2

\* A First Frame is sent, or lost, when nothing of an earlier transfer can answer it.
LEMMA DirFirst ==
  ASSUME NEW q \in Seq(Frame), NEW q2, NEW f \in Frame, NEW back \in Seq(Frame), NEW s \in SendState,
         NEW s2 \in SendState, NEW res, NEW ms \in Seq(Nat), NEW len \in Nat, NEW r \in RecvState, NEW del,
         Dir(q, back, s, res, ms, r, del), s.stage = "idle", Alive(res), len >= FirstBytes,
         f.type = "FF", f.chunk.m = Len(ms) + 1, f.len = len,
         s2.stage = "wait_first", s2.m = Len(ms) + 1, s2.offset = FirstBytes,
         q2 = q \/ q2 = Append(q, f)
  PROVE  Dir(q2, back, s2, res, Append(ms, len), r, del)
<1> DEFINE ms2 == Append(ms, len)
<1>1. Grown(ms, ms2)
  BY GrownAppend
<1>2. Len(ms) + 1 \in DOMAIN ms2 /\ ms2[Len(ms) + 1] = len
  OBVIOUS
<1> HIDE DEF ms2
<1>3. Turn(q, back, s, ms, r)
  BY DEF Dir
<1>4. \A i \in DOMAIN q : q[i].type # "FF"
  BY <1>3 DEF Turn, FirstWaits
<1>5. ~r.hold /\ \A i \in DOMAIN back : back[i].type # "FC"
  <2>1. ~UpToDate(q, s, ms, r)
    BY DEF UpToDate, Expecting, Paused
  <2> QED BY <1>3, <2>1, NoneDue DEF Turn
<1>6. Genuine(q, ms2) /\ Session(q, ms2, r) /\ Returned(ms2, del) /\ Ordered(q)
  BY <1>1, PartSelf, GenuinePart, SessionPart, ReturnedGrown DEF Dir
<1>7. OfPayload(f, ms2)
  BY <1>2 DEF OfPayload
<1>8. Genuine(q2, ms2) /\ Session(q2, ms2, r) /\ Ordered(q2)
  BY <1>4, <1>6, <1>7, GenuineAppend, SessionAppend, OrderedAppend
<1>9. Pending(q2) = Pending(q)
  BY PendingAppend
<1>10. Sender(s2, res, ms2)
  BY <1>2 DEF Sender, Paused
<1>11. Turn(q2, back, s2, ms2, r)
  <2>1. FlowInBack(q2, back, s2, ms2, r)
    BY <1>5, NoneOnItsWay
  <2>2. FirstWaits(q2, s2)
    <3>1. ASSUME NEW i \in DOMAIN q2 PROVE q2[i] = f \/ (i \in DOMAIN q /\ q2[i] = q[i])
      <4>1. CASE q2 = q
        BY <3>1, <4>1
      <4>2. CASE q2 = Append(q, f)
        BY <3>1, <4>2, AppendFacts
      <4> QED BY <4>1, <4>2
    <3>2. ASSUME NEW i \in DOMAIN q2, q2[i].type = "FF" PROVE q2[i] = f
      BY <1>4, <3>1, <3>2
    <3> QED BY <3>2 DEF FirstWaits
  <2>3. InBlock(q2, s2, r)
    BY <1>3, <1>9 DEF Turn, InBlock
  <2> QED BY <2>1, <2>2, <2>3 DEF Turn
<1>12. Dir(q2, back, s2, res, ms2, r, del)
  BY <1>6, <1>8, <1>9, <1>10, <1>11 DEF Dir
<1> QED BY <1>12 DEF ms2

LEMMA EndNat == ASSUME NEW buf \in Seq(ChunkSet), buf # <<>> PROVE End(buf) \in Nat
<1>1. Len(buf) \in DOMAIN buf
  OBVIOUS
<1>2. buf[Len(buf)] \in ChunkSet
  BY <1>1
<1>3. buf[Len(buf)].from \in Nat /\ buf[Len(buf)].n \in Nat
  BY <1>2 DEF ChunkSet
<1> QED BY <1>3 DEF End

LEMMA NextBytesNat == \A x \in Nat : x + NextBytes \in Nat
BY DEF NextBytes

\* Reach counts whole frames: what one more frame on the bus, and one more read, make of it.
LEMMA Further ==
  ASSUME NEW x \in Nat, NEW k \in Nat, NEW y \in Nat, NEW j \in Nat, NEW n \in Nat, n <= NextBytes,
         x + NextBytes * k <= y + NextBytes * j
  PROVE  x + n + NextBytes * k <= y + NextBytes * (j + 1)
BY DEF NextBytes

LEMMA Later ==
  ASSUME NEW x \in Nat, NEW k \in Nat, NEW y \in Nat, NEW j \in Nat,
         x + NextBytes * k <= y + NextBytes * j
  PROVE  x + NextBytes * k <= y + NextBytes * (j + 1)
BY DEF NextBytes

LEMMA Counted ==
  ASSUME NEW x \in Nat, NEW k \in Nat, NEW y \in Nat, NEW j \in Nat,
         x + NextBytes * k <= y + NextBytes * j
  PROVE  x + NextBytes * (k + 1) <= y + NextBytes + NextBytes * j
BY DEF NextBytes

LEMMA OneBlock ==
  ASSUME NEW x \in Nat, NEW k \in Nat, NEW y \in Nat, x + NextBytes * k <= y + NextBytes * (k + 1)
  PROVE  x <= y + NextBytes
BY DEF NextBytes

\* A Consecutive Frame is sent, or lost; the last of a block ends the sender's turn.
LEMMA DirNext ==
  ASSUME NEW q \in Seq(Frame), NEW q2, NEW f \in Frame, NEW back \in Seq(Frame), NEW s \in SendState,
         NEW s2 \in SendState, NEW res, NEW ms \in Seq(Nat), NEW n \in Nat, NEW r \in RecvState, NEW del,
         Dir(q, back, s, res, ms, r, del), s.stage \in {"cf", "go"}, s.fs # "Wait",
         n >= 1, n <= NextBytes, s.offset + n <= ms[s.m],
         n = NextBytes \/ s.offset + n = ms[s.m],
         f.type = "CF", f.chunk.m = s.m, f.chunk.from = s.offset, f.chunk.n = n,
         s2.stage = IF BlockDone(s) THEN "wait_block" ELSE "cf",
         s2.m = s.m, s2.offset = s.offset + n, s2.block = s.block + 1, s2.bs = s.bs, s2.fs = s.fs,
         q2 = q \/ q2 = Append(q, f)
  PROVE  Dir(q2, back, s2, res, ms, r, del)
<1>1. s.offset \in Nat /\ s.block \in Nat /\ r.block \in Nat /\ r.size \in Nat /\ BlockSize \in Nat
  BY IsoTpAssumption DEF SendState, RecvState
<1>2. Alive(res) /\ s.m \in DOMAIN ms
  BY DEF Dir, Sender
<1>3. Turn(q, back, s, ms, r)
  BY <1>2 DEF Dir
<1>4. /\ s.bs = BlockSize
      /\ \A i \in DOMAIN q : q[i].type = "CF" =>
           q[i].chunk.m = s.m /\ q[i].chunk.from + q[i].chunk.n <= s.offset
      /\ Behind(r, s)
      /\ BlockSize # 0 => Pending(q) + r.block <= s.block /\ s.block < BlockSize /\ Reach(q, s, r)
  BY <1>3 DEF Turn, InBlock
<1>5. \A i \in DOMAIN q : q[i].type # "FF"
  BY <1>3 DEF Turn, FirstWaits
<1>6. ~r.hold /\ \A i \in DOMAIN back : back[i].type # "FC"
  <2>1. ~UpToDate(q, s, ms, r)
    BY DEF UpToDate, Expecting, Paused
  <2> QED BY <1>3, <2>1, NoneDue DEF Turn
<1>7. Genuine(q2, ms)
  <2>1. OfPayload(f, ms)
    BY <1>2 DEF OfPayload
  <2> QED BY <2>1, GenuineAppend DEF Dir
<1>8. Ordered(q2)
  BY <1>4, <1>5, OrderedAppend DEF Dir
<1>9. Session(q2, ms, r)
  <2>1. r.stage = "cf" => f.chunk.m = r.buf[1].m /\ f.chunk.from >= End(r.buf)
    <3>1. CASE r.stage = "cf"
      <4>1. r.buf[1].m = s.m /\ End(r.buf) <= s.offset
        BY <1>4, <3>1 DEF Behind
      <4>2. r.buf \in Seq(ChunkSet) /\ r.buf # <<>>
        BY <3>1 DEF Dir, Session, RecvState
      <4>3. End(r.buf) \in Nat
        BY <4>2, EndNat
      <4> QED BY <1>1, <4>1, <4>3
    <3> QED BY <3>1
  <2> QED BY <2>1, SessionAppend DEF Dir
<1>10. s2.stage \in {"cf", "wait_block"} /\ Sender(s2, res, ms)
  <2>1. s2.stage \in {"cf", "wait_block"}
    OBVIOUS
  <2>2. s2.m \in DOMAIN ms /\ s2.offset <= ms[s2.m] /\ s2.fs # "Wait"
    BY <1>2
  <2> QED BY <1>2, <2>1, <2>2 DEF Sender, Paused
<1>11. Pending(q2) <= Pending(q) + 1 /\ Pending(q) \in Nat /\ Pending(q2) \in Nat
  <2>1. Append(q, f) \in Seq(Frame)
    BY AppendFacts
  <2>2. Pending(q) \in Nat /\ Pending(Append(q, f)) \in Nat
    BY <2>1, CfsFinite
  <2>3. Pending(Append(q, f)) <= Pending(q) + 1
    BY PendingAppend
  <2>4. CASE q2 = q
    BY <2>2, <2>4
  <2>5. CASE q2 = Append(q, f)
    <3>1. Pending(q2) = Pending(Append(q, f))
      BY <2>5
    <3> QED BY <2>2, <2>3, <3>1
  <2> QED BY <2>4, <2>5
<1>12. ASSUME NEW i \in DOMAIN q2 PROVE (i \in DOMAIN q /\ q2[i] = q[i]) \/ q2[i] = f
  <2>1. CASE q2 = q
    BY <1>12, <2>1
  <2>2. CASE q2 = Append(q, f)
    BY <1>12, <2>2, AppendFacts
  <2> QED BY <2>1, <2>2
<1>13. Turn(q2, back, s2, ms, r)
  <2>1. FlowInBack(q2, back, s2, ms, r)
    BY <1>6, NoneOnItsWay
  <2>2. FirstWaits(q2, s2)
    <3>1. \A i \in DOMAIN q2 : q2[i].type # "FF"
      BY <1>5, <1>12
    <3> QED BY <3>1 DEF FirstWaits
  <2>3. Behind(r, s2)
    <3>1. CASE r.stage = "cf"
      <4>1. r.buf[1].m = s.m /\ End(r.buf) <= s.offset
        BY <1>4, <3>1 DEF Behind
      <4>2. r.buf \in Seq(ChunkSet) /\ r.buf # <<>>
        BY <3>1 DEF Dir, Session, RecvState
      <4>3. End(r.buf) \in Nat
        BY <4>2, EndNat
      <4> QED BY <1>1, <4>1, <4>3 DEF Behind
    <3> QED BY <3>1 DEF Behind
  <2>4. ASSUME NEW i \in DOMAIN q2, q2[i].type = "CF"
        PROVE  q2[i].chunk.m = s2.m /\ q2[i].chunk.from + q2[i].chunk.n <= s2.offset
    <3>1. CASE q2[i] = f
      BY <1>1, <3>1
    <3>2. CASE i \in DOMAIN q /\ q2[i] = q[i]
      <4>1. q[i].type = "CF"
        BY <2>4, <3>2
      <4>2. q[i].chunk.m = s.m /\ q[i].chunk.from + q[i].chunk.n <= s.offset
        BY <1>4, <3>2, <4>1
      <4>3. q[i].chunk.from \in Nat /\ q[i].chunk.n \in Nat
        BY <3>2, <4>1, InChannel
      <4> QED BY SMTT(30), <1>1, <3>2, <4>2, <4>3
    <3> QED BY <1>12, <3>1, <3>2
  <2>5. BlockSize # 0 => Pending(q2) + r.block <= s2.block
    BY <1>1, <1>4, <1>11
  <2>0. s.bs = BlockSize /\ (BlockSize # 0 => s.block < BlockSize)
    BY <1>4
  <2>6. s2.stage = "cf" /\ BlockSize # 0 => s2.block < BlockSize
    BY <1>1, <2>0 DEF BlockDone
  <2>7. s2.stage = "wait_block" => BlockSize # 0 /\ s2.block = BlockSize
    BY <1>1, <2>0 DEF BlockDone
  <2>8. ASSUME BlockSize # 0, r.stage = "cf", End(r.buf) < r.length
        PROVE  /\ s2.offset + NextBytes * r.block <= r.size + NextBytes * s2.block
               /\ \A i \in DOMAIN q2 : q2[i].type = "CF" =>
                    q2[i].chunk.from + NextBytes + NextBytes * r.block <= r.size + NextBytes * s2.block
    <3>1. /\ s.offset + NextBytes * r.block <= r.size + NextBytes * s.block
          /\ \A i \in DOMAIN q : q[i].type = "CF" =>
               q[i].chunk.from + NextBytes + NextBytes * r.block <= r.size + NextBytes * s.block
      BY <1>4, <2>8 DEF Reach
    <3>2. s2.offset + NextBytes * r.block <= r.size + NextBytes * s2.block
      BY <1>1, <3>1, Further
    <3>3. ASSUME NEW i \in DOMAIN q2, q2[i].type = "CF"
          PROVE  q2[i].chunk.from + NextBytes + NextBytes * r.block <= r.size + NextBytes * s2.block
      <4>1. CASE q2[i] = f
        <5>1. q2[i].chunk.from = s.offset
          BY <4>1
        <5>2. NextBytes \in Nat /\ NextBytes <= NextBytes
          BY DEF NextBytes
        <5> QED BY <1>1, <3>1, <5>1, <5>2, Further
      <4>2. CASE i \in DOMAIN q /\ q2[i] = q[i]
        <5>1. q[i].type = "CF" /\ q2[i].chunk.from = q[i].chunk.from
          BY <3>3, <4>2
        <5>2. q[i].chunk.from + NextBytes + NextBytes * r.block <= r.size + NextBytes * s.block
          BY <3>1, <4>2, <5>1
        <5>3. q[i].chunk.from \in Nat
          BY <4>2, <5>1, InChannel
        <5>4. q[i].chunk.from + NextBytes \in Nat
          BY <5>3, NextBytesNat
        <5> QED BY <1>1, <5>1, <5>2, <5>4, Later
      <4> QED BY <1>12, <4>1, <4>2
    <3> QED BY <3>2, <3>3
  <2>9. BlockSize # 0 => Reach(q2, s2, r)
    BY <2>8 DEF Reach
  <2>10. InBlock(q2, s2, r)
    BY <1>4, <1>10, <2>3, <2>4, <2>5, <2>6, <2>7, <2>9 DEF InBlock
  <2> QED BY <2>1, <2>2, <2>10 DEF Turn
<1>14. BlockSize # 0 => Pending(q2) <= BlockSize
  BY <1>1, <1>4, <1>11
<1> QED BY <1>2, <1>7, <1>8, <1>9, <1>10, <1>13, <1>14 DEF Dir

\* A Wait in force: the sender goes to wait for another flow control frame.
LEMMA DirHold ==
  ASSUME NEW q \in Seq(Frame), NEW back \in Seq(Frame), NEW s \in SendState, NEW s2 \in SendState,
         NEW res, NEW ms, NEW r \in RecvState, NEW del, Dir(q, back, s, res, ms, r, del),
         s.stage = "cf", s.fs = "Wait", s2.stage = "wait_wait",
         s2.m = s.m, s2.offset = s.offset, s2.block = s.block, s2.bs = s.bs
  PROVE  Dir(q, back, s2, res, ms, r, del)
<1>1. Paused(s) /\ Paused(s2) /\ Expecting(s) /\ Expecting(s2)
  BY DEF Paused, Expecting
<1>2. Sender(s2, res, ms) /\ Alive(res)
  BY <1>1 DEF Dir, Sender
<1>3. Turn(q, back, s, ms, r)
  BY <1>2 DEF Dir
<1>4. UpToDate(q, s, ms, r) => UpToDate(q, s2, ms, r)
  BY <1>1 DEF UpToDate
<1>5. FlowInBack(q, back, s2, ms, r)
  BY <1>1, <1>3, <1>4 DEF Turn, FlowInBack
<1>6. FirstWaits(q, s2)
  BY <1>3 DEF Turn, FirstWaits
<1>7. Behind(r, s2) /\ (BlockSize # 0 => Reach(q, s2, r))
  BY <1>3 DEF Turn, InBlock, Behind, Reach
<1>8. InBlock(q, s2, r)
  BY <1>3, <1>7 DEF Turn, InBlock
<1>9. Turn(q, back, s2, ms, r)
  BY <1>5, <1>6, <1>8 DEF Turn
<1> QED BY <1>2, <1>9 DEF Dir

\* The sender takes the first answer that is on its way.
LEMMA DirTakeFc ==
  ASSUME NEW q \in Seq(Frame), NEW back \in Seq(Frame), NEW s \in SendState, NEW s2 \in SendState,
         NEW res, NEW ms, NEW r \in RecvState, NEW del,
         Dir(q, back, s, res, ms, r, del), s.stage # "idle", back # <<>>, Head(back).type = "FC",
         s2.stage = IF s.stage = "wait_wait" THEN "go" ELSE "cf",
         s2.m = s.m, s2.offset = s.offset, s2.block = 0,
         s2.bs = BlockSize, s2.fs = Head(back).fs
  PROVE  Dir(q, Tail(back), s2, res, ms, r, del)
<1> DEFINE b2 == Tail(back)
<1>1. Alive(res) /\ s.m \in DOMAIN ms /\ s.offset <= ms[s.m]
  BY DEF Dir, Sender
<1>2. Turn(q, back, s, ms, r) /\ FlowInBack(q, back, s, ms, r)
  BY <1>1 DEF Dir, Turn
<1>3. 1 \in DOMAIN back /\ back[1].type = "FC" /\ s2.fs = back[1].fs
  BY TailFacts
<1>4. UpToDate(q, s, ms, r)
  BY <1>2, <1>3 DEF FlowInBack
<1>5. \A i \in DOMAIN b2 : i \in Nat /\ i >= 1 /\ i + 1 \in DOMAIN back /\ 1 < i + 1 /\ b2[i] = back[i + 1]
  BY TailFacts
<1> HIDE DEF b2
<1>6. s.stage = "wait_wait" => s2.fs # "Wait"
  BY <1>2, <1>3 DEF FlowInBack, Paused
<1>7. ASSUME r.hold \/ (\E i \in DOMAIN b2 : b2[i].type = "FC") PROVE Paused(s2)
  <2>1. back[1].fs = "Wait"
    <3>1. CASE r.hold
      BY <1>2, <1>3, <3>1 DEF FlowInBack
    <3>2. ASSUME NEW i \in DOMAIN b2, b2[i].type = "FC" PROVE back[1].fs = "Wait"
      <4>1. i + 1 \in DOMAIN back /\ 1 < i + 1 /\ back[i + 1].type = "FC"
        BY <1>5, <3>2
      <4> QED BY <1>2, <1>3, <4>1 DEF FlowInBack
    <3> QED BY <1>7, <3>1, <3>2
  <2> QED BY <1>3, <1>6, <2>1 DEF Paused
<1>8. Cfs(q) = {} /\ Pending(q) = 0
  <2>1. Cfs(q) = {}
    BY <1>4 DEF UpToDate, Cfs
  <2> QED BY <2>1, FS_EmptySet DEF Pending
<1>9. BlockSize \in Nat /\ s.offset \in Nat /\ r.size \in Nat
  BY IsoTpAssumption DEF SendState, RecvState
<1>10. FlowInBack(q, b2, s2, ms, r)
  <2>1. ASSUME NEW i \in DOMAIN b2, NEW j \in DOMAIN b2, i < j, b2[i].type = "FC", b2[j].type = "FC"
        PROVE  FALSE
    <3>1. /\ i + 1 \in DOMAIN back /\ j + 1 \in DOMAIN back /\ 1 < i + 1 /\ i + 1 < j + 1
          /\ back[i + 1].type = "FC" /\ back[j + 1].type = "FC"
      BY <1>5, <2>1
    <3>2. back[i + 1].fs # "Wait"
      BY <1>2, <1>3, <3>1 DEF FlowInBack
    <3>3. back[i + 1].fs = "Wait"
      BY <1>2, <3>1 DEF FlowInBack
    <3> QED BY <3>2, <3>3
  <2>2. ASSUME r.hold \/ (\E i \in DOMAIN b2 : b2[i].type = "FC") PROVE UpToDate(q, s2, ms, r)
    <3>1. Expecting(s2)
      BY <1>7, <2>2 DEF Expecting
    <3> QED BY <1>4, <3>1 DEF UpToDate
  <2>3. ASSUME NEW i \in DOMAIN b2, b2[i].type = "FC"
        PROVE  b2[i].fs # "Wait" /\ (r.hold => b2[i].fs = "Wait")
    <3>1. i + 1 \in DOMAIN back /\ 1 < i + 1 /\ b2[i] = back[i + 1] /\ back[i + 1].type = "FC"
      BY <1>5, <2>3
    <3> QED BY <1>2, <1>3, <3>1 DEF FlowInBack
  <2> QED BY <2>1, <2>2, <2>3 DEF FlowInBack
<1>11. FirstWaits(q, s2)
  BY <1>4 DEF UpToDate, FirstWaits
<1>12. Behind(r, s2)
  BY <1>4, <1>9 DEF UpToDate, Behind
<1>13. Reach(q, s2, r)
  BY <1>4, <1>9 DEF UpToDate, Reach, NextBytes
<1>14. InBlock(q, s2, r)
  BY <1>4, <1>8, <1>9, <1>12, <1>13 DEF InBlock, UpToDate
<1>15. Sender(s2, res, ms)
  BY <1>1, <1>4, <1>6 DEF Sender, UpToDate
<1>16. Turn(q, b2, s2, ms, r)
  BY <1>10, <1>11, <1>14 DEF Turn
<1>17. Dir(q, b2, s2, res, ms, r, del)
  BY <1>15, <1>16 DEF Dir
<1> QED BY <1>17 DEF b2

-----------------------------------------------------------------------------
(* The steps of recv *)

LEMMA AtMostFirst == \A a, b \in Nat : a <= b => AtMost(a, b) = a
BY DEF AtMost

\* The head of q, cut to the n bytes that are missing at most, makes buf2 of r.buf.
Takes(q, r, n, buf2) ==
  /\ n = AtMost(Head(q).chunk.n, r.length - r.size)
  /\ buf2 = Append(r.buf, [Head(q).chunk EXCEPT !.n = n])

\* What reading the next Consecutive Frame makes of the buffer.
LEMMA Extended ==
  ASSUME NEW q \in Seq(Frame), NEW ms, NEW r \in RecvState, NEW n, NEW buf2,
         Session(q, ms, r), Genuine(q, ms), r.stage = "cf", Unfinished(r),
         q # <<>>, Head(q).type = "CF", Takes(q, r, n, buf2)
  PROVE  /\ n \in Nat /\ buf2 \in Seq(ChunkSet) /\ buf2 # <<>>
         /\ r.size \in Nat /\ r.length \in Nat /\ End(buf2) \in Nat
         /\ \A i \in DOMAIN buf2 : buf2[i].m = r.buf[1].m
         /\ buf2[1] = r.buf[1]
         /\ End(buf2) = Head(q).chunk.from + Head(q).chunk.n
         /\ r.size + n <= End(buf2) /\ End(buf2) <= r.length
         /\ r.size + n = End(buf2) => Joined(buf2)
         /\ n = Head(q).chunk.n /\ n >= 1 /\ (n = NextBytes \/ End(buf2) = r.length)
         /\ r.size <= End(r.buf) /\ End(r.buf) \in Nat /\ End(r.buf) <= Head(q).chunk.from
         /\ Head(q).chunk.from \in Nat
<1> DEFINE c == Head(q).chunk
<1>1. 1 \in DOMAIN q /\ c = q[1].chunk /\ q[1].type = "CF"
  BY TailFacts
<1>2. c \in ChunkSet /\ c.m \in Nat /\ c.from \in Nat /\ c.n \in Nat
  <2>1. q[1] \in Frame
    BY <1>1, InChannel
  <2> QED BY <1>1, <2>1, FrameFacts DEF ChunkSet
<1>3. r.size \in Nat /\ r.length \in Nat /\ r.buf \in Seq(ChunkSet) /\ r.buf # <<>> /\ r.size < r.length
  BY DEF RecvState, Session, Unfinished
<1>4. c.m = r.buf[1].m /\ c.from >= End(r.buf)
  BY <1>1 DEF Session
<1>5. c.from + c.n <= r.length /\ c.n >= 1 /\ (c.n = NextBytes \/ c.from + c.n = r.length)
  <2>1. OfPayload(q[1], ms)
    BY <1>1 DEF Genuine
  <2> QED BY <1>1, <1>4, <2>1 DEF OfPayload, Session
<1>6. r.size <= End(r.buf) /\ End(r.buf) \in Nat
  BY <1>3, EndNat DEF Session
<1> HIDE DEF c
<1>7. n = c.n
  <2>1. c.n <= r.length - r.size
    BY <1>2, <1>3, <1>4, <1>5, <1>6
  <2>2. n = AtMost(c.n, r.length - r.size)
    BY DEF c, Takes
  <2>3. r.length - r.size \in Nat
    BY <1>3
  <2> QED BY <1>2, <2>1, <2>2, <2>3, AtMostFirst
<1>8. [c EXCEPT !.n = c.n] = c
  BY <1>2 DEF ChunkSet
<1>9. buf2 = Append(r.buf, c)
  BY <1>7, <1>8 DEF c, Takes
<1>10. /\ buf2 \in Seq(ChunkSet) /\ buf2 # <<>> /\ Len(buf2) = Len(r.buf) + 1 /\ Len(r.buf) \in Nat
       /\ Len(r.buf) >= 1
       /\ buf2[Len(buf2)] = c
       /\ \A i \in 1..Len(r.buf) : buf2[i] = r.buf[i]
  BY <1>2, <1>3, <1>9
<1>11. \A i \in DOMAIN buf2 : buf2[i].m = r.buf[1].m
  <2> SUFFICES ASSUME NEW i \in 1..Len(buf2) PROVE buf2[i].m = r.buf[1].m
    BY <1>10
  <2>1. CASE i = Len(buf2)
    BY <1>4, <1>10, <2>1
  <2>2. CASE i \in 1..Len(r.buf)
    <3>1. i \in DOMAIN r.buf
      BY <1>3, <2>2
    <3> QED BY <1>10, <2>2, <3>1 DEF Session
  <2> QED BY <1>10, <2>1, <2>2
<1>12. End(buf2) = c.from + c.n
  BY <1>10 DEF End
<1>13. ASSUME r.size + n = End(buf2) PROVE Joined(buf2)
  <2>1. r.size = End(r.buf) /\ c.from = End(r.buf)
    BY <1>2, <1>3, <1>4, <1>6, <1>7, <1>12, <1>13
  <2>2. Joined(r.buf)
    BY <2>1 DEF Session
  <2> SUFFICES ASSUME NEW i \in 1..Len(buf2), i > 1
               PROVE  buf2[i].from = buf2[i - 1].from + buf2[i - 1].n
    BY <1>10 DEF Joined
  <2>3. CASE i = Len(buf2)
    <3>1. i - 1 = Len(r.buf) /\ i - 1 \in 1..Len(r.buf)
      BY <1>10, <2>3
    <3>2. buf2[i - 1] = r.buf[Len(r.buf)]
      BY <1>10, <3>1
    <3> QED BY <1>10, <2>1, <2>3, <3>2 DEF End
  <2>4. CASE i \in 1..Len(r.buf)
    <3>1. i - 1 \in 1..Len(r.buf) /\ i \in DOMAIN r.buf
      BY <1>3, <1>10, <2>4
    <3>2. buf2[i] = r.buf[i] /\ buf2[i - 1] = r.buf[i - 1]
      BY <1>10, <2>4, <3>1
    <3> QED BY <2>2, <3>1, <3>2 DEF Joined
  <2> QED BY <1>10, <2>3, <2>4
<1>14. buf2[1] = r.buf[1]
  BY <1>10
<1>15. r.size + n <= End(buf2) /\ End(buf2) <= r.length /\ End(buf2) \in Nat
  BY <1>2, <1>3, <1>4, <1>5, <1>6, <1>7, <1>12
<1>16. n = c.n /\ n >= 1 /\ (n = NextBytes \/ End(buf2) = r.length)
  BY <1>5, <1>7, <1>12
<1> QED BY <1>2, <1>3, <1>4, <1>6, <1>7, <1>10, <1>11, <1>12, <1>13, <1>14, <1>15, <1>16 DEF c

\* Nothing is missing of a payload that is complete.
LEMMA Complete ==
  ASSUME NEW ms, NEW m, NEW buf \in Seq(ChunkSet), buf # <<>>, \A i \in DOMAIN buf : buf[i].m = m,
         buf[1].from = 0, Joined(buf), End(buf) = ms[m]
  PROVE  Whole(ms, m, buf)
<1>1. \A i \in DOMAIN buf : i \in Nat /\ (i = 1 \/ i > 1)
  OBVIOUS
<1> QED BY <1>1 DEF Whole, Joined

\* A payload that was sent is returned.
LEMMA DirReturned ==
  ASSUME NEW q, NEW back, NEW s, NEW res, NEW ms, NEW r, NEW del, NEW buf,
         Dir(q, back, s, res, ms, r, del), \E m \in DOMAIN ms : Whole(ms, m, buf)
  PROVE  Dir(q, back, s, res, ms, r, del \cup {buf})
<1>1. Returned(ms, del \cup {buf})
  BY DEF Dir, Returned
<1> QED BY <1>1 DEF Dir

\* The answer to a frame is the only one on its way.
LEMMA FlowAnswer ==
  ASSUME NEW q2, NEW back \in Seq(Frame), NEW back2, NEW g \in Frame, NEW s, NEW ms, NEW r2,
         \A i \in DOMAIN back : back[i].type # "FC",
         back2 = back \/ back2 = Append(back, g),
         UpToDate(q2, s, ms, r2), ~Paused(s), r2.hold => g.fs = "Wait"
  PROVE  FlowInBack(q2, back2, s, ms, r2)
<1>1. \A i \in DOMAIN back2 : back2[i].type = "FC" => i = Len(back) + 1 /\ back2[i] = g
  BY AppendFacts
<1> QED BY <1>1 DEF FlowInBack

\* recv begins to reassemble the payload whose First Frame it reads.
LEMMA DirReassemble ==
  ASSUME NEW q \in Seq(Frame), NEW back \in Seq(Frame), NEW back2, NEW g \in Frame, NEW s \in SendState,
         NEW res, NEW ms \in Seq(Nat), NEW r \in RecvState, NEW r2 \in RecvState, NEW del,
         Dir(q, back, s, res, ms, r, del), r.stage = "first",
         q # <<>>, Head(q).type = "FF",
         r2.stage = "cf", r2.buf = <<Head(q).chunk>>, r2.size = FirstBytes, r2.length = Head(q).len,
         r2.block = 0, r2.hold => g.fs = "Wait", back2 = back \/ back2 = Append(back, g)
  PROVE  Dir(Tail(q), back2, s, res, ms, r2, del)
<1> DEFINE f == Head(q)
           q2 == Tail(q)
<1>1. /\ 1 \in DOMAIN q /\ f = q[1] /\ q2 \in Seq(Frame)
      /\ \A i \in DOMAIN q2 : i \in Nat /\ i >= 1 /\ i + 1 \in DOMAIN q /\ q2[i] = q[i + 1]
  BY TailFacts
<1>2. f \in Frame
  BY <1>1, InChannel
<1>3. f.type = "FF"
  OBVIOUS
<1>4. /\ f.chunk \in ChunkSet /\ f.chunk.from = 0 /\ f.chunk.n = FirstBytes
      /\ f.len \in (NextBytes + 1)..MaxPayload
  <2> HIDE DEF f
  <2> QED BY <1>2, <1>3, FrameFacts
<1>5. f.len \in Nat /\ FirstBytes < f.len
  <2>1. \A k \in (NextBytes + 1)..MaxPayload : k \in Nat /\ FirstBytes < k
    BY DEF MaxPayload, FirstBytes, NextBytes
  <2> QED BY <1>4, <2>1
<1>6. f.chunk.m \in DOMAIN ms /\ f.len = ms[f.chunk.m]
  <2>1. OfPayload(f, ms)
    BY <1>1, <1>3 DEF Dir, Genuine
  <2> HIDE DEF f
  <2> QED BY <1>3, <2>1 DEF OfPayload
<1> HIDE DEF f
<1>7. Part(q2, q)
  BY PartTail
<1>8. \A i \in DOMAIN q2 : q2[i].type \notin {"FF", "CF"}
  <2> SUFFICES ASSUME NEW i \in DOMAIN q2 PROVE q2[i].type \notin {"FF", "CF"}
    OBVIOUS
  <2>1. 1 < i + 1 /\ i + 1 \in DOMAIN q /\ q2[i] = q[i + 1]
    BY <1>1
  <2> QED BY <1>1, <1>3, <2>1 DEF Dir, Ordered
<1> HIDE DEF q2
<1>9. Genuine(q2, ms) /\ Ordered(q2)
  <2>1. Grown(ms, ms)
    BY DEF Grown
  <2> QED BY <1>1, <1>7, <2>1, GenuinePart, OrderedPart DEF Dir
<1>10. End(r2.buf) = FirstBytes /\ FirstBytes \in Nat
  <2>1. r2.buf = <<f.chunk>>
    BY DEF f
  <2>2. Len(r2.buf) = 1 /\ r2.buf[1] = f.chunk
    BY <2>1
  <2>3. FirstBytes \in Nat
    BY DEF FirstBytes
  <2>4. End(r2.buf) = f.chunk.from + f.chunk.n
    BY <2>2 DEF End
  <2> QED BY <1>4, <2>3, <2>4
<1>11. Session(q2, ms, r2)
  <2>1. r2.buf = <<f.chunk>> /\ r2.length = f.len
    BY DEF f
  <2>2. r2.buf # <<>> /\ r2.buf[1] = f.chunk /\ \A i \in DOMAIN r2.buf : i = 1
    BY <2>1
  <2>3. Joined(r2.buf)
    BY <2>2 DEF Joined
  <2> QED BY SMTT(30), <1>4, <1>5, <1>6, <1>8, <1>10, <2>1, <2>2, <2>3 DEF Session
<1>12. Pending(q2) <= Pending(q) /\ Pending(q2) \in Nat /\ Pending(q) \in Nat
  BY <1>1, <1>7, PendingPart, CfsFinite
<1>13. ASSUME Alive(res) PROVE Turn(q2, back2, s, ms, r2)
  <2>1. Turn(q, back, s, ms, r)
    BY <1>13 DEF Dir
  <2>2. s.stage = "wait_first" /\ f.chunk.m = s.m
    BY <1>1, <1>3, <2>1 DEF Turn, FirstWaits
  <2>3. s.offset = FirstBytes
    BY <2>2 DEF Dir, Sender
  <2>4. \A i \in DOMAIN back : back[i].type # "FC"
    <3>1. ~UpToDate(q, s, ms, r)
      BY <1>1, <1>3 DEF UpToDate
    <3> QED BY <2>1, <3>1, NoneDue DEF Turn
  <2>5. UpToDate(q2, s, ms, r2) /\ ~Paused(s)
    <3>1. r2.buf[1] = f.chunk
      BY DEF f
    <3>2. Expecting(s) /\ ~Paused(s)
      BY <2>2 DEF Expecting, Paused
    <3>3. s.offset < ms[s.m]
      BY <1>5, <1>6, <2>2, <2>3
    <3> QED BY <1>8, <1>10, <2>2, <2>3, <3>1, <3>2, <3>3 DEF UpToDate
  <2>6. FlowInBack(q2, back2, s, ms, r2)
    BY <2>4, <2>5, FlowAnswer
  <2>7. FirstWaits(q2, s)
    BY <1>8 DEF FirstWaits
  <2>8. BlockSize # 0 => Pending(q2) + r2.block < BlockSize
    <3>1. BlockSize \in Nat /\ r.block \in Nat /\ r2.block = 0
      BY IsoTpAssumption DEF RecvState
    <3>2. BlockSize # 0 => Pending(q) + r.block < BlockSize
      BY <2>1, <2>2 DEF Turn, InBlock
    <3> QED BY <1>12, <3>1, <3>2
  <2>9. InBlock(q2, s, r2)
    BY <2>2, <2>8 DEF InBlock
  <2> QED BY <2>6, <2>7, <2>9 DEF Turn
<1>14. BlockSize # 0 => Pending(q2) <= BlockSize
  <2>1. BlockSize \in Nat
    BY IsoTpAssumption
  <2>2. BlockSize # 0 => Pending(q) <= BlockSize
    BY DEF Dir
  <2> QED BY <1>12, <2>1, <2>2
<1>15. Dir(q2, back2, s, res, ms, r2, del)
  BY <1>9, <1>11, <1>13, <1>14 DEF Dir
<1> QED BY <1>15 DEF q2

\* recv, which held the sender back, lets it go on.
LEMMA DirResume ==
  ASSUME NEW q \in Seq(Frame), NEW back \in Seq(Frame), NEW back2, NEW g \in Frame, NEW s \in SendState,
         NEW res, NEW ms, NEW r \in RecvState, NEW r2 \in RecvState, NEW del,
         Dir(q, back, s, res, ms, r, del), r.stage = "cf", r.hold,
         g.type = "FC", g.fs # "Wait", back2 = back \/ back2 = Append(back, g),
         r2.stage = "cf", r2.buf = r.buf, r2.size = r.size, r2.length = r.length,
         r2.block = r.block, ~r2.hold
  PROVE  Dir(q, back2, s, res, ms, r2, del)
<1>1. Session(q, ms, r2)
  BY DEF Dir, Session
<1>2. ASSUME Alive(res) PROVE Turn(q, back2, s, ms, r2)
  <2>1. FlowInBack(q, back, s, ms, r) /\ FirstWaits(q, s) /\ InBlock(q, s, r)
    BY <1>2 DEF Dir, Turn
  <2>2. UpToDate(q, s, ms, r2)
    BY <2>1 DEF FlowInBack, UpToDate
  <2>3. \A i \in DOMAIN back : back[i].type = "FC" => back[i].fs = "Wait"
    BY <2>1 DEF FlowInBack
  <2>4. \A i, j \in DOMAIN back : ~(i < j /\ back[i].type = "FC" /\ back[j].type = "FC")
    BY <2>1, <2>3 DEF FlowInBack
  <2>5. \A i \in DOMAIN back2 : \/ i \in DOMAIN back /\ back2[i] = back[i]
                                \/ i = Len(back) + 1 /\ back2[i] = g
    BY AppendFacts
  <2>6. \A i \in DOMAIN back : i \in Nat /\ i <= Len(back) /\ Len(back) \in Nat
    BY AppendFacts
  <2>7. ASSUME NEW i \in DOMAIN back2, NEW j \in DOMAIN back2, i < j,
               back2[i].type = "FC", back2[j].type = "FC"
        PROVE  back2[i].fs = "Wait" /\ back2[j].fs # "Wait"
    <3>1. i \in DOMAIN back /\ back2[i] = back[i]
      <4>1. CASE i = Len(back) + 1
        <5>1. Len(back) \in Nat
          OBVIOUS
        <5> QED BY <2>5, <2>6, <2>7, <4>1, <5>1
      <4> QED BY <2>5, <4>1
    <3>2. back2[j] = g
      BY <2>4, <2>5, <2>7, <3>1
    <3> QED BY <2>3, <2>7, <3>1, <3>2
  <2>8. ASSUME NEW i \in DOMAIN back2, back2[i].type = "FC", Paused(s) PROVE back2[i].fs # "Wait"
    BY <2>1, <2>5, <2>8 DEF FlowInBack
  <2>9. FlowInBack(q, back2, s, ms, r2)
    BY <2>2, <2>7, <2>8 DEF FlowInBack
  <2>10. InBlock(q, s, r2)
    <3>1. (Behind(r, s) => Behind(r2, s)) /\ (Reach(q, s, r) => Reach(q, s, r2))
      BY DEF Behind, Reach
    <3> QED BY <2>1, <3>1 DEF InBlock
  <2> QED BY <2>1, <2>9, <2>10 DEF Turn
<1> QED BY <1>1, <1>2 DEF Dir

\* recv reads the next Consecutive Frame and goes on; it answers the last of a block.
LEMMA DirExtend ==
  ASSUME NEW q \in Seq(Frame), NEW back \in Seq(Frame), NEW back2, NEW g \in Frame, NEW s \in SendState,
         NEW res, NEW ms \in Seq(Nat), NEW r \in RecvState, NEW r2 \in RecvState, NEW n, NEW del,
         Dir(q, back, s, res, ms, r, del), r.stage = "cf", Unfinished(r),
         q # <<>>, Head(q).type = "CF", Takes(q, r, n, r2.buf), r.size + n < r.length,
         r2.stage = "cf", r2.size = r.size + n, r2.length = r.length,
         \/ /\ ~Boundary(r) /\ back2 = back /\ r2.hold = r.hold
            /\ r2.block = IF BlockSize # 0 THEN r.block + 1 ELSE r.block
         \/ /\ Boundary(r) /\ (back2 = back \/ back2 = Append(back, g)) /\ r2.block = 0
            /\ r2.hold => g.fs = "Wait"
  PROVE  Dir(Tail(q), back2, s, res, ms, r2, del)
<1> DEFINE c == Head(q).chunk
           q2 == Tail(q)
<1>1. /\ 1 \in DOMAIN q /\ Head(q) = q[1] /\ q2 \in Seq(Frame) /\ q[1].type = "CF" /\ c = q[1].chunk
      /\ \A i \in DOMAIN q2 : i \in Nat /\ i >= 1 /\ i + 1 \in DOMAIN q /\ q2[i] = q[i + 1]
  BY TailFacts
<1>2. Session(q, ms, r) /\ Genuine(q, ms) /\ Ordered(q)
  BY DEF Dir
<1>3. /\ r2.buf # <<>> /\ n \in Nat /\ r.size \in Nat /\ r.length \in Nat /\ End(r2.buf) \in Nat
      /\ \A i \in DOMAIN r2.buf : r2.buf[i].m = r.buf[1].m
      /\ r2.buf[1] = r.buf[1]
      /\ End(r2.buf) = c.from + c.n
      /\ r.size + n <= End(r2.buf) /\ End(r2.buf) <= r.length
      /\ r.size + n = End(r2.buf) => Joined(r2.buf)
      /\ n = c.n /\ n >= 1 /\ (n = NextBytes \/ End(r2.buf) = r.length)
      /\ r.size <= End(r.buf) /\ End(r.buf) \in Nat /\ End(r.buf) <= c.from /\ c.from \in Nat
  BY <1>2, Extended
<1>4. Part(q2, q)
  BY PartTail
<1> HIDE DEF q2, c
<1>5. Genuine(q2, ms) /\ Ordered(q2)
  <2>1. Grown(ms, ms)
    BY DEF Grown
  <2> QED BY <1>1, <1>2, <1>4, <2>1, GenuinePart, OrderedPart
<1>6. \A i \in DOMAIN q2 : q2[i].type = "CF" =>
        q2[i].chunk.m = r.buf[1].m /\ q2[i].chunk.from >= End(r2.buf)
  <2> SUFFICES ASSUME NEW i \in DOMAIN q2, q2[i].type = "CF"
               PROVE  q2[i].chunk.m = r.buf[1].m /\ q2[i].chunk.from >= End(r2.buf)
    OBVIOUS
  <2>1. 1 < i + 1 /\ i + 1 \in DOMAIN q /\ q2[i] = q[i + 1]
    BY <1>1
  <2>2. q[1].chunk.m = q2[i].chunk.m /\ c.from + c.n <= q2[i].chunk.from
    BY <1>1, <1>2, <2>1 DEF Ordered
  <2>3. q[1].chunk.m = r.buf[1].m
    BY <1>1, <1>2 DEF Session
  <2>4. q2[i].chunk.from \in Nat
    BY <1>1, InChannel
  <2>5. c.from \in Nat /\ c.n \in Nat
    BY <1>1, InChannel
  <2> QED BY <1>3, <2>2, <2>3, <2>4, <2>5
<1>7. Session(q2, ms, r2)
  BY <1>2, <1>3, <1>6 DEF Session
<1>8. /\ Pending(q2) + 1 <= Pending(q) /\ Pending(q2) \in Nat /\ Pending(q) \in Nat
      /\ BlockSize \in Nat /\ r.block \in Nat /\ s.block \in Nat
  <2>1. Pending(q2) \in Nat /\ Pending(q) \in Nat
    BY <1>1, CfsFinite
  <2>2. Pending(q2) + 1 <= Pending(q)
    BY PendingTail DEF q2
  <2>3. BlockSize \in Nat
    BY IsoTpAssumption
  <2>4. r.block \in Nat /\ s.block \in Nat
    BY DEF RecvState, SendState
  <2> QED BY <2>1, <2>2, <2>3, <2>4
<1>9. ASSUME Alive(res) PROVE Turn(q2, back2, s, ms, r2)
  <2>1. Turn(q, back, s, ms, r)
    BY <1>9 DEF Dir
  <2>2. ~r.hold /\ \A i \in DOMAIN back : back[i].type # "FC"
    <3>1. ~UpToDate(q, s, ms, r)
      BY <1>1 DEF UpToDate
    <3> QED BY <2>1, <3>1, NoneDue DEF Turn
  <2>3. \A i \in DOMAIN q2 : q2[i].type = "FF" => s.stage = "wait_first" /\ q2[i].chunk.m = s.m
    BY <1>1, <2>1 DEF Turn, FirstWaits
  <2>4. ASSUME s.stage \in {"cf", "go", "wait_wait", "wait_block"} PROVE Behind(r2, s)
    <3>1. r.buf[1].m = s.m /\ c.from + c.n <= s.offset
      BY <1>1, <2>1, <2>4 DEF Turn, InBlock, Behind
    <3> QED BY <1>3, <3>1 DEF Behind
  <2>5. ASSUME s.stage \in {"cf", "go", "wait_wait", "wait_block"}, NEW i \in DOMAIN q2, q2[i].type = "CF"
        PROVE  q2[i].chunk.m = s.m /\ q2[i].chunk.from + q2[i].chunk.n <= s.offset
    BY <1>1, <2>1, <2>5 DEF Turn, InBlock
  <2>6. s.offset \in Nat
    BY DEF SendState
  <2>7. End(r.buf) < r.length
    BY <1>3
  <2>8. CASE /\ ~Boundary(r) /\ back2 = back /\ r2.hold = r.hold
             /\ r2.block = IF BlockSize # 0 THEN r.block + 1 ELSE r.block
    <3>1. FlowInBack(q2, back2, s, ms, r2)
      BY <2>2, <2>8, NoneOnItsWay
    <3>2. BlockSize # 0 => Pending(q2) + r2.block <= Pending(q) + r.block
      BY <1>8, <2>8
    <3>3. BlockSize # 0 => r2.block \in Nat
      BY <1>8, <2>8
    <3>4. ASSUME s.stage \in {"cf", "go", "wait_wait", "wait_block"}, BlockSize # 0
          PROVE  Pending(q2) + r2.block <= s.block
      <4>1. Pending(q) + r.block <= s.block
        BY <2>1, <3>4 DEF Turn, InBlock
      <4>2. Pending(q2) + r2.block <= Pending(q) + r.block /\ r2.block \in Nat
        BY <3>2, <3>3, <3>4
      <4>3. Pending(q) + r.block \in Nat /\ Pending(q2) + r2.block \in Nat /\ s.block \in Nat
        BY <1>8, <4>2
      <4> QED BY <4>1, <4>2, <4>3
    <3>5. ASSUME s.stage \in {"idle", "wait_first"}, BlockSize # 0 PROVE Pending(q2) + r2.block < BlockSize
      <4>1. Pending(q) + r.block < BlockSize
        BY <2>1, <3>5 DEF Turn, InBlock
      <4> QED BY <1>8, <3>2, <3>3, <3>5, <4>1
    <3>6. ASSUME s.stage \in {"cf", "go", "wait_wait", "wait_block"}, BlockSize # 0 PROVE Reach(q2, s, r2)
      <4>1. Reach(q, s, r)
        BY <2>1, <3>6 DEF Turn, InBlock
      <4>2. /\ s.offset + NextBytes * r.block <= r.size + NextBytes * s.block
            /\ \A i \in DOMAIN q : q[i].type = "CF" =>
                 q[i].chunk.from + NextBytes + NextBytes * r.block <= r.size + NextBytes * s.block
        BY <2>7, <4>1 DEF Reach
      <4> SUFFICES ASSUME End(r2.buf) < r.length
                   PROVE  /\ s.offset + NextBytes * r2.block <= r2.size + NextBytes * s.block
                          /\ \A i \in DOMAIN q2 : q2[i].type = "CF" =>
                               q2[i].chunk.from + NextBytes + NextBytes * r2.block
                                 <= r2.size + NextBytes * s.block
        BY DEF Reach
      <4>3. r2.block = r.block + 1 /\ r2.size = r.size + NextBytes
        BY <1>3, <2>8, <3>6
      <4>4. s.offset + NextBytes * r2.block <= r2.size + NextBytes * s.block
        BY <1>3, <1>8, <2>6, <4>2, <4>3, Counted
      <4>5. ASSUME NEW i \in DOMAIN q2, q2[i].type = "CF"
            PROVE  q2[i].chunk.from + NextBytes + NextBytes * r2.block <= r2.size + NextBytes * s.block
        <5>1. q2[i].chunk.from + NextBytes + NextBytes * r.block <= r.size + NextBytes * s.block
          BY <1>1, <4>2, <4>5
        <5>2. q2[i].chunk.from \in Nat
          BY <1>1, <4>5, InChannel
        <5>3. q2[i].chunk.from + NextBytes \in Nat
          BY <5>2, NextBytesNat
        <5> QED BY <1>3, <1>8, <4>3, <5>1, <5>3, Counted
      <4> QED BY <4>4, <4>5
    <3>7. InBlock(q2, s, r2)
      BY <2>1, <2>4, <2>5, <3>4, <3>5, <3>6 DEF Turn, InBlock
    <3> QED BY <2>3, <3>1, <3>7 DEF Turn, FirstWaits
  <2>9. CASE /\ Boundary(r) /\ (back2 = back \/ back2 = Append(back, g)) /\ r2.block = 0
             /\ r2.hold => g.fs = "Wait"
    <3>1. BlockSize # 0 /\ r.block + 1 = BlockSize
      BY <2>9 DEF Boundary
    <3>2. s.stage \in {"idle", "wait_first", "cf", "go", "wait_wait", "wait_block"}
      BY DEF SendState, Stages
    <3>3. s.stage = "wait_block" /\ s.block = BlockSize /\ Pending(q2) = 0
      BY <1>8, <2>1, <3>1, <3>2 DEF Turn, InBlock
    <3>4. Cfs(q2) = {}
      BY <1>1, <3>3, CfsFinite, FS_EmptySet DEF Pending
    <3>5. \A i \in DOMAIN q2 : q2[i].type \notin {"FF", "CF"}
      BY <2>3, <3>3, <3>4 DEF Cfs
    <3>6. /\ s.offset + NextBytes * r.block <= r.size + NextBytes * s.block
          /\ c.from + NextBytes + NextBytes * r.block <= r.size + NextBytes * s.block
      BY <1>1, <2>1, <2>7, <3>1, <3>3 DEF Turn, InBlock, Reach
    <3>7. s.offset <= r.size + NextBytes /\ c.from <= r.size
      <4>1. s.block = r.block + 1 /\ c.from + NextBytes \in Nat
        BY <1>3, <3>1, <3>3 DEF NextBytes
      <4>2. s.offset <= r.size + NextBytes /\ c.from + NextBytes <= r.size + NextBytes
        BY <1>3, <1>8, <2>6, <3>6, <4>1, OneBlock
      <4> QED BY <1>3, <4>2 DEF NextBytes
    <3>8. r.buf[1].m = s.m /\ c.from + c.n <= s.offset
      BY <1>1, <2>1, <3>3 DEF Turn, InBlock, Behind
    <3>9. End(r2.buf) = r.size + n /\ n = NextBytes /\ s.offset = r.size + n
      <4>1. c.from = r.size /\ End(r2.buf) = r.size + n
        BY <1>3, <3>7
      <4>2. n = NextBytes
        BY <1>3, <4>1
      <4>3. r.size + n <= s.offset
        BY <1>3, <3>8, <4>1
      <4> QED BY <1>3, <2>6, <3>7, <4>1, <4>2, <4>3
    <3>10. UpToDate(q2, s, ms, r2)
      <4>1. Expecting(s)
        BY <3>3 DEF Expecting
      <4>2. r.length = ms[s.m]
        BY <1>2, <3>8 DEF Session
      <4>3. s.offset < ms[s.m]
        BY <3>9, <4>2
      <4>4. r2.buf[1].m = s.m
        BY <1>3, <3>8
      <4> QED BY <2>9, <3>5, <3>9, <4>1, <4>3, <4>4 DEF UpToDate
    <3>11. FlowInBack(q2, back2, s, ms, r2)
      <4>1. ~Paused(s)
        BY <3>3 DEF Paused
      <4> QED BY <2>2, <2>9, <3>10, <4>1, FlowAnswer
    <3>12. Reach(q2, s, r2)
      BY <1>8, <2>6, <2>9, <3>5, <3>9 DEF Reach, NextBytes
    <3>13. InBlock(q2, s, r2)
      BY <1>8, <2>1, <2>4, <2>5, <2>9, <3>1, <3>3, <3>12 DEF Turn, InBlock
    <3> QED BY <2>3, <3>11, <3>13 DEF Turn, FirstWaits
  <2> QED BY <2>8, <2>9
<1>10. BlockSize # 0 => Pending(q2) <= BlockSize
  BY <1>8 DEF Dir
<1>11. Dir(q2, back2, s, res, ms, r2, del)
  BY <1>5, <1>7, <1>9, <1>10 DEF Dir
<1> QED BY <1>11 DEF q2

-----------------------------------------------------------------------------
(* The two directions at a step of the system *)

LEMMA TransmitRx ==
  ASSUME NEW e \in Ends, NEW f \in Frame, NEW in, RxTyped(in), Transmit(e, f, in)
  PROVE  /\ rx'[e] = in[e]
         /\ rx'[Peer(e)] = in[Peer(e)] \/ rx'[Peer(e)] = Append(in[Peer(e)], f)
BY EndsFacts DEF Transmit, RxTyped

LEMMA RestRx ==
  ASSUME TypeInv, NEW e \in Ends, rx[e] # <<>>
  PROVE  /\ RxTyped(Rest(e)) /\ Rest(e)[e] = Tail(rx[e]) /\ Rest(e)[Peer(e)] = rx[Peer(e)]
         /\ rx[e] \in Seq(Frame) /\ Part(Tail(rx[e]), rx[e]) /\ PartFc(Tail(rx[e]), rx[e])
<1>1. rx[e] \in Seq(Frame) /\ RxTyped(rx)
  BY DEF TypeInv, RxTyped
<1>2. RxTyped(Rest(e))
  BY <1>1, RestTyped
<1>3. Rest(e)[e] = Tail(rx[e]) /\ Rest(e)[Peer(e)] = rx[Peer(e)]
  BY <1>1, EndsFacts DEF Rest, RxTyped
<1> QED BY <1>1, <1>2, <1>3, PartTail

LEMMA DirTyped ==
  ASSUME TypeInv, NEW x \in Ends
  PROVE  /\ rx[x] \in Seq(Frame) /\ rx[Peer(x)] \in Seq(Frame) /\ snd[x] \in SendState
         /\ sent[x] \in Seq(Nat) /\ rcv[Peer(x)] \in RecvState
BY EndsFacts DEF TypeInv, RxTyped

LEMMA CalmDir ==
  ASSUME TypeInv, TypeInv', NEW x \in Ends, DirOf(x),
         Part(rx'[Peer(x)], rx[Peer(x)]), PartFc(rx'[x], rx[x]), Grown(sent[x], sent'[x]),
         \/ snd'[x] = snd[x] /\ result'[x] = result[x]
         \/ snd'[x] = SendIdle /\ ~Alive(result'[x]),
         rcv'[Peer(x)] = rcv[Peer(x)] \/ Fresh(rcv'[Peer(x)]),
         delivered'[Peer(x)] = delivered[Peer(x)]
  PROVE  DirOf(x)'
<1>1. /\ rx[x] \in Seq(Frame) /\ rx[Peer(x)] \in Seq(Frame) /\ snd[x] \in SendState
      /\ sent[x] \in Seq(Nat) /\ rcv[Peer(x)] \in RecvState
  BY DirTyped
<1>2. /\ rx'[x] \in Seq(Frame) /\ rx'[Peer(x)] \in Seq(Frame) /\ snd'[x] \in SendState
      /\ sent'[x] \in Seq(Nat) /\ rcv'[Peer(x)] \in RecvState
  BY EndsFacts DEF TypeInv, RxTyped
<1>3. Dir(rx[Peer(x)], rx[x], snd[x], result[x], sent[x], rcv[Peer(x)], delivered[Peer(x)])
  BY DEF DirOf
<1>4. Dir(rx'[Peer(x)], rx'[x], snd'[x], result'[x], sent'[x], rcv'[Peer(x)], delivered'[Peer(x)])
  BY SMTT(30), <1>1, <1>2, <1>3, Calm
<1> QED BY <1>4 DEF DirOf

LEMMA GrownSelf == \A ms : Grown(ms, ms)
BY DEF Grown

\* A step of e's send leaves the other direction alone.
LEMMA SendSide ==
  ASSUME TypeInv, TypeInv', LibInv, NEW e \in Ends, UNCHANGED <<rcv, delivered>>,
         snd'[Peer(e)] = snd[Peer(e)], result'[Peer(e)] = result[Peer(e)], sent'[Peer(e)] = sent[Peer(e)],
         Part(rx'[e], rx[e]), PartFc(rx'[Peer(e)], rx[Peer(e)]),
         DirOf(e)'
  PROVE  LibInv'
<1>1. DirOf(Peer(e))'
  BY EndsFacts, CalmDir, GrownSelf DEF LibInv
<1> QED BY <1>1, EndsFacts DEF LibInv

\* So does a step of e's recv.
LEMMA RecvSide ==
  ASSUME TypeInv, TypeInv', LibInv, NEW e \in Ends, UNCHANGED <<snd, result, sent>>,
         rcv'[Peer(e)] = rcv[Peer(e)], delivered'[Peer(e)] = delivered[Peer(e)],
         Part(rx'[Peer(e)], rx[Peer(e)]), PartFc(rx'[e], rx[e]),
         DirOf(Peer(e))'
  PROVE  LibInv'
<1>1. DirOf(e)'
  BY EndsFacts, CalmDir, GrownSelf DEF LibInv
<1> QED BY <1>1, EndsFacts DEF LibInv

-----------------------------------------------------------------------------
(* The invariant is kept *)

LEMMA InitLib == Init => LibInv
<1> SUFFICES ASSUME Init, NEW e \in Ends PROVE DirOf(e)
  BY DEF LibInv
<1>1. /\ rx[e] = <<>> /\ rx[Peer(e)] = <<>> /\ snd[e] = SendIdle /\ result[e] = "ok" /\ sent[e] = <<>>
      /\ rcv[Peer(e)] = RecvIdle /\ delivered[Peer(e)] = {}
  BY EndsFacts DEF Init
<1>2. Cfs(<<>>) = {} /\ Pending(<<>>) = 0
  BY FS_EmptySet DEF Cfs, Pending
<1>3. Genuine(<<>>, <<>>) /\ Ordered(<<>>) /\ Returned(<<>>, {})
  BY DEF Genuine, Ordered, Returned
<1>4. Session(<<>>, <<>>, RecvIdle)
  BY SessionFresh DEF Fresh, RecvIdle
<1>5. Sender(SendIdle, "ok", <<>>)
  BY SenderIdle, Idles
<1>6. Turn(<<>>, <<>>, SendIdle, <<>>, RecvIdle)
  <2>1. FlowInBack(<<>>, <<>>, SendIdle, <<>>, RecvIdle) /\ FirstWaits(<<>>, SendIdle)
    BY NoneOnItsWay DEF FirstWaits, RecvIdle
  <2>2. InBlock(<<>>, SendIdle, RecvIdle)
    BY <1>2, IsoTpAssumption DEF InBlock, SendIdle, RecvIdle
  <2> QED BY <2>1, <2>2 DEF Turn
<1>7. BlockSize # 0 => Pending(<<>>) <= BlockSize
  BY <1>2, IsoTpAssumption
<1> QED BY <1>1, <1>3, <1>4, <1>5, <1>6, <1>7 DEF Dir, DirOf

\* A call of send ends without success; what it was sending is never finished.
LEMMA AbandonLib ==
  ASSUME TypeInv, TypeInv', LibInv, NEW e \in Ends, NEW r, ~Alive(r), SendReturn(e, r),
         UNCHANGED <<rcv, delivered>>, Grown(sent[e], sent'[e]), sent'[Peer(e)] = sent[Peer(e)],
         Part(rx'[e], rx[e]), PartFc(rx'[e], rx[e]), rx'[Peer(e)] = rx[Peer(e)]
  PROVE  LibInv'
<1>1. /\ snd'[e] = SendIdle /\ result'[e] = r
      /\ snd'[Peer(e)] = snd[Peer(e)] /\ result'[Peer(e)] = result[Peer(e)]
  BY EndsFacts DEF SendReturn, TypeInv
<1>2. rx[Peer(e)] \in Seq(Frame)
  BY DirTyped
<1>3. Part(rx'[Peer(e)], rx[Peer(e)]) /\ PartFc(rx'[Peer(e)], rx[Peer(e)])
  BY <1>2, PartSelf
<1>4. DirOf(e)'
  BY <1>1, <1>3, CalmDir DEF LibInv
<1> QED BY <1>1, <1>3, <1>4, SendSide

\* recv gives up: what it has reassembled is lost.
LEMMA GiveUpLib ==
  ASSUME TypeInv, TypeInv', LibInv, NEW e \in Ends, RecvFails(e),
         UNCHANGED <<snd, result, sent>>,
         Part(rx'[e], rx[e]), PartFc(rx'[e], rx[e]), rx'[Peer(e)] = rx[Peer(e)]
  PROVE  LibInv'
<1>1. /\ Fresh(rcv'[e]) /\ rcv'[Peer(e)] = rcv[Peer(e)] /\ delivered' = delivered
  BY EndsFacts DEF RecvFails, TypeInv, Fresh, RecvIdle
<1>2. rx[Peer(e)] \in Seq(Frame)
  BY DirTyped
<1>3. Part(rx'[Peer(e)], rx[Peer(e)]) /\ PartFc(rx'[Peer(e)], rx[Peer(e)])
  BY <1>2, PartSelf
<1>4. DirOf(Peer(e))'
  BY <1>1, <1>3, EndsFacts, CalmDir, GrownSelf DEF LibInv
<1> QED BY <1>1, <1>3, <1>4, RecvSide

\* A frame that is thrown away.
LEMMA SkipLib ==
  ASSUME TypeInv, TypeInv', LibInv, NEW e \in Ends, rx[e] # <<>>, rx' = Rest(e),
         UNCHANGED <<snd, rcv, sent, result, delivered>>
  PROVE  LibInv'
<1>1. /\ Part(rx'[e], rx[e]) /\ PartFc(rx'[e], rx[e]) /\ rx'[Peer(e)] = rx[Peer(e)]
  BY RestRx
<1>2. rx[Peer(e)] \in Seq(Frame)
  BY DirTyped
<1>3. Part(rx'[Peer(e)], rx[Peer(e)]) /\ PartFc(rx'[Peer(e)], rx[Peer(e)])
  BY <1>1, <1>2, PartSelf
<1>4. DirOf(e)'
  BY <1>1, <1>3, CalmDir, GrownSelf DEF LibInv
<1> QED BY <1>1, <1>3, <1>4, SendSide

\* A call of send begins only when none has failed.
LEMMA CallAlive ==
  ASSUME Orderly, TypeInv, NEW e \in Ends, MayCall(e)
  PROVE  snd[e].stage = "idle" /\ Alive(result[e]) /\ ~Expecting(snd[e])
<1>1. snd[e].stage = "idle" /\ Alive(result[e])
  BY Zenon DEF Orderly, MayCall, Alive
<1> QED BY <1>1 DEF Expecting, Paused

LEMMA RestLib ==
  ASSUME TypeInv, TypeInv', LibInv, NEW e \in Ends, snd[e].stage \in {"idle", "cf"},
         ~Expecting(snd[e]), Alive(result[e]), NEW r, SendReturn(e, r), UNCHANGED <<rx, rcv, sent, delivered>>
  PROVE  LibInv'
<1>1. /\ snd'[e] = SendIdle /\ result'[e] = r
      /\ snd'[Peer(e)] = snd[Peer(e)] /\ result'[Peer(e)] = result[Peer(e)]
  BY EndsFacts DEF SendReturn, TypeInv
<1>2. /\ rx[e] \in Seq(Frame) /\ rx[Peer(e)] \in Seq(Frame) /\ snd[e] \in SendState
      /\ rcv[Peer(e)] \in RecvState
  BY DirTyped
<1>3. Dir(rx[Peer(e)], rx[e], snd[e], result[e], sent[e], rcv[Peer(e)], delivered[Peer(e)])
  BY DEF LibInv, DirOf
<1>4. Dir(rx[Peer(e)], rx[e], SendIdle, r, sent[e], rcv[Peer(e)], delivered[Peer(e)])
  BY <1>2, <1>3, DirRest
<1>5. DirOf(e)'
  BY <1>1, <1>4 DEF DirOf
<1> QED BY <1>1, <1>2, <1>5, PartSelf, SendSide

LEMMA SendSingleLib ==
  ASSUME Orderly, TypeInv, TypeInv', LibInv, NEW e \in Ends, SendSingle(e) PROVE LibInv'
<1> DEFINE p == Peer(e)
<1>1. PICK len \in Lengths :
        /\ len \in 1..NextBytes
        /\ sent' = [sent EXCEPT ![e] = Append(@, len)]
        /\ Transmit(e, SF(Len(sent[e]) + 1, len), rx)
  BY DEF SendSingle
<1> DEFINE f == SF(Len(sent[e]) + 1, len)
           ms == sent[e]
           ms2 == Append(ms, len)
<1>2. snd[e].stage = "idle" /\ Alive(result[e]) /\ ~Expecting(snd[e])
  BY CallAlive DEF SendSingle
<1>3. /\ snd'[e] = SendIdle /\ result'[e] = "ok" /\ snd'[p] = snd[p] /\ result'[p] = result[p]
      /\ UNCHANGED <<rcv, delivered>>
  BY EndsFacts DEF SendSingle, SendReturn, TypeInv
<1>4. /\ rx[e] \in Seq(Frame) /\ rx[p] \in Seq(Frame) /\ snd[e] \in SendState
      /\ ms \in Seq(Nat) /\ rcv[p] \in RecvState /\ RxTyped(rx)
  BY DirTyped DEF TypeInv
<1>5. sent'[e] = ms2 /\ sent'[p] = sent[p]
  BY <1>1, EndsFacts DEF TypeInv
<1>6. len \in Nat /\ Len(ms) \in Nat /\ Len(ms) + 1 \in DOMAIN ms2 /\ ms2[Len(ms) + 1] = len
  BY <1>1, <1>4 DEF NextBytes
<1>7. f \in Frame /\ f.type = "SF" /\ f.chunk.m = Len(ms) + 1 /\ f.chunk.from = 0 /\ f.chunk.n = len
  BY <1>6, FramesMade DEF SF, Chunk
<1>8. Transmit(e, f, rx)
  BY <1>1
<1>9. Grown(ms, ms2)
  BY <1>4, <1>6, GrownAppend
<1> HIDE DEF p, f, ms2
<1>10. rx'[e] = rx[e] /\ (rx'[p] = rx[p] \/ rx'[p] = Append(rx[p], f))
  BY <1>4, <1>7, <1>8, TransmitRx DEF p
<1>11. Dir(rx[p], rx[e], SendIdle, "ok", ms, rcv[p], delivered[p])
  <2>1. Dir(rx[p], rx[e], snd[e], result[e], ms, rcv[p], delivered[p])
    BY DEF LibInv, DirOf, p
  <2> QED BY <1>2, <1>4, <2>1, DirRest
<1>12. Dir(rx[p], rx[e], SendIdle, "ok", ms2, rcv[p], delivered[p])
  BY <1>4, <1>9, <1>11, Idles, PartSelf, Calm
<1>13. Dir(Append(rx[p], f), rx[e], SendIdle, "ok", ms2, rcv[p], delivered[p])
  <2>1. OfPayload(f, ms2)
    BY <1>6, <1>7 DEF ms2, OfPayload
  <2> QED BY <1>4, <1>7, <1>12, <2>1, Idles, DirSingle
<1>14. DirOf(e)'
  BY <1>3, <1>5, <1>10, <1>12, <1>13 DEF DirOf, p
<1>15. Part(rx'[e], rx[e]) /\ PartFc(rx'[p], rx[p])
  BY <1>4, <1>7, <1>10, PartSelf, PartAppend
<1> QED BY <1>3, <1>5, <1>14, <1>15, SendSide DEF p

LEMMA SendFirstLib ==
  ASSUME Orderly, TypeInv, TypeInv', LibInv, NEW e \in Ends, SendFirst(e) PROVE LibInv'
<1> DEFINE p == Peer(e)
<1>1. PICK len \in Lengths :
        /\ len \in (NextBytes + 1)..MaxPayload
        /\ sent' = [sent EXCEPT ![e] = Append(@, len)]
        /\ Transmit(e, FF(Len(sent[e]) + 1, len), rx)
  BY DEF SendFirst
<1> DEFINE f == FF(Len(sent[e]) + 1, len)
           ms == sent[e]
           s2 == [SendIdle EXCEPT !.stage = "wait_first", !.m = Len(sent[e]) + 1,
                                 !.offset = FirstBytes, !.sn = 1]
<1>2. snd[e].stage = "idle" /\ Alive(result[e])
  BY CallAlive DEF SendFirst
<1>3. /\ snd'[e] = s2 /\ snd'[p] = snd[p] /\ result' = result
      /\ UNCHANGED <<rcv, delivered>>
  BY EndsFacts DEF SendFirst, TypeInv
<1>4. /\ rx[e] \in Seq(Frame) /\ rx[p] \in Seq(Frame) /\ snd[e] \in SendState
      /\ ms \in Seq(Nat) /\ rcv[p] \in RecvState /\ RxTyped(rx)
  BY DirTyped DEF TypeInv
<1>5. sent'[e] = Append(ms, len) /\ sent'[p] = sent[p]
  BY <1>1, EndsFacts DEF TypeInv
<1>6. len \in Nat /\ len >= FirstBytes /\ Len(ms) \in Nat
  <2>1. \A k \in (NextBytes + 1)..MaxPayload : k \in Nat /\ k >= FirstBytes
    BY DEF NextBytes, MaxPayload, FirstBytes
  <2> QED BY <1>1, <1>4, <2>1
<1>7. f \in Frame /\ f.type = "FF" /\ f.chunk.m = Len(ms) + 1 /\ f.len = len
  BY <1>1, <1>6, FramesMade DEF FF, Chunk
<1>8. Transmit(e, f, rx)
  BY <1>1
<1>9. s2.stage = "wait_first" /\ s2.m = Len(ms) + 1 /\ s2.offset = FirstBytes
  BY DEF SendIdle
<1>10. s2 \in SendState
  <2>1. snd'[e] \in SendState
    BY DEF TypeInv
  <2> QED BY <1>3, <2>1
<1> HIDE DEF p, f, s2
<1>11. rx'[e] = rx[e] /\ (rx'[p] = rx[p] \/ rx'[p] = Append(rx[p], f))
  BY <1>4, <1>7, <1>8, TransmitRx DEF p
<1>12. Dir(rx[p], rx[e], snd[e], result[e], ms, rcv[p], delivered[p])
  BY DEF LibInv, DirOf, p
<1>13. Dir(rx'[p], rx[e], s2, result[e], Append(ms, len), rcv[p], delivered[p])
  BY ZenonT(60), <1>2, <1>4, <1>6, <1>7, <1>9, <1>10, <1>11, <1>12, DirFirst
<1>14. DirOf(e)'
  BY <1>3, <1>5, <1>11, <1>13 DEF DirOf, p
<1>15. Part(rx'[e], rx[e]) /\ PartFc(rx'[p], rx[p])
  BY <1>4, <1>7, <1>11, PartSelf, PartAppend
<1> QED BY <1>3, <1>5, <1>14, <1>15, SendSide DEF p

LEMMA SendNextLib ==
  ASSUME Orderly, TypeInv, TypeInv', LibInv, NEW e \in Ends, SendNext(e) PROVE LibInv'
<1> DEFINE p == Peer(e)
           s == snd[e]
           n == AtMost(NextBytes, Length(e) - s.offset)
           f == CF(s.m, s.offset, n, s.sn % SnModulus)
           s2 == [s EXCEPT !.offset = @ + n, !.sn = (@ + 1) % 256, !.block = @ + 1,
                           !.stage = IF BlockDone(s) THEN "wait_block" ELSE "cf"]
<1>1. Transmit(e, f, rx) /\ snd' = [snd EXCEPT ![e] = s2] /\ UNCHANGED <<rcv, sent, result, delivered>>
  BY DEF SendNext
<1>2. /\ rx[e] \in Seq(Frame) /\ rx[p] \in Seq(Frame) /\ s \in SendState
      /\ sent[e] \in Seq(Nat) /\ rcv[p] \in RecvState /\ RxTyped(rx)
  BY DirTyped DEF TypeInv
<1>3. Dir(rx[p], rx[e], s, result[e], sent[e], rcv[p], delivered[p])
  BY DEF LibInv, DirOf
<1>4. s.stage \in {"cf", "go"} /\ s.fs # "Wait" /\ s.offset < Length(e)
  <2>1. CASE s.stage = "cf"
    BY <2>1 DEF SendNext, MayPut
  <2>2. CASE s.stage = "go"
    BY <1>3, <2>2 DEF Dir, Sender, Length
  <2> QED BY <2>1, <2>2 DEF SendNext, MayPut
<1>5. s.m \in DOMAIN sent[e] /\ s.offset <= sent[e][s.m]
  BY <1>4 DEF TypeInv, InPayload
<1>6. s.m \in Nat /\ s.offset \in Nat /\ s.sn \in Nat /\ s.block \in Nat /\ Length(e) \in Nat
  BY SMTT(30), <1>2, <1>5 DEF SendState, Length
<1>7. /\ n \in Nat /\ n >= 1 /\ n <= NextBytes /\ s.offset + n <= sent[e][s.m]
      /\ n = NextBytes \/ s.offset + n = sent[e][s.m]
  <2>1. Length(e) = sent[e][s.m]
    BY DEF Length
  <2> HIDE DEF s
  <2> QED BY <1>4, <1>6, <2>1 DEF AtMost, NextBytes
<1>8. s.sn % SnModulus \in Nat
  BY <1>6, IsoTpAssumption, ModNat
<1> HIDE DEF n
<1>9. f \in Frame /\ f.type = "CF" /\ f.chunk.m = s.m /\ f.chunk.from = s.offset /\ f.chunk.n = n
  BY <1>6, <1>7, <1>8, FramesMade DEF CF, Chunk
<1>10. snd'[e] = s2 /\ snd'[p] = snd[p]
  BY <1>1, EndsFacts DEF TypeInv
<1>11. s2 \in SendState
  <2>1. snd'[e] \in SendState
    BY DEF TypeInv
  <2> QED BY <1>10, <2>1
<1>12. /\ s2.stage = IF BlockDone(s) THEN "wait_block" ELSE "cf"
       /\ s2.m = s.m /\ s2.offset = s.offset + n /\ s2.block = s.block + 1 /\ s2.bs = s.bs /\ s2.fs = s.fs
  BY <1>2 DEF SendState
<1> HIDE DEF p, f, s2, s
<1>13. rx'[e] = rx[e] /\ (rx'[p] = rx[p] \/ rx'[p] = Append(rx[p], f))
  BY <1>1, <1>2, <1>9, TransmitRx DEF p
<1>14. Dir(rx'[p], rx[e], s2, result[e], sent[e], rcv[p], delivered[p])
  BY ZenonT(60), <1>2, <1>3, <1>4, <1>7, <1>9, <1>11, <1>12, <1>13, DirNext
<1>15. DirOf(e)'
  BY <1>1, <1>10, <1>13, <1>14 DEF DirOf, p
<1>16. Part(rx'[e], rx[e]) /\ PartFc(rx'[p], rx[p])
  BY <1>2, <1>9, <1>13, PartSelf, PartAppend
<1> QED BY <1>1, <1>10, <1>15, <1>16, SendSide DEF p

LEMMA TakeFcLib ==
  ASSUME Orderly, TypeInv, TypeInv', LibInv, NEW e \in Ends, TakeFc(e) PROVE LibInv'
<1> DEFINE p == Peer(e)
           s == snd[e]
           f == Head(rx[e])
           s2 == [s EXCEPT !.fs = f.fs, !.bs = f.bs, !.block = 0,
                           !.stage = IF s.stage = "wait_wait" THEN "go" ELSE "cf"]
<1>1. /\ rx[e] # <<>> /\ f.type = "FC" /\ rx' = Rest(e) /\ snd' = [snd EXCEPT ![e] = s2]
      /\ s.stage # "idle" /\ UNCHANGED <<rcv, sent, result, delivered>>
  BY DEF TakeFc, Waiting
<1>2. /\ rx[e] \in Seq(Frame) /\ rx[p] \in Seq(Frame) /\ s \in SendState /\ rcv[p] \in RecvState
  BY DirTyped
<1>3. Dir(rx[p], rx[e], s, result[e], sent[e], rcv[p], delivered[p])
  BY DEF LibInv, DirOf
<1>5. f.fs \in FlowStatus /\ f.bs = BlockSize
  <2>1. f \in Frame
    BY <1>1, HeadTyped
  <2>2. f.type = "FC"
    BY <1>1
  <2> HIDE DEF f
  <2> QED BY <2>1, <2>2, FrameFacts
<1>6. snd'[e] = s2 /\ snd'[p] = snd[p]
  BY <1>1, EndsFacts DEF TypeInv
<1>7. s2 \in SendState
  <2>1. snd'[e] \in SendState
    BY DEF TypeInv
  <2> QED BY <1>6, <2>1
<1>8. /\ s2.stage = IF s.stage = "wait_wait" THEN "go" ELSE "cf"
      /\ s2.m = s.m /\ s2.offset = s.offset /\ s2.block = 0
      /\ s2.bs = BlockSize /\ s2.fs = f.fs
  BY <1>2, <1>5 DEF SendState
<1> HIDE DEF p, s2, s
<1>9. rx'[e] = Tail(rx[e]) /\ rx'[p] = rx[p] /\ Part(rx'[e], rx[e])
  BY <1>1, RestRx DEF p
<1>10. Dir(rx[p], Tail(rx[e]), s2, result[e], sent[e], rcv[p], delivered[p])
  BY <1>1, <1>2, <1>3, <1>7, <1>8, DirTakeFc
<1>11. DirOf(e)'
  BY <1>1, <1>6, <1>9, <1>10 DEF DirOf, p
<1> QED BY <1>1, <1>2, <1>6, <1>9, <1>11, PartSelf, SendSide DEF p

LEMMA SendHoldLib ==
  ASSUME TypeInv, TypeInv', LibInv, NEW e \in Ends, SendHold(e) PROVE LibInv'
<1> DEFINE p == Peer(e)
           s == snd[e]
           s2 == [s EXCEPT !.stage = "wait_wait"]
<1>1. /\ s.stage = "cf" /\ s.fs = "Wait" /\ snd' = [snd EXCEPT ![e] = s2]
      /\ UNCHANGED <<rx, rcv, sent, result, delivered>>
  BY DEF SendHold
<1>2. /\ rx[e] \in Seq(Frame) /\ rx[p] \in Seq(Frame) /\ s \in SendState /\ rcv[p] \in RecvState
  BY DirTyped
<1>3. Dir(rx[p], rx[e], s, result[e], sent[e], rcv[p], delivered[p])
  BY DEF LibInv, DirOf
<1>4. snd'[e] = s2 /\ snd'[p] = snd[p]
  BY <1>1, EndsFacts DEF TypeInv
<1>5. s2 \in SendState
  <2>1. snd'[e] \in SendState
    BY DEF TypeInv
  <2> QED BY <1>4, <2>1
<1>6. s2.stage = "wait_wait" /\ s2.m = s.m /\ s2.offset = s.offset /\ s2.block = s.block /\ s2.bs = s.bs
  BY <1>2 DEF SendState
<1> HIDE DEF p, s2, s
<1>7. Dir(rx[p], rx[e], s2, result[e], sent[e], rcv[p], delivered[p])
  BY ZenonT(60), <1>1, <1>2, <1>3, <1>5, <1>6, DirHold
<1>8. DirOf(e)'
  BY <1>1, <1>4, <1>7 DEF DirOf, p
<1> QED BY <1>1, <1>2, <1>4, <1>8, PartSelf, SendSide DEF p

LEMMA RecvCallLib ==
  ASSUME TypeInv, TypeInv', LibInv, NEW e \in Ends, RecvCall(e) PROVE LibInv'
<1>1. /\ rcv[e].stage = "idle" /\ rcv' = [rcv EXCEPT ![e].stage = "first"]
      /\ UNCHANGED <<rx, snd, sent, result, delivered>>
  BY DEF RecvCall
<1>2. Session(rx[e], sent[Peer(e)], rcv[e])
  BY EndsFacts DEF LibInv, DirOf, Dir
<1>3. Fresh(rcv'[e]) /\ rcv'[Peer(e)] = rcv[Peer(e)]
  BY <1>1, <1>2, EndsFacts DEF Session, Fresh, TypeInv, RecvState
<1>4. Part(rx'[e], rx[e]) /\ PartFc(rx'[e], rx[e])
      /\ Part(rx'[Peer(e)], rx[Peer(e)]) /\ PartFc(rx'[Peer(e)], rx[Peer(e)])
  BY <1>1, DirTyped, PartSelf
<1>5. DirOf(Peer(e))'
  BY <1>1, <1>3, <1>4, EndsFacts, CalmDir, GrownSelf DEF LibInv
<1> QED BY <1>1, <1>3, <1>4, <1>5, RecvSide

\* The view of the direction e receives.
LEMMA PeerDir ==
  ASSUME TypeInv, LibInv, NEW e \in Ends
  PROVE  /\ Dir(rx[e], rx[Peer(e)], snd[Peer(e)], result[Peer(e)], sent[Peer(e)], rcv[e], delivered[e])
         /\ rx[e] \in Seq(Frame) /\ rx[Peer(e)] \in Seq(Frame) /\ snd[Peer(e)] \in SendState
         /\ sent[Peer(e)] \in Seq(Nat) /\ rcv[e] \in RecvState /\ Unfinished(rcv[e])
<1>1. DirOf(Peer(e))
  BY EndsFacts DEF LibInv
<1>2. Dir(rx[e], rx[Peer(e)], snd[Peer(e)], result[Peer(e)], sent[Peer(e)], rcv[e], delivered[e])
  BY <1>1, EndsFacts DEF DirOf
<1> QED BY <1>2, EndsFacts, DirTyped DEF TypeInv

\* recv returns buf, which the peer has sent.
LEMMA ReturnLib ==
  ASSUME TypeInv, TypeInv', LibInv, NEW e \in Ends, NEW buf, rx[e] # <<>>, rx' = Rest(e),
         RecvReturns(e, buf), UNCHANGED <<snd, result, sent>>,
         \E m \in DOMAIN sent[Peer(e)] : Whole(sent[Peer(e)], m, buf)
  PROVE  LibInv'
<1> DEFINE p == Peer(e)
<1>1. /\ Fresh(rcv'[e]) /\ rcv'[p] = rcv[p]
      /\ delivered'[e] = delivered[e] \cup {buf} /\ delivered'[p] = delivered[p] /\ rcv'[e] \in RecvState
  BY EndsFacts DEF RecvReturns, TypeInv, Fresh, RecvIdle
<1>2. /\ rx'[e] = Tail(rx[e]) /\ Tail(rx[e]) \in Seq(Frame) /\ rx'[p] = rx[p]
      /\ Part(rx'[e], rx[e]) /\ PartFc(rx'[e], rx[e])
  BY RestRx, TailFacts
<1>3. /\ Dir(rx[e], rx[p], snd[p], result[p], sent[p], rcv[e], delivered[e])
      /\ rx[e] \in Seq(Frame) /\ rx[p] \in Seq(Frame) /\ snd[p] \in SendState
      /\ sent[p] \in Seq(Nat) /\ rcv[e] \in RecvState
  BY PeerDir
<1>4. Part(rx[p], rx[p]) /\ PartFc(rx[p], rx[p])
  BY <1>3, PartSelf
<1> HIDE DEF p
<1>5. Dir(rx'[e], rx[p], snd[p], result[p], sent[p], rcv'[e], delivered[e])
  BY <1>1, <1>2, <1>3, <1>4, GrownSelf, Calm
<1>6. \E m \in DOMAIN sent[p] : Whole(sent[p], m, buf)
  BY DEF p
<1>7. Dir(rx'[e], rx'[p], snd'[p], result'[p], sent'[p], rcv'[e], delivered'[e])
  BY <1>1, <1>2, <1>5, <1>6, DirReturned
<1>8. DirOf(p)'
  BY <1>7, EndsFacts DEF DirOf, p
<1> QED BY <1>1, <1>2, <1>4, <1>8, RecvSide DEF p

LEMMA RecvFirstLib ==
  ASSUME Orderly, TypeInv, TypeInv', LibInv, NEW e \in Ends, RecvFirst(e) PROVE LibInv'
<1> DEFINE p == Peer(e)
           f == Head(rx[e])
<1>1. rcv[e].stage = "first" /\ rx[e] # <<>> /\ UNCHANGED <<snd, sent, result>>
  BY DEF RecvFirst
<1>2. f \in Frame /\ f = rx[e][1] /\ 1 \in DOMAIN rx[e]
  BY <1>1, HeadTyped
<1>3. /\ Dir(rx[e], rx[p], snd[p], result[p], sent[p], rcv[e], delivered[e])
      /\ rx[e] \in Seq(Frame) /\ rx[p] \in Seq(Frame) /\ snd[p] \in SendState
      /\ sent[p] \in Seq(Nat) /\ rcv[e] \in RecvState
  BY PeerDir
<1>4. /\ RxTyped(Rest(e)) /\ Rest(e)[e] = Tail(rx[e]) /\ Rest(e)[p] = rx[p]
      /\ Part(Tail(rx[e]), rx[e]) /\ PartFc(Tail(rx[e]), rx[e])
  BY <1>1, RestRx
<1>5. CASE f.type = "SF" /\ RecvReturns(e, <<f.chunk>>) /\ rx' = Rest(e)
  <2>1. /\ f.chunk.m \in DOMAIN sent[p] /\ f.chunk.from = 0 /\ f.chunk.n = sent[p][f.chunk.m]
    <3>1. OfPayload(f, sent[p])
      BY <1>2, <1>3, <1>5 DEF Dir, Genuine
    <3>2. f.type = "SF"
      BY <1>5
    <3> HIDE DEF f
    <3> QED BY <3>1, <3>2 DEF OfPayload
  <2>2. f.chunk \in ChunkSet
    <3>1. f.type = "SF"
      BY <1>5
    <3> HIDE DEF f
    <3> QED BY <1>2, <3>1, FrameFacts
  <2>3. Whole(sent[p], f.chunk.m, <<f.chunk>>)
    <3>1. <<f.chunk>> \in Seq(ChunkSet) /\ <<f.chunk>> # <<>> /\ <<f.chunk>>[1] = f.chunk
          /\ Len(<<f.chunk>>) = 1 /\ \A i \in DOMAIN <<f.chunk>> : i = 1
      BY <2>2
    <3>2. f.chunk.n \in Nat
      BY <2>2 DEF ChunkSet
    <3>3. End(<<f.chunk>>) = sent[p][f.chunk.m]
      BY <2>1, <3>1, <3>2 DEF End
    <3> QED BY <2>1, <3>1, <3>3 DEF Whole
  <2> HIDE DEF f
  <2> QED BY <1>1, <1>5, <2>1, <2>3, ReturnLib
<1>6. ASSUME f.type = "FF", UNCHANGED delivered, NEW fs \in FlowStatus, Transmit(e, FC(fs), Rest(e)),
             rcv' = [rcv EXCEPT ![e] = [RecvIdle EXCEPT !.stage = "cf", !.buf = <<f.chunk>>,
                         !.size = f.chunk.n, !.sn = 1, !.length = f.len, !.hold = (fs = "Wait")]]
      PROVE  LibInv'
  <2> DEFINE r2 == [RecvIdle EXCEPT !.stage = "cf", !.buf = <<f.chunk>>,
                         !.size = f.chunk.n, !.sn = 1, !.length = f.len, !.hold = (fs = "Wait")]
             g == FC(fs)
  <2>1. rcv'[e] = r2 /\ rcv'[p] = rcv[p]
    BY <1>6, EndsFacts DEF TypeInv
  <2>2. r2 \in RecvState
    <3>1. rcv'[e] \in RecvState
      BY DEF TypeInv
    <3> QED BY <2>1, <3>1
  <2>3. f.chunk.n = FirstBytes
    <3>1. f.type = "FF"
      BY <1>6
    <3> HIDE DEF f
    <3> QED BY <1>2, <3>1, FrameFacts
  <2>4. /\ r2.stage = "cf" /\ r2.buf = <<f.chunk>> /\ r2.size = FirstBytes /\ r2.length = f.len
        /\ r2.block = 0
    BY <2>3 DEF RecvIdle
  <2>5. r2.hold => g.fs = "Wait"
    BY DEF RecvIdle, FC
  <2>6. g \in Frame /\ g.type = "FC"
    BY FramesMade DEF FC
  <2>7. Transmit(e, g, Rest(e))
    BY <1>6
  <2> HIDE DEF p, r2, g
  <2>8. rx'[e] = Tail(rx[e]) /\ (rx'[p] = rx[p] \/ rx'[p] = Append(rx[p], g))
    BY <1>4, <2>6, <2>7, TransmitRx DEF p
  <2>9. Dir(Tail(rx[e]), rx'[p], snd[p], result[p], sent[p], r2, delivered[e])
    BY <1>1, <1>3, <1>6, <2>2, <2>4, <2>5, <2>6, <2>8, DirReassemble
  <2>10. DirOf(p)'
    <3>1. Dir(rx'[e], rx'[p], snd'[p], result'[p], sent'[p], rcv'[e], delivered'[e])
      BY <1>1, <1>6, <2>1, <2>8, <2>9
    <3> QED BY <3>1, EndsFacts DEF DirOf, p
  <2>11. Part(rx'[p], rx[p]) /\ PartFc(rx'[e], rx[e])
    BY <1>3, <1>4, <2>6, <2>8, PartSelf, PartAppend
  <2> QED BY <1>1, <1>6, <2>1, <2>10, <2>11, RecvSide DEF p
<1>7. CASE RecvFails(e) /\ rx' = Rest(e)
  BY <1>1, <1>4, <1>7, GiveUpLib
<1> QED BY <1>5, <1>6, <1>7 DEF RecvFirst

LEMMA RecvNextLib ==
  ASSUME Orderly, TypeInv, TypeInv', LibInv, NEW e \in Ends, RecvNext(e) PROVE LibInv'
<1> DEFINE p == Peer(e)
           r == rcv[e]
           c == Head(rx[e]).chunk
           n == AtMost(c.n, r.length - r.size)
           buf == Append(r.buf, [c EXCEPT !.n = n])
<1>1. /\ r.stage = "cf" /\ rx[e] # <<>> /\ Head(rx[e]).type = "CF"
      /\ UNCHANGED <<snd, sent, result>>
  BY DEF RecvNext
<1>2. /\ Dir(rx[e], rx[p], snd[p], result[p], sent[p], r, delivered[e])
      /\ rx[e] \in Seq(Frame) /\ rx[p] \in Seq(Frame) /\ snd[p] \in SendState
      /\ sent[p] \in Seq(Nat) /\ r \in RecvState /\ Unfinished(r)
  BY PeerDir
<1>3. Session(rx[e], sent[p], r) /\ Genuine(rx[e], sent[p])
  BY <1>2 DEF Dir
<1>4. /\ RxTyped(Rest(e)) /\ Rest(e)[e] = Tail(rx[e]) /\ Rest(e)[p] = rx[p]
      /\ Part(Tail(rx[e]), rx[e]) /\ PartFc(Tail(rx[e]), rx[e])
  BY <1>1, RestRx
<1>5. Takes(rx[e], r, n, buf)
  BY DEF Takes
<1> HIDE DEF p, n, buf
<1>6. /\ n \in Nat /\ buf \in Seq(ChunkSet) /\ buf # <<>>
      /\ r.size \in Nat /\ r.length \in Nat /\ End(buf) \in Nat
      /\ \A i \in DOMAIN buf : buf[i].m = r.buf[1].m
      /\ buf[1] = r.buf[1]
      /\ r.size + n <= End(buf) /\ End(buf) <= r.length
      /\ r.size + n = End(buf) => Joined(buf)
  <2> HIDE DEF r, c
  <2> QED BY SMTT(30), <1>1, <1>2, <1>3, <1>5, Extended
<1>7. CASE ~More(r, r.size + n) /\ RecvReturns(e, buf) /\ rx' = Rest(e)
  <2>1. r.size + n = End(buf) /\ End(buf) = r.length
    BY <1>6, <1>7 DEF More
  <2>2. r.buf[1].from = 0 /\ r.buf[1].m \in DOMAIN sent[p] /\ r.length = sent[p][r.buf[1].m]
    BY <1>1, <1>3 DEF Session
  <2>3. Whole(sent[p], r.buf[1].m, buf)
    BY <1>6, <2>1, <2>2, Complete
  <2> QED BY <1>1, <1>7, <2>2, <2>3, ReturnLib DEF p
<1>8. ASSUME NEW r2, r2 \in RecvState, rcv' = [rcv EXCEPT ![e] = r2], r2.stage = "cf", r2.buf = buf,
             r2.size = r.size + n, r2.length = r.length, UNCHANGED delivered, More(r, r.size + n),
             NEW g \in Frame, g.type = "FC", rx'[e] = Tail(rx[e]),
             \/ /\ ~Boundary(r) /\ rx'[p] = rx[p] /\ r2.hold = r.hold
                /\ r2.block = IF BlockSize # 0 THEN r.block + 1 ELSE r.block
             \/ /\ Boundary(r) /\ (rx'[p] = rx[p] \/ rx'[p] = Append(rx[p], g)) /\ r2.block = 0
                /\ r2.hold => g.fs = "Wait"
      PROVE  LibInv'
  <2>1. rcv'[e] = r2 /\ rcv'[p] = rcv[p]
    BY <1>8, EndsFacts DEF TypeInv, p
  <2> HIDE DEF r, c
  <2>2. Takes(rx[e], r, n, r2.buf) /\ r.size + n < r.length
    BY <1>5, <1>8 DEF More
  <2>3. Dir(Tail(rx[e]), rx'[p], snd[p], result[p], sent[p], r2, delivered[e])
    BY <1>1, <1>2, <1>8, <2>2, DirExtend
  <2>4. DirOf(p)'
    <3>1. Dir(rx'[e], rx'[p], snd'[p], result'[p], sent'[p], rcv'[e], delivered'[e])
      BY <1>1, <1>8, <2>1, <2>3
    <3> QED BY <3>1, EndsFacts DEF DirOf, p
  <2>5. Part(rx'[p], rx[p]) /\ PartFc(rx'[e], rx[e])
    BY <1>2, <1>4, <1>8, PartSelf, PartAppend
  <2> QED BY <1>1, <1>8, <2>1, <2>4, <2>5, RecvSide DEF p
<1>9. CASE /\ More(r, r.size + n) /\ ~Boundary(r) /\ rx' = Rest(e) /\ UNCHANGED delivered
           /\ rcv' = [rcv EXCEPT ![e] = [r EXCEPT !.buf = buf, !.size = @ + n, !.sn = (@ + 1) % 256,
                                          !.block = IF BlockSize # 0 THEN @ + 1 ELSE @]]
  <2> DEFINE r2 == [r EXCEPT !.buf = buf, !.size = r.size + n, !.sn = (r.sn + 1) % 256,
                             !.block = IF BlockSize # 0 THEN r.block + 1 ELSE r.block]
  <2>1. rcv' = [rcv EXCEPT ![e] = r2]
    BY <1>9
  <2>2. r2 \in RecvState
    <3>1. rcv'[e] \in RecvState /\ e \in DOMAIN rcv
      BY DEF TypeInv
    <3> QED BY <2>1, <3>1
  <2>3. /\ r2.stage = "cf" /\ r2.buf = buf /\ r2.size = r.size + n /\ r2.length = r.length
        /\ r2.block = IF BlockSize # 0 THEN r.block + 1 ELSE r.block
    BY <1>1, <1>2 DEF RecvState
  <2>4. r2.hold = r.hold
    BY <1>2 DEF RecvState
  <2>5. FC("CTS") \in Frame /\ FC("CTS").type = "FC"
    BY FramesMade, IsoTpAssumption DEF FC
  <2> HIDE DEF r2, r, c
  <2> QED BY <1>4, <1>8, <1>9, <2>1, <2>2, <2>3, <2>4, <2>5
<1>10. ASSUME NEW fs \in FlowStatus, More(r, r.size + n), Boundary(r), Transmit(e, FC(fs), Rest(e)), UNCHANGED delivered,
              rcv' = [rcv EXCEPT ![e] = [r EXCEPT !.buf = buf, !.size = @ + n, !.sn = (@ + 1) % 256,
                                               !.block = 0, !.hold = (fs = "Wait")]]
       PROVE  LibInv'
  <2> DEFINE r2 == [r EXCEPT !.buf = buf, !.size = r.size + n, !.sn = (r.sn + 1) % 256,
                             !.block = 0, !.hold = (fs = "Wait")]
             g == FC(fs)
  <2>1. rcv' = [rcv EXCEPT ![e] = r2]
    BY <1>10
  <2>2. r2 \in RecvState
    <3>1. rcv'[e] \in RecvState /\ e \in DOMAIN rcv
      BY DEF TypeInv
    <3> QED BY <2>1, <3>1
  <2>3. /\ r2.stage = "cf" /\ r2.buf = buf /\ r2.size = r.size + n /\ r2.length = r.length
        /\ r2.block = 0
    BY <1>1, <1>2 DEF RecvState
  <2>4. r2.hold => g.fs = "Wait"
    BY <1>2 DEF RecvState, FC
  <2>5. g \in Frame /\ g.type = "FC"
    BY FramesMade DEF FC
  <2>6. Transmit(e, g, Rest(e))
    BY <1>10
  <2> HIDE DEF r2, g, r, c
  <2>7. rx'[e] = Tail(rx[e]) /\ (rx'[p] = rx[p] \/ rx'[p] = Append(rx[p], g))
    BY <1>4, <2>5, <2>6, TransmitRx DEF p
  <2> QED BY ZenonT(60), <1>8, <1>10, <2>1, <2>2, <2>3, <2>4, <2>5, <2>7
<1>11. CASE RecvFails(e) /\ rx' = Rest(e)
  BY <1>1, <1>4, <1>11, GiveUpLib DEF p
<1> QED
  <2> USE DEF buf, n
  <2> QED BY <1>7, <1>9, <1>10, <1>11 DEF RecvNext

LEMMA ResumeLib ==
  ASSUME Orderly, TypeInv, TypeInv', LibInv, NEW e \in Ends, Resume(e) PROVE LibInv'
<1> DEFINE p == Peer(e)
           r == rcv[e]
<1>1. PICK fs \in AfterWait : Transmit(e, FC(fs), rx) /\ rcv' = [rcv EXCEPT ![e].hold = (fs = "Wait")]
  BY DEF Resume
<1> DEFINE g == FC(fs)
           r2 == [r EXCEPT !.hold = (fs = "Wait")]
<1>2. r.stage = "cf" /\ r.hold /\ UNCHANGED <<snd, sent, result, delivered>>
  BY DEF Resume
<1>3. fs \in FlowStatus /\ fs # "Wait"
  BY IsoTpAssumption DEF Orderly
<1>4. /\ Dir(rx[e], rx[p], snd[p], result[p], sent[p], r, delivered[e])
      /\ rx[e] \in Seq(Frame) /\ rx[p] \in Seq(Frame) /\ snd[p] \in SendState
      /\ sent[p] \in Seq(Nat) /\ r \in RecvState
  BY PeerDir
<1>5. g \in Frame /\ g.type = "FC" /\ g.fs # "Wait"
  BY <1>3, FramesMade DEF FC
<1>6. rcv'[e] = r2 /\ rcv'[p] = rcv[p]
  BY <1>1, EndsFacts DEF TypeInv
<1>7. r2 \in RecvState
  <2>1. rcv'[e] \in RecvState
    BY DEF TypeInv
  <2> QED BY <1>6, <2>1
<1>8. /\ r2.stage = "cf" /\ r2.buf = r.buf /\ r2.size = r.size /\ r2.length = r.length
      /\ r2.block = r.block /\ ~r2.hold
  BY <1>2, <1>3, <1>4 DEF RecvState
<1>9. Transmit(e, g, rx) /\ RxTyped(rx)
  BY <1>1 DEF TypeInv
<1> HIDE DEF p, g, r2, r
<1>10. rx'[e] = rx[e] /\ (rx'[p] = rx[p] \/ rx'[p] = Append(rx[p], g))
  BY <1>5, <1>9, TransmitRx DEF p
<1>11. Dir(rx[e], rx'[p], snd[p], result[p], sent[p], r2, delivered[e])
  BY ZenonT(60), <1>2, <1>4, <1>5, <1>7, <1>8, <1>10, DirResume
<1>12. DirOf(p)'
  <2>1. Dir(rx'[e], rx'[p], snd'[p], result'[p], sent'[p], rcv'[e], delivered'[e])
    BY <1>2, <1>6, <1>10, <1>11
  <2> QED BY <2>1, EndsFacts DEF DirOf, p
<1>13. Part(rx'[p], rx[p]) /\ PartFc(rx'[e], rx[e])
  BY <1>4, <1>5, <1>10, PartSelf, PartAppend
<1> QED BY <1>2, <1>6, <1>12, <1>13, RecvSide DEF p

LEMMA NextLib == ASSUME Orderly, TypeInv, LibInv, [Next]_vars PROVE LibInv'
<1>1. TypeInv'
  BY NextTyped
<1>2. ASSUME NEW e \in Ends PROVE /\ rx[e] \in Seq(Frame) /\ rx[Peer(e)] \in Seq(Frame)
                                  /\ Part(rx[e], rx[e]) /\ PartFc(rx[e], rx[e])
  BY DirTyped, PartSelf
<1>3. ASSUME NEW e \in Ends PROVE Sender(snd[e], result[e], sent[e])
  BY DEF LibInv, DirOf, Dir
<1>4. ASSUME NEW r \in {"closed", "aborted", "timeout", "no_buffer_space"} PROVE ~Alive(r)
  BY DEF Alive
<1>5. ASSUME NEW e \in Ends, SendStep(e) PROVE LibInv'
  <2>1. CASE SendDone(e)
    <3>1. snd[e].stage = "cf" /\ SendReturn(e, "ok") /\ UNCHANGED <<rx, rcv, sent, delivered>>
      BY <2>1 DEF SendDone
    <3>2. Alive(result[e])
      BY <1>3, <3>1 DEF Sender
    <3>3. ~(snd[e].offset < sent[e][snd[e].m])
      <4>1. snd[e] \in SendState /\ snd[e].m \in DOMAIN sent[e] /\ sent[e] \in Seq(Nat)
        BY <3>1 DEF TypeInv, InPayload
      <4>2. snd[e].offset \in Nat /\ sent[e][snd[e].m] \in Nat
        BY SMTT(30), <4>1 DEF SendState
      <4>3. snd[e].offset >= sent[e][snd[e].m]
        BY <2>1 DEF SendDone, Length
      <4> QED BY <4>2, <4>3
    <3>4. ~Expecting(snd[e])
      BY <1>3, <3>1, <3>3 DEF Sender, Expecting
    <3> QED BY <1>1, <3>1, <3>2, <3>4, RestLib
  <2>2. CASE SendHold(e)
    BY <1>1, <2>2, SendHoldLib
  <2>3. CASE SendNextClosed(e)
    BY <1>1, <1>2, <1>4, <2>3, AbandonLib, GrownSelf DEF SendNextClosed
  <2>4. CASE DiscardFrame(e)
    BY <1>1, <2>4, SkipLib DEF DiscardFrame
  <2>5. CASE Overflow(e)
    <3>1. rx[e] # <<>> /\ rx' = Rest(e) /\ SendReturn(e, "no_buffer_space")
          /\ UNCHANGED <<rcv, sent, delivered>>
      BY <2>5 DEF Overflow
    <3> QED BY <1>1, <1>4, <3>1, RestRx, AbandonLib, GrownSelf
  <2>6. CASE WaitFcAborted(e)
    BY <1>1, <1>2, <1>4, <2>6, AbandonLib, GrownSelf DEF WaitFcAborted
  <2> QED BY <1>1, <1>5, <2>1, <2>2, <2>3, <2>4, <2>5, <2>6, SendNextLib, TakeFcLib DEF SendStep
<1>6. ASSUME NEW e \in Ends, RecvStep(e) PROVE LibInv'
  <2>1. CASE SkipFrame(e)
    BY <1>1, <2>1, SkipLib DEF SkipFrame
  <2>2. CASE BadSequence(e)
    <3>1. rx[e] # <<>> /\ rx' = Rest(e) /\ RecvFails(e) /\ UNCHANGED <<snd, result, sent>>
      BY <2>2 DEF BadSequence
    <3> QED BY <1>1, <3>1, RestRx, GiveUpLib
  <2>3. CASE RecvAborted(e)
    BY <1>1, <1>2, <2>3, GiveUpLib DEF RecvAborted
  <2> QED BY <1>1, <1>6, <2>1, <2>2, <2>3, RecvFirstLib, RecvNextLib DEF RecvStep
<1>7. ASSUME NEW e \in Ends, SendRefused(e) PROVE LibInv'
  <2>1. snd[e].stage = "idle" /\ Alive(result[e]) /\ ~Expecting(snd[e])
    BY <1>7, CallAlive DEF SendRefused
  <2> QED BY <1>1, <1>7, <2>1, RestLib DEF SendRefused
<1>8. ASSUME NEW e \in Ends, SendClosed(e) PROVE LibInv'
  <2>1. sent' = [sent EXCEPT ![e] = Append(@, NextBytes)] /\ sent[e] \in Seq(Nat) /\ NextBytes \in Nat
    BY <1>8 DEF SendClosed, TypeInv, NextBytes
  <2>2. Grown(sent[e], sent'[e]) /\ sent'[Peer(e)] = sent[Peer(e)]
    BY <2>1, GrownAppend, EndsFacts DEF TypeInv
  <2>3. SendReturn(e, "closed") /\ UNCHANGED <<rx, rcv, delivered>>
    BY <1>8 DEF SendClosed
  <2> QED BY <1>1, <1>2, <1>4, <2>2, <2>3, AbandonLib
<1>9. ASSUME NEW e \in Ends, SendTimeout(e) PROVE LibInv'
  BY <1>1, <1>2, <1>4, <1>9, AbandonLib, GrownSelf DEF SendTimeout
<1>10. ASSUME NEW e \in Ends, RecvTimeout(e) PROVE LibInv'
  BY <1>1, <1>2, <1>10, GiveUpLib DEF RecvTimeout
<1>11. ASSUME NEW e \in Ends, Resume(e) PROVE LibInv'
  BY <1>1, <1>11, ResumeLib
<1>12. CASE CloseBus \/ UNCHANGED vars
  <2>1. UNCHANGED <<rx, snd, rcv, sent, result, delivered>>
    BY <1>12 DEF CloseBus, vars
  <2> QED BY <2>1 DEF LibInv, DirOf
<1> QED
  BY <1>1, <1>5, <1>6, <1>7, <1>8, <1>9, <1>10, <1>11, <1>12, SendSingleLib, SendFirstLib, RecvCallLib
  DEF Next

LEMMA OrderlyInvariant == ASSUME Orderly PROVE Spec => [](TypeInv /\ LibInv)
<1>1. Init => TypeInv /\ LibInv
  BY InitTyped, InitLib
<1>2. TypeInv /\ LibInv /\ [Next]_vars => (TypeInv /\ LibInv)'
  BY NextTyped, NextLib
<1> QED BY <1>1, <1>2, PTL DEF Spec

-----------------------------------------------------------------------------
(* What the two connections promise *)

\* Also to and from a peer that answers Wait or Overflow, if no Wait follows a Wait, the
\* unread Consecutive Frames never exceed a block, in either direction, whatever is
\* lost, dropped, thrown away or timed out.
THEOREM FlowControl == ASSUME Orderly PROVE Spec => []FlowControlled
<1>1. LibInv => FlowControlled
  <2> SUFFICES ASSUME LibInv, BlockSize # 0, NEW e \in Ends PROVE Cardinality(Cfs(rx[e])) <= BlockSize
    BY DEF FlowControlled
  <2>1. DirOf(Peer(e)) /\ Peer(Peer(e)) = e
    BY EndsFacts DEF LibInv
  <2> QED BY <2>1 DEF DirOf, Dir, Pending
<1> QED BY <1>1, OrderlyInvariant, PTL

\* Under the same condition recv returns only payloads that were sent, whole and
\* unmixed, although a sequence number is four bits and frames are lost.
THEOREM NeverMixed == ASSUME Orderly PROVE Spec => []Integrity
<1>1. LibInv => Integrity
  <2> SUFFICES ASSUME LibInv, NEW e \in Ends, NEW buf \in delivered[e]
               PROVE  \E m \in DOMAIN sent[Peer(e)] : IsPayload(Peer(e), m, buf)
    BY DEF Integrity
  <2>1. DirOf(Peer(e)) /\ Peer(Peer(e)) = e
    BY EndsFacts DEF LibInv
  <2>2. PICK m \in DOMAIN sent[Peer(e)] : Whole(sent[Peer(e)], m, buf)
    BY <2>1 DEF DirOf, Dir, Returned
  <2>3. IsPayload(Peer(e), m, buf)
    BY <2>2 DEF Whole, IsPayload
  <2> QED BY <2>3
<1> QED BY <1>1, OrderlyInvariant, PTL

===================================================================================
