--------------------------------- MODULE Interop ---------------------------------
(***************************************************************************)
(* The interoperability harness (interop/): a test runs two processes of     *)
(* can_interop_peer, a writer and a reader on one CAN interface, each under  *)
(* exec_capture, which reads what the process writes through a pipe it polls,*)
(* waits for its end and kills it when it is late.                           *)
(*                                                                           *)
(* A line is one write to the pipe.  The reader's socket and the thread that *)
(* reads it are those of SocketCan, cut down to what a reader sees; a frame  *)
(* arrives as it was sent (its conversions are those of Frames).             *)
(***************************************************************************)
EXTENDS JsonLines

CONSTANTS
  Writer, Reader,  \* the two processes
  Count, DataLen,  \* --count, --data-len
  PeerFlags,       \* which of --ext, --fd and --brs the writer is given
  Noise,           \* frames other nodes send: [id, flags, data]
  MaxNoise,        \* bound: how many of them
  Timed,           \* processes run with a time-out
  PipeSize,        \* lines the pipe holds
  ChanSize         \* frames the reader's channel holds (64)

Peers == {Writer, Reader}

Id == 801
Flags == {"ext", "rtr", "fd", "brs", "esi"}

ASSUME InteropAssumption ==
  /\ Writer # Reader
  /\ Id <= MaxU32 /\ PeerFlags \subseteq {"ext", "fd", "brs"}
  /\ Noise \subseteq [id : Nat, flags : SUBSET Flags, data : Seq(0..255)]
  /\ {Count, DataLen, PipeSize, ChanSize} \subseteq Nat

VARIABLES
  parent,     \* parent[p]: where exec_capture is: "fork", "forked", "read", "wait", "clock",
              \* "returned" or "threw"
  late,       \* late[p]: its deadline has passed
  result,     \* result[p]: its ExecResult
  child,      \* child[p]: where the process is; "exited", or "reaped" once waited for
  exitStatus, \* exitStatus[p]: what it ends with
  pipe,       \* pipe[p]: the lines in the pipe
  n,          \* n[p]: frames it has sent or received
  got,        \* the frame the reader prints
  overdue,    \* the reader's deadline has passed
  socket,     \* frames in the reader's socket
  chan,       \* frames in its channel
  noise,      \* history, for the bound too: what other nodes have sent
  wrote       \* history: wrote[p], all lines the process wrote

execVars == <<parent, late, result>>
peerVars == <<child, exitStatus, n, got, overdue, noise>>
canVars == <<socket, chan>>
interopVars == <<execVars, peerVars, canVars, pipe, wrote>>

NoFrame == [id |-> -1, flags |-> {}, data |-> <<>>]

InteropInit ==
  /\ parent = [p \in Peers |-> "fork"]
  /\ late = [p \in Peers |-> FALSE]
  /\ result = [p \in Peers |-> [output |-> <<>>, exit_code |-> -1, timed_out |-> FALSE]]
  /\ child = [p \in Peers |-> "none"]
  /\ exitStatus = [p \in Peers |-> 0]
  /\ pipe = [p \in Peers |-> <<>>] /\ wrote = [p \in Peers |-> <<>>]
  /\ n = [p \in Peers |-> 0] /\ got = NoFrame /\ overdue = FALSE
  /\ socket = <<>> /\ chan = <<>> /\ noise = <<>>

-----------------------------------------------------------------------------
(* What is written: to_json_line, parse_frame_json_line *)

\* data[j] = (seed + frame_index + j) & 0xFF.
MakePayload(i) == [j \in 1..DataLen |-> (254 + i + j) % 256]

\* brs only together with fd.
WriterFrame(i) ==
  [id |-> Id, data |-> MakePayload(i),
   flags |-> IF "fd" \in PeerFlags THEN PeerFlags ELSE PeerFlags \ {"brs"}]

FrameLine(f) ==
  [kind |-> Text("frame"), id |-> Num(f.id),
   ext |-> Bool("ext" \in f.flags), rtr |-> Bool("rtr" \in f.flags), fd |-> Bool("fd" \in f.flags),
   brs |-> Bool("brs" \in f.flags), esi |-> Bool("esi" \in f.flags),
   data_hex |-> Text(HexEncode(f.data))]

SummaryLine(ok, count) == [kind |-> Text("summary"), ok |-> Bool(ok), count |-> Num(count)]

Diagnostic == [kind |-> Text("none")]

KindOf(o) == ValueOf(o, "kind")

ParseFrameLine(o) ==
  [id |-> U32Of(o, "id"), flags |-> {flag \in Flags : BoolOf(o, flag)},
   data |-> HexDecode(ValueOf(o, "data_hex"))]

-----------------------------------------------------------------------------
(* The processes *)

At(p, stage) == child[p] = stage
GoTo(p, stage) == child' = [child EXCEPT ![p] = stage]

\* A write to the pipe waits for room.
Writes(p, line) ==
  /\ Len(pipe[p]) < PipeSize
  /\ pipe' = [pipe EXCEPT ![p] = Append(@, line)]
  /\ wrote' = [wrote EXCEPT ![p] = Append(@, line)]

Exits(p, status) ==
  /\ GoTo(p, "exited")
  /\ exitStatus' = [exitStatus EXCEPT ![p] = status]

\* execvp, or the diagnostic of the forked child.
Exec(p) ==
  /\ At(p, "start")
  /\ \/ GoTo(p, "open") /\ UNCHANGED <<pipe, wrote, exitStatus>>
     \/ Writes(p, Diagnostic) /\ Exits(p, 127)
  /\ UNCHANGED <<execVars, n, got, overdue, noise, canVars>>

\* Bus::create; without the interface the process ends.
Open(p) ==
  /\ At(p, "open")
  /\ \/ GoTo(p, IF p = Writer THEN "send" ELSE "subscribe") /\ UNCHANGED <<pipe, wrote, exitStatus>>
     \/ Writes(p, SummaryLine(FALSE, 0)) /\ Exits(p, 1)
  /\ UNCHANGED <<execVars, n, got, overdue, noise, canVars>>

\* The reader's socket takes what is on the wire while it is open.
Listening == child[Reader] \in {"subscribe", "poll", "print"}
OnWire(f) == socket' = IF Listening THEN Append(socket, f) ELSE socket

WriterSends ==
  /\ At(Writer, "send") /\ n[Writer] < Count
  /\ OnWire(WriterFrame(n[Writer]))
  /\ GoTo(Writer, "print")
  /\ UNCHANGED <<execVars, exitStatus, n, got, overdue, noise, chan, pipe, wrote>>

\* An error of send: the summary tells how many went out before.
WriterFails ==
  /\ At(Writer, "send") /\ n[Writer] < Count
  /\ Writes(Writer, SummaryLine(FALSE, n[Writer])) /\ Exits(Writer, 1)
  /\ UNCHANGED <<execVars, n, got, overdue, noise, canVars>>

WriterPrints ==
  /\ At(Writer, "print")
  /\ Writes(Writer, FrameLine(WriterFrame(n[Writer])))
  /\ n' = [n EXCEPT ![Writer] = @ + 1]
  /\ GoTo(Writer, "send")
  /\ UNCHANGED <<execVars, exitStatus, got, overdue, noise, canVars>>

WriterEnds ==
  /\ At(Writer, "send") /\ n[Writer] = Count
  /\ Writes(Writer, SummaryLine(TRUE, Count)) /\ Exits(Writer, 0)
  /\ UNCHANGED <<execVars, n, got, overdue, noise, canVars>>

ReaderSubscribes ==
  /\ At(Reader, "subscribe")
  /\ GoTo(Reader, "poll")
  /\ UNCHANGED <<execVars, exitStatus, n, got, overdue, noise, canVars, pipe, wrote>>

\* Fault: the reader subscribes without its filter.
Pump_NoFilter ==
  /\ Listening /\ socket # <<>>
  /\ chan' = IF ~At(Reader, "subscribe") /\ Len(chan) < ChanSize
             THEN Append(chan, Head(socket)) ELSE chan
  /\ socket' = Tail(socket)
  /\ UNCHANGED <<execVars, peerVars, pipe, wrote>>

\* The thread of the bus: to the channel, if the filter and the room allow.
Pump ==
  /\ Listening /\ socket # <<>>
  /\ chan' = IF ~At(Reader, "subscribe") /\ Head(socket).id = Id /\ Len(chan) < ChanSize
             THEN Append(chan, Head(socket)) ELSE chan
  /\ socket' = Tail(socket)
  /\ UNCHANGED <<execVars, peerVars, pipe, wrote>>

\* try_recv, while there is time.
ReaderTakes ==
  /\ At(Reader, "poll") /\ n[Reader] < Count /\ ~overdue /\ chan # <<>>
  /\ got' = Head(chan) /\ chan' = Tail(chan)
  /\ GoTo(Reader, "print")
  /\ UNCHANGED <<execVars, exitStatus, n, overdue, noise, socket, pipe, wrote>>

ReaderPrints ==
  /\ At(Reader, "print")
  /\ Writes(Reader, FrameLine(got))
  /\ n' = [n EXCEPT ![Reader] = @ + 1] /\ got' = NoFrame
  /\ GoTo(Reader, "poll")
  /\ UNCHANGED <<execVars, exitStatus, overdue, noise, canVars>>

ReaderEnds ==
  /\ At(Reader, "poll") /\ (n[Reader] = Count \/ overdue)
  /\ LET ok == n[Reader] = Count IN
       Writes(Reader, SummaryLine(ok, n[Reader])) /\ Exits(Reader, IF ok THEN 0 ELSE 1)
  /\ socket' = <<>> /\ chan' = <<>>
  /\ UNCHANGED <<execVars, n, got, overdue, noise>>

\* Fault: the reader waits for its frames for ever.
Overdue_Never == FALSE /\ UNCHANGED interopVars

\* Time passes.
Overdue ==
  /\ ~overdue /\ child[Reader] \in {"poll", "print"}
  /\ overdue' = TRUE
  /\ UNCHANGED <<execVars, child, exitStatus, n, got, noise, canVars, pipe, wrote>>

OtherNodeSends ==
  /\ Len(noise) < MaxNoise /\ Listening
  /\ \E f \in Noise : OnWire(f) /\ noise' = Append(noise, f)
  /\ UNCHANGED <<execVars, child, exitStatus, n, got, overdue, chan, pipe, wrote>>

-----------------------------------------------------------------------------
(* exec_capture *)

Calls(p, where) == parent' = [parent EXCEPT ![p] = where]

\* pipe and fork; either may fail.
Fork(p) ==
  /\ parent[p] = "fork"
  /\ \/ Calls(p, "forked") /\ GoTo(p, "start")
     \/ Calls(p, "threw") /\ UNCHANGED child
  /\ UNCHANGED <<late, result, exitStatus, n, got, overdue, noise, canVars, pipe, wrote>>

\* fcntl, while the process runs; when it fails the process is killed and waited for.
SetNonBlocking(p) ==
  /\ parent[p] = "forked"
  /\ \/ Calls(p, "read") /\ UNCHANGED child
     \/ Calls(p, "threw") /\ GoTo(p, "reaped")
  /\ UNCHANGED <<late, result, exitStatus, n, got, overdue, noise, canVars, pipe, wrote>>

Gone(p) == child[p] = "exited"

Takes(p) == result' = [result EXCEPT ![p].output = @ \o pipe[p]] /\ pipe' = [pipe EXCEPT ![p] = <<>>]

Returns(p) == Calls(p, "returned") /\ GoTo(p, "reaped")

\* read gives what is in the pipe, the end of the file, or EAGAIN.
ReadSome(p) ==
  /\ parent[p] = "read" /\ pipe[p] # <<>>
  /\ Takes(p)
  /\ UNCHANGED <<parent, late, peerVars, canVars, wrote>>

ReadEnd(p) ==
  /\ parent[p] = "read" /\ pipe[p] = <<>> /\ Gone(p)
  /\ Returns(p)
  /\ result' = [result EXCEPT ![p].exit_code = exitStatus[p]]
  /\ UNCHANGED <<late, exitStatus, n, got, overdue, noise, canVars, pipe, wrote>>

ReadNothing(p) ==
  /\ parent[p] = "read" /\ pipe[p] = <<>> /\ ~Gone(p)
  /\ Calls(p, "wait")
  /\ UNCHANGED <<late, result, peerVars, canVars, pipe, wrote>>

\* Fault: what came between the read and the waitpid is left in the pipe.
WaitPid_NoDrain(p) ==
  /\ parent[p] = "wait"
  /\ \/ /\ Gone(p) /\ Returns(p)
        /\ result' = [result EXCEPT ![p].exit_code = exitStatus[p]]
     \/ /\ ~Gone(p) /\ Calls(p, "clock")
        /\ UNCHANGED <<child, result>>
  /\ UNCHANGED <<late, exitStatus, n, got, overdue, noise, canVars, pipe, wrote>>

\* waitpid(WNOHANG): a process that has ended may have written since the read.
WaitPid(p) ==
  /\ parent[p] = "wait"
  /\ \/ /\ Gone(p) /\ Returns(p)
        /\ result' = [result EXCEPT ![p].output = @ \o pipe[p], ![p].exit_code = exitStatus[p]]
        /\ pipe' = [pipe EXCEPT ![p] = <<>>]
     \/ /\ ~Gone(p) /\ Calls(p, "clock")
        /\ UNCHANGED <<child, result, pipe>>
  /\ UNCHANGED <<late, exitStatus, n, got, overdue, noise, canVars, wrote>>

\* Past the deadline the process is killed and waited for; otherwise sleep.
Clock(p) ==
  /\ parent[p] = "clock"
  /\ \/ /\ late[p] /\ Returns(p)
        /\ result' = [result EXCEPT ![p].timed_out = TRUE]
     \/ /\ ~late[p] /\ Calls(p, "read")
        /\ UNCHANGED <<child, result>>
  /\ UNCHANGED <<late, exitStatus, n, got, overdue, noise, canVars, pipe, wrote>>

TimePasses(p) ==
  /\ p \in Timed /\ ~late[p] /\ parent[p] \in {"read", "wait", "clock"}
  /\ late' = [late EXCEPT ![p] = TRUE]
  /\ UNCHANGED <<parent, result, peerVars, canVars, pipe, wrote>>

-----------------------------------------------------------------------------
WriterStep == WriterSends \/ WriterPrints \/ WriterEnds
ReaderStep == ReaderSubscribes \/ ReaderTakes \/ ReaderPrints \/ ReaderEnds
ParentStep(p) == SetNonBlocking(p) \/ ReadSome(p) \/ ReadEnd(p) \/ ReadNothing(p) \/ WaitPid(p) \/ Clock(p)
ChildStep(p) == Exec(p) \/ Open(p) \/ (p = Writer /\ WriterStep) \/ (p = Reader /\ ReaderStep)

InteropNext ==
  \/ \E p \in Peers : Fork(p) \/ ParentStep(p) \/ TimePasses(p) \/ ChildStep(p)
  \/ WriterFails \/ Pump \/ Overdue \/ OtherNodeSends

InteropSpec == InteropInit /\ [][InteropNext]_interopVars

\* Both processes and both callers run, and time passes for the reader.
InteropFairness ==
  /\ \A p \in Peers : WF_interopVars(ParentStep(p)) /\ WF_interopVars(ChildStep(p))
  /\ WF_interopVars(Pump) /\ WF_interopVars(Overdue)

-----------------------------------------------------------------------------
\* exec_capture gives back all a process wrote, in order, with its exit code, or,
\* when it killed the process, a part from the start; and it leaves neither a
\* process nor output behind, also when the process writes its last lines and ends
\* between a read that finds nothing and the waitpid (interop_common.hpp:144-183).
OutputWhole ==
  \A p \in Peers : parent[p] = "returned" =>
    /\ child[p] = "reaped"
    /\ IF result[p].timed_out THEN IsPrefix(result[p].output, wrote[p])
       ELSE result[p].output = wrote[p] /\ result[p].exit_code = exitStatus[p]

\* run_peer of the tests.
FramesIn(out) ==
  LET places == {i \in DOMAIN out : KindOf(out[i]) = "frame"}
      place(k) == CHOOSE i \in places : Cardinality({j \in places : j <= i}) = k
  IN [k \in 1..Cardinality(places) |-> ParseFrameLine(out[place(k)])]
SaysOk(out) == \E i \in DOMAIN out : KindOf(out[i]) = "summary" /\ BoolOf(out[i], "ok")
Ended(p) == parent[p] = "returned" /\ ~result[p].timed_out

\* A writer that reports success says the frames of its command line, and what two
\* processes that both report success say is the same, frame by frame and field by
\* field, when no other node uses the id, whatever else is on the wire, was missed,
\* overtaken or late ("field-exact", test_two_process_interop.cpp:148-164); a reader that
\* reports success has its Count frames and one that does not ends with an error, as
\* does a writer.
PeersAgree ==
  /\ \A p \in Peers : Ended(p) =>
       LET out == result[p].output IN
         /\ SaysOk(out) <=> result[p].exit_code = 0
         /\ SaysOk(out) => Len(FramesIn(out)) = Count
  /\ Ended(Writer) /\ SaysOk(result[Writer].output) =>
       LET said == [k \in 1..Count |-> WriterFrame(k - 1)] IN
         /\ FramesIn(result[Writer].output) = said
         /\ Ended(Reader) /\ SaysOk(result[Reader].output) /\ (\A i \in DOMAIN noise : noise[i].id # Id)
              => FramesIn(result[Reader].output) = said

\* exec_capture returns, or throws because it cannot set its pipe up, although the pipe
\* is smaller than the output, the interface is missing or nobody sends anything: the
\* process gets rid of its lines because they are read while it runs, and the reader
\* has a time-out of its own ("reports failure, not a hang",
\* test_two_process_interop.cpp:214).
EveryExecReturns == \A p \in Peers : parent[p] = "forked" ~> parent[p] \in {"returned", "threw"}
===============================================================================
