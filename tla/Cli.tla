----------------------------------- MODULE Cli -----------------------------------
(***************************************************************************)
(* cpp-can-cli (cli/main.cpp, cli/json.hpp): one process from its arguments  *)
(* to its exit code.  convert turns a frame given as JSON into a             *)
(* relay::Message; send reads such messages, one per line, and publishes     *)
(* their frames until one fails.  The lines of the input are chosen as they  *)
(* are read.  send_json_stream takes any bus: one that another thread may    *)
(* close stands for all of them.                                             *)
(***************************************************************************)
EXTENDS JsonLines, Frames

CONSTANTS
  ArgLists,     \* command lines, without the program's name
  Objects,      \* frames as JSON, what convert reads
  Streamed,     \* lines send reads: objects, or Blank
  MaxStream     \* bound: lines of a stream

VARIABLES
  args, stage,  \* argv; "main", "convert", "send" or "exited"
  exitCode,
  input,        \* what has been read of stdin, line by line
  stdout,       \* the objects written
  published,    \* the frames the bus took, with their data, in order
  busClosed     \* how much had been read when the bus was closed, or -1

\* The values of an object are JSON: what a list holds are numbers, what base64 is
\* read from are characters.
ASSUME CliAssumption ==
  \A o \in Objects :
    /\ \A key \in {"ext", "rtr", "fd", "brs", "esi", "xl"} : HasA(o, key, "boolean") => ValueOf(o, key) \in BOOLEAN
    /\ HasA(o, "data", "string") => ValueOf(o, "data") \in Seq(0..Junk)
    /\ HasA(o, "data", "list") => ValueOf(o, "data") \in Seq(Nat)

cliVars == <<args, stage, exitCode, input, stdout, published, busClosed>>

Blank == [blank |-> Text("")]
CAN == 1      \* relay::Protocol::CAN

CliInit(lists) ==
  /\ args \in lists /\ stage = "main" /\ exitCode = -1
  /\ input = <<>> /\ stdout = <<>> /\ published = <<>> /\ busClosed = -1

-----------------------------------------------------------------------------
(* main *)

\* Every argument belongs to a --format with a value.
OnlyFormats(opts) ==
  /\ Len(opts) % 2 = 0
  /\ \A i \in 1..(Len(opts) \div 2) : opts[2 * i - 1] = "--format"

\* parse_output_format; a later value replaces an earlier one.
OutputFormatOk(opts) == OnlyFormats(opts) /\ (opts # <<>> => Last(opts) \in {"text", "json"})

SendArgsOk(opts) ==
  /\ OnlyFormats(opts) /\ opts # <<>>
  /\ \A i \in 1..(Len(opts) \div 2) : opts[2 * i] = "json"

\* The scan of convert's arguments: what it does not know it passes over.
ConvertArgs(opts) ==
  LET from[i \in 1..(Len(opts) + 2)] ==
        IF i > Len(opts) THEN [protocol |-> "", bad |-> FALSE]
        ELSE IF opts[i] \notin {"--protocol", "--format"} \/ i = Len(opts) THEN from[i + 1]
        ELSE LET rest == from[i + 2] IN
             IF opts[i] = "--format" THEN [rest EXCEPT !.bad = @ \/ opts[i + 1] # "json"]
             ELSE [rest EXCEPT !.protocol = IF @ = "" THEN opts[i + 1] ELSE @]
  IN from[1]

ConvertArgsOk(opts) == LET a == ConvertArgs(opts) IN ~a.bad /\ a.protocol = "CAN"

Exit(code) == stage' = "exited" /\ exitCode' = code

ArgsOk(list) ==
  /\ list # <<>>
  /\ CASE list[1] \in {"version", "status"} -> OutputFormatOk(Tail(list))
       [] list[1] = "capabilities" -> TRUE
       [] list[1] = "send" -> SendArgsOk(Tail(list))
       [] list[1] = "convert" -> ConvertArgsOk(Tail(list))
       [] OTHER -> FALSE

\* Wrong arguments end the process before it reads anything.
MainRefuses ==
  /\ stage = "main" /\ ~ArgsOk(args)
  /\ Exit(2)
  /\ UNCHANGED <<args, input, stdout, published, busClosed>>

\* version, capabilities and status write one object.
MainTells ==
  /\ stage = "main" /\ ArgsOk(args) /\ args[1] \in {"version", "capabilities", "status"}
  /\ stdout' = <<[kind |-> Text(args[1])]>>
  /\ Exit(0)
  /\ UNCHANGED <<args, input, published, busClosed>>

MainStarts ==
  /\ stage = "main" /\ ArgsOk(args) /\ args[1] \in {"convert", "send"}
  /\ stage' = args[1]
  /\ UNCHANGED <<args, exitCode, input, stdout, published, busClosed>>

-----------------------------------------------------------------------------
(* convert *)

\* parse_frame_json: the id must be there, the rest has defaults; sdt is cut to a
\* uint8_t.
ParseFrame(o) ==
  [id |-> ValueOf(o, "id"), len |-> Len(BytesOf(o, "data")),
   ext |-> BoolOf(o, "ext"), rtr |-> BoolOf(o, "rtr"), fd |-> BoolOf(o, "fd"),
   brs |-> BoolOf(o, "brs"), esi |-> BoolOf(o, "esi"), xl |-> BoolOf(o, "xl"),
   sdt |-> U32Of(o, "sdt") % 256]

Convertible(o) == HasU32(o, "id") /\ Valid(ParseFrame(o))

\* message_to_json: the numbers of a message of convert are all 0, and 0 is left out.
MessageJson(m, data) ==
  [protocol |-> Num(CAN), id |-> Text(m.id), payload |-> Text(Base64Encode(data)), meta |-> Map(m.meta)]

Convert(o) ==
  /\ stage = "convert"
  /\ input' = <<o>>
  /\ IF Convertible(o)
     THEN stdout' = <<MessageJson(ToMessage(ParseFrame(o)), BytesOf(o, "data"))>> /\ Exit(0)
     ELSE UNCHANGED stdout /\ Exit(1)
  /\ UNCHANGED <<args, published, busClosed>>

-----------------------------------------------------------------------------
(* send *)

\* parse_message_json: of the message, what from_message looks at.
ParseMessage(o) ==
  [id |-> ValueOf(o, "id"), len |-> Len(BytesOf(o, "payload")),
   meta |-> IF HasA(o, "meta", "map") THEN ValueOf(o, "meta") ELSE <<>>]

\* A line that becomes a frame.
Sendable(o) ==
  /\ HasU32(o, "protocol") /\ HasA(o, "id", "string")
  /\ ValueOf(o, "protocol") = CAN
  /\ Accepts(ParseMessage(o))

FrameSent(o) == [frame |-> FrameOf(ParseMessage(o)), data |-> BytesOf(o, "payload")]

Reads(line) ==
  /\ stage = "send" /\ Len(input) < MaxStream
  /\ input' = Append(input, line)

SkipBlank(line) ==
  /\ Reads(line) /\ line = Blank
  /\ UNCHANGED <<args, stage, exitCode, stdout, published, busClosed>>

Publish(line) ==
  /\ Reads(line) /\ line # Blank /\ Sendable(line) /\ busClosed = -1
  /\ published' = Append(published, FrameSent(line))
  /\ UNCHANGED <<args, stage, exitCode, stdout, busClosed>>

\* Fault: the line is reported and the stream goes on.
StopAtLine_GoesOn(line) ==
  /\ Reads(line) /\ line # Blank /\ (~Sendable(line) \/ busClosed # -1)
  /\ exitCode' = 1
  /\ UNCHANGED <<args, stage, stdout, published, busClosed>>

\* A line that cannot be read, is of another protocol or is no valid frame, and an
\* error of the bus: the rest of the stream is not read.  cmd_send closes its bus.
StopAtLine(line) ==
  /\ Reads(line) /\ line # Blank /\ (~Sendable(line) \/ busClosed # -1)
  /\ Exit(1)
  /\ UNCHANGED <<args, stdout, published, busClosed>>

EndOfStream ==
  /\ stage = "send"
  /\ Exit(0)
  /\ UNCHANGED <<args, input, stdout, published, busClosed>>

\* Another owner of the bus closes it.
BusCloses ==
  /\ stage = "send" /\ busClosed = -1
  /\ busClosed' = Len(input)
  /\ UNCHANGED <<args, stage, exitCode, input, stdout, published>>

CliNext ==
  \/ MainRefuses \/ MainTells \/ MainStarts
  \/ \E o \in Objects : Convert(o)
  \/ \E line \in Streamed \cup {Blank} : SkipBlank(line) \/ Publish(line) \/ StopAtLine(line)
  \/ EndOfStream \/ BusCloses

CliSpec == CliInit(ArgLists) /\ [][CliNext]_cliVars

-----------------------------------------------------------------------------
\* The place of the first line of the stream that cannot be sent: for what it says
\* or because the bus had been closed.
FailsAt ==
  {i \in DOMAIN input : input[i] # Blank /\ (~Sendable(input[i]) \/ (busClosed # -1 /\ i > busClosed))}

\* The places of the lines before it that are not blank.
Sent == {i \in DOMAIN input : input[i] # Blank} \ FailsAt

\* "publish each until EOF ...; a line that fails to parse or convert shall cause an
\* exit code of 1" (REQ-CLI-008): what is on the bus is what the lines before the
\* first one that fails describe, each once and in order, whatever they hold and
\* whenever the bus goes away; no line after that one is read; the exit code tells
\* whether there was one (json.hpp:279-314).
SendsUpToTheFault ==
  args # <<>> /\ args[1] = "send" /\ stage # "main" /\ exitCode # 2 =>
    /\ FailsAt \subseteq {Len(input)}
    /\ Len(published) = Cardinality(Sent)
    /\ \A i \in Sent : published[Cardinality({j \in Sent : j <= i})] = FrameSent(input[i])
    /\ exitCode = IF stage = "send" THEN -1 ELSE IF FailsAt = {} THEN 0 ELSE 1

\* What convert writes is what send reads: the message stands for the frame that was
\* given, with every byte of its payload, and a line is written exactly when the
\* frame is valid (REQ-CLI-005, 006, 008; json.hpp:204-266).
ConvertFeedsSend ==
  stage = "exited" /\ input # <<>> /\ args[1] = "convert" =>
    /\ exitCode = 0 <=> Convertible(input[1])
    /\ Len(stdout) = IF exitCode = 0 THEN 1 ELSE 0
    /\ exitCode = 0 =>
         /\ Sendable(stdout[1])
         /\ FrameSent(stdout[1]) = [frame |-> ParseFrame(input[1]), data |-> BytesOf(input[1], "data")]
===============================================================================
