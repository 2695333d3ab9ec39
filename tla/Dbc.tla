----------------------------------- MODULE Dbc -----------------------------------
(***************************************************************************)
(* can::dbc (src/dbc/parser.cpp): parse reads a DBC file line by line into   *)
(* a DB of messages and their signals; Signal::decode takes a signal out of  *)
(* a payload.                                                                *)
(*                                                                           *)
(* A line is a record: its kind, what the parser takes from it, and ok, which*)
(* is FALSE when taking it throws.  The file is chosen as it is read.        *)
(* Factors and offsets are integers; int64_t has IntBits bits, and double    *)
(* Mantissa significant ones, with an exponent of any size.                  *)
(***************************************************************************)
EXTENDS Integers, Sequences, FiniteSetsExt, Functions

CONSTANTS
  Inputs,     \* kinds of files: [lines |-> what a line may be, max |-> how many]
  Payloads,   \* payloads that are decoded, sequences of bytes
  IntBits,    \* 64
  Mantissa,   \* 53
  Unreadable  \* stands for a number that std::stoi or std::stoll refuses

VARIABLES
  fileKind,      \* the kind of the file
  file,       \* the lines read so far
  messages,   \* db->messages
  curMsg,     \* the id of *cur_msg, or NoId
  outcome     \* of parse: "reading", "returned" or "threw"

dbcVars == <<fileKind, file, messages, curMsg, outcome>>

NoId == -1

-----------------------------------------------------------------------------
(* Doubles *)

Magnitude(n) == IF n < 0 THEN -n ELSE n

\* The digits of n in base two.
Bits(n) == LET bits[k \in Nat] == IF k = 0 THEN 0 ELSE 1 + bits[k \div 2] IN bits[n]

\* The integer nearest to a / b, of two the even one.
HalfEven(a, b) ==
  LET q == a \div b
      twice == 2 * (a % b)
  IN IF twice > b \/ (twice = b /\ q % 2 = 1) THEN q + 1 ELSE q

\* The double nearest to an integer: static_cast<double>, and what an operation on
\* doubles rounds its result to.
ToDouble(n) ==
  LET unit == 2^Max({0, Bits(Magnitude(n)) - Mantissa})
      m == unit * HalfEven(Magnitude(n), unit)
  IN IF n < 0 THEN -m ELSE m

IsDouble(n) == ToDouble(n) = n

\* What a line may be: ids and the numbers of a table are integers, factor and offset
\* are doubles (parser.cpp:139-140), and a signal has no labels of its own.
ASSUME DbcAssumption ==
  Mantissa \in Nat \ {0} /\ \A kind \in Inputs : \A line \in kind.lines :
    /\ line.kind \in {"blank", "BO_", "SG_", "VAL_", "other"}
    /\ line.kind = "BO_" => line.id \in Nat
    /\ line.kind = "SG_" =>
         line.sig \in [start : Int, length : Int, order : {"little", "big"}, signed : BOOLEAN,
                      factor : Int, offset : Int, values : {<<>>}]
         /\ IsDouble(line.sig.factor) /\ IsDouble(line.sig.offset)
    /\ line.kind = "VAL_" => line.pairs \in Seq((Int \cup {Unreadable}) \X STRING)

-----------------------------------------------------------------------------
(* Signal::decode *)

\* Bit i of a byte of data; beyond the payload all bits are 0.
BitSet(data, byte, i) == byte < Len(data) /\ (data[byte + 1] \div 2^i) % 2 = 1

\* Fault: a big-endian signal goes up in a byte.
Walk_Up(start) ==
  [i \in Nat |-> <<(start + i) \div 8, (start + i) % 8>>]

\* The bits of a big-endian signal, most significant first: down in a byte, then
\* on to the top of the next one.
Walk(start) ==
  LET at[i \in Nat] ==
        IF i = 0 THEN <<start \div 8, start % 8>>
        ELSE LET last == at[i - 1] IN
             IF last[2] = 0 THEN <<last[1] + 1, 7>> ELSE <<last[1], last[2] - 1>>
  IN at

\* The bits of raw that are set.
RawBits(sig, data) ==
  IF sig.length \notin 1..IntBits \/ sig.start < 0 THEN {}
  ELSE IF sig.order = "little"
  THEN {i \in 0..(sig.length - 1) : BitSet(data, (sig.start + i) \div 8, (sig.start + i) % 8)}
  ELSE {i \in 0..(sig.length - 1) :
          LET at == Walk(sig.start)[sig.length - 1 - i] IN BitSet(data, at[1], at[2])}

ExtractRaw(sig, data) == MapThenSumSet(LAMBDA i : 2^i, RawBits(sig, data))

\* static_cast<int64_t>, and what signed overflow gives.
ToInt(n) == ((n + 2^(IntBits - 1)) % 2^IntBits) - 2^(IntBits - 1)

\* static_cast<int64_t>(1) << length: a shift by the whole width is undefined, the
\* processor shifts by nothing, a compiler may give 0.
OneShifted(length) == IF length < IntBits THEN {ToInt(2^length)} ELSE {0, 1}

\* static_cast<double>(v) * factor + offset: the value, the product and the sum are
\* rounded; where a compiler fuses the last two, only their result is.
Physical(sig, v) ==
  LET d == ToDouble(v) * sig.factor IN {ToDouble(ToDouble(d) + sig.offset), ToDouble(d + sig.offset)}

\* The values decode may return.  For length IntBits - 1 the subtraction overflows,
\* which is undefined too; the builds wrap.
DecodeSignal(sig, data) ==
  LET raw == ExtractRaw(sig, data)
      signed == IF sig.signed /\ sig.length \in 1..IntBits
                THEN IF sig.length - 1 \in RawBits(sig, data)
                     THEN {ToInt(ToInt(raw) - one) : one \in OneShifted(sig.length)}
                     ELSE {ToInt(raw)}
                ELSE {raw}
  IN UNION {Physical(sig, v) : v \in signed}

\* std::round of the double nearest to a / b: halves go away from zero.  The quotient
\* is taken in units of 1 / (2 * scale), its last digit says whether more follow.
Round(a, b) ==
  LET n == Magnitude(a)
      d == Magnitude(b)
      scale == 2^(Mantissa + Bits(d))
      more == IF (n * scale) % d = 0 THEN 0 ELSE 1
      r == (ToDouble(2 * ((n * scale) \div d) + more) + scale) \div (2 * scale)
  IN IF (a < 0) # (b < 0) THEN -r ELSE r

\* static_cast<int64_t> of a double; one that does not fit gives an end of the range.
Cast(n) ==
  LET least == -2^(IntBits - 1)
      most == 2^(IntBits - 1) - 1
  IN IF n \in least..most THEN {n} ELSE {least, most}

NoLabel == "no label"

\* The labels physical_to_label may return.
PhysicalToLabel(sig, physical) ==
  {IF raw \in DOMAIN sig.values THEN sig.values[raw] ELSE NoLabel :
     raw \in Cast(Round(ToDouble(physical - sig.offset), sig.factor))}

-----------------------------------------------------------------------------
(* parse *)

\* map[key] = value.
Put(map, key, value) == [x \in DOMAIN map \cup {key} |-> IF x = key THEN value ELSE map[x]]

DbcInit(inputs) ==
  /\ fileKind \in inputs /\ file = <<>>
  /\ messages = <<>> /\ curMsg = NoId
  /\ outcome = "reading"

\* The next line of the file.
NextLine(line) ==
  /\ outcome = "reading" /\ Len(file) < fileKind.max
  /\ line \in fileKind.lines
  /\ file' = Append(file, line)

\* A blank line or a comment.
SkipLine(line) ==
  /\ NextLine(line) /\ line.kind = "blank"
  /\ UNCHANGED <<fileKind, messages, curMsg, outcome>>

\* A second definition of an id replaces the first one and its signals.
MessageLine(line) ==
  /\ NextLine(line) /\ line.kind = "BO_" /\ line.ok
  /\ messages' = Put(messages, line.id, [signals |-> <<>>])
  /\ curMsg' = line.id
  /\ UNCHANGED <<fileKind, outcome>>

SignalLine(line) ==
  /\ NextLine(line) /\ line.kind = "SG_" /\ curMsg # NoId /\ line.ok
  /\ messages' = Put(messages, curMsg, [signals |-> Put(messages[curMsg].signals, line.name, line.sig)])
  /\ UNCHANGED <<fileKind, curMsg, outcome>>

\* A signal that belongs to no message is ignored, well-formed or not.
StraySignalLine(line) ==
  /\ NextLine(line) /\ line.kind = "SG_" /\ curMsg = NoId
  /\ UNCHANGED <<fileKind, messages, curMsg, outcome>>

\* The signal a VAL_ line is about is in the database.
Known(line) == line.id \in DOMAIN messages /\ line.name \in DOMAIN messages[line.id].signals

\* Taking a VAL_ line throws: for its id, or for a number in its table, which is
\* read only when the signal is there.
BadValLine(line) ==
  \/ line.id = Unreadable
  \/ Known(line) /\ \E k \in DOMAIN line.pairs : line.pairs[k][1] = Unreadable

\* The pairs are stored one by one; a half pair at the end is not one.
WithLabels(values, pairs) ==
  LET after[k \in 0..Len(pairs)] ==
        IF k = 0 THEN values ELSE Put(after[k - 1], pairs[k][1], pairs[k][2])
  IN after[Len(pairs)]

Labelled(sig, pairs) == [sig EXCEPT !.values = WithLabels(sig.values, pairs)]

ValLine(line) ==
  /\ NextLine(line) /\ line.kind = "VAL_" /\ ~BadValLine(line)
  /\ curMsg' = NoId
  /\ messages' =
       IF Known(line)
       THEN LET signals == messages[line.id].signals IN
            Put(messages, line.id,
                [signals |-> Put(signals, line.name, Labelled(signals[line.name], line.pairs))])
       ELSE messages
  /\ UNCHANGED <<fileKind, outcome>>

\* Fault: only the next BO_ ends a message.
OtherLine_KeepsMessage(line) ==
  /\ NextLine(line) /\ line.kind = "other"
  /\ UNCHANGED <<fileKind, messages, curMsg, outcome>>

OtherLine(line) ==
  /\ NextLine(line) /\ line.kind = "other"
  /\ curMsg' = NoId
  /\ UNCHANGED <<fileKind, messages, outcome>>

\* A malformed line: the exception takes the database with it.
BadLine(line) ==
  /\ NextLine(line)
  /\ \/ line.kind = "BO_" /\ ~line.ok
     \/ line.kind = "SG_" /\ curMsg # NoId /\ ~line.ok
     \/ line.kind = "VAL_" /\ BadValLine(line)
  /\ messages' = <<>> /\ curMsg' = NoId
  /\ outcome' = "threw"
  /\ UNCHANGED fileKind

EndOfFile ==
  /\ outcome = "reading"
  /\ outcome' = "returned"
  /\ UNCHANGED <<fileKind, file, messages, curMsg>>

DbcNext ==
  \/ \E line \in fileKind.lines :
       \/ SkipLine(line) \/ MessageLine(line) \/ SignalLine(line) \/ StraySignalLine(line)
       \/ ValLine(line) \/ OtherLine(line) \/ BadLine(line)
  \/ EndOfFile

DbcSpec == DbcInit(Inputs) /\ [][DbcNext]_dbcVars

-----------------------------------------------------------------------------
Lines(kind) == {p \in DOMAIN file : file[p].kind = kind}

\* The line the signal of line p is under: the last one before it that is not a
\* signal, a comment or blank; 0 when there is none.
Under(p) == Max({0} \cup {q \in 1..(p - 1) : file[q].kind \notin {"blank", "SG_"}})

DefinedAt(id) == Max({p \in Lines("BO_") : file[p].id = id})

SignalLines(id) == {p \in Lines("SG_") : Under(p) = DefinedAt(id)}

\* The line of the signal called name of message id.
SignalAt(id, name) == Max({p \in SignalLines(id) : file[p].name = name})

\* The VAL_ lines about that signal, and the places <<line, pair>> in them.
LabelLines(id, name) ==
  {p \in Lines("VAL_") : p > SignalAt(id, name) /\ file[p].id = id /\ file[p].name = name}
LabelPlaces(id, name) ==
  UNION {{<<p, k>> : k \in DOMAIN file[p].pairs} : p \in LabelLines(id, name)}

Pair(at) == file[at[1]].pairs[at[2]]
Before(a, b) == a[1] < b[1] \/ (a[1] = b[1] /\ a[2] < b[2])

\* values is the table the places say: the last one of a number counts.
TableOf(values, places) ==
  /\ DOMAIN values = {Pair(at)[1] : at \in places}
  /\ \A at \in places :
       (\A later \in places : Before(at, later) => Pair(later)[1] # Pair(at)[1])
         => values[Pair(at)[1]] = Pair(at)[2]

SignalAsRead(id, name) ==
  LET sig == messages[id].signals[name] IN
    /\ sig = [file[SignalAt(id, name)].sig EXCEPT !.values = sig.values]
    /\ TableOf(sig.values, LabelPlaces(id, name))

MessageAsRead(id) ==
  /\ DOMAIN messages[id].signals = {file[p].name : p \in SignalLines(id)}
  /\ \A name \in DOMAIN messages[id].signals : SignalAsRead(id, name)

\* The database is what the lines read so far say, each on its own: a message is
\* that of its last BO_ line; it has the signals of the SG_ lines that follow that
\* line with nothing but signals and comments in between, the last one of each
\* name; a number has the label the last VAL_ line after the signal gives it.  After
\* an exception there is none (REQ-DBC-001, 003, 006; parser.cpp:219-245).
ReadsTheFile ==
  outcome # "threw" =>
    /\ DOMAIN messages = {file[p].id : p \in Lines("BO_")}
    /\ \A id \in DOMAIN messages : MessageAsRead(id)

\* The payload as one number, from its first byte up and from its last byte up; the
\* latter with as many bytes as a signal may reach.
AsLittle(data) == MapThenSumSet(LAMBDA k : data[k] * 256^(k - 1), DOMAIN data)
AsBig(data, n) == MapThenSumSet(LAMBDA k : data[k] * 256^(n - k), DOMAIN data)

\* The bits of a signal read off that number at once.
Value(sig, data) ==
  LET first == 8 * (sig.start \div 8) + 7 - (sig.start % 8)
      n == 1 + (first + sig.length) \div 8
      bytes == IF n > Len(data) THEN n ELSE Len(data)
      raw == IF sig.order = "little" THEN (AsLittle(data) \div 2^sig.start) % 2^sig.length
             ELSE (AsBig(data, bytes) \div 2^(8 * bytes - first - sig.length)) % 2^sig.length
  IN IF sig.signed /\ raw >= 2^(sig.length - 1) THEN raw - 2^sig.length ELSE raw

Signals == UNION {Range(messages[id].signals) : id \in DOMAIN messages}

\* "extract raw bits and apply factor/offset" (REQ-DBC-005), for every start bit and
\* length the guard of extract_raw lets through ("a signal length outside 1..64 or a
\* negative start bit would cause out-of-range shifts", parser.cpp:24), also past
\* the end of the payload: the result is that of the bits, rounded as double
\* arithmetic rounds (parser.cpp:50-57).  Where the value, its product and the sum
\* need no more digits than a double has nothing is lost, and a label is found again
\* from the decoded value (REQ-DBC-006, parser.cpp:62).  A signal the guard refuses
\* decodes to its offset.
DecodesExactly ==
  outcome = "returned" => \A sig \in Signals, data \in Payloads :
    IF sig.length \notin 1..IntBits \/ sig.start < 0 THEN DecodeSignal(sig, data) = {sig.offset}
    ELSE LET v == Value(sig, data)
             scaled == v * sig.factor
             exact == scaled + sig.offset
         IN /\ DecodeSignal(sig, data) = Physical(sig, v)
            /\ IsDouble(v) /\ IsDouble(scaled) /\ IsDouble(exact) =>
                 /\ DecodeSignal(sig, data) = {exact}
                 /\ v \in DOMAIN sig.values /\ sig.factor # 0 =>
                      PhysicalToLabel(sig, exact) = {sig.values[v]}
===============================================================================
