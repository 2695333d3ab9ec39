------------------------------- MODULE ToolsProofs --------------------------------
(***************************************************************************)
(* Proofs about the programs and the parser.  send of cpp-can-cli (Cli)      *)
(* publishes what the lines say, for any stream; its base64 reader gives     *)
(* back what the writer took, and what convert accepts send accepts.  parse  *)
(* (Dbc) makes of any file the database its lines describe.  exec_capture of *)
(* the interoperability harness (Interop) loses nothing of what a process    *)
(* writes, for any output, any pipe and any end of the two processes; and    *)
(* two peers that both report success say the same.                          *)
(***************************************************************************)
EXTENDS Dbc, Cli, Interop, SequenceLemmas, FiniteSetTheorems, NaturalsInduction, WellFoundedInduction

-----------------------------------------------------------------------------
(* send *)

Given == Streamed \cup {Blank} \cup Objects
Frameful == {FrameSent(line) : line \in Streamed}

\* What the stream has done so far.
Streams ==
  /\ Len(published) = Cardinality(Sent)
  /\ \A i \in Sent : published[Cardinality({j \in Sent : j <= i})] = FrameSent(input[i])

CliInv ==
  /\ input \in Seq(Given) /\ published \in Seq(Frameful)
  /\ busClosed \in {-1} \cup 0..Len(input)
  /\ stage \in {"main", "convert", "send", "exited"}
  /\ stage = "main" => input = <<>> /\ published = <<>> /\ exitCode = -1 /\ busClosed = -1
  /\ stage \in {"convert", "send"} => args # <<>> /\ args[1] = stage /\ exitCode = -1
  /\ stage = "convert" => busClosed = -1
  /\ stage = "send" => FailsAt = {} /\ Streams
  /\ stage = "exited" /\ args # <<>> /\ args[1] = "send" /\ exitCode # 2 =>
       /\ Streams /\ FailsAt \subseteq {Len(input)}
       /\ exitCode = IF FailsAt = {} THEN 0 ELSE 1

\* The line that is read next: Sent gains its place if it goes out, and the lines
\* before it keep theirs.
LEMMA NextPlace ==
  ASSUME CliInv, NEW line \in Given, input' = Append(input, line), busClosed' = busClosed, FailsAt = {}
  PROVE  /\ input' \in Seq(Given) /\ Len(input') = Len(input) + 1 /\ Len(input) \in Nat
         /\ busClosed' \in {-1} \cup 0..Len(input')
         /\ input'[Len(input')] = line
         /\ \A i \in 1..Len(input) : input'[i] = input[i]
         /\ Sent \subseteq 1..Len(input)
         /\ line = Blank => FailsAt' = {} /\ Sent' = Sent
         /\ line # Blank /\ (~Sendable(line) \/ busClosed # -1) => FailsAt' = {Len(input')} /\ Sent' = Sent
         /\ line # Blank /\ Sendable(line) /\ busClosed = -1
              => FailsAt' = {} /\ Sent' = Sent \cup {Len(input')}
<1> DEFINE len == Len(input)
           Bad(l, i, c) == l # Blank /\ (~Sendable(l) \/ (c # -1 /\ i > c))
<1>1. input \in Seq(Given) /\ len \in Nat /\ busClosed \in {-1} \cup 0..len
  BY DEF CliInv
<1>2. /\ input' \in Seq(Given) /\ Len(input') = len + 1 /\ input'[len + 1] = line
      /\ \A i \in 1..len : input'[i] = input[i]
  BY <1>1
<1>3. DOMAIN input = 1..len /\ DOMAIN input' = 1..(len + 1)
  BY <1>1, <1>2
<1>4. FailsAt = {i \in 1..len : Bad(input[i], i, busClosed)}
  BY <1>3 DEF FailsAt
<1>5. FailsAt' = {i \in 1..(len + 1) : Bad(input'[i], i, busClosed)}
  BY <1>3 DEF FailsAt
<1>6. Bad(line, len + 1, busClosed) <=> line # Blank /\ (~Sendable(line) \/ busClosed # -1)
  BY <1>1
<1> HIDE DEF Bad
<1>7. \A i \in 1..len : ~Bad(input'[i], i, busClosed)
  BY <1>2, <1>4
<1>8. FailsAt' = IF Bad(line, len + 1, busClosed) THEN {len + 1} ELSE {}
  BY <1>1, <1>2, <1>5, <1>7
<1>9. Sent = {i \in 1..len : input[i] # Blank}
  BY <1>3 DEF Sent
<1>10. Sent' = {i \in 1..(len + 1) : input'[i] # Blank} \ FailsAt'
  BY <1>3 DEF Sent
<1>11. {i \in 1..(len + 1) : input'[i] # Blank} = Sent \cup (IF line = Blank THEN {} ELSE {len + 1})
  BY <1>1, <1>2, <1>9
<1>12. CASE line = Blank
  <2>1. ~Bad(line, len + 1, busClosed)
    BY <1>6, <1>12
  <2> QED
    BY <1>1, <1>2, <1>8, <1>9, <1>10, <1>11, <1>12, <2>1
<1>13. CASE line # Blank /\ (~Sendable(line) \/ busClosed # -1)
  <2>1. Bad(line, len + 1, busClosed)
    BY <1>6, <1>13
  <2>2. Sent' = Sent
    BY <1>1, <1>8, <1>9, <1>10, <1>11, <1>13, <2>1
  <2> QED
    BY <1>1, <1>2, <1>8, <1>9, <1>13, <2>1, <2>2
<1>14. CASE line # Blank /\ Sendable(line) /\ busClosed = -1
  <2>1. ~Bad(line, len + 1, busClosed)
    BY <1>6, <1>14
  <2> QED
    BY <1>1, <1>2, <1>8, <1>9, <1>10, <1>11, <1>14, <2>1
<1> QED
  BY <1>12, <1>13, <1>14

\* Nothing was published: the places stay.
LEMMA StreamsStay ==
  ASSUME CliInv, Streams, NEW line \in Given, input' = Append(input, line), Sent \subseteq 1..Len(input),
         Sent' = Sent, published' = published
  PROVE  Streams'
<1>1. \A i \in Sent : input'[i] = input[i]
  BY DEF CliInv
<1> QED
  BY <1>1 DEF Streams

\* The frame of the line that was read last is published.
LEMMA StreamsGrow ==
  ASSUME CliInv, Streams, NEW line \in Given, input' = Append(input, line), Sent \subseteq 1..Len(input),
         Sent' = Sent \cup {Len(input) + 1}, published' = Append(published, FrameSent(line))
  PROVE  Streams'
<1> DEFINE len == Len(input)
           Upto(S, i) == {j \in S : j <= i}
<1>1. len \in Nat /\ input'[len + 1] = line /\ \A i \in 1..len : input'[i] = input[i]
  BY DEF CliInv
<1>2. IsFiniteSet(1..len) /\ IsFiniteSet(Sent)
  <2>1. ASSUME NEW k \in Nat PROVE IsFiniteSet(1..k)
    BY FS_Interval
  <2>2. IsFiniteSet(1..len)
    BY <1>1, <2>1
  <2> QED
    BY <2>2, FS_Subset
<1>3. len + 1 \notin Sent
  BY <1>1
<1>4. Cardinality(Sent') = Cardinality(Sent) + 1 /\ Cardinality(Sent) \in Nat
  BY <1>2, <1>3, FS_AddElement, FS_CardinalityType
<1>5. /\ Len(published) = Cardinality(Sent) /\ Len(published') = Cardinality(Sent) + 1
      /\ published'[Cardinality(Sent) + 1] = FrameSent(line)
      /\ \A k \in 1..Cardinality(Sent) : published'[k] = published[k]
  BY <1>4 DEF Streams, CliInv
<1>6. ASSUME NEW i \in Sent
      PROVE  published'[Cardinality(Upto(Sent', i))] = FrameSent(input'[i])
  <2>1. Upto(Sent', i) = Upto(Sent, i)
    BY <1>1
  <2>2. /\ Upto(Sent, i) \subseteq Sent /\ i \in Upto(Sent, i)
    BY <1>1
  <2>3. IsFiniteSet(Upto(Sent, i)) /\ Cardinality(Upto(Sent, i)) <= Cardinality(Sent)
    BY <1>2, <2>2, FS_Subset
  <2>4. Cardinality(Upto(Sent, i)) \in Nat /\ Cardinality(Upto(Sent, i)) # 0
    BY <2>2, <2>3, FS_CardinalityType, FS_EmptySet
  <2>5. Cardinality(Upto(Sent, i)) \in 1..Cardinality(Sent)
    BY <1>4, <2>3, <2>4
  <2>6. published[Cardinality(Upto(Sent, i))] = FrameSent(input[i])
    BY DEF Streams
  <2>7. input'[i] = input[i]
    BY <1>1
  <2> QED
    BY <1>5, <2>1, <2>5, <2>6, <2>7
<1>7. published'[Cardinality(Upto(Sent', len + 1))] = FrameSent(input'[len + 1])
  <2>1. Upto(Sent', len + 1) = Sent'
    <3>1. \A j \in Sent' : j <= len + 1
      BY <1>1
    <3> QED
      BY <3>1
  <2> QED
    BY <1>1, <1>4, <1>5, <2>1
<1>8. \A i \in Sent' : published'[Cardinality(Upto(Sent', i))] = FrameSent(input'[i])
  BY <1>6, <1>7
<1> QED
  BY <1>4, <1>5, <1>8 DEF Streams

LEMMA LineKeeps ==
  ASSUME CliInv, NEW line \in Streamed \cup {Blank}, SkipBlank(line) \/ Publish(line) \/ StopAtLine(line)
  PROVE  CliInv'
<1>1. /\ stage = "send" /\ input' = Append(input, line) /\ args' = args /\ busClosed' = busClosed
  BY DEF SkipBlank, Publish, StopAtLine, Reads
<1>2. /\ FailsAt = {} /\ Streams /\ line \in Given /\ published \in Seq(Frameful)
      /\ args # <<>> /\ args[1] = "send" /\ exitCode = -1
  BY <1>1 DEF CliInv, Given
<1>3. /\ input' \in Seq(Given) /\ Len(input') = Len(input) + 1 /\ Len(input) \in Nat
      /\ busClosed' \in {-1} \cup 0..Len(input')
      /\ Sent \subseteq 1..Len(input)
      /\ line = Blank => FailsAt' = {} /\ Sent' = Sent
      /\ line # Blank /\ (~Sendable(line) \/ busClosed # -1) => FailsAt' = {Len(input')} /\ Sent' = Sent
      /\ line # Blank /\ Sendable(line) /\ busClosed = -1
           => FailsAt' = {} /\ Sent' = Sent \cup {Len(input')}
  BY <1>1, <1>2, NextPlace
<1>4. CASE SkipBlank(line)
  <2>1. stage' = stage /\ exitCode' = exitCode /\ published' = published /\ line = Blank
    BY <1>4 DEF SkipBlank
  <2>2. Streams'
    BY <1>1, <1>2, <1>3, <2>1, StreamsStay
  <2> QED
    BY <1>1, <1>2, <1>3, <2>1, <2>2 DEF CliInv
<1>5. CASE Publish(line)
  <2>1. /\ stage' = stage /\ exitCode' = exitCode /\ published' = Append(published, FrameSent(line))
        /\ line # Blank /\ Sendable(line) /\ busClosed = -1
    BY <1>5 DEF Publish
  <2>2. FailsAt' = {} /\ Sent' = Sent \cup {Len(input) + 1}
    BY <1>3, <2>1
  <2>3. Streams'
    BY <1>1, <1>2, <1>3, <2>1, <2>2, StreamsGrow
  <2>4. FrameSent(line) \in Frameful
    BY <2>1 DEF Frameful
  <2>5. published' \in Seq(Frameful)
    BY <1>2, <2>1, <2>4
  <2> QED
    BY <1>1, <1>2, <1>3, <2>1, <2>2, <2>3, <2>5 DEF CliInv
<1>6. CASE StopAtLine(line)
  <2>1. /\ stage' = "exited" /\ exitCode' = 1 /\ published' = published
        /\ line # Blank /\ (~Sendable(line) \/ busClosed # -1)
    BY <1>6 DEF StopAtLine, Exit
  <2>2. FailsAt' = {Len(input')} /\ Sent' = Sent
    BY <1>3, <2>1
  <2>3. Streams'
    BY <1>1, <1>2, <1>3, <2>1, <2>2, StreamsStay
  <2> QED
    BY <1>1, <1>2, <1>3, <2>1, <2>2, <2>3 DEF CliInv
<1> QED
  BY <1>4, <1>5, <1>6

\* What ends or starts a command, or the bus, leaves the lines and the frames alone.
LEMMA RestKeeps ==
  ASSUME CliInv, MainRefuses \/ MainTells \/ MainStarts \/ EndOfStream \/ BusCloses
  PROVE  CliInv'
<1>1. args' = args /\ input' = input /\ published' = published
  BY DEF MainRefuses, MainTells, MainStarts, EndOfStream, BusCloses
<1>2. busClosed' = busClosed => FailsAt' = FailsAt /\ Sent' = Sent /\ (Streams' <=> Streams)
  BY <1>1 DEF FailsAt, Sent, Streams
<1>3. CASE MainRefuses
  <2>1. stage' = "exited" /\ exitCode' = 2 /\ busClosed' = busClosed
    BY <1>3 DEF MainRefuses, Exit
  <2> QED
    BY <1>1, <1>2, <2>1 DEF CliInv
<1>4. CASE MainTells
  <2>1. stage' = "exited" /\ args[1] # "send" /\ busClosed' = busClosed
    BY <1>4 DEF MainTells, Exit
  <2> QED
    BY <1>1, <1>2, <2>1 DEF CliInv
<1>5. CASE MainStarts
  <2>1. /\ stage = "main" /\ stage' = args[1] /\ args[1] \in {"convert", "send"} /\ args # <<>>
        /\ exitCode' = exitCode /\ busClosed' = busClosed
    BY <1>5 DEF MainStarts, ArgsOk
  <2>2. input = <<>> /\ published = <<>> /\ exitCode = -1 /\ busClosed = -1
    BY <2>1 DEF CliInv
  <2>3. FailsAt = {} /\ Sent = {}
    BY <2>2 DEF FailsAt, Sent
  <2>4. Streams
    BY <2>2, <2>3, FS_EmptySet DEF Streams
  <2> QED
    BY <1>1, <1>2, <2>1, <2>2, <2>3, <2>4 DEF CliInv
<1>6. CASE EndOfStream
  <2>1. stage = "send" /\ stage' = "exited" /\ exitCode' = 0 /\ busClosed' = busClosed
    BY <1>6 DEF EndOfStream, Exit
  <2> QED
    BY <1>1, <1>2, <2>1 DEF CliInv
<1>7. CASE BusCloses
  <2>1. /\ stage = "send" /\ stage' = stage /\ exitCode' = exitCode
        /\ busClosed = -1 /\ busClosed' = Len(input)
    BY <1>7 DEF BusCloses
  <2>2. FailsAt = {} /\ Streams /\ input \in Seq(Given)
    BY <2>1 DEF CliInv
  <2>3. FailsAt' = {}
    <3>1. DOMAIN input = 1..Len(input) /\ Len(input) \in Nat
      BY <2>2
    <3>2. \A i \in 1..Len(input) : ~(input[i] # Blank /\ ~Sendable(input[i]))
      BY <2>2, <3>1 DEF FailsAt
    <3> QED
      BY <1>1, <2>1, <3>1, <3>2 DEF FailsAt
  <2>4. Sent' = Sent
    BY <1>1, <2>2, <2>3 DEF Sent
  <2>5. Streams'
    BY <1>1, <2>2, <2>4 DEF Streams
  <2> QED
    BY <1>1, <2>1, <2>2, <2>3, <2>5 DEF CliInv
<1> QED
  BY <1>3, <1>4, <1>5, <1>6, <1>7

LEMMA ConvertKeeps == ASSUME CliInv, NEW o \in Objects, Convert(o) PROVE CliInv'
<1>1. /\ stage = "convert" /\ stage' = "exited" /\ input' = <<o>>
      /\ args' = args /\ published' = published /\ busClosed' = busClosed
  BY DEF Convert, Exit
<1>2. args # <<>> /\ args[1] = "convert" /\ busClosed = -1 /\ published \in Seq(Frameful)
  BY <1>1 DEF CliInv
<1>3. input' \in Seq(Given)
  BY <1>1 DEF Given
<1> QED
  BY <1>1, <1>2, <1>3 DEF CliInv

LEMMA CliAlways == CliSpec => []CliInv
<1>1. CliInit(ArgLists) => CliInv
  BY DEF CliInit, CliInv
<1>2. CliInv /\ [CliNext]_cliVars => CliInv'
  <2> SUFFICES ASSUME CliInv, [CliNext]_cliVars PROVE CliInv'
    OBVIOUS
  <2>1. CASE UNCHANGED cliVars
    BY <2>1 DEF cliVars, CliInv, Streams, Sent, FailsAt
  <2> QED
    BY <2>1, LineKeeps, RestKeeps, ConvertKeeps DEF CliNext
<1> QED
  BY <1>1, <1>2, PTL DEF CliSpec

\* What send publishes is what the lines say up to the first one that fails, for any
\* stream and any moment the bus is closed (json.hpp:279-314).
THEOREM StreamPublished == CliSpec => []SendsUpToTheFault
<1>1. CliInv => SendsUpToTheFault
  BY DEF CliInv, Streams, SendsUpToTheFault
<1> QED
  BY <1>1, CliAlways, PTL

-----------------------------------------------------------------------------
(* numbers and sequences *)

\* A set of numbers has a least one; what holds for 0 and from each number to the
\* next holds for all.
LEMMA LeastNat ==
  ASSUME NEW T, T \subseteq Nat, T # {}
  PROVE  \E x \in T : \A y \in T : x <= y
<1> DEFINE R == {ss \in Nat \X Nat : ss[1] < ss[2]}
<1>1. IsWellFoundedOn(R, Nat)
  BY NatLessThanWellFounded, Zenon DEF OpToRel
<1>2. \A x, y \in Nat : y < x => <<y, x>> \in R
  OBVIOUS
<1> HIDE DEF R
<1>3. PICK x \in T : \A y \in T : ~ (<<y, x>> \in R)
  BY <1>1, WFMin
<1>4. \A y \in T : ~ (y < x)
  BY <1>2, <1>3
<1> QED
  BY <1>4

LEMMA NatInd ==
  ASSUME NEW T, 0 \in T, \A many \in Nat : many \in T => many + 1 \in T
  PROVE  Nat \subseteq T
<1> DEFINE B == Nat \ T
<1> SUFFICES ASSUME B # {} PROVE FALSE
  OBVIOUS
<1>1. PICK x \in B : \A y \in B : x <= y
  BY LeastNat
<1>2. x # 0 /\ x \in Nat
  BY <1>1
<1>3. x - 1 \in Nat /\ x - 1 \notin B
  BY <1>1, <1>2
<1>4. x - 1 \in T
  BY <1>3
<1> QED
  BY <1>2, <1>3, <1>4

\* The greatest number of a bounded set.
LEMMA Greatest ==
  ASSUME NEW bound \in Nat, NEW T, T \subseteq 0..bound, T # {}
  PROVE  Max(T) \in T /\ \A x \in T : x <= Max(T)
<1> DEFINE R == {bound - x : x \in T}
<1>1. R \subseteq Nat /\ R # {}
  <2>1. \A x \in T : bound - x \in Nat
    OBVIOUS
  <2> QED
    BY <2>1
<1>2. PICK r \in R : \A y \in R : r <= y
  BY <1>1, LeastNat
<1>3. PICK x \in T : r = bound - x
  BY <1>2
<1>4. \A y \in T : bound - y \in R /\ y \in Int
  OBVIOUS
<1> HIDE DEF R
<1>5. \A y \in T : x >= y
  BY <1>2, <1>3, <1>4
<1>6. Max(T) \in T /\ \A y \in T : Max(T) >= y
  BY <1>5 DEF Max
<1> QED
  BY <1>6

LEMMA MaxIs ==
  ASSUME NEW T, T \subseteq Nat, NEW x \in T, \A y \in T : y <= x
  PROVE  Max(T) = x
<1>1. \A y \in T : x >= y
  OBVIOUS
<1> DEFINE most == Max(T)
<1>2. most \in T /\ \A y \in T : most >= y
  BY <1>1 DEF Max
<1> HIDE DEF most
<1>3. most = x
  BY <1>2
<1> QED
  BY <1>3 DEF most

LEMMA ElementsOf ==
  ASSUME NEW S, NEW q \in Seq(S)
  PROVE  Len(q) \in Nat /\ DOMAIN q = 1..Len(q) /\ \A k \in 1..Len(q) : q[k] \in S
OBVIOUS

\* A sequence is of the set its elements are in.
LEMMA Within ==
  ASSUME NEW S, NEW R, NEW q \in Seq(S), \A i \in 1..Len(q) : q[i] \in R
  PROVE  q \in Seq(R)
OBVIOUS

-----------------------------------------------------------------------------
(* base64 *)

\* What base64_decode holds after each character of a text.
Decoding(text) ==
  CHOOSE f : f = [k \in 0..Len(text) |-> IF k = 0 THEN Base64Start ELSE NextChar(f[k - 1], text[k])]

LEMMA DecodingRuns ==
  ASSUME NEW text, Len(text) \in Nat
  PROVE  LET f == Decoding(text) IN
           /\ Base64Decode(text) = f[Len(text)].out
           /\ f[0] = Base64Start
           /\ \A k \in 1..Len(text) : f[k] = NextChar(f[k - 1], text[k])
<1> DEFINE Runs(h, last) == h = [k \in 0..last |-> IF k = 0 THEN Base64Start ELSE NextChar(h[k - 1], text[k])]
           T == {last \in Nat : \E h : Runs(h, last)}
<1>1. 0 \in T
  <2> DEFINE g == [k \in 0..0 |-> Base64Start]
  <2>1. \A k \in 0..0 : k = 0
    OBVIOUS
  <2>2. g = [k \in 0..0 |-> IF k = 0 THEN Base64Start ELSE NextChar(g[k - 1], text[k])]
    BY <2>1
  <2> HIDE DEF g
  <2> QED
    BY <2>2
<1>2. ASSUME NEW many \in Nat, many \in T PROVE many + 1 \in T
  <2>1. PICK f : Runs(f, many)
    BY <1>2
  <2> DEFINE g == [k \in 0..(many + 1) |-> IF k = many + 1 THEN NextChar(f[many], text[many + 1]) ELSE f[k]]
  <2>2. ASSUME NEW k \in 0..(many + 1)
        PROVE  g[k] = IF k = 0 THEN Base64Start ELSE NextChar(g[k - 1], text[k])
    <3>1. CASE k = many + 1
      <4>1. k # 0 /\ k - 1 = many /\ many \in 0..(many + 1) /\ many # many + 1
        BY <3>1
      <4> QED
        BY <3>1, <4>1
    <3>2. CASE k \in 1..many
      <4>1. k # 0 /\ k \in 0..many /\ k - 1 \in 0..(many + 1) /\ k # many + 1 /\ k - 1 # many + 1
        BY <3>2
      <4>2. f[k] = NextChar(f[k - 1], text[k])
        BY <2>1, <4>1
      <4>3. g[k] = f[k] /\ g[k - 1] = f[k - 1]
        BY <4>1
      <4> HIDE DEF g
      <4> QED
        BY <4>1, <4>2, <4>3
    <3>3. CASE k = 0
      <4>1. 0 # many + 1 /\ 0 \in 0..many
        OBVIOUS
      <4> QED
        BY <2>1, <3>3, <4>1
    <3> QED
      BY <3>1, <3>2, <3>3
  <2>3. g = [k \in 0..(many + 1) |-> g[k]]
    OBVIOUS
  <2> HIDE DEF g
  <2>4. Runs(g, many + 1)
    BY <2>2, <2>3
  <2> HIDE DEF Runs
  <2>5. \E h : Runs(h, many + 1)
    BY <2>4
  <2> QED
    BY <2>5
<1> HIDE DEF T
<1>3. Nat \subseteq T
  BY <1>1, <1>2, NatInd
<1>4. \E f : Runs(f, Len(text))
  BY <1>3 DEF T
<1>5. Runs(Decoding(text), Len(text))
  BY <1>4 DEF Decoding
<1>6. Base64Decode(text) = Decoding(text)[Len(text)].out
  BY DEF Base64Decode, Decoding
<1> QED
  BY <1>5, <1>6

DecodeState == [accum : Nat, bits : {0, 2, 4, 6}, out : Seq(0..255), ended : BOOLEAN]

\* Fewer than eight bits wait in the accumulator.
HalfRead(s) ==
  /\ s \in DecodeState
  /\ s.bits = 0 => s.accum = 0
  /\ s.bits = 2 => s.accum < 4
  /\ s.bits = 4 => s.accum < 16
  /\ s.bits = 6 => s.accum < 64

\* The four cases of a character of the alphabet.
LEMMA DigitRead ==
  ASSUME NEW s, HalfRead(s), ~s.ended, NEW c \in 0..63
  PROVE  /\ s.bits = 0 => NextChar(s, c) = [accum |-> c, bits |-> 6, out |-> s.out, ended |-> FALSE]
         /\ s.bits = 2 => /\ 64 * s.accum + c \in 0..255
                          /\ NextChar(s, c) = [accum |-> 0, bits |-> 0,
                                               out |-> Append(s.out, 64 * s.accum + c), ended |-> FALSE]
         /\ s.bits = 4 => /\ (64 * s.accum + c) \div 4 \in 0..255 /\ (64 * s.accum + c) % 4 \in 0..3
                          /\ NextChar(s, c) = [accum |-> (64 * s.accum + c) % 4, bits |-> 2,
                                               out |-> Append(s.out, (64 * s.accum + c) \div 4), ended |-> FALSE]
         /\ s.bits = 6 => /\ (64 * s.accum + c) \div 16 \in 0..255 /\ (64 * s.accum + c) % 16 \in 0..15
                          /\ NextChar(s, c) = [accum |-> (64 * s.accum + c) % 16, bits |-> 4,
                                               out |-> Append(s.out, (64 * s.accum + c) \div 16), ended |-> FALSE]
<1> DEFINE v == 64 * s.accum + c
           left == s.bits - 2
           place == 2^left
<1>1. s \in DecodeState /\ s.accum \in Nat /\ v \in Nat /\ c # Pad /\ c # Junk
  <2>1. s \in DecodeState
    BY DEF HalfRead
  <2>2. s.accum \in Nat
    BY <2>1 DEF DecodeState
  <2>3. v \in Nat /\ c # Pad /\ c # Junk
    BY <2>2 DEF Pad, Junk
  <2> QED
    BY <2>1, <2>2, <2>3
<1>2. NextChar(s, c) =
        IF left >= 0
        THEN [s EXCEPT !.accum = v % place, !.bits = left, !.out = Append(s.out, v \div place)]
        ELSE [s EXCEPT !.accum = v, !.bits = s.bits + 6]
  BY <1>1 DEF NextChar
<1> HIDE DEF place
<1>3. CASE s.bits = 0
  <2>1. v = c
    BY <1>3 DEF HalfRead
  <2> HIDE DEF v
  <2>2. NextChar(s, c) = [s EXCEPT !.accum = c, !.bits = 6]
    BY <1>2, <1>3, <2>1
  <2>3. NextChar(s, c) = [accum |-> c, bits |-> 6, out |-> s.out, ended |-> FALSE]
    BY <1>1, <2>2 DEF DecodeState
  <2> QED
    BY <1>3, <2>3
<1>4. CASE s.bits = 2
  <2>1. left = 0 /\ 2^0 = 1
    BY <1>4
  <2>2. v \in 0..255
    BY <1>1, <1>4 DEF HalfRead
  <2> HIDE DEF v, left
  <2>5. v % 1 = 0 /\ v \div 1 = v
    BY <2>2
  <2>6. place = 1
    BY <2>1, Zenon DEF place
  <2>3. NextChar(s, c) = [s EXCEPT !.accum = v % 1, !.bits = 0, !.out = Append(s.out, v \div 1)]
    BY <1>2, <2>1, <2>6
  <2>4. NextChar(s, c) = [accum |-> 0, bits |-> 0, out |-> Append(s.out, v), ended |-> FALSE]
    BY <1>1, <2>3, <2>5, ZenonT(60) DEF DecodeState
  <2> QED
    BY <1>4, <2>2, <2>4 DEF v
<1>5. CASE s.bits = 4
  <2>1. left = 2 /\ 2^2 = 4
    BY <1>5
  <2>0. v \in 0..1023
    <3>1. s.accum \in 0..15
      BY <1>1, <1>5 DEF HalfRead
    <3> QED
      BY <3>1
  <2> HIDE DEF v, left
  <2>2. v % 4 \in 0..3 /\ v \div 4 \in 0..255
    BY <2>0
  <2>3. place = 4
    BY <2>1, Zenon DEF place
  <2>4. NextChar(s, c) = [s EXCEPT !.accum = v % 4, !.bits = 2, !.out = Append(s.out, v \div 4)]
    BY <1>2, <2>1, <2>3
  <2>5. NextChar(s, c) = [accum |-> v % 4, bits |-> 2, out |-> Append(s.out, v \div 4), ended |-> FALSE]
    BY <1>1, <2>4 DEF DecodeState
  <2> QED
    BY <1>5, <2>2, <2>5 DEF v
<1>6. CASE s.bits = 6
  <2>1. left = 4 /\ 2^4 = 16
    BY <1>6
  <2>0. v \in 0..4095
    <3>1. s.accum \in 0..63
      BY <1>1, <1>6 DEF HalfRead
    <3>2. PICK a \in 0..63 : s.accum = a
      BY <3>1
    <3>3. 64 * a + c \in 0..4095
      OBVIOUS
    <3> QED
      BY <3>2, <3>3
  <2> HIDE DEF v, left
  <2>2. v % 16 \in 0..15 /\ v \div 16 \in 0..255
    BY <2>0, SMTT(30)
  <2>3. place = 16
    BY <2>1, Zenon DEF place
  <2>4. NextChar(s, c) = [s EXCEPT !.accum = v % 16, !.bits = 4, !.out = Append(s.out, v \div 16)]
    BY <1>2, <2>1, <2>3
  <2>5. NextChar(s, c) = [accum |-> v % 16, bits |-> 4, out |-> Append(s.out, v \div 16), ended |-> FALSE]
    BY <1>1, <2>4 DEF DecodeState
  <2> QED
    BY <1>6, <2>2, <2>5 DEF v
<1> HIDE DEF v
<1>7. s.bits \in {0, 2, 4, 6}
  BY <1>1 DEF DecodeState
<1> QED
  BY <1>3, <1>4, <1>5, <1>6, <1>7 DEF v

LEMMA CharRead ==
  ASSUME NEW s, HalfRead(s), NEW c \in 0..Junk
  PROVE  HalfRead(NextChar(s, c))
<1> DEFINE v == 64 * s.accum + c
<1>1. CASE s.ended \/ c = Pad
  <2>1. NextChar(s, c) = [s EXCEPT !.ended = TRUE]
    BY <1>1 DEF NextChar
  <2> QED
    BY <2>1 DEF HalfRead, DecodeState
<1>2. CASE ~(s.ended \/ c = Pad) /\ c = Junk
  BY <1>2 DEF NextChar
<1>3. CASE ~(s.ended \/ c = Pad) /\ c # Junk
  <2>1. c \in 0..63 /\ ~s.ended
    BY <1>3 DEF Pad, Junk
  <2>2. s.bits \in {0, 2, 4, 6} /\ s.out \in Seq(0..255) /\ s.accum \in Nat
    BY DEF HalfRead, DecodeState
  <2>3. CASE s.bits = 0
    <3>1. NextChar(s, c) = [accum |-> c, bits |-> 6, out |-> s.out, ended |-> FALSE]
      BY <2>1, <2>3, DigitRead, ZenonT(60)
    <3>2. c \in Nat /\ c < 64
      BY <2>1
    <3> QED
      BY <2>2, <3>1, <3>2 DEF HalfRead, DecodeState
  <2>4. CASE s.bits = 2
    <3>1. /\ v \in 0..255
          /\ NextChar(s, c) = [accum |-> 0, bits |-> 0, out |-> Append(s.out, v), ended |-> FALSE]
      BY <2>1, <2>4, DigitRead
    <3> HIDE DEF v
    <3>2. Append(s.out, v) \in Seq(0..255)
      BY <2>2, <3>1
    <3> QED
      BY <3>1, <3>2 DEF HalfRead, DecodeState
  <2>5. CASE s.bits = 4
    <3>1. /\ v \div 4 \in 0..255 /\ v % 4 \in 0..3
          /\ NextChar(s, c) = [accum |-> v % 4, bits |-> 2, out |-> Append(s.out, v \div 4), ended |-> FALSE]
      BY <2>1, <2>5, DigitRead
    <3> DEFINE byte == v \div 4
               rest == v % 4
    <3> HIDE DEF v, byte, rest
    <3>2. /\ byte \in 0..255 /\ rest \in 0..3
          /\ NextChar(s, c) = [accum |-> rest, bits |-> 2, out |-> Append(s.out, byte), ended |-> FALSE]
      BY <3>1 DEF byte, rest
    <3>3. Append(s.out, byte) \in Seq(0..255)
      BY <2>2, <3>2
    <3> QED
      BY <3>2, <3>3 DEF HalfRead, DecodeState
  <2>6. CASE s.bits = 6
    <3>1. /\ v \div 16 \in 0..255 /\ v % 16 \in 0..15
          /\ NextChar(s, c) = [accum |-> v % 16, bits |-> 4, out |-> Append(s.out, v \div 16), ended |-> FALSE]
      BY <2>1, <2>6, DigitRead
    <3> DEFINE byte == v \div 16
               rest == v % 16
    <3> HIDE DEF v, byte, rest
    <3>2. /\ byte \in 0..255 /\ rest \in 0..15
          /\ NextChar(s, c) = [accum |-> rest, bits |-> 4, out |-> Append(s.out, byte), ended |-> FALSE]
      BY <3>1 DEF byte, rest
    <3>3. Append(s.out, byte) \in Seq(0..255)
      BY <2>2, <3>2
    <3> QED
      BY <3>2, <3>3 DEF HalfRead, DecodeState
  <2> QED
    BY <2>2, <2>3, <2>4, <2>5, <2>6
<1> QED
  BY <1>1, <1>2, <1>3

\* Whatever the text is, what is read from it are bytes.
LEMMA TextGivesBytes ==
  ASSUME NEW text \in Seq(0..Junk)
  PROVE  Base64Decode(text) \in Seq(0..255)
<1> DEFINE many == Len(text)
           T == {k \in Nat : k <= many => HalfRead(Decoding(text)[k])}
<1>1. many \in Nat /\ \A k \in 1..many : text[k] \in 0..Junk
  BY ElementsOf
<1>2. /\ Base64Decode(text) = Decoding(text)[many].out
      /\ Decoding(text)[0] = Base64Start
      /\ \A k \in 1..many : Decoding(text)[k] = NextChar(Decoding(text)[k - 1], text[k])
  BY <1>1, DecodingRuns
<1>3. 0 \in T
  <2>1. HalfRead(Base64Start)
    BY DEF HalfRead, DecodeState, Base64Start
  <2> QED
    BY <1>2, <2>1
<1>4. ASSUME NEW k \in Nat, k \in T PROVE k + 1 \in T
  <2> SUFFICES ASSUME k + 1 <= many PROVE HalfRead(Decoding(text)[k + 1])
    OBVIOUS
  <2>1. HalfRead(Decoding(text)[k])
    BY <1>1, <1>4
  <2>2. k + 1 \in 1..many /\ (k + 1) - 1 = k
    BY <1>1
  <2>3. text[k + 1] \in 0..Junk
    BY <1>1, <2>2
  <2>4. Decoding(text)[k + 1] = NextChar(Decoding(text)[k], text[k + 1])
    BY <1>2, <2>2
  <2> QED
    BY <2>1, <2>3, <2>4, CharRead
<1> HIDE DEF T
<1>5. Nat \subseteq T
  BY <1>3, <1>4, NatInd
<1>6. HalfRead(Decoding(text)[many])
  BY <1>1, <1>5 DEF T
<1> QED
  BY <1>2, <1>6 DEF HalfRead, DecodeState

ByteAt(data, i) == IF i <= Len(data) THEN data[i] ELSE 0

\* The six bits of each character.
InFours(b1, b2, b3) ==
  LET group == 65536 * b1 + 256 * b2 + b3 IN
    /\ (group \div 2^18) % 64 = b1 \div 4
    /\ (group \div 2^12) % 64 = 16 * (b1 % 4) + (b2 \div 16)
    /\ (group \div 2^6) % 64 = 4 * (b2 % 16) + (b3 \div 64)
    /\ (group \div 2^0) % 64 = b3 % 64

LEMMA SixBits ==
  ASSUME NEW b1 \in 0..255, NEW b2 \in 0..255, NEW b3 \in 0..255
  PROVE  InFours(b1, b2, b3)
<1> DEFINE group == 65536 * b1 + 256 * b2 + b3
<1>1. 2^18 = 262144 /\ 2^12 = 4096 /\ 2^6 = 64 /\ 2^0 = 1
  OBVIOUS
<1>2. PICK p1 \in 0..63, q1 \in 0..3 : b1 = 4 * p1 + q1
  OBVIOUS
<1>3. PICK p2 \in 0..15, q2 \in 0..15 : b2 = 16 * p2 + q2
  OBVIOUS
<1>4. PICK p3 \in 0..3, q3 \in 0..63 : b3 = 64 * p3 + q3
  OBVIOUS
<1>5. b1 \div 4 = p1 /\ b1 % 4 = q1
  BY <1>2
<1>6. b2 \div 16 = p2 /\ b2 % 16 = q2
  BY <1>3
<1>7. b3 \div 64 = p3 /\ b3 % 64 = q3
  BY <1>4
<1>8. group = 262144 * p1 + 65536 * q1 + 4096 * p2 + 256 * q2 + 64 * p3 + q3
  BY <1>2, <1>3, <1>4
<1> HIDE DEF group
<1>9. group \div 262144 = p1
  BY <1>8
<1>10. group \div 4096 = 64 * p1 + 16 * q1 + p2
  BY <1>8
<1>11. group \div 64 = 4096 * p1 + 1024 * q1 + 64 * p2 + 4 * q2 + p3
  BY <1>8
<1>12. group \div 1 = group
  BY <1>8
<1>13. p1 % 64 = p1 /\ (64 * p1 + 16 * q1 + p2) % 64 = 16 * q1 + p2
  OBVIOUS
<1>14. (4096 * p1 + 1024 * q1 + 64 * p2 + 4 * q2 + p3) % 64 = 4 * q2 + p3
  OBVIOUS
<1>15. group % 64 = q3
  BY <1>8
<1>16. /\ (group \div 2^18) % 64 = b1 \div 4
       /\ (group \div 2^12) % 64 = 16 * (b1 % 4) + (b2 \div 16)
       /\ (group \div 2^6) % 64 = 4 * (b2 % 16) + (b3 \div 64)
       /\ (group \div 2^0) % 64 = b3 % 64
  BY <1>1, <1>5, <1>6, <1>7, <1>9, <1>10, <1>11, <1>12, <1>13, <1>14, <1>15
<1> QED
  BY <1>16 DEF InFours, group

\* What base64_encode writes for the bytes from 3 * g + 1 on.
LEMMA EncodedGroup ==
  ASSUME NEW data \in Seq(0..255), NEW g \in Nat, 3 * g < Len(data)
  PROVE  LET text == Base64Encode(data)
             b1 == data[3 * g + 1]
             b2 == ByteAt(data, 3 * g + 2)
             b3 == ByteAt(data, 3 * g + 3)
         IN /\ b1 \in 0..255 /\ b2 \in 0..255 /\ b3 \in 0..255
            /\ 4 * g + 4 <= Len(text)
            /\ text[4 * g + 1] = b1 \div 4
            /\ text[4 * g + 2] = 16 * (b1 % 4) + (b2 \div 16)
            /\ text[4 * g + 3] = IF 3 * g + 2 <= Len(data) THEN 4 * (b2 % 16) + (b3 \div 64) ELSE Pad
            /\ text[4 * g + 4] = IF 3 * g + 3 <= Len(data) THEN b3 % 64 ELSE Pad
<1> DEFINE many == Len(data)
           size == 4 * ((many + 2) \div 3)
           group(h) == 65536 * ByteAt(data, 3 * h + 1) + 256 * ByteAt(data, 3 * h + 2) + ByteAt(data, 3 * h + 3)
           char(h, c) == IF c >= 2 /\ 3 * h + c > many THEN Pad ELSE (group(h) \div 2^(18 - 6 * c)) % 64
           text == Base64Encode(data)
           b1 == data[3 * g + 1]
           b2 == ByteAt(data, 3 * g + 2)
           b3 == ByteAt(data, 3 * g + 3)
<1>1. many \in Nat /\ \A i \in 1..many : data[i] \in 0..255
  BY ElementsOf
<1>2. text = [k \in 1..size |-> char((k - 1) \div 4, (k - 1) % 4)]
  BY DEF Base64Encode, ByteAt
<1> HIDE DEF text, char
<1>3. size \in Nat /\ 4 * g + 4 <= size
  BY <1>1
<1> HIDE DEF size
<1>4. Len(text) = size
  BY <1>2, <1>3
<1>5. ASSUME NEW c \in 0..3 PROVE text[4 * g + 1 + c] = char(g, c)
  <2>1. 4 * g + 1 + c \in 1..size /\ ((4 * g + 1 + c) - 1) \div 4 = g /\ ((4 * g + 1 + c) - 1) % 4 = c
    BY <1>3
  <2> QED
    BY <1>2, <2>1
<1>6. 4 * g + 1 + 0 = 4 * g + 1 /\ 4 * g + 1 + 1 = 4 * g + 2 /\ 4 * g + 1 + 2 = 4 * g + 3 /\ 4 * g + 1 + 3 = 4 * g + 4
  OBVIOUS
<1>7. text[4 * g + 1] = char(g, 0) /\ text[4 * g + 2] = char(g, 1) /\ text[4 * g + 3] = char(g, 2) /\ text[4 * g + 4] = char(g, 3)
  <2>1. 0 \in 0..3 /\ 1 \in 0..3 /\ 2 \in 0..3 /\ 3 \in 0..3
    OBVIOUS
  <2>2. /\ text[4 * g + 1 + 0] = char(g, 0) /\ text[4 * g + 1 + 1] = char(g, 1)
        /\ text[4 * g + 1 + 2] = char(g, 2) /\ text[4 * g + 1 + 3] = char(g, 3)
    BY <1>5, <2>1
  <2> QED
    BY <1>6, <2>2
<1>8. b1 \in 0..255 /\ b2 \in 0..255 /\ b3 \in 0..255 /\ ByteAt(data, 3 * g + 1) = b1
  <2>1. 3 * g + 1 \in 1..many
    BY <1>1
  <2>2. 3 * g + 2 <= many => 3 * g + 2 \in 1..many
    BY <1>1
  <2>3. 3 * g + 3 <= many => 3 * g + 3 \in 1..many
    BY <1>1
  <2> QED
    BY <1>1, <2>1, <2>2, <2>3 DEF ByteAt
<1> DEFINE number == 65536 * b1 + 256 * b2 + b3
<1>9. group(g) = number
  BY <1>8
<1> HIDE DEF b1, b2, b3, group
<1>15. InFours(b1, b2, b3)
  BY <1>8, SixBits
<1>10. /\ (number \div 2^18) % 64 = b1 \div 4
       /\ (number \div 2^12) % 64 = 16 * (b1 % 4) + (b2 \div 16)
       /\ (number \div 2^6) % 64 = 4 * (b2 % 16) + (b3 \div 64)
       /\ (number \div 2^0) % 64 = b3 % 64
  BY <1>15 DEF InFours
<1> HIDE DEF number
<1>11. /\ char(g, 0) = (number \div 2^18) % 64 /\ char(g, 1) = (number \div 2^12) % 64
       /\ char(g, 2) = IF 3 * g + 2 > many THEN Pad ELSE (number \div 2^6) % 64
       /\ char(g, 3) = IF 3 * g + 3 > many THEN Pad ELSE (number \div 2^0) % 64
  <2>1. 18 - 6 * 0 = 18 /\ 18 - 6 * 1 = 12 /\ 18 - 6 * 2 = 6 /\ 18 - 6 * 3 = 0
    OBVIOUS
  <2>2. ~(0 >= 2) /\ ~(1 >= 2) /\ 2 >= 2 /\ 3 >= 2
    OBVIOUS
  <2>3. char(g, 0) = (number \div 2^18) % 64
    BY <1>9, <2>1, <2>2 DEF char
  <2>4. char(g, 1) = (number \div 2^12) % 64
    BY <1>9, <2>1, <2>2 DEF char
  <2>5. char(g, 2) = IF 3 * g + 2 > many THEN Pad ELSE (number \div 2^6) % 64
    BY <1>9, <2>1, <2>2 DEF char
  <2>6. char(g, 3) = IF 3 * g + 3 > many THEN Pad ELSE (number \div 2^0) % 64
    BY <1>9, <2>1, <2>2 DEF char
  <2> QED
    BY <2>3, <2>4, <2>5, <2>6
<1>12. (3 * g + 2 > many <=> ~(3 * g + 2 <= many)) /\ (3 * g + 3 > many <=> ~(3 * g + 3 <= many))
  BY <1>1
<1>13. 4 * g + 4 <= Len(text)
  BY <1>3, <1>4
<1>14. /\ text[4 * g + 1] = b1 \div 4
       /\ text[4 * g + 2] = 16 * (b1 % 4) + (b2 \div 16)
       /\ text[4 * g + 3] = IF 3 * g + 2 <= many THEN 4 * (b2 % 16) + (b3 \div 64) ELSE Pad
       /\ text[4 * g + 4] = IF 3 * g + 3 <= many THEN b3 % 64 ELSE Pad
  BY <1>7, <1>10, <1>11, <1>12
<1> QED
  BY <1>8, <1>13, <1>14 DEF text, b1, b2, b3

\* The characters of the alphabet.
Digit == 0..63

\* A character c after accum makes a byte and leaves rest.
Makes(accum, c, place, byte, rest) ==
  64 * accum + c = place * byte + rest /\ rest \in 0..(place - 1) /\ byte \in 0..255

\* What a decoder that holds that much does with c.
DigitIn(s, bits, c, place, byte, rest) ==
  HalfRead(s) /\ ~s.ended /\ s.bits = bits /\ c \in Digit /\ Makes(s.accum, c, place, byte, rest)

\* Each of these cases with the byte and the rest given.
LEMMA FirstDigit ==
  ASSUME NEW s, HalfRead(s), ~s.ended, s.bits = 0, NEW c \in Digit
  PROVE  NextChar(s, c) = [accum |-> c, bits |-> 6, out |-> s.out, ended |-> FALSE]
BY DigitRead, ZenonT(60) DEF Digit

LEMMA SecondDigit ==
  ASSUME NEW s, NEW c, NEW byte, NEW rest, DigitIn(s, 6, c, 16, byte, rest)
  PROVE  NextChar(s, c) = [accum |-> rest, bits |-> 4, out |-> Append(s.out, byte), ended |-> FALSE]
<1> DEFINE v == 64 * s.accum + c
<1>1. NextChar(s, c) = [accum |-> v % 16, bits |-> 4, out |-> Append(s.out, v \div 16), ended |-> FALSE]
  BY DigitRead DEF DigitIn, Digit
<1>2. v = 16 * byte + rest /\ rest \in 0..15 /\ byte \in 0..255
  BY DEF DigitIn, Makes, Digit
<1> HIDE DEF v
<1>3. v \div 16 = byte /\ v % 16 = rest
  BY <1>2
<1> QED
  BY <1>1, <1>3

LEMMA ThirdDigit ==
  ASSUME NEW s, NEW c, NEW byte, NEW rest, DigitIn(s, 4, c, 4, byte, rest)
  PROVE  NextChar(s, c) = [accum |-> rest, bits |-> 2, out |-> Append(s.out, byte), ended |-> FALSE]
<1> DEFINE v == 64 * s.accum + c
<1>1. NextChar(s, c) = [accum |-> v % 4, bits |-> 2, out |-> Append(s.out, v \div 4), ended |-> FALSE]
  BY DigitRead DEF DigitIn, Digit
<1>2. v = 4 * byte + rest /\ rest \in 0..3 /\ byte \in 0..255
  BY DEF DigitIn, Makes, Digit
<1> HIDE DEF v
<1>3. v \div 4 = byte /\ v % 4 = rest
  BY <1>2
<1> QED
  BY <1>1, <1>3

LEMMA LastDigit ==
  ASSUME NEW s, NEW c, NEW byte, DigitIn(s, 2, c, 1, byte, 0)
  PROVE  NextChar(s, c) = [accum |-> 0, bits |-> 0, out |-> Append(s.out, byte), ended |-> FALSE]
<1> DEFINE v == 64 * s.accum + c
<1>1. NextChar(s, c) = [accum |-> 0, bits |-> 0, out |-> Append(s.out, v), ended |-> FALSE]
  BY DigitRead DEF DigitIn, Digit
<1>2. v = byte
  BY DEF DigitIn, Makes, Digit
<1> HIDE DEF v
<1> QED
  BY <1>1, <1>2

\* Four characters make three bytes; r2 and r3 are what is left after the first two.
Group(c1, c2, c3, c4, b1, b2, b3, r2, r3) ==
  /\ c1 \in Digit /\ c2 \in Digit /\ c3 \in Digit /\ c4 \in Digit
  /\ Makes(c1, c2, 16, b1, r2) /\ Makes(r2, c3, 4, b2, r3) /\ Makes(r3, c4, 1, b3, 0)

\* What each character of a group makes.
LEMMA GroupMakes ==
  ASSUME NEW b1 \in 0..255, NEW b2 \in 0..255, NEW b3 \in 0..255
  PROVE  Group(b1 \div 4, 16 * (b1 % 4) + (b2 \div 16), 4 * (b2 % 16) + (b3 \div 64), b3 % 64,
               b1, b2, b3, b2 \div 16, b3 \div 64)
<1>1. PICK p1 \in 0..63, q1 \in 0..3 : b1 = 4 * p1 + q1
  OBVIOUS
<1>2. PICK p2 \in 0..15, q2 \in 0..15 : b2 = 16 * p2 + q2
  OBVIOUS
<1>3. PICK p3 \in 0..3, q3 \in 0..63 : b3 = 64 * p3 + q3
  OBVIOUS
<1>4. b1 \div 4 = p1 /\ b1 % 4 = q1
  BY <1>1
<1>5. b2 \div 16 = p2 /\ b2 % 16 = q2
  BY <1>2
<1>6. b3 \div 64 = p3 /\ b3 % 64 = q3
  BY <1>3
<1>7. 16 * q1 + p2 \in 0..63 /\ 4 * q2 + p3 \in 0..63
  OBVIOUS
<1>8. Makes(p1, 16 * q1 + p2, 16, b1, p2)
  BY <1>1 DEF Makes
<1>9. Makes(p2, 4 * q2 + p3, 4, b2, p3)
  BY <1>2 DEF Makes
<1>10. Makes(p3, q3, 1, b3, 0)
  BY <1>3 DEF Makes
<1> QED
  BY <1>4, <1>5, <1>6, <1>7, <1>8, <1>9, <1>10 DEF Digit, Group

\* What the characters of a group do to a decoder that waits for none.
LEMMA GroupRead ==
  ASSUME NEW s, HalfRead(s), ~s.ended, s.bits = 0,
         NEW c1, NEW c2, NEW c3, NEW c4, NEW b1, NEW b2, NEW b3, NEW r2, NEW r3,
         Group(c1, c2, c3, c4, b1, b2, b3, r2, r3)
  PROVE  LET s1 == NextChar(s, c1)
             s2 == NextChar(s1, c2)
             s3 == NextChar(s2, c3)
         IN /\ s2 = [accum |-> r2, bits |-> 4, out |-> Append(s.out, b1), ended |-> FALSE]
            /\ s3 = [accum |-> r3, bits |-> 2, out |-> Append(Append(s.out, b1), b2), ended |-> FALSE]
            /\ NextChar(s3, c4) =
                 [accum |-> 0, bits |-> 0, out |-> Append(Append(Append(s.out, b1), b2), b3), ended |-> FALSE]
<1> DEFINE s1 == NextChar(s, c1)
           s2 == NextChar(s1, c2)
           s3 == NextChar(s2, c3)
           s4 == NextChar(s3, c4)
<1> HIDE DEF s1, s2, s3, s4
<1>0. /\ c1 \in Digit /\ c2 \in Digit /\ c3 \in Digit /\ c4 \in Digit
      /\ Makes(c1, c2, 16, b1, r2) /\ Makes(r2, c3, 4, b2, r3) /\ Makes(r3, c4, 1, b3, 0)
  BY DEF Group
<1>1. c1 \in 0..Junk /\ c2 \in 0..Junk /\ c3 \in 0..Junk
  BY <1>0 DEF Junk, Digit
<1>2. HalfRead(s1)
  BY <1>1, CharRead DEF s1
<1>3. HalfRead(s2)
  BY <1>1, <1>2, CharRead DEF s2
<1>4. HalfRead(s3)
  BY <1>1, <1>3, CharRead DEF s3
<1>5. s1 = [accum |-> c1, bits |-> 6, out |-> s.out, ended |-> FALSE]
  BY <1>0, FirstDigit DEF s1
<1>6. s1.accum = c1 /\ s1.bits = 6 /\ ~s1.ended /\ s1.out = s.out
  BY <1>5
<1>7. s2 = [accum |-> r2, bits |-> 4, out |-> Append(s1.out, b1), ended |-> FALSE]
  <2>1. DigitIn(s1, 6, c2, 16, b1, r2)
    BY <1>0, <1>2, <1>6 DEF DigitIn
  <2>2. NextChar(s1, c2) = [accum |-> r2, bits |-> 4, out |-> Append(s1.out, b1), ended |-> FALSE]
    BY <2>1, SecondDigit
  <2> QED
    BY <2>2 DEF s2
<1>8. s2.accum = r2 /\ s2.bits = 4 /\ ~s2.ended /\ s2.out = Append(s1.out, b1)
  BY <1>7
<1>9. s3 = [accum |-> r3, bits |-> 2, out |-> Append(s2.out, b2), ended |-> FALSE]
  <2>1. DigitIn(s2, 4, c3, 4, b2, r3)
    BY <1>0, <1>3, <1>8 DEF DigitIn
  <2>2. NextChar(s2, c3) = [accum |-> r3, bits |-> 2, out |-> Append(s2.out, b2), ended |-> FALSE]
    BY <2>1, ThirdDigit
  <2> QED
    BY <2>2 DEF s3
<1>10. s3.accum = r3 /\ s3.bits = 2 /\ ~s3.ended /\ s3.out = Append(s2.out, b2)
  BY <1>9
<1>11. s4 = [accum |-> 0, bits |-> 0, out |-> Append(s3.out, b3), ended |-> FALSE]
  <2>1. DigitIn(s3, 2, c4, 1, b3, 0)
    BY <1>0, <1>4, <1>10 DEF DigitIn
  <2>2. NextChar(s3, c4) = [accum |-> 0, bits |-> 0, out |-> Append(s3.out, b3), ended |-> FALSE]
    BY <2>1, LastDigit
  <2> QED
    BY <2>2 DEF s4
<1> QED
  BY <1>6, <1>7, <1>8, <1>9, <1>10, <1>11 DEF s1, s2, s3, s4

\* A decoder between two groups, and what all its states have to do with the text.
Fresh(s) == HalfRead(s) /\ ~s.ended /\ s.bits = 0

ReadFrom(f, text) == \A k \in 1..Len(text) : f[k] = NextChar(f[k - 1], text[k])

LEMMA Padded ==
  ASSUME NEW accum, NEW bits, NEW out, NEW ended
  PROVE  NextChar([accum |-> accum, bits |-> bits, out |-> out, ended |-> ended], Pad) =
           [accum |-> accum, bits |-> bits, out |-> out, ended |-> TRUE]
BY DEF NextChar

\* One group of the text of data, read after the groups before it.
LEMMA GroupDecoded ==
  ASSUME NEW data \in Seq(0..255), NEW g \in Nat, 3 * g < Len(data),
         NEW f, ReadFrom(f, Base64Encode(data)), Fresh(f[4 * g])
  PROVE  LET o1 == Append(f[4 * g].out, data[3 * g + 1])
             o2 == Append(o1, data[3 * g + 2])
         IN /\ 3 * g + 2 > Len(data) => f[4 * g + 4].out = o1
            /\ 3 * g + 2 = Len(data) => f[4 * g + 4].out = o2
            /\ 3 * g + 3 <= Len(data) =>
                 f[4 * g + 4] = [accum |-> 0, bits |-> 0, out |-> Append(o2, data[3 * g + 3]), ended |-> FALSE]
<1> DEFINE text == Base64Encode(data)
           many == Len(data)
           b1 == data[3 * g + 1]
           b2 == ByteAt(data, 3 * g + 2)
           b3 == ByteAt(data, 3 * g + 3)
           c1 == b1 \div 4
           c2 == 16 * (b1 % 4) + (b2 \div 16)
           c3 == 4 * (b2 % 16) + (b3 \div 64)
           c4 == b3 % 64
           r2 == b2 \div 16
           r3 == b3 \div 64
           s == f[4 * g]
           s1 == NextChar(s, c1)
           s2 == NextChar(s1, c2)
           s3 == NextChar(s2, c3)
           o1 == Append(s.out, b1)
           o2 == Append(o1, b2)
           o3 == Append(o2, b3)
<1>0. many \in Nat
  OBVIOUS
<1>1. /\ b1 \in 0..255 /\ b2 \in 0..255 /\ b3 \in 0..255
      /\ 4 * g + 4 <= Len(text)
      /\ text[4 * g + 1] = c1
      /\ text[4 * g + 2] = c2
      /\ text[4 * g + 3] = IF 3 * g + 2 <= many THEN c3 ELSE Pad
      /\ text[4 * g + 4] = IF 3 * g + 3 <= many THEN c4 ELSE Pad
  BY EncodedGroup
<1> HIDE DEF text, many, b1, b2, b3
<1>2. Group(c1, c2, c3, c4, b1, b2, b3, r2, r3)
  BY <1>1, GroupMakes
<1> HIDE DEF s, c1, c2, c3, c4, r2, r3
<1>3. /\ s2 = [accum |-> r2, bits |-> 4, out |-> o1, ended |-> FALSE]
      /\ s3 = [accum |-> r3, bits |-> 2, out |-> o2, ended |-> FALSE]
      /\ NextChar(s3, c4) = [accum |-> 0, bits |-> 0, out |-> o3, ended |-> FALSE]
  <2>1. HalfRead(s) /\ ~s.ended /\ s.bits = 0
    BY DEF Fresh, s
  <2>2. s2 = [accum |-> r2, bits |-> 4, out |-> o1, ended |-> FALSE]
    BY <1>2, <2>1, GroupRead
  <2>3. s3 = [accum |-> r3, bits |-> 2, out |-> o2, ended |-> FALSE]
    BY <1>2, <2>1, GroupRead
  <2>4. NextChar(s3, c4) = [accum |-> 0, bits |-> 0, out |-> o3, ended |-> FALSE]
    BY <1>2, <2>1, GroupRead
  <2> QED
    BY <2>2, <2>3, <2>4
<1> HIDE DEF s1, s2, s3, o1, o2, o3
<1>4. Len(text) \in Nat
  BY DEF text, Base64Encode, many
<1>5. \A k \in 1..Len(text) : f[k] = NextChar(f[k - 1], text[k])
  BY DEF text, ReadFrom
<1>6. /\ f[4 * g + 1] = NextChar(f[4 * g], text[4 * g + 1])
      /\ f[4 * g + 2] = NextChar(f[4 * g + 1], text[4 * g + 2])
      /\ f[4 * g + 3] = NextChar(f[4 * g + 2], text[4 * g + 3])
      /\ f[4 * g + 4] = NextChar(f[4 * g + 3], text[4 * g + 4])
  <2>1. /\ 4 * g + 1 \in 1..Len(text) /\ 4 * g + 2 \in 1..Len(text)
        /\ 4 * g + 3 \in 1..Len(text) /\ 4 * g + 4 \in 1..Len(text)
    BY <1>1, <1>4
  <2>2. /\ (4 * g + 1) - 1 = 4 * g /\ (4 * g + 2) - 1 = 4 * g + 1
        /\ (4 * g + 3) - 1 = 4 * g + 2 /\ (4 * g + 4) - 1 = 4 * g + 3
    OBVIOUS
  <2> QED
    BY <1>5, <2>1, <2>2
<1>7. f[4 * g + 2] = s2
  BY <1>1, <1>6 DEF s, s1, s2
<1>9. ASSUME 3 * g + 2 > many PROVE f[4 * g + 4].out = o1
  <2>1. ~(3 * g + 2 <= many) /\ ~(3 * g + 3 <= many)
    BY <1>0, <1>9
  <2>2. text[4 * g + 3] = Pad /\ text[4 * g + 4] = Pad
    BY <1>1, <2>1
  <2>3. f[4 * g + 3] = [accum |-> r2, bits |-> 4, out |-> o1, ended |-> TRUE]
    BY <1>3, <1>6, <1>7, <2>2, Padded
  <2>4. f[4 * g + 4] = [accum |-> r2, bits |-> 4, out |-> o1, ended |-> TRUE]
    BY <1>6, <2>2, <2>3, Padded
  <2> QED
    BY <2>4
<1>10. ASSUME 3 * g + 2 <= many PROVE f[4 * g + 3] = s3 /\ b2 = data[3 * g + 2]
  BY <1>0, <1>1, <1>6, <1>7, <1>10 DEF s3, b2, ByteAt, many
<1>11. ASSUME 3 * g + 2 = many PROVE f[4 * g + 4].out = Append(o1, data[3 * g + 2])
  <2>1. 3 * g + 2 <= many /\ ~(3 * g + 3 <= many)
    BY <1>0, <1>11
  <2>2. text[4 * g + 4] = Pad
    BY <1>1, <2>1
  <2>3. f[4 * g + 4] = [accum |-> r3, bits |-> 2, out |-> o2, ended |-> TRUE]
    BY <1>3, <1>6, <1>10, <2>1, <2>2, Padded
  <2> QED
    BY <1>10, <2>1, <2>3 DEF o2
<1>12. ASSUME 3 * g + 3 <= many
       PROVE  f[4 * g + 4] = [accum |-> 0, bits |-> 0,
                              out |-> Append(Append(o1, data[3 * g + 2]), data[3 * g + 3]), ended |-> FALSE]
  <2>1. 3 * g + 2 <= many
    BY <1>0, <1>12
  <2>2. b3 = data[3 * g + 3] /\ text[4 * g + 4] = c4
    BY <1>1, <1>12 DEF b3, ByteAt, many
  <2>3. f[4 * g + 4] = [accum |-> 0, bits |-> 0, out |-> o3, ended |-> FALSE]
    BY <1>3, <1>6, <1>10, <2>1, <2>2
  <2> QED
    BY <1>10, <2>1, <2>2, <2>3 DEF o2, o3
<1> QED
  BY <1>9, <1>11, <1>12 DEF many, o1, b1, s

\* base64_decode gives back what base64_encode was given, for any bytes and any number
\* of them (cli/json.hpp:38-72).
THEOREM EncodedIsDecoded ==
  ASSUME NEW data \in Seq(0..255)
  PROVE  Base64Decode(Base64Encode(data)) = data
<1> DEFINE text == Base64Encode(data)
           many == Len(data)
           f == Decoding(text)
           Same(out, size) == /\ out \in Seq(0..255) /\ Len(out) = size
                              /\ \A i \in 1..size : out[i] = data[i]
           DoneTo(g) == Fresh(f[4 * g]) /\ Same(f[4 * g].out, 3 * g)
           T == {g \in Nat : 3 * g <= many => DoneTo(g)}
<1>1. many \in Nat /\ \A i \in 1..many : data[i] \in 0..255
  BY ElementsOf
<1>2. Len(text) \in Nat /\ Len(text) = 4 * ((many + 2) \div 3)
  <2>1. 4 * ((many + 2) \div 3) \in Nat
    BY <1>1
  <2> QED
    BY <2>1 DEF Base64Encode
<1>3. /\ Base64Decode(text) = f[Len(text)].out
      /\ f[0] = Base64Start
      /\ \A k \in 1..Len(text) : f[k] = NextChar(f[k - 1], text[k])
  BY <1>2, DecodingRuns
<1>0. ReadFrom(f, text)
  BY <1>3 DEF ReadFrom
<1> HIDE DEF f
<1>4. 0 \in T
  <2>1. 4 * 0 = 0 /\ 3 * 0 = 0 /\ 1..0 = {}
    OBVIOUS
  <2>2. Fresh(Base64Start) /\ Base64Start.out = <<>>
    BY DEF Fresh, HalfRead, DecodeState, Base64Start
  <2>3. Same(<<>>, 0)
    BY <2>1
  <2> HIDE DEF Same
  <2>4. DoneTo(0)
    BY <1>3, <2>1, <2>2, <2>3
  <2> QED
    BY <2>4
<1>5. ASSUME NEW out, NEW size \in Nat, Same(out, size), size + 1 <= many
      PROVE  Same(Append(out, data[size + 1]), size + 1)
  <2>1. data[size + 1] \in 0..255
    BY <1>1, <1>5
  <2>2. out \in Seq(0..255) /\ Len(out) = size /\ \A i \in 1..size : out[i] = data[i]
    BY <1>5
  <2> DEFINE a == Append(out, data[size + 1])
  <2>3. a \in Seq(0..255) /\ Len(a) = size + 1 /\ a[size + 1] = data[size + 1] /\ \A i \in 1..size : a[i] = out[i]
    BY <2>1, <2>2
  <2> HIDE DEF a
  <2>4. \A i \in 1..(size + 1) : a[i] = data[i]
    BY <2>2, <2>3
  <2> QED
    BY <2>3, <2>4 DEF a
<1> HIDE DEF Same
<1>6. ASSUME NEW g \in Nat, g \in T, 3 * g < many
      PROVE  /\ 3 * g + 2 > many => Same(f[4 * g + 4].out, many)
             /\ 3 * g + 2 = many => Same(f[4 * g + 4].out, many)
             /\ 3 * g + 3 <= many => DoneTo(g + 1)
  <2> DEFINE s == f[4 * g]
             o1 == Append(s.out, data[3 * g + 1])
             o2 == Append(o1, data[3 * g + 2])
             o3 == Append(o2, data[3 * g + 3])
  <2>1. Fresh(s) /\ Same(s.out, 3 * g)
    BY <1>1, <1>6
  <2> HIDE DEF T, DoneTo
  <2>2. /\ 3 * g + 2 > many => f[4 * g + 4].out = o1
        /\ 3 * g + 2 = many => f[4 * g + 4].out = o2
        /\ 3 * g + 3 <= many => f[4 * g + 4] = [accum |-> 0, bits |-> 0, out |-> o3, ended |-> FALSE]
    BY <1>0, <1>6, <2>1, GroupDecoded
  <2> HIDE DEF s, o1, o2, o3
  <2>3. Same(o1, 3 * g + 1)
    BY <1>5, <1>6, <1>1, <2>1 DEF o1
  <2>4. ASSUME 3 * g + 2 <= many PROVE Same(o2, 3 * g + 2)
    <3>1. (3 * g + 1) + 1 = 3 * g + 2 /\ 3 * g + 1 \in Nat
      OBVIOUS
    <3> QED
      BY <1>5, <2>3, <2>4, <3>1 DEF o2
  <2>5. ASSUME 3 * g + 3 <= many PROVE DoneTo(g + 1)
    <3>1. (3 * g + 2) + 1 = 3 * g + 3 /\ 3 * g + 2 \in Nat /\ 3 * g + 2 <= many
      BY <1>1, <2>5
    <3>2. Same(o3, 3 * g + 3)
      BY <1>5, <2>4, <2>5, <3>1 DEF o3
    <3>3. 4 * (g + 1) = 4 * g + 4 /\ 3 * (g + 1) = 3 * g + 3
      OBVIOUS
    <3>4. f[4 * g + 4] = [accum |-> 0, bits |-> 0, out |-> o3, ended |-> FALSE]
      BY <2>2, <2>5
    <3>5. HalfRead(f[4 * g + 4])
      BY <3>2, <3>4 DEF HalfRead, DecodeState, Same
    <3> QED
      BY <3>2, <3>3, <3>4, <3>5 DEF DoneTo, Fresh
  <2>6. 3 * g + 2 > many => 3 * g + 1 = many
    BY <1>1, <1>6
  <2>7. 3 * g + 2 = many => 3 * g + 2 <= many
    BY <1>1
  <2> QED
    BY <2>2, <2>3, <2>4, <2>5, <2>6, <2>7
<1>7. ASSUME NEW g \in Nat, g \in T PROVE g + 1 \in T
  <2> SUFFICES ASSUME 3 * (g + 1) <= many PROVE DoneTo(g + 1)
    OBVIOUS
  <2>1. 3 * g < many /\ 3 * g + 3 <= many
    BY <1>1
  <2> QED
    BY <1>6, <1>7, <2>1
<1> HIDE DEF DoneTo
<1>8. Nat \subseteq T
  <2> HIDE DEF T
  <2> QED
    BY <1>4, <1>7, NatInd
<1>9. Same(f[Len(text)].out, many)
  <2> DEFINE g == many \div 3
  <2>1. g \in Nat /\ 3 * g <= many /\ many < 3 * g + 3
    BY <1>1
  <2>2. g \in T /\ DoneTo(g)
    BY <1>8, <2>1
  <2>3. CASE many = 3 * g
    <3>1. (many + 2) \div 3 = g
      BY <1>1, <2>1, <2>3
    <3> QED
      BY <1>2, <2>2, <2>3, <3>1 DEF DoneTo
  <2>4. CASE many # 3 * g
    <3> HIDE DEF g
    <3>1. 3 * g < many /\ (3 * g + 2 > many \/ 3 * g + 2 = many)
      BY <1>1, <2>1, <2>4
    <3>2. (many + 2) \div 3 = g + 1
      BY <1>1, <2>1, <3>1
    <3>3. Len(text) = 4 * g + 4
      BY <1>2, <2>1, <3>2
    <3> QED
      BY <1>6, <2>1, <2>2, <3>1, <3>3
  <2> QED
    BY <2>3, <2>4
<1>10. f[Len(text)].out = data
  <2> DEFINE out == f[Len(text)].out
  <2>1. out \in Seq(0..255) /\ Len(out) = many /\ \A i \in 1..many : out[i] = data[i]
    BY <1>9 DEF Same
  <2> HIDE DEF out
  <2>2. out = data
    BY <2>1
  <2> QED
    BY <2>2 DEF out
<1> QED
  BY <1>3, <1>10

-----------------------------------------------------------------------------
(* convert *)

LEMMA StringBytes ==
  ASSUME NEW o, NEW key, HasA(o, key, "string")
  PROVE  BytesOf(o, key) = Base64Decode(ValueOf(o, key))
<1>1. ~HasA(o, key, "list")
  BY DEF HasA
<1> QED
  BY <1>1 DEF BytesOf

\* What convert takes for the payload are bytes, from base64 and from a list.
LEMMA DataAreBytes ==
  ASSUME NEW o \in Objects
  PROVE  BytesOf(o, "data") \in Seq(0..255)
<1> DEFINE v == ValueOf(o, "data")
<1>1. /\ HasA(o, "data", "string") => v \in Seq(0..Junk)
      /\ HasA(o, "data", "list") => v \in Seq(Nat)
  BY CliAssumption DEF CliAssumption
<1>2. CASE HasA(o, "data", "string")
  <2>1. BytesOf(o, "data") = Base64Decode(v)
    BY <1>2, StringBytes
  <2> HIDE DEF v
  <2> QED
    BY <1>1, <1>2, <2>1, TextGivesBytes
<1>3. CASE ~HasA(o, "data", "string") /\ HasA(o, "data", "list")
  <2> DEFINE bad == {i \in 1..Len(v) : v[i] \notin 0..255}
             stop == SelectInSeq(v, LAMBDA b : b \notin 0..255)
  <2>1. BytesOf(o, "data") = IF stop = 0 THEN v ELSE SubSeq(v, 1, stop - 1)
    BY <1>3 DEF BytesOf
  <2>2. v \in Seq(Nat) /\ Len(v) \in Nat
    BY <1>1, <1>3
  <2>3. stop = IF bad # {} THEN CHOOSE x \in bad : \A y \in bad : x <= y ELSE 0
    BY DEF SelectInSeq, Min
  <2> HIDE DEF v, stop
  <2>4. CASE bad = {}
    <3>1. \A i \in 1..Len(v) : v[i] \in 0..255
      BY <2>4
    <3>2. v \in Seq(0..255)
      BY <2>2, <3>1, Within, ZenonT(60)
    <3>3. stop = 0
      BY <2>3, <2>4
    <3> QED
      BY <2>1, <3>2, <3>3
  <2>5. CASE bad # {}
    <3>1. bad \subseteq Nat
      OBVIOUS
    <3> HIDE DEF bad
    <3>2. \E x \in bad : \A y \in bad : x <= y
      BY <2>5, <3>1, LeastNat
    <3>3. stop \in bad /\ \A y \in bad : stop <= y
      BY <2>3, <2>5, <3>2
    <3>4. stop \in 1..Len(v)
      BY <3>3 DEF bad
    <3>5. ASSUME NEW i \in 1..(stop - 1) PROVE v[i] \in 0..255
      <4>1. i \in 1..Len(v) /\ ~(stop <= i)
        BY <2>2, <3>4
      <4> QED
        BY <3>3, <4>1 DEF bad
    <3> DEFINE read == SubSeq(v, 1, stop - 1)
    <3>6. Len(read) = stop - 1 /\ read \in Seq(Nat) /\ \A i \in 1..(stop - 1) : read[i] = v[i]
      BY <2>2, <3>4
    <3> HIDE DEF read
    <3>7. \A i \in 1..Len(read) : read[i] \in 0..255
      BY <3>5, <3>6
    <3>8. read \in Seq(0..255)
      BY <3>6, <3>7, Within, ZenonT(60)
    <3>9. stop # 0
      BY <3>4
    <3> QED
      BY <2>1, <3>8, <3>9 DEF read
  <2> QED
    BY <2>4, <2>5
<1>4. CASE ~HasA(o, "data", "string") /\ ~HasA(o, "data", "list")
  BY <1>4 DEF BytesOf
<1> QED
  BY <1>2, <1>3, <1>4

\* A frame is found again in the message made of it, as long as sdt fits.
LEMMA MessageOfFrame ==
  ASSUME NEW f \in CanFrame, f.sdt < 256
  PROVE  FrameOf(ToMessage(f)) = f
<1> DEFINE m == ToMessage(f)
           D == AlwaysInMeta \cup {k \in InMetaIfSet : f[k]} \cup {k \in {"sdt"} : f[k] # 0}
           Booleans == {"ext", "rtr", "fd", "brs", "esi", "xl"}
<1>1. m.id = f.id /\ m.len = f.len /\ m.meta = [k \in D |-> f[k]]
  BY DEF ToMessage
<1>2. \A k \in Booleans : f[k] \in BOOLEAN
  BY DEF CanFrame
<1>3. \A k \in Booleans : k \in D \/ f[k] = FALSE
  BY <1>2 DEF AlwaysInMeta, InMetaIfSet
<1>4. "sdt" \in D <=> f.sdt # 0
  BY DEF AlwaysInMeta, InMetaIfSet
<1> HIDE DEF m, D
<1>5. \A k \in Booleans : Has(m, k) = f[k]
  BY <1>1, <1>2, <1>3 DEF Has
<1>6. (IF "sdt" \in DOMAIN m.meta THEN m.meta.sdt % 256 ELSE 0) = f.sdt
  <2>1. f.sdt \in Nat
    BY DEF CanFrame
  <2>2. f.sdt % 256 = f.sdt
    BY <2>1
  <2> QED
    BY <1>1, <1>4, <2>2
<1>7. FrameOf(m) = [id |-> f.id, len |-> f.len, ext |-> f.ext, rtr |-> f.rtr, fd |-> f.fd, brs |-> f.brs,
                    esi |-> f.esi, xl |-> f.xl, sdt |-> f.sdt]
  BY <1>1, <1>5, <1>6 DEF FrameOf
<1>8. f = [id |-> f.id, len |-> f.len, ext |-> f.ext, rtr |-> f.rtr, fd |-> f.fd, brs |-> f.brs,
           esi |-> f.esi, xl |-> f.xl, sdt |-> f.sdt]
  BY DEF CanFrame
<1> QED
  BY <1>7, <1>8 DEF m

\* What convert writes for a valid frame is a line that send takes, and it stands for
\* that frame.
LEMMA MessageRead ==
  ASSUME NEW o \in Objects, Convertible(o)
  PROVE  LET line == MessageJson(ToMessage(ParseFrame(o)), BytesOf(o, "data"))
         IN /\ Sendable(line)
            /\ FrameSent(line) = [frame |-> ParseFrame(o), data |-> BytesOf(o, "data")]
<1> DEFINE f == ParseFrame(o)
           data == BytesOf(o, "data")
           m == ToMessage(f)
           line == MessageJson(m, data)
<1>1. data \in Seq(0..255) /\ Len(data) \in Nat
  BY DataAreBytes
<1>2. f \in CanFrame /\ f.sdt < 256 /\ f.len = Len(data) /\ Valid(f)
  <2>1. \A key \in {"ext", "rtr", "fd", "brs", "esi", "xl"} : BoolOf(o, key) \in BOOLEAN
    BY CliAssumption DEF CliAssumption, BoolOf
  <2>2. ValueOf(o, "id") \in Nat
    BY JsonAssumption DEF JsonAssumption, Convertible, HasU32
  <2>3. U32Of(o, "sdt") \in Nat
    BY JsonAssumption DEF JsonAssumption, U32Of, HasU32
  <2>4. U32Of(o, "sdt") % 256 \in Nat /\ U32Of(o, "sdt") % 256 < 256
    BY <2>3
  <2>5. Valid(f)
    BY DEF Convertible
  <2> QED
    BY <1>1, <2>1, <2>2, <2>4, <2>5 DEF ParseFrame, CanFrame
<1> HIDE DEF f, data
<1>3. FrameOf(m) = f
  BY <1>2, MessageOfFrame
<1>4. m.id = f.id /\ m.len = f.len /\ m = [id |-> f.id, len |-> f.len, meta |-> m.meta]
  BY DEF ToMessage
<1>5. "sdt" \in DOMAIN m.meta => m.meta.sdt = f.sdt
  BY DEF ToMessage
<1>6. f.id \in 0..MaxExtId
  BY <1>2 DEF Valid, ValidXl, ValidClassicOrFd, MaxExtId, MaxStdId, CanFrame
<1>7. Accepts(m)
  BY <1>2, <1>3, <1>4, <1>5, <1>6 DEF Accepts, NotANumber, CanFrame
<1> HIDE DEF m
<1>8. /\ HasA(line, "payload", "string") /\ ValueOf(line, "payload") = Base64Encode(data)
      /\ HasU32(line, "protocol") /\ ValueOf(line, "protocol") = CAN
      /\ HasA(line, "id", "string") /\ ValueOf(line, "id") = m.id
      /\ HasA(line, "meta", "map") /\ ValueOf(line, "meta") = m.meta
  BY JsonAssumption DEF JsonAssumption, MessageJson, HasA, HasU32, ValueOf, Text, Num, Map, CAN
<1> HIDE DEF line
<1>9. BytesOf(line, "payload") = data
  BY <1>1, <1>8, EncodedIsDecoded, StringBytes
<1>10. ParseMessage(line) = m
  BY <1>2, <1>4, <1>8, <1>9 DEF ParseMessage
<1> QED
  BY <1>3, <1>7, <1>8, <1>9, <1>10 DEF Sendable, FrameSent, f, data, line, m

\* What convert has done when it ends.
ConvertInv ==
  /\ stage \in {"main", "convert"} => input = <<>> /\ stdout = <<>>
  /\ stage = "exited" /\ input # <<>> /\ args[1] = "convert" =>
       \E o \in Objects :
         /\ input[1] = o
         /\ exitCode = IF Convertible(o) THEN 0 ELSE 1
         /\ stdout = IF Convertible(o) THEN <<MessageJson(ToMessage(ParseFrame(o)), BytesOf(o, "data"))>> ELSE <<>>

LEMMA ConvertInvKept == CliInv /\ ConvertInv /\ [CliNext]_cliVars => ConvertInv'
<1> SUFFICES ASSUME CliInv, ConvertInv, [CliNext]_cliVars PROVE ConvertInv'
  OBVIOUS
<1>1. CASE UNCHANGED cliVars
  BY <1>1 DEF cliVars, ConvertInv
<1>2. ASSUME MainRefuses PROVE ConvertInv'
  BY <1>2 DEF MainRefuses, Exit, ConvertInv
<1>3. ASSUME MainTells PROVE ConvertInv'
  BY <1>3 DEF MainTells, Exit, ConvertInv
<1>4. ASSUME MainStarts PROVE ConvertInv'
  BY <1>4 DEF MainStarts, ConvertInv
<1>5. ASSUME NEW o \in Objects, Convert(o) PROVE ConvertInv'
  <2>1. /\ stage = "convert" /\ stage' = "exited" /\ input' = <<o>> /\ stdout = <<>>
        /\ exitCode' = IF Convertible(o) THEN 0 ELSE 1
        /\ stdout' = IF Convertible(o) THEN <<MessageJson(ToMessage(ParseFrame(o)), BytesOf(o, "data"))>> ELSE <<>>
    BY <1>5 DEF Convert, Exit, ConvertInv
  <2>2. input'[1] = o
    BY <2>1
  <2> QED
    BY <2>1, <2>2 DEF ConvertInv
<1>6. ASSUME stage = "send" PROVE args # <<>> /\ args[1] = "send"
  BY <1>6 DEF CliInv
<1>7. ASSUME stage = "send", args' = args, stage' \in {"send", "exited"} PROVE ConvertInv'
  BY <1>6, <1>7 DEF ConvertInv
<1>8. ASSUME NEW line \in Streamed \cup {Blank}, SkipBlank(line) \/ Publish(line) \/ StopAtLine(line) PROVE ConvertInv'
  <2>0. Reads(line)
    BY <1>8 DEF SkipBlank, Publish, StopAtLine
  <2>1. stage = "send"
    BY <2>0 DEF Reads
  <2>2. args' = args
    BY <1>8 DEF SkipBlank, Publish, StopAtLine
  <2>3. stage' \in {"send", "exited"}
    <3>1. CASE SkipBlank(line)
      BY <2>1, <3>1 DEF SkipBlank
    <3>2. CASE Publish(line)
      BY <2>1, <3>2 DEF Publish
    <3>3. CASE StopAtLine(line)
      BY <3>3 DEF StopAtLine, Exit
    <3> QED
      BY <1>8, <3>1, <3>2, <3>3
  <2> QED
    BY <1>7, <2>1, <2>2, <2>3
<1>9. ASSUME EndOfStream \/ BusCloses PROVE ConvertInv'
  <2>1. stage = "send" /\ args' = args /\ stage' \in {"send", "exited"}
    BY <1>9 DEF EndOfStream, BusCloses, Exit
  <2> QED
    BY <1>7, <2>1
<1> QED
  BY <1>1, <1>2, <1>3, <1>4, <1>5, <1>8, <1>9 DEF CliNext

\* What convert writes is what send reads, for any frame and any payload
\* (REQ-CLI-005, 006, 008; json.hpp:204-266).
THEOREM ConvertedIsSendable == CliSpec => []ConvertFeedsSend
<1>1. CliInit(ArgLists) => ConvertInv
  BY DEF CliInit, ConvertInv
<1>2. ConvertInv => ConvertFeedsSend
  <2> SUFFICES ASSUME ConvertInv, stage = "exited", input # <<>>, args[1] = "convert"
               PROVE  /\ exitCode = 0 <=> Convertible(input[1])
                      /\ Len(stdout) = IF exitCode = 0 THEN 1 ELSE 0
                      /\ exitCode = 0 =>
                           /\ Sendable(stdout[1])
                           /\ FrameSent(stdout[1]) = [frame |-> ParseFrame(input[1]), data |-> BytesOf(input[1], "data")]
    BY DEF ConvertFeedsSend
  <2>1. PICK o \in Objects :
          /\ input[1] = o
          /\ exitCode = IF Convertible(o) THEN 0 ELSE 1
          /\ stdout = IF Convertible(o) THEN <<MessageJson(ToMessage(ParseFrame(o)), BytesOf(o, "data"))>> ELSE <<>>
    BY DEF ConvertInv
  <2>2. CASE Convertible(o)
    <3> DEFINE line == MessageJson(ToMessage(ParseFrame(o)), BytesOf(o, "data"))
    <3>1. Sendable(line) /\ FrameSent(line) = [frame |-> ParseFrame(o), data |-> BytesOf(o, "data")]
      BY <2>2, MessageRead
    <3> HIDE DEF line
    <3>2. stdout = <<line>> /\ exitCode = 0
      BY <2>1, <2>2 DEF line
    <3>3. Len(stdout) = 1 /\ stdout[1] = line
      BY <3>2
    <3> QED
      BY <2>1, <2>2, <3>1, <3>2, <3>3
  <2>3. CASE ~Convertible(o)
    <3>1. stdout = <<>> /\ exitCode = 1 /\ Len(stdout) = 0
      BY <2>1, <2>3
    <3> QED
      BY <2>1, <2>3, <3>1
  <2> QED
    BY <2>2, <2>3
<1> QED
  BY <1>1, <1>2, ConvertInvKept, CliAlways, PTL DEF CliSpec

-----------------------------------------------------------------------------
(* the DBC parser: the tables of values *)

\* A table takes the last pair of a number and keeps the numbers that have none.
Stored(values, pairs, last, table) ==
  /\ DOMAIN table = DOMAIN values \cup {pairs[k][1] : k \in 1..last}
  /\ \A r \in DOMAIN values : (\A k \in 1..last : pairs[k][1] # r) => table[r] = values[r]
  /\ \A k \in 1..last :
       (\A j \in 1..last : k < j => pairs[j][1] # pairs[k][1]) => table[pairs[k][1]] = pairs[k][2]

LEMMA StoredNext ==
  ASSUME NEW values, NEW pairs, NEW last \in Nat, NEW table, Stored(values, pairs, last, table)
  PROVE  Stored(values, pairs, last + 1, Put(table, pairs[last + 1][1], pairs[last + 1][2]))
<1> DEFINE new == pairs[last + 1]
           after == Put(table, new[1], new[2])
<1>1. 1..(last + 1) = 1..last \cup {last + 1}
  OBVIOUS
<1>2. DOMAIN after = DOMAIN table \cup {new[1]}
  BY DEF Put
<1>3. after[new[1]] = new[2] /\ \A r \in DOMAIN table : r # new[1] => after[r] = table[r]
  BY DEF Put
<1> HIDE DEF after
<1>4. DOMAIN after = DOMAIN values \cup {pairs[k][1] : k \in 1..(last + 1)}
  <2>1. {pairs[k][1] : k \in 1..(last + 1)} = {pairs[k][1] : k \in 1..last} \cup {new[1]}
    BY <1>1
  <2> QED
    BY <1>2, <2>1 DEF Stored
<1>5. ASSUME NEW r \in DOMAIN values, \A k \in 1..(last + 1) : pairs[k][1] # r
      PROVE  after[r] = values[r]
  <2>1. r # new[1] /\ \A k \in 1..last : pairs[k][1] # r
    BY <1>1, <1>5
  <2>2. r \in DOMAIN table /\ table[r] = values[r]
    BY <2>1 DEF Stored
  <2> QED
    BY <1>3, <2>1, <2>2
<1>6. ASSUME NEW k \in 1..(last + 1),
             \A j \in 1..(last + 1) : k < j => pairs[j][1] # pairs[k][1]
      PROVE  after[pairs[k][1]] = pairs[k][2]
  <2>1. CASE k = last + 1
    BY <1>3, <2>1
  <2>2. CASE k \in 1..last
    <3>1. k < last + 1 /\ last + 1 \in 1..(last + 1)
      BY <2>2
    <3>2. pairs[k][1] # new[1]
      BY <1>6, <3>1
    <3>3. \A j \in 1..last : k < j => pairs[j][1] # pairs[k][1]
      BY <1>1, <1>6
    <3>4. pairs[k][1] \in DOMAIN table /\ table[pairs[k][1]] = pairs[k][2]
      BY <2>2, <3>3 DEF Stored
    <3> QED
      BY <1>3, <3>2, <3>4
  <2> QED
    BY <1>1, <2>1, <2>2
<1>7. Stored(values, pairs, last + 1, after)
  BY <1>4, <1>5, <1>6 DEF Stored
<1> QED
  BY <1>7 DEF after

LEMMA LabelsStored ==
  ASSUME NEW values, NEW pairs, Len(pairs) \in Nat
  PROVE  Stored(values, pairs, Len(pairs), WithLabels(values, pairs))
<1> DEFINE Step(table, k) == Put(table, pairs[k][1], pairs[k][2])
           Runs(h, last) == h = [k \in 0..last |-> IF k = 0 THEN values ELSE Step(h[k - 1], k)]
           T == {last \in Nat : \E h : Runs(h, last)}
<1> HIDE DEF Step
<1>1. 0 \in T
  <2> DEFINE g == [k \in 0..0 |-> values]
  <2>1. \A k \in 0..0 : k = 0
    OBVIOUS
  <2>2. g = [k \in 0..0 |-> IF k = 0 THEN values ELSE Step(g[k - 1], k)]
    BY <2>1
  <2> HIDE DEF g
  <2> QED
    BY <2>2
<1>2. ASSUME NEW last \in Nat, last \in T PROVE last + 1 \in T
  <2>1. PICK f : Runs(f, last)
    BY <1>2
  <2> DEFINE g == [k \in 0..(last + 1) |-> IF k = last + 1 THEN Step(f[last], last + 1) ELSE f[k]]
  <2>2. ASSUME NEW k \in 0..(last + 1)
        PROVE  g[k] = IF k = 0 THEN values ELSE Step(g[k - 1], k)
    <3>1. CASE k = last + 1
      <4>1. k # 0 /\ k - 1 = last /\ last \in 0..(last + 1) /\ last # last + 1
        BY <3>1
      <4> QED
        BY <3>1, <4>1
    <3>2. CASE k \in 1..last
      <4>1. k # 0 /\ k \in 0..last /\ k - 1 \in 0..(last + 1) /\ k # last + 1 /\ k - 1 # last + 1
        BY <3>2
      <4>2. f[k] = Step(f[k - 1], k)
        BY <2>1, <4>1
      <4>3. g[k] = f[k] /\ g[k - 1] = f[k - 1]
        BY <4>1
      <4> HIDE DEF g
      <4> QED
        BY <4>1, <4>2, <4>3
    <3>3. CASE k = 0
      <4>1. 0 # last + 1 /\ 0 \in 0..last
        OBVIOUS
      <4> QED
        BY <2>1, <3>3, <4>1
    <3> QED
      BY <3>1, <3>2, <3>3
  <2>3. g = [k \in 0..(last + 1) |-> g[k]]
    OBVIOUS
  <2> HIDE DEF g
  <2>4. Runs(g, last + 1)
    BY <2>2, <2>3
  <2> HIDE DEF Runs
  <2>5. \E h : Runs(h, last + 1)
    BY <2>4
  <2> QED
    BY <2>5
<1> HIDE DEF T
<1>3. Nat \subseteq T
  BY <1>1, <1>2, NatInd
<1>4. \E h : Runs(h, Len(pairs))
  BY <1>3 DEF T
<1> DEFINE after == CHOOSE h : Runs(h, Len(pairs))
<1>5. Runs(after, Len(pairs))
  BY <1>4
<1>6. WithLabels(values, pairs) = after[Len(pairs)]
  BY DEF WithLabels, Step
<1> HIDE DEF after
<1>7. after[0] = values /\ \A k \in 1..Len(pairs) : after[k] = Step(after[k - 1], k)
  BY <1>5
<1> HIDE DEF Runs
<1> DEFINE D == {last \in Nat : last <= Len(pairs) => Stored(values, pairs, last, after[last])}
<1>8. 0 \in D
  <2>1. 1..0 = {}
    OBVIOUS
  <2>2. Stored(values, pairs, 0, values)
    BY <2>1 DEF Stored
  <2> QED
    BY <1>7, <2>2
<1>9. ASSUME NEW last \in Nat, last \in D PROVE last + 1 \in D
  <2> SUFFICES ASSUME last + 1 <= Len(pairs) PROVE Stored(values, pairs, last + 1, after[last + 1])
    OBVIOUS
  <2>1. Stored(values, pairs, last, after[last])
    BY <1>9
  <2>2. last + 1 \in 1..Len(pairs) /\ (last + 1) - 1 = last
    OBVIOUS
  <2>3. after[last + 1] = Put(after[last], pairs[last + 1][1], pairs[last + 1][2])
    BY <1>7, <2>2 DEF Step
  <2> QED
    BY <2>1, <2>3, StoredNext
<1> HIDE DEF D
<1>10. Len(pairs) \in D
  BY <1>8, <1>9, NatInd
<1> QED
  BY <1>6, <1>10 DEF D

-----------------------------------------------------------------------------
(* the DBC parser: what one more line changes in what the lines say *)

\* A line of the file, and what the file is once one more line has been read.
DbcLine(line) ==
  /\ line.kind \in {"blank", "BO_", "SG_", "VAL_", "other"}
  /\ line.kind = "BO_" => line.id \in Nat
  /\ line.kind = "SG_" =>
       line.sig \in [start : Int, length : Int, order : {"little", "big"}, signed : BOOLEAN,
                     factor : Int, offset : Int, values : {<<>>}]
  /\ line.kind = "VAL_" => line.pairs \in Seq((Int \cup {Unreadable}) \X STRING)

File == Len(file) \in Nat /\ DOMAIN file = 1..Len(file) /\ \A p \in 1..Len(file) : DbcLine(file[p])

TakesLine(line) ==
  /\ DbcLine(line)
  /\ DOMAIN file' = 1..(Len(file) + 1) /\ Len(file') = Len(file) + 1
  /\ file'[Len(file) + 1] = line
  /\ \A p \in 1..Len(file) : file'[p] = file[p]

LEMMA FileKept == ASSUME File, NEW line, TakesLine(line) PROVE File'
<1>1. ASSUME NEW p \in 1..(Len(file) + 1) PROVE DbcLine(file'[p])
  <2>1. p = Len(file) + 1 \/ p \in 1..Len(file)
    BY DEF File
  <2> QED
    BY <2>1 DEF File, TakesLine
<1> QED
  BY <1>1 DEF File, TakesLine, DbcLine

\* The lines of a kind gain the new one if it is of that kind.
LEMMA LinesKept ==
  ASSUME File, NEW line, TakesLine(line), NEW kind
  PROVE  /\ Lines(kind) \subseteq 1..Len(file)
         /\ line.kind = kind => Lines(kind)' = Lines(kind) \cup {Len(file) + 1}
         /\ line.kind # kind => Lines(kind)' = Lines(kind)
<1> DEFINE len == Len(file)
<1>1. len \in Nat /\ 1..(len + 1) = 1..len \cup {len + 1} /\ len + 1 \notin 1..len
  BY DEF File
<1>2. Lines(kind) = {p \in 1..len : file[p].kind = kind}
  BY DEF Lines, File
<1>3. Lines(kind)' = {p \in 1..(len + 1) : file'[p].kind = kind}
  BY DEF Lines, TakesLine
<1>4. file'[len + 1] = line /\ \A p \in 1..len : file'[p] = file[p]
  BY DEF TakesLine
<1> HIDE DEF len
<1>5. Lines(kind)' = {p \in 1..len : file[p].kind = kind} \cup {p \in {len + 1} : line.kind = kind}
  BY <1>1, <1>3, <1>4
<1> QED
  BY <1>2, <1>5 DEF len

\* What ends a message.
EndsMessage(q) == file[q].kind \notin {"blank", "SG_"}

LEMMA UnderBounds ==
  ASSUME File, NEW p \in 1..(Len(file) + 1)
  PROVE  /\ Under(p) \in 0..(p - 1)
         /\ Under(p) # 0 => EndsMessage(Under(p))
         /\ \A q \in 1..(p - 1) : EndsMessage(q) => q <= Under(p)
<1> DEFINE T == {0} \cup {q \in 1..(p - 1) : EndsMessage(q)}
<1>1. p - 1 \in Nat /\ T \subseteq 0..(p - 1) /\ T # {}
  BY DEF File
<1>2. Under(p) = Max(T)
  BY DEF Under, EndsMessage
<1>3. \A x \in T : x # 0 => EndsMessage(x)
  OBVIOUS
<1>4. \A q \in 1..(p - 1) : EndsMessage(q) => q \in T
  OBVIOUS
<1> HIDE DEF T
<1>5. Max(T) \in T /\ \A x \in T : x <= Max(T)
  BY <1>1, Greatest
<1> QED
  BY <1>1, <1>2, <1>3, <1>4, <1>5

LEMMA UnderKept ==
  ASSUME File, NEW line, TakesLine(line)
  PROVE  /\ \A p \in 1..(Len(file) + 1) : Under(p)' = Under(p)
         /\ \A p : p = Len(file) + 2 =>
              /\ line.kind \in {"blank", "SG_"} => Under(p)' = Under(p - 1)
              /\ line.kind \notin {"blank", "SG_"} => Under(p)' = p - 1
<1> DEFINE len == Len(file)
           T(p) == {0} \cup {q \in 1..(p - 1) : file[q].kind \notin {"blank", "SG_"}}
           U(p) == {0} \cup {q \in 1..(p - 1) : file'[q].kind \notin {"blank", "SG_"}}
<1>1. len \in Nat /\ file'[len + 1] = line /\ \A p \in 1..len : file'[p] = file[p]
  BY DEF File, TakesLine
<1>2. \A p : Under(p) = Max(T(p)) /\ Under(p)' = Max(U(p))
  BY DEF Under
<1>3. ASSUME NEW p \in 1..(len + 1) PROVE T(p) = U(p)
  <2>1. \A q \in 1..(p - 1) : q \in 1..len
    BY <1>1
  <2> QED
    BY <1>1, <2>1
<1>4. ASSUME line.kind \in {"blank", "SG_"} PROVE U(len + 2) = T(len + 1)
  <2>1. 1..((len + 2) - 1) = 1..len \cup {len + 1} /\ (len + 1) - 1 = len
    BY <1>1
  <2>2. \A q \in 1..len : file'[q] = file[q]
    BY <1>1
  <2>3. U(len + 2) = {0} \cup {q \in 1..len : file[q].kind \notin {"blank", "SG_"}}
    BY <1>1, <1>4, <2>1, <2>2
  <2> QED
    BY <2>1, <2>3
<1>5. ASSUME line.kind \notin {"blank", "SG_"} PROVE Max(U(len + 2)) = len + 1
  <2>1. len + 1 \in U(len + 2) /\ U(len + 2) \subseteq Nat /\ \A q \in U(len + 2) : q <= len + 1
    BY <1>1, <1>5
  <2> HIDE DEF U
  <2> QED
    BY <1>1, <2>1, MaxIs
<1> HIDE DEF T, U
<1>6. \A p \in 1..(len + 1) : Under(p)' = Under(p)
  BY <1>2, <1>3
<1>7. ASSUME NEW p, p = len + 2
      PROVE  /\ line.kind \in {"blank", "SG_"} => Under(p)' = Under(p - 1)
             /\ line.kind \notin {"blank", "SG_"} => Under(p)' = p - 1
  <2>1. p - 1 = len + 1
    BY <1>1, <1>7
  <2>2. Under(p)' = Max(U(len + 2)) /\ Under(p - 1) = Max(T(len + 1))
    BY <1>2, <1>7, <2>1
  <2> QED
    BY <1>4, <1>5, <2>1, <2>2
<1> QED
  BY <1>6, <1>7

\* The line that defines a message is its last BO_ line.
LEMMA DefinedBounds ==
  ASSUME File, NEW p \in Lines("BO_")
  PROVE  /\ DefinedAt(file[p].id) \in Lines("BO_") /\ p <= DefinedAt(file[p].id)
         /\ file[DefinedAt(file[p].id)].id = file[p].id
<1> DEFINE T == {q \in Lines("BO_") : file[q].id = file[p].id}
<1>1. T \subseteq 0..Len(file) /\ p \in T /\ Len(file) \in Nat
  BY DEF Lines, File
<1>2. DefinedAt(file[p].id) = Max(T)
  BY DEF DefinedAt
<1>3. \A q \in T : q \in Lines("BO_") /\ file[q].id = file[p].id
  OBVIOUS
<1> HIDE DEF T
<1>4. Max(T) \in T /\ \A q \in T : q <= Max(T)
  BY <1>1, Greatest
<1> QED
  BY <1>1, <1>2, <1>3, <1>4

LEMMA DefinedKept ==
  ASSUME File, NEW line, TakesLine(line), NEW id
  PROVE  /\ line.kind = "BO_" /\ line.id = id => DefinedAt(id)' = Len(file) + 1
         /\ ~(line.kind = "BO_" /\ line.id = id) => DefinedAt(id)' = DefinedAt(id)
<1> DEFINE len == Len(file)
           T == {p \in Lines("BO_") : file[p].id = id}
           U == {p \in Lines("BO_")' : file'[p].id = id}
<1>1. len \in Nat /\ file'[len + 1] = line /\ \A p \in 1..len : file'[p] = file[p]
  BY DEF File, TakesLine
<1>2. DefinedAt(id) = Max(T) /\ DefinedAt(id)' = Max(U)
  BY DEF DefinedAt
<1>3. /\ Lines("BO_") \subseteq 1..len
      /\ line.kind = "BO_" => Lines("BO_")' = Lines("BO_") \cup {len + 1}
      /\ line.kind # "BO_" => Lines("BO_")' = Lines("BO_")
  BY LinesKept
<1>4. ASSUME line.kind = "BO_" /\ line.id = id PROVE Max(U) = len + 1
  <2>1. len + 1 \in U /\ U \subseteq Nat /\ \A q \in U : q <= len + 1
    BY <1>1, <1>3, <1>4
  <2> HIDE DEF U
  <2> QED
    BY <1>1, <2>1, MaxIs
<1>5. ASSUME ~(line.kind = "BO_" /\ line.id = id) PROVE U = T
  <2>1. \A p \in Lines("BO_") : file'[p] = file[p]
    BY <1>1, <1>3
  <2>2. \A p : p \in U <=> p \in Lines("BO_") /\ file[p].id = id
    <3>1. CASE line.kind = "BO_"
      <4>1. file'[len + 1].id # id
        BY <1>1, <1>5, <3>1
      <4> QED
        BY <1>3, <2>1, <3>1, <4>1
    <3>2. CASE line.kind # "BO_"
      BY <1>3, <2>1, <3>2
    <3> QED
      BY <3>1, <3>2
  <2> HIDE DEF U
  <2> QED
    BY <2>2
<1> HIDE DEF T, U
<1> QED
  BY <1>2, <1>4, <1>5

LEMMA SignalLinesKept ==
  ASSUME File, NEW line, TakesLine(line), NEW id
  PROVE  /\ line.kind = "BO_" /\ line.id = id => SignalLines(id)' = {}
         /\ line.kind # "SG_" /\ ~(line.kind = "BO_" /\ line.id = id) => SignalLines(id)' = SignalLines(id)
         /\ line.kind = "SG_" =>
              SignalLines(id)' = SignalLines(id) \cup {p \in {Len(file) + 1} : Under(p) = DefinedAt(id)}
<1> DEFINE len == Len(file)
<1>1. len \in Nat
  BY DEF File
<1>2. /\ Lines("SG_") \subseteq 1..len
      /\ line.kind = "SG_" => Lines("SG_")' = Lines("SG_") \cup {len + 1}
      /\ line.kind # "SG_" => Lines("SG_")' = Lines("SG_")
  BY LinesKept
<1>3. \A p \in 1..(len + 1) : Under(p)' = Under(p)
  BY UnderKept
<1>4. /\ line.kind = "BO_" /\ line.id = id => DefinedAt(id)' = len + 1
      /\ ~(line.kind = "BO_" /\ line.id = id) => DefinedAt(id)' = DefinedAt(id)
  BY DefinedKept
<1>5. /\ SignalLines(id) = {p \in Lines("SG_") : Under(p) = DefinedAt(id)}
      /\ SignalLines(id)' = {p \in Lines("SG_")' : Under(p)' = DefinedAt(id)'}
  BY DEF SignalLines
<1>6. Lines("SG_") \subseteq 1..(len + 1) /\ len + 1 \in 1..(len + 1)
  BY <1>1, <1>2
<1>7. ASSUME line.kind = "BO_", line.id = id PROVE SignalLines(id)' = {}
  <2>1. \A p \in Lines("SG_") : Under(p) # len + 1
    <3> SUFFICES ASSUME NEW p \in Lines("SG_") PROVE Under(p) # len + 1
      OBVIOUS
    <3>1. Under(p) \in 0..(p - 1) /\ p \in 1..len
      BY <1>2, <1>6, UnderBounds
    <3> QED
      BY <1>1, <3>1
  <2>2. Lines("SG_")' = Lines("SG_") /\ DefinedAt(id)' = len + 1
    BY <1>2, <1>4, <1>7
  <2> QED
    BY <1>3, <1>5, <1>6, <2>1, <2>2
<1>8. ASSUME line.kind # "SG_", ~(line.kind = "BO_" /\ line.id = id)
      PROVE  SignalLines(id)' = SignalLines(id)
  BY <1>2, <1>3, <1>4, <1>5, <1>6, <1>8
<1>9. ASSUME line.kind = "SG_"
      PROVE  SignalLines(id)' = SignalLines(id) \cup {p \in {len + 1} : Under(p) = DefinedAt(id)}
  <2>1. Lines("SG_")' = Lines("SG_") \cup {len + 1} /\ DefinedAt(id)' = DefinedAt(id)
    BY <1>2, <1>4, <1>9
  <2>2. \A p : p \in SignalLines(id)' <=> p \in Lines("SG_") \cup {len + 1} /\ Under(p) = DefinedAt(id)
    BY <1>3, <1>5, <1>6, <2>1
  <2> QED
    BY <1>5, <2>2
<1> QED
  BY <1>7, <1>8, <1>9

LEMMA SignalAtBounds ==
  ASSUME File, NEW id, NEW p \in SignalLines(id)
  PROVE  /\ SignalAt(id, file[p].name) \in SignalLines(id) /\ p <= SignalAt(id, file[p].name)
         /\ file[SignalAt(id, file[p].name)].name = file[p].name
<1> DEFINE T == {q \in SignalLines(id) : file[q].name = file[p].name}
<1>1. T \subseteq 0..Len(file) /\ p \in T /\ Len(file) \in Nat
  BY DEF SignalLines, Lines, File
<1>2. SignalAt(id, file[p].name) = Max(T)
  BY DEF SignalAt
<1>3. \A q \in T : q \in SignalLines(id) /\ file[q].name = file[p].name
  OBVIOUS
<1> HIDE DEF T
<1>4. Max(T) \in T /\ \A q \in T : q <= Max(T)
  BY <1>1, Greatest
<1> QED
  BY <1>1, <1>2, <1>3, <1>4

LEMMA SignalAtKept ==
  ASSUME File, NEW line, TakesLine(line), NEW id, NEW name
  PROVE  /\ SignalLines(id)' = SignalLines(id) => SignalAt(id, name)' = SignalAt(id, name)
         /\ SignalLines(id)' = SignalLines(id) \cup {Len(file) + 1} =>
              /\ line.name = name => SignalAt(id, name)' = Len(file) + 1
              /\ line.name # name => SignalAt(id, name)' = SignalAt(id, name)
<1> DEFINE len == Len(file)
           T == {p \in SignalLines(id) : file[p].name = name}
           U == {p \in SignalLines(id)' : file'[p].name = name}
<1>1. len \in Nat /\ file'[len + 1] = line /\ \A p \in 1..len : file'[p] = file[p]
  BY DEF File, TakesLine
<1>2. SignalAt(id, name) = Max(T) /\ SignalAt(id, name)' = Max(U)
  BY DEF SignalAt
<1>3. SignalLines(id) \subseteq 1..len
  BY DEF SignalLines, Lines, File
<1>4. \A p \in SignalLines(id) : file'[p].name = file[p].name
  BY <1>1, <1>3
<1>5. ASSUME SignalLines(id)' = SignalLines(id) PROVE U = T
  BY <1>4, <1>5
<1>6. ASSUME SignalLines(id)' = SignalLines(id) \cup {len + 1}, line.name = name PROVE Max(U) = len + 1
  <2>1. len + 1 \in U /\ U \subseteq Nat /\ \A q \in U : q <= len + 1
    BY <1>1, <1>3, <1>6
  <2> HIDE DEF U
  <2> QED
    BY <1>1, <2>1, MaxIs
<1>7. ASSUME SignalLines(id)' = SignalLines(id) \cup {len + 1}, line.name # name PROVE U = T
  BY <1>1, <1>4, <1>7
<1> HIDE DEF T, U
<1> QED
  BY <1>2, <1>5, <1>6, <1>7

\* The places that label a signal.
LEMMA PlacesAre ==
  ASSUME File, NEW id, NEW name
  PROVE  /\ \A at : at \in LabelPlaces(id, name) <=>
              \E p \in LabelLines(id, name) : \E k \in DOMAIN file[p].pairs : at = <<p, k>>
         /\ LabelLines(id, name) \subseteq 1..Len(file)
         /\ \A at \in LabelPlaces(id, name) : at[1] \in 1..Len(file)
<1>1. LabelLines(id, name) \subseteq 1..Len(file)
  BY DEF LabelLines, Lines, File
<1>2. \A at : at \in LabelPlaces(id, name) <=>
              \E p \in LabelLines(id, name) : \E k \in DOMAIN file[p].pairs : at = <<p, k>>
  BY DEF LabelPlaces
<1>3. \A at \in LabelPlaces(id, name) : at[1] \in LabelLines(id, name)
  BY <1>2
<1> QED
  BY <1>1, <1>2, <1>3

LEMMA LabelLinesKept ==
  ASSUME File, NEW line, TakesLine(line), NEW id, NEW name
  PROVE  /\ SignalAt(id, name)' = Len(file) + 1 /\ line.kind # "VAL_" => LabelLines(id, name)' = {}
         /\ SignalAt(id, name)' = SignalAt(id, name) /\ SignalAt(id, name) \in 1..Len(file) =>
              IF line.kind = "VAL_" /\ line.id = id /\ line.name = name
              THEN LabelLines(id, name)' = LabelLines(id, name) \cup {Len(file) + 1}
              ELSE LabelLines(id, name)' = LabelLines(id, name)
<1> DEFINE len == Len(file)
           s == SignalAt(id, name)
<1>1. len \in Nat /\ file'[len + 1] = line /\ \A p \in 1..len : file'[p] = file[p]
  BY DEF File, TakesLine
<1>2. /\ Lines("VAL_") \subseteq 1..len
      /\ line.kind = "VAL_" => Lines("VAL_")' = Lines("VAL_") \cup {len + 1}
      /\ line.kind # "VAL_" => Lines("VAL_")' = Lines("VAL_")
  BY LinesKept
<1>3. /\ LabelLines(id, name) = {p \in Lines("VAL_") : p > s /\ file[p].id = id /\ file[p].name = name}
      /\ LabelLines(id, name)' = {p \in Lines("VAL_")' : p > s' /\ file'[p].id = id /\ file'[p].name = name}
  BY DEF LabelLines
<1>4. \A p \in Lines("VAL_") : file'[p] = file[p] /\ p # len + 1 /\ ~(p > len + 1)
  BY <1>1, <1>2
<1> HIDE DEF len, s
<1>5. ASSUME s' = len + 1, line.kind # "VAL_" PROVE LabelLines(id, name)' = {}
  BY <1>2, <1>3, <1>4, <1>5
<1>6. ASSUME s' = s, s \in 1..len, line.kind = "VAL_" /\ line.id = id /\ line.name = name
      PROVE  LabelLines(id, name)' = LabelLines(id, name) \cup {len + 1}
  <2>1. len + 1 > s
    BY <1>1, <1>6
  <2>2. Lines("VAL_")' = Lines("VAL_") \cup {len + 1}
    BY <1>2, <1>6
  <2>3. \A p : p \in LabelLines(id, name)' <=> p \in LabelLines(id, name) \/ p = len + 1
    BY <1>1, <1>3, <1>4, <1>6, <2>1, <2>2
  <2> QED
    BY <2>3
<1>7. ASSUME s' = s, ~(line.kind = "VAL_" /\ line.id = id /\ line.name = name)
      PROVE  LabelLines(id, name)' = LabelLines(id, name)
  <2>1. CASE line.kind = "VAL_"
    <3>1. Lines("VAL_")' = Lines("VAL_") \cup {len + 1}
      BY <1>2, <2>1
    <3>2. ~(file'[len + 1].id = id /\ file'[len + 1].name = name)
      BY <1>1, <1>7, <2>1
    <3>3. \A p : p \in LabelLines(id, name)' <=> p \in LabelLines(id, name)
      BY <1>3, <1>4, <1>7, <3>1, <3>2
    <3> QED
      BY <3>3
  <2>2. CASE line.kind # "VAL_"
    BY <1>2, <1>3, <1>4, <1>7, <2>2
  <2> QED
    BY <2>1, <2>2
<1> QED
  BY <1>5, <1>6, <1>7 DEF len, s

LEMMA PlacesKept ==
  ASSUME File, NEW line, TakesLine(line), NEW id, NEW name
  PROVE  /\ LabelLines(id, name)' = {} => LabelPlaces(id, name)' = {}
         /\ LabelLines(id, name)' = LabelLines(id, name) => LabelPlaces(id, name)' = LabelPlaces(id, name)
         /\ LabelLines(id, name)' = LabelLines(id, name) \cup {Len(file) + 1} =>
              LabelPlaces(id, name)' =
                LabelPlaces(id, name) \cup {<<Len(file) + 1, k>> : k \in DOMAIN line.pairs}
<1> DEFINE len == Len(file)
<1>1. len \in Nat /\ file'[len + 1] = line /\ \A p \in 1..len : file'[p] = file[p]
  BY DEF File, TakesLine
<1>2. /\ \A at : at \in LabelPlaces(id, name) <=>
            \E p \in LabelLines(id, name) : \E k \in DOMAIN file[p].pairs : at = <<p, k>>
      /\ LabelLines(id, name) \subseteq 1..len
  BY PlacesAre
<1>3. \A at : at \in LabelPlaces(id, name)' <=>
          \E p \in LabelLines(id, name)' : \E k \in DOMAIN file'[p].pairs : at = <<p, k>>
  BY DEF LabelPlaces
<1>4. \A p \in LabelLines(id, name) : file'[p] = file[p]
  BY <1>1, <1>2
<1> HIDE DEF len
<1>5. ASSUME LabelLines(id, name)' = {} PROVE LabelPlaces(id, name)' = {}
  BY <1>3, <1>5
<1>6. ASSUME LabelLines(id, name)' = LabelLines(id, name) PROVE LabelPlaces(id, name)' = LabelPlaces(id, name)
  BY <1>2, <1>3, <1>4, <1>6
<1>7. ASSUME LabelLines(id, name)' = LabelLines(id, name) \cup {len + 1}
      PROVE  LabelPlaces(id, name)' = LabelPlaces(id, name) \cup {<<len + 1, k>> : k \in DOMAIN line.pairs}
  <2>1. \A at : at \in LabelPlaces(id, name)' <=>
          at \in LabelPlaces(id, name) \/ \E k \in DOMAIN line.pairs : at = <<len + 1, k>>
    BY <1>1, <1>2, <1>3, <1>4, <1>7
  <2> QED
    BY <2>1
<1> QED
  BY <1>5, <1>6, <1>7 DEF len

LEMMA TableKept ==
  ASSUME File, NEW line, TakesLine(line), NEW values, NEW places,
         \A at \in places : at[1] \in 1..Len(file), TableOf(values, places)
  PROVE  TableOf(values, places)'
<1>1. \A at \in places : Pair(at)' = Pair(at)
  BY DEF Pair, TakesLine
<1> QED
  BY <1>1 DEF TableOf

LEMMA EmptyTable == TableOf(<<>>, {})'
BY DEF TableOf

LEMMA TableGrows ==
  ASSUME File, NEW line, TakesLine(line), line.kind = "VAL_", NEW values, NEW places, NEW more, NEW table,
         \A at \in places : at[1] \in 1..Len(file), TableOf(values, places),
         more = {<<Len(file) + 1, k>> : k \in DOMAIN line.pairs},
         table = WithLabels(values, line.pairs)
  PROVE  TableOf(table, places \cup more)'
<1> DEFINE len == Len(file)
           pairs == line.pairs
           all == places \cup more
<1>0. PICK next : next = len + 1
  OBVIOUS
<1>1. len \in Nat /\ file'[next] = line /\ next = len + 1
  BY <1>0 DEF File, TakesLine
<1>2. Len(pairs) \in Nat /\ DOMAIN pairs = 1..Len(pairs)
  BY ElementsOf DEF TakesLine, DbcLine
<1>3. Stored(values, pairs, Len(pairs), table)
  BY <1>2, LabelsStored
<1>4. \A at \in places : Pair(at)' = Pair(at)
  BY DEF Pair, TakesLine
<1>5. \A k \in 1..Len(pairs) : <<next, k>> \in more /\ Pair(<<next, k>>)' = pairs[k]
  BY <1>0, <1>1, <1>2 DEF Pair
<1>6. \A at \in more : \E k \in 1..Len(pairs) : at = <<next, k>>
  BY <1>0, <1>2
<1> HIDE DEF len, pairs
<1>7. DOMAIN table = {Pair(at)'[1] : at \in all}
  <2>1. DOMAIN values = {Pair(at)[1] : at \in places}
    BY DEF TableOf
  <2>2. {Pair(at)'[1] : at \in all} = {Pair(at)[1] : at \in places} \cup {pairs[k][1] : k \in 1..Len(pairs)}
    <3>1. \A r : r \in {Pair(at)'[1] : at \in all} <=>
                 \/ \E at \in places : r = Pair(at)'[1]
                 \/ \E at \in more : r = Pair(at)'[1]
      OBVIOUS
    <3>2. \A r : (\E at \in places : r = Pair(at)'[1]) <=> r \in {Pair(at)[1] : at \in places}
      BY <1>4
    <3>3. \A r : (\E at \in more : r = Pair(at)'[1]) <=> \E k \in 1..Len(pairs) : r = pairs[k][1]
      <4>1. \A at \in more : \E k \in 1..Len(pairs) : Pair(at)' = pairs[k]
        BY <1>5, <1>6
      <4>2. \A k \in 1..Len(pairs) : \E at \in more : Pair(at)' = pairs[k]
        BY <1>5
      <4> QED
        BY <4>1, <4>2
    <3>4. \A r : r \in {Pair(at)'[1] : at \in all} <=>
                 r \in {Pair(at)[1] : at \in places} \cup {pairs[k][1] : k \in 1..Len(pairs)}
      BY <3>1, <3>2, <3>3
    <3> QED
      BY <3>4
  <2>3. DOMAIN table = DOMAIN values \cup {pairs[k][1] : k \in 1..Len(pairs)}
    BY <1>3 DEF Stored
  <2> QED
    BY <2>1, <2>2, <2>3
<1>8. ASSUME NEW at \in places, \A later \in all : Before(at, later) => Pair(later)'[1] # Pair(at)'[1]
      PROVE  table[Pair(at)'[1]] = Pair(at)'[2]
  <2>1. \A later \in places : Before(at, later) => Pair(later)[1] # Pair(at)[1]
    BY <1>4, <1>8
  <2>2. values[Pair(at)[1]] = Pair(at)[2] /\ Pair(at)[1] \in DOMAIN values
    BY <2>1 DEF TableOf
  <2>3. ASSUME NEW k \in 1..Len(pairs) PROVE pairs[k][1] # Pair(at)[1]
    <3> DEFINE later == <<next, k>>
    <3>1. later \in more /\ Pair(later)' = pairs[k]
      BY <1>5
    <3>2. at[1] \in 1..len /\ later[1] = next
      BY DEF len
    <3>3. Before(at, later)
      BY <1>1, <3>2 DEF Before
    <3>4. Pair(later)'[1] # Pair(at)'[1]
      BY <1>8, <3>1, <3>3
    <3> QED
      BY <1>4, <3>1, <3>4
  <2>4. table[Pair(at)[1]] = values[Pair(at)[1]]
    BY <1>3, <2>2, <2>3 DEF Stored
  <2> QED
    BY <1>4, <2>2, <2>4
<1>9. ASSUME NEW at \in more, \A later \in all : Before(at, later) => Pair(later)'[1] # Pair(at)'[1]
      PROVE  table[Pair(at)'[1]] = Pair(at)'[2]
  <2>1. PICK k \in 1..Len(pairs) : at = <<next, k>>
    BY <1>6
  <2>2. Pair(at)' = pairs[k]
    BY <1>5, <2>1
  <2>3. ASSUME NEW j \in 1..Len(pairs), k < j PROVE pairs[j][1] # pairs[k][1]
    <3> DEFINE later == <<next, j>>
    <3>1. later \in more /\ Pair(later)' = pairs[j]
      BY <1>5
    <3>2. Before(at, later)
      BY <2>1, <2>3 DEF Before
    <3> QED
      BY <1>9, <2>2, <3>1, <3>2
  <2>4. table[pairs[k][1]] = pairs[k][2]
    BY <1>3, <2>3 DEF Stored
  <2> QED
    BY <2>2, <2>4
<1> QED
  BY <1>7, <1>8, <1>9 DEF TableOf

-----------------------------------------------------------------------------
(* the DBC parser: what the lines before said stays *)

\* The messages that are defined.
Ids == {file[p].id : p \in Lines("BO_")}

LEMMA IdsKept ==
  ASSUME File, NEW line, TakesLine(line)
  PROVE  /\ line.kind = "BO_" => Ids' = Ids \cup {line.id}
         /\ line.kind # "BO_" => Ids' = Ids
<1> DEFINE len == Len(file)
<1>1. len \in Nat /\ file'[len + 1] = line /\ \A p \in 1..len : file'[p] = file[p]
  BY DEF File, TakesLine
<1>2. /\ Lines("BO_") \subseteq 1..len
      /\ line.kind = "BO_" => Lines("BO_")' = Lines("BO_") \cup {len + 1}
      /\ line.kind # "BO_" => Lines("BO_")' = Lines("BO_")
  BY LinesKept
<1>3. Ids' = {file'[p].id : p \in Lines("BO_")'}
  BY DEF Ids
<1>4. \A p \in Lines("BO_") : file'[p].id = file[p].id
  BY <1>1, <1>2
<1>5. ASSUME line.kind = "BO_" PROVE Ids' = Ids \cup {line.id}
  <2>1. \A id : id \in Ids' <=> (\E p \in Lines("BO_") : id = file[p].id) \/ id = line.id
    BY <1>1, <1>2, <1>3, <1>4, <1>5
  <2> QED
    BY <2>1 DEF Ids
<1>6. ASSUME line.kind # "BO_" PROVE Ids' = Ids
  <2>1. \A id : id \in Ids' <=> \E p \in Lines("BO_") : id = file[p].id
    BY <1>2, <1>3, <1>4, <1>6
  <2> QED
    BY <2>1 DEF Ids
<1> QED
  BY <1>5, <1>6

\* What no line is about stays as it was read.
LEMMA SignalStays ==
  ASSUME File, NEW line, TakesLine(line), NEW id \in Ids, NEW name, NEW at \in SignalLines(id), file[at].name = name,
         SignalAsRead(id, name), messages'[id].signals[name] = messages[id].signals[name],
         SignalAt(id, name)' = SignalAt(id, name),
         ~(line.kind = "VAL_" /\ line.id = id /\ line.name = name)
  PROVE  SignalAsRead(id, name)'
<1> DEFINE spot == SignalAt(id, name)
           places == LabelPlaces(id, name)
           sig == messages[id].signals[name]
<1>1. spot \in SignalLines(id)
  BY SignalAtBounds
<1>2. spot \in 1..Len(file)
  BY <1>1 DEF SignalLines, Lines, File
<1>3. file'[spot] = file[spot]
  BY <1>2 DEF TakesLine
<1>4. LabelLines(id, name)' = LabelLines(id, name)
  BY <1>2, LabelLinesKept
<1>5. LabelPlaces(id, name)' = places
  BY <1>4, PlacesKept
<1>6. \A p \in places : p[1] \in 1..Len(file)
  BY PlacesAre
<1>7. TableOf(sig.values, places)
  BY DEF SignalAsRead
<1>8. PICK values, set : values = sig.values /\ set = places
  OBVIOUS
<1>9. TableOf(values, set)'
  BY <1>6, <1>7, <1>8, TableKept
<1>10. sig = [file[spot].sig EXCEPT !.values = sig.values]
  BY DEF SignalAsRead
<1>11. sig' = sig /\ spot' = spot /\ places' = places
  BY <1>5
<1>12. TableOf(sig.values, places)'
  BY <1>8, <1>9, <1>11
<1> QED
  BY <1>3, <1>10, <1>11, <1>12 DEF SignalAsRead

LEMMA MessageStays ==
  ASSUME File, NEW line, TakesLine(line), NEW id \in Ids, MessageAsRead(id),
         messages'[id] = messages[id], SignalLines(id)' = SignalLines(id),
         ~(line.kind = "VAL_" /\ line.id = id /\ line.name \in DOMAIN messages[id].signals)
  PROVE  MessageAsRead(id)'
<1> DEFINE names == DOMAIN messages[id].signals
<1>1. names = {file[p].name : p \in SignalLines(id)}
  BY DEF MessageAsRead
<1>2. \A p \in SignalLines(id) : p \in 1..Len(file)
  BY DEF SignalLines, Lines, File
<1>3. names' = {file'[p].name : p \in SignalLines(id)'}
  BY <1>1, <1>2 DEF TakesLine
<1>4. ASSUME NEW name \in names PROVE SignalAsRead(id, name)'
  <2>1. PICK at \in SignalLines(id) : file[at].name = name
    BY <1>1
  <2>2. SignalAt(id, name)' = SignalAt(id, name)
    BY SignalAtKept
  <2>3. SignalAsRead(id, name)
    BY <1>4 DEF MessageAsRead
  <2>4. ~(line.kind = "VAL_" /\ line.id = id /\ line.name = name)
    BY <1>4
  <2> QED
    BY <2>1, <2>2, <2>3, <2>4, SignalStays
<1> QED
  BY <1>3, <1>4 DEF MessageAsRead

-----------------------------------------------------------------------------
(* the DBC parser: the invariant *)

\* The message a signal of the next line belongs to: that of the last line that is not
\* a signal, if it is the definition of one.
Current ==
  \A p : p = Len(file) + 1 =>
    IF curMsg = NoId THEN Under(p) \notin Lines("BO_")
    ELSE Under(p) \in Lines("BO_") /\ file[Under(p)].id = curMsg /\ DefinedAt(curMsg) = Under(p)

DbcInv ==
  /\ fileKind \in Inputs /\ file \in Seq(fileKind.lines)
  /\ outcome \in {"reading", "returned", "threw"}
  /\ ReadsTheFile
  /\ outcome = "reading" => Current

LEMMA LineRead ==
  ASSUME DbcInv
  PROVE  File /\ \A line \in fileKind.lines : NextLine(line) => TakesLine(line)
<1>1. \A line \in fileKind.lines : DbcLine(line)
  BY DbcAssumption DEF DbcInv, DbcLine
<1>2. file \in Seq(fileKind.lines)
  BY DEF DbcInv
<1>3. File
  BY <1>1, <1>2, ElementsOf DEF File
<1>4. ASSUME NEW line \in fileKind.lines, NextLine(line) PROVE TakesLine(line)
  <2>1. file' = Append(file, line)
    BY <1>4 DEF NextLine
  <2> QED
    BY <1>1, <1>2, <2>1 DEF TakesLine
<1> QED
  BY <1>3, <1>4

\* A line that is no signal and defines no message leaves the next signal without one.
LEMMA NoCurrent ==
  ASSUME File, NEW line, TakesLine(line), line.kind \in {"VAL_", "other"}, curMsg' = NoId
  PROVE  Current'
<1> SUFFICES ASSUME NEW p, p = Len(file') + 1 PROVE Under(p)' \notin Lines("BO_")'
  BY DEF Current
<1>1. p = Len(file) + 2 /\ Len(file) \in Nat
  BY DEF TakesLine, File
<1>2. Under(p)' = p - 1
  BY <1>1, UnderKept
<1>3. file'[Len(file) + 1].kind # "BO_"
  BY DEF TakesLine
<1> QED
  BY <1>1, <1>2, <1>3 DEF Lines

\* Blank lines and signals leave it.
LEMMA SameCurrent ==
  ASSUME File, NEW line, TakesLine(line), line.kind \in {"blank", "SG_"}, Current, curMsg' = curMsg
  PROVE  Current'
<1> DEFINE len == Len(file)
<1>1. len \in Nat /\ Len(file') = len + 1
  BY DEF File, TakesLine
<1>2. PICK last : last = len + 1
  OBVIOUS
<1>3. PICK spot : spot = Under(last)
  OBVIOUS
<1>4. PICK id : id = curMsg
  OBVIOUS
<1>5. \A p : p = len + 2 => Under(p)' = spot
  <2> SUFFICES ASSUME NEW p, p = len + 2 PROVE Under(p)' = spot
    OBVIOUS
  <2>1. p - 1 = last
    BY <1>1, <1>2
  <2> QED
    BY <1>3, <2>1, UnderKept
<1>6. Lines("BO_")' = Lines("BO_") /\ Lines("BO_") \subseteq 1..len
  BY LinesKept
<1>7. DefinedAt(id)' = DefinedAt(id)
  BY DefinedKept
<1>8. IF id = NoId THEN spot \notin Lines("BO_")
      ELSE spot \in Lines("BO_") /\ file[spot].id = id /\ DefinedAt(id) = spot
  BY <1>2, <1>3, <1>4 DEF Current
<1>9. spot \in Lines("BO_") => file'[spot] = file[spot]
  BY <1>6 DEF TakesLine
<1>10. ASSUME NEW p, p = Len(file') + 1
       PROVE  IF curMsg' = NoId THEN Under(p)' \notin Lines("BO_")'
              ELSE Under(p)' \in Lines("BO_")' /\ file'[Under(p)'].id = curMsg' /\ DefinedAt(curMsg)' = Under(p)'
  <2>1. Under(p)' = spot
    BY <1>1, <1>5, <1>10
  <2>2. DefinedAt(curMsg)' = DefinedAt(id)
    BY <1>4, <1>7
  <2> QED
    BY <1>4, <1>6, <1>8, <1>9, <2>1, <2>2
<1> QED
  BY <1>10 DEF Current

\* A signal of the next line is that of the message it is under.
LEMMA OwnSignal ==
  ASSUME File, Current, NEW id \in Ids, NEW p, p = Len(file) + 1
  PROVE  Under(p) = DefinedAt(id) <=> curMsg # NoId /\ curMsg = id
<1>1. DefinedAt(id) \in Lines("BO_") /\ file[DefinedAt(id)].id = id
  BY DefinedBounds DEF Ids
<1>2. CASE curMsg = NoId
  BY <1>1, <1>2 DEF Current
<1>3. CASE curMsg # NoId
  BY <1>1, <1>3 DEF Current
<1> QED
  BY <1>2, <1>3

\* The invariant after a line, from its parts.
LEMMA LineDone ==
  ASSUME DbcInv, NEW line \in fileKind.lines, NextLine(line), fileKind' = fileKind, outcome' = outcome,
         DOMAIN messages' = Ids', \A id \in Ids' : MessageAsRead(id)', Current'
  PROVE  DbcInv'
<1>1. fileKind' \in Inputs /\ file' \in Seq(fileKind'.lines)
  BY DEF DbcInv, NextLine
<1>2. ReadsTheFile'
  BY DEF ReadsTheFile, Ids
<1> QED
  BY <1>1, <1>2 DEF DbcInv, NextLine

LEMMA AsRead ==
  ASSUME DbcInv, outcome = "reading"
  PROVE  DOMAIN messages = Ids /\ (\A id \in Ids : MessageAsRead(id)) /\ Current
BY DEF DbcInv, ReadsTheFile, Ids

LEMMA SkipKeeps ==
  ASSUME DbcInv, NEW line \in fileKind.lines, SkipLine(line) \/ StraySignalLine(line)
  PROVE  DbcInv'
<1>1. /\ NextLine(line) /\ outcome = "reading" /\ UNCHANGED <<fileKind, messages, curMsg, outcome>>
      /\ line.kind = "blank" \/ (line.kind = "SG_" /\ curMsg = NoId)
  <2>1. CASE SkipLine(line)
    BY <2>1 DEF SkipLine, NextLine
  <2>2. CASE StraySignalLine(line)
    BY <2>2 DEF StraySignalLine, NextLine
  <2> QED
    BY <2>1, <2>2
<1>2. File /\ TakesLine(line)
  BY <1>1, LineRead
<1>3. DOMAIN messages = Ids /\ (\A id \in Ids : MessageAsRead(id)) /\ Current
  BY <1>1, AsRead
<1>4. Ids' = Ids
  BY <1>1, <1>2, IdsKept
<1>5. Current'
  BY <1>1, <1>2, <1>3, SameCurrent
<1>6. ASSUME NEW id \in Ids PROVE MessageAsRead(id)'
  <2>1. SignalLines(id)' = SignalLines(id)
    <3>1. CASE line.kind = "blank"
      BY <1>2, <3>1, SignalLinesKept
    <3>2. CASE line.kind = "SG_" /\ curMsg = NoId
      <4>1. \A p \in {Len(file) + 1} : Under(p) # DefinedAt(id)
        BY <1>2, <1>3, <3>2, OwnSignal
      <4>2. SignalLines(id)' = SignalLines(id) \cup {p \in {Len(file) + 1} : Under(p) = DefinedAt(id)}
        BY <1>2, <3>2, SignalLinesKept
      <4> QED
        BY <4>1, <4>2
    <3> QED
      BY <1>1, <3>1, <3>2
  <2>2. messages'[id] = messages[id] /\ line.kind # "VAL_" /\ MessageAsRead(id)
    BY <1>1, <1>3
  <2> QED
    BY <1>2, <2>1, <2>2, MessageStays
<1> QED
  BY <1>1, <1>3, <1>4, <1>5, <1>6, LineDone

LEMMA MessageLineKeeps ==
  ASSUME DbcInv, NEW line \in fileKind.lines, MessageLine(line)
  PROVE  DbcInv'
<1>1. /\ NextLine(line) /\ outcome = "reading" /\ UNCHANGED <<fileKind, outcome>> /\ line.kind = "BO_"
      /\ messages' = Put(messages, line.id, [signals |-> <<>>]) /\ curMsg' = line.id
  BY DEF MessageLine, NextLine
<1>2. File /\ TakesLine(line) /\ line.id \in Nat
  BY <1>1, LineRead DEF TakesLine, DbcLine
<1>3. DOMAIN messages = Ids /\ (\A id \in Ids : MessageAsRead(id)) /\ Current
  BY <1>1, AsRead
<1>4. Ids' = Ids \cup {line.id}
  BY <1>1, <1>2, IdsKept
<1>5. /\ DOMAIN messages' = Ids \cup {line.id} /\ messages'[line.id] = [signals |-> <<>>]
      /\ \A id \in Ids : id # line.id => messages'[id] = messages[id]
  <2> DEFINE new == [signals |-> <<>>]
  <2>1. messages' = Put(messages, line.id, new)
    BY <1>1
  <2> HIDE DEF new
  <2>2. DOMAIN messages' = Ids \cup {line.id} /\ messages'[line.id] = new
    BY <1>3, <2>1 DEF Put
  <2>3. \A id \in Ids : id # line.id => messages'[id] = messages[id]
    BY <1>3, <2>1 DEF Put
  <2> QED
    BY <2>2, <2>3 DEF new
<1>6. MessageAsRead(line.id)'
  <2>1. PICK id : id = line.id
    OBVIOUS
  <2>2. SignalLines(id)' = {}
    BY <1>1, <1>2, <2>1, SignalLinesKept
  <2>3. messages'[id].signals = <<>>
    BY <1>5, <2>1
  <2>4. MessageAsRead(id)'
    BY <2>2, <2>3 DEF MessageAsRead
  <2> QED
    BY <2>1, <2>4
<1>7. ASSUME NEW id \in Ids, id # line.id PROVE MessageAsRead(id)'
  <2>1. SignalLines(id)' = SignalLines(id)
    BY <1>1, <1>2, <1>7, SignalLinesKept
  <2>2. messages'[id] = messages[id] /\ line.kind # "VAL_" /\ MessageAsRead(id)
    BY <1>1, <1>3, <1>5, <1>7
  <2> QED
    BY <1>2, <2>1, <2>2, MessageStays
<1>8. Current'
  <2>1. PICK id : id = line.id
    OBVIOUS
  <2>2. /\ curMsg' = id /\ id # NoId /\ Len(file) \in Nat
        /\ Len(file') = Len(file) + 1 /\ file'[Len(file) + 1] = line
    BY <1>1, <1>2, <2>1 DEF NoId, TakesLine, File
  <2>3. DefinedAt(id)' = Len(file) + 1 /\ Len(file) + 1 \in Lines("BO_")'
    BY <1>1, <1>2, <2>1, DefinedKept, LinesKept
  <2>4. ASSUME NEW p, p = Len(file') + 1 PROVE Under(p)' = Len(file) + 1
    <3>1. p = Len(file) + 2 /\ p - 1 = Len(file) + 1
      BY <2>2, <2>4
    <3> QED
      BY <1>1, <1>2, <3>1, UnderKept
  <2>5. DefinedAt(curMsg)' = Len(file) + 1
    BY <2>2, <2>3
  <2> QED
    BY <2>1, <2>2, <2>3, <2>4, <2>5 DEF Current
<1> QED
  BY <1>1, <1>4, <1>5, <1>6, <1>7, <1>8, LineDone

LEMMA OtherLineKeeps ==
  ASSUME DbcInv, NEW line \in fileKind.lines, OtherLine(line)
  PROVE  DbcInv'
<1>1. /\ NextLine(line) /\ outcome = "reading" /\ UNCHANGED <<fileKind, messages, outcome>>
      /\ line.kind = "other" /\ curMsg' = NoId
  BY DEF OtherLine, NextLine
<1>2. File /\ TakesLine(line)
  BY <1>1, LineRead
<1>3. DOMAIN messages = Ids /\ (\A id \in Ids : MessageAsRead(id))
  BY <1>1, AsRead
<1>4. Ids' = Ids
  BY <1>1, <1>2, IdsKept
<1>5. Current'
  BY <1>1, <1>2, NoCurrent
<1>6. ASSUME NEW id \in Ids PROVE MessageAsRead(id)'
  <2>1. SignalLines(id)' = SignalLines(id)
    BY <1>1, <1>2, SignalLinesKept
  <2>2. messages'[id] = messages[id] /\ line.kind # "VAL_" /\ MessageAsRead(id)
    BY <1>1, <1>3
  <2> QED
    BY <1>2, <2>1, <2>2, MessageStays
<1> QED
  BY <1>1, <1>3, <1>4, <1>5, <1>6, LineDone

\* What the file says depends on the file and the database alone.
LEMMA SameFile ==
  ASSUME UNCHANGED <<fileKind, file, messages, curMsg>>
  PROVE  /\ outcome' = outcome \/ (outcome' # "threw" /\ outcome # "threw") => ReadsTheFile' = ReadsTheFile
         /\ Current' = Current
<1>1. \A kind : Lines(kind)' = Lines(kind)
  BY DEF Lines
<1>2. \A p : Under(p)' = Under(p) /\ Pair(p)' = Pair(p)
  BY DEF Under, Pair
<1>3. \A id : DefinedAt(id)' = DefinedAt(id)
  BY <1>1 DEF DefinedAt
<1>4. \A id : SignalLines(id)' = SignalLines(id)
  BY <1>1, <1>2, <1>3 DEF SignalLines
<1>5. \A id, name : SignalAt(id, name)' = SignalAt(id, name)
  BY <1>4 DEF SignalAt
<1>6. \A id, name : LabelLines(id, name)' = LabelLines(id, name)
  BY <1>1, <1>5 DEF LabelLines
<1>7. \A id, name : LabelPlaces(id, name)' = LabelPlaces(id, name)
  BY <1>6 DEF LabelPlaces
<1>8. \A values, places : TableOf(values, places)' = TableOf(values, places)
  BY <1>2 DEF TableOf
<1>9. \A id, name : SignalAsRead(id, name)' = SignalAsRead(id, name)
  BY <1>5, <1>7, <1>8 DEF SignalAsRead
<1>10. \A id : MessageAsRead(id)' = MessageAsRead(id)
  BY <1>4, <1>9 DEF MessageAsRead
<1>11. Current' = Current
  BY <1>1, <1>2, <1>3 DEF Current
<1>12. ASSUME outcome' = outcome \/ (outcome' # "threw" /\ outcome # "threw")
       PROVE  ReadsTheFile' = ReadsTheFile
  BY <1>1, <1>10, <1>12 DEF ReadsTheFile
<1> QED
  BY <1>11, <1>12

LEMMA EndKeeps ==
  ASSUME DbcInv, EndOfFile \/ UNCHANGED dbcVars \/ \E line \in fileKind.lines : BadLine(line)
  PROVE  DbcInv'
<1>1. CASE UNCHANGED dbcVars
  BY <1>1, SameFile DEF DbcInv, dbcVars
<1>2. CASE EndOfFile
  BY <1>2, SameFile DEF EndOfFile, DbcInv
<1>3. CASE \E line \in fileKind.lines : BadLine(line)
  BY <1>3 DEF BadLine, NextLine, DbcInv, ReadsTheFile
<1> QED
  BY <1>1, <1>2, <1>3

LEMMA SignalLineKeeps ==
  ASSUME DbcInv, NEW line \in fileKind.lines, SignalLine(line)
  PROVE  DbcInv'
<1> DEFINE len == Len(file)
<1>1. /\ NextLine(line) /\ outcome = "reading" /\ UNCHANGED <<fileKind, curMsg, outcome>>
      /\ line.kind = "SG_" /\ curMsg # NoId
      /\ messages' = Put(messages, curMsg, [signals |-> Put(messages[curMsg].signals, line.name, line.sig)])
  BY DEF SignalLine, NextLine
<1>2. File /\ TakesLine(line)
  BY <1>1, LineRead
<1>3. DOMAIN messages = Ids /\ (\A id \in Ids : MessageAsRead(id)) /\ Current
  BY <1>1, AsRead
<1>4. Ids' = Ids
  BY <1>1, <1>2, IdsKept
<1>5. Current'
  BY <1>1, <1>2, <1>3, SameCurrent
<1>6. PICK cur : cur = curMsg
  OBVIOUS
<1>7. PICK last : last = len + 1 /\ last \in Nat /\ last \notin 1..len
  BY <1>2 DEF File
<1>8. cur \in Ids
  BY <1>1, <1>3, <1>6, <1>7 DEF Current, Ids
<1>9. \A id \in Ids : Under(last) = DefinedAt(id) <=> id = cur
  BY <1>1, <1>2, <1>3, <1>6, <1>7, OwnSignal
<1>10. \A id : SignalLines(id)' = SignalLines(id) \cup {p \in {last} : Under(p) = DefinedAt(id)}
  BY <1>1, <1>2, <1>7, SignalLinesKept
<1> DEFINE old == messages[cur].signals
           new == Put(old, line.name, line.sig)
<1>11. /\ DOMAIN messages' = Ids /\ messages'[cur].signals = new
       /\ \A id \in Ids : id # cur => messages'[id] = messages[id]
  <2> DEFINE message == [signals |-> new]
  <2>1. message.signals = new
    OBVIOUS
  <2> HIDE DEF message
  <2>2. messages' = Put(messages, cur, message)
    BY <1>1, <1>6 DEF message
  <2>3. DOMAIN messages' = Ids /\ messages'[cur] = message
    BY <1>3, <1>8, <2>2 DEF Put
  <2>4. \A id \in Ids : id # cur => messages'[id] = messages[id]
    BY <1>3, <2>2 DEF Put
  <2> QED
    BY <2>1, <2>3, <2>4
<1>12. /\ DOMAIN new = DOMAIN old \cup {line.name} /\ new[line.name] = line.sig
       /\ \A name \in DOMAIN old : name # line.name => new[name] = old[name]
  BY DEF Put
<1> HIDE DEF new
<1>13. ASSUME NEW id \in Ids, id # cur PROVE MessageAsRead(id)'
  <2>1. SignalLines(id)' = SignalLines(id)
    BY <1>9, <1>10, <1>13
  <2>2. messages'[id] = messages[id] /\ line.kind # "VAL_" /\ MessageAsRead(id)
    BY <1>1, <1>3, <1>11, <1>13
  <2> QED
    BY <1>2, <2>1, <2>2, MessageStays
<1>14. SignalLines(cur)' = SignalLines(cur) \cup {last}
  BY <1>8, <1>9, <1>10
<1>15. MessageAsRead(cur)
  BY <1>3, <1>8
<1>16. DOMAIN old = {file[p].name : p \in SignalLines(cur)}
  BY <1>15 DEF MessageAsRead
<1>17. /\ \A p \in SignalLines(cur) : p \in 1..len /\ file'[p] = file[p]
       /\ file'[last] = line
  BY <1>2, <1>7 DEF SignalLines, Lines, File, TakesLine
<1>18. DOMAIN new = {file'[p].name : p \in SignalLines(cur)'}
  <2>1. \A name : name \in {file'[p].name : p \in SignalLines(cur)'} <=>
          (\E p \in SignalLines(cur) : name = file[p].name) \/ name = line.name
    BY <1>14, <1>17
  <2> QED
    BY <1>12, <1>16, <2>1
<1>19. SignalAsRead(cur, line.name)'
  <2>1. PICK name : name = line.name
    OBVIOUS
  <2>2. SignalAt(cur, name)' = last
    BY <1>2, <1>7, <1>14, <2>1, SignalAtKept
  <2>3. LabelLines(cur, name)' = {}
    BY <1>1, <1>2, <1>7, <2>2, LabelLinesKept
  <2>4. LabelPlaces(cur, name)' = {}
    BY <1>2, <2>3, PlacesKept
  <2>5. messages'[cur].signals[name] = line.sig
    BY <1>11, <1>12, <2>1
  <2>6. line.sig = [line.sig EXCEPT !.values = line.sig.values] /\ line.sig.values = <<>>
    <3>1. line.sig \in [start : Int, length : Int, order : {"little", "big"}, signed : BOOLEAN,
                        factor : Int, offset : Int, values : {<<>>}]
      BY <1>1, <1>2 DEF TakesLine, DbcLine
    <3> QED
      BY <3>1
  <2>7. TableOf(<<>>, {})'
    BY EmptyTable
  <2>8. SignalAsRead(cur, name)'
    BY <1>17, <2>2, <2>4, <2>5, <2>6, <2>7 DEF SignalAsRead
  <2> QED
    BY <2>1, <2>8
<1>20. ASSUME NEW name \in DOMAIN old, name # line.name PROVE SignalAsRead(cur, name)'
  <2>1. PICK at \in SignalLines(cur) : file[at].name = name
    BY <1>16
  <2>2. SignalAt(cur, name)' = SignalAt(cur, name)
    BY <1>2, <1>7, <1>14, <1>20, SignalAtKept
  <2>3. SignalAsRead(cur, name)
    BY <1>15 DEF MessageAsRead
  <2>4. messages'[cur].signals[name] = messages[cur].signals[name]
    BY <1>11, <1>12, <1>20
  <2> QED
    BY <1>1, <1>2, <1>8, <2>1, <2>2, <2>3, <2>4, SignalStays
<1>21. MessageAsRead(cur)'
  <2>1. ASSUME NEW name \in DOMAIN messages'[cur].signals PROVE SignalAsRead(cur, name)'
    <3>1. CASE name = line.name
      BY <1>19, <3>1
    <3>2. CASE name # line.name
      BY <1>11, <1>12, <1>20, <2>1, <3>2
    <3> QED
      BY <3>1, <3>2
  <2> QED
    BY <1>11, <1>18, <2>1 DEF MessageAsRead
<1> QED
  BY <1>1, <1>4, <1>5, <1>11, <1>13, <1>21, LineDone

LEMMA ValLineKeeps ==
  ASSUME DbcInv, NEW line \in fileKind.lines, ValLine(line)
  PROVE  DbcInv'
<1> DEFINE len == Len(file)
<1>1. /\ NextLine(line) /\ outcome = "reading" /\ UNCHANGED <<fileKind, outcome>>
      /\ line.kind = "VAL_" /\ curMsg' = NoId
  BY DEF ValLine, NextLine
<1>2. File /\ TakesLine(line)
  BY <1>1, LineRead
<1>3. DOMAIN messages = Ids /\ (\A id \in Ids : MessageAsRead(id))
  BY <1>1, AsRead
<1>4. Ids' = Ids
  BY <1>1, <1>2, IdsKept
<1>5. Current'
  BY <1>1, <1>2, NoCurrent
<1>6. \A id : SignalLines(id)' = SignalLines(id)
  BY <1>1, <1>2, SignalLinesKept
<1>7. CASE ~Known(line)
  <2>1. messages' = messages
    BY <1>7 DEF ValLine
  <2>2. ASSUME NEW id \in Ids PROVE MessageAsRead(id)'
    <3>1. ~(line.kind = "VAL_" /\ line.id = id /\ line.name \in DOMAIN messages[id].signals)
      BY <1>3, <1>7 DEF Known
    <3>2. messages'[id] = messages[id] /\ MessageAsRead(id)
      BY <1>3, <2>1
    <3> QED
      BY <1>2, <1>6, <3>1, <3>2, MessageStays
  <2> QED
    BY <1>1, <1>3, <1>4, <1>5, <2>1, <2>2, LineDone
<1>8. CASE Known(line)
  <2>1. PICK cur, own : cur = line.id /\ own = line.name
    OBVIOUS
  <2> DEFINE old == messages[cur].signals
             sig == old[own]
             new == Put(old, own, Labelled(sig, line.pairs))
             message == [signals |-> new]
  <2>2. cur \in Ids /\ own \in DOMAIN old
    BY <1>3, <1>8, <2>1 DEF Known
  <2>3. messages' = Put(messages, cur, message)
    BY <1>8, <2>1 DEF ValLine
  <2>4. message.signals = new
    OBVIOUS
  <2>5. /\ DOMAIN new = DOMAIN old /\ new[own] = Labelled(sig, line.pairs)
        /\ \A name \in DOMAIN old : name # own => new[name] = old[name]
    BY <2>2 DEF Put
  <2> HIDE DEF new, message
  <2>6. /\ DOMAIN messages' = Ids /\ messages'[cur] = message
        /\ \A id \in Ids : id # cur => messages'[id] = messages[id]
    BY <1>3, <2>2, <2>3 DEF Put
  <2>7. ASSUME NEW id \in Ids, id # cur PROVE MessageAsRead(id)'
    <3>1. messages'[id] = messages[id] /\ MessageAsRead(id) /\ line.id # id
      BY <1>3, <2>1, <2>6, <2>7
    <3> QED
      BY <1>2, <1>6, <3>1, MessageStays
  <2>8. MessageAsRead(cur)
    BY <1>3, <2>2
  <2>9. DOMAIN old = {file[p].name : p \in SignalLines(cur)}
    BY <2>8 DEF MessageAsRead
  <2>10. \A p \in SignalLines(cur) : p \in 1..len /\ file'[p] = file[p]
    BY <1>2 DEF SignalLines, Lines, File, TakesLine
  <2>11. DOMAIN new = {file'[p].name : p \in SignalLines(cur)'}
    BY <1>6, <2>5, <2>9, <2>10
  <2>12. ASSUME NEW name \in DOMAIN old, name # own PROVE SignalAsRead(cur, name)'
    <3>1. PICK at \in SignalLines(cur) : file[at].name = name
      BY <2>9
    <3>2. SignalAt(cur, name)' = SignalAt(cur, name)
      BY <1>2, <1>6, SignalAtKept
    <3>3. SignalAsRead(cur, name)
      BY <2>8 DEF MessageAsRead
    <3>4. messages'[cur].signals[name] = messages[cur].signals[name]
      BY <2>4, <2>5, <2>6, <2>12
    <3>5. line.name # name
      BY <2>1, <2>12
    <3> QED
      BY <1>2, <2>2, <3>1, <3>2, <3>3, <3>4, <3>5, SignalStays
  <2>13. SignalAsRead(cur, own)'
    <3>1. PICK at \in SignalLines(cur) : file[at].name = own
      BY <2>2, <2>9
    <3>2. PICK spot : spot = SignalAt(cur, own)
      OBVIOUS
    <3>3. spot \in SignalLines(cur) /\ SignalAt(cur, own)' = spot
      BY <1>2, <1>6, <3>1, <3>2, SignalAtBounds, SignalAtKept
    <3>4. spot \in 1..len /\ file'[spot] = file[spot] /\ file[spot].kind = "SG_"
      BY <2>10, <3>3 DEF SignalLines, Lines
    <3>5. SignalAsRead(cur, own)
      BY <2>2, <2>8 DEF MessageAsRead
    <3>6. PICK given, values, table, places, more :
            /\ given = file[spot].sig /\ values = sig.values /\ table = WithLabels(values, line.pairs)
            /\ places = LabelPlaces(cur, own) /\ more = {<<len + 1, k>> : k \in DOMAIN line.pairs}
      OBVIOUS
    <3>7. LabelLines(cur, own)' = LabelLines(cur, own) \cup {len + 1}
      BY <1>1, <1>2, <2>1, <3>2, <3>3, <3>4, LabelLinesKept
    <3>8. LabelPlaces(cur, own)' = places \cup more
      BY <1>2, <3>6, <3>7, PlacesKept
    <3>9. sig = [given EXCEPT !.values = values] /\ TableOf(values, places)
      BY <3>2, <3>5, <3>6 DEF SignalAsRead
    <3>10. \A p \in places : p[1] \in 1..Len(file)
      BY <1>2, <3>6, PlacesAre
    <3>11. TableOf(table, places \cup more)'
      BY <1>1, <1>2, <3>6, <3>9, <3>10, TableGrows
    <3>12. given \in [start : Int, length : Int, order : {"little", "big"}, signed : BOOLEAN,
                     factor : Int, offset : Int, values : {<<>>}]
      BY <1>2, <3>4, <3>6 DEF File, DbcLine
    <3>13. Labelled(sig, line.pairs) = [sig EXCEPT !.values = table]
      BY <3>6 DEF Labelled
    <3>14. [sig EXCEPT !.values = table] = [given EXCEPT !.values = table]
      BY <3>9, <3>12
    <3>15. [given EXCEPT !.values = table].values = table
      BY <3>12
    <3>16. messages'[cur].signals[own] = [given EXCEPT !.values = table]
      BY <2>4, <2>5, <2>6, <3>13, <3>14
    <3>17. file'[SignalAt(cur, own)'].sig = given
      BY <3>3, <3>4, <3>6
    <3> QED
      BY <3>8, <3>11, <3>15, <3>16, <3>17 DEF SignalAsRead
  <2>14. MessageAsRead(cur)'
    <3>1. messages'[cur].signals = new
      BY <2>4, <2>6
    <3>2. \A name \in DOMAIN new : SignalAsRead(cur, name)'
      BY <2>5, <2>12, <2>13
    <3> QED
      BY <2>11, <3>1, <3>2 DEF MessageAsRead
  <2> QED
    BY <1>1, <1>4, <1>5, <2>6, <2>7, <2>14, LineDone
<1> QED
  BY <1>7, <1>8

\* The database says what the lines say, for any file of any length: any ids, names,
\* signals and tables, in any order (parser.cpp:219-245).
THEOREM FileIsRead == DbcSpec => []ReadsTheFile
<1>1. DbcInit(Inputs) => DbcInv
  <2> SUFFICES ASSUME DbcInit(Inputs) PROVE DbcInv
    OBVIOUS
  <2>1. file = <<>> /\ messages = <<>> /\ curMsg = NoId /\ outcome = "reading" /\ fileKind \in Inputs
    BY DEF DbcInit
  <2>2. \A kind : Lines(kind) = {}
    BY <2>1 DEF Lines
  <2>3. ReadsTheFile
    BY <2>1, <2>2 DEF ReadsTheFile
  <2>4. Current
    BY <2>1, <2>2 DEF Current
  <2> QED
    BY <2>1, <2>3, <2>4 DEF DbcInv
<1>2. DbcInv /\ [DbcNext]_dbcVars => DbcInv'
  BY SkipKeeps, MessageLineKeeps, SignalLineKeeps, ValLineKeeps, OtherLineKeeps, EndKeeps DEF DbcNext
<1>3. DbcInv => ReadsTheFile
  BY DEF DbcInv
<1> QED
  BY <1>1, <1>2, <1>3, PTL DEF DbcSpec

-----------------------------------------------------------------------------
(* exec_capture: the invariant *)

PeerFrames == [id : Int, flags : SUBSET Flags, data : Seq(0..255)]
PeerLines ==
  {FrameLine(f) : f \in PeerFrames}
    \cup {SummaryLine(ok, count) : ok \in BOOLEAN, count \in Nat} \cup {Diagnostic}
Stages ==
  {"none", "start", "open", "send", "subscribe", "poll", "print", "exited", "reaped"}
Callers == {"fork", "forked", "read", "wait", "clock", "returned", "threw"}
Statuses == {0, 1, 127}
Results == [output : Seq(PeerLines), exit_code : Int, timed_out : BOOLEAN]

Shapes ==
  /\ pipe \in [Peers -> Seq(PeerLines)] /\ wrote \in [Peers -> Seq(PeerLines)]
  /\ result \in [Peers -> Results]
  /\ parent \in [Peers -> Callers] /\ child \in [Peers -> Stages]
  /\ exitStatus \in [Peers -> Int]
  /\ n \in [Peers -> Nat]
  /\ got \in PeerFrames /\ socket \in Seq(PeerFrames) /\ chan \in Seq(PeerFrames)

\* What p wrote is what was read and what is still in the pipe; a call that has
\* returned has waited for p, and if it did not kill p nothing is left in the pipe.
Kept(p) ==
  /\ result[p].output \o pipe[p] = wrote[p]
  /\ result[p].timed_out => parent[p] = "returned"
  /\ parent[p] = "returned" => child[p] = "reaped"
  /\ parent[p] = "returned" /\ ~result[p].timed_out
       => pipe[p] = <<>> /\ result[p].exit_code = exitStatus[p]

ExecInv == Shapes /\ \A p \in Peers : Kept(p)

LEMMA LinesAreLines ==
  /\ Diagnostic \in PeerLines
  /\ \A ok \in BOOLEAN, count \in Nat : SummaryLine(ok, count) \in PeerLines
  /\ \A f \in PeerFrames : FrameLine(f) \in PeerLines
  BY DEF PeerLines

LEMMA WrittenFrame ==
  ASSUME NEW i \in Nat
  PROVE  WriterFrame(i) \in PeerFrames /\ WriterFrame(i).id = Id
<1>1. DataLen \in Nat
  BY InteropAssumption
<1>2. \A j \in 1..DataLen : (254 + i + j) % 256 \in 0..255
  BY <1>1
<1>3. MakePayload(i) \in Seq(0..255)
  BY <1>1, <1>2 DEF MakePayload
<1>4. PeerFlags \subseteq Flags
  BY InteropAssumption DEF Flags
<1> QED
  BY <1>3, <1>4 DEF PeerFrames, WriterFrame, Id

-----------------------------------------------------------------------------
(* exec_capture: the process *)

MayWrite(p) == UNCHANGED <<pipe, wrote>> \/ \E line \in PeerLines : Writes(p, line)

\* A step of p, or of the medium: nobody has waited for p, and it may write a line.
Alive(p) ==
  /\ child[p] # "reaped"
  /\ parent' = parent /\ result' = result
  /\ child' \in [Peers -> Stages] /\ exitStatus' \in [Peers -> Int]
  /\ \A q \in Peers : q # p => child'[q] = child[q] /\ exitStatus'[q] = exitStatus[q]
  /\ MayWrite(p)

LEMMA AllStages ==
  /\ {"none", "start", "open", "send", "subscribe", "poll", "print", "exited", "reaped"} \subseteq Stages
  /\ {"fork", "forked", "read", "wait", "clock", "returned", "threw"} \subseteq Callers
  BY DEF Stages, Callers

LEMMA Stays ==
  ASSUME ExecInv, NEW p \in Peers, child[p] # "reaped",
         parent' = parent, result' = result, exitStatus' = exitStatus,
         NEW spot \in Stages, GoTo(p, spot), MayWrite(p)
  PROVE  Alive(p)
<1>1. child \in [Peers -> Stages] /\ exitStatus \in [Peers -> Int]
  BY DEF ExecInv, Shapes
<1>2. child' = [child EXCEPT ![p] = spot]
  BY DEF GoTo
<1> QED
  BY <1>1, <1>2 DEF Alive

LEMMA Leaves ==
  ASSUME ExecInv, NEW p \in Peers, child[p] # "reaped", parent' = parent, result' = result,
         NEW status \in Statuses, Exits(p, status), NEW line \in PeerLines, Writes(p, line)
  PROVE  Alive(p)
<1>1. child \in [Peers -> Stages] /\ exitStatus \in [Peers -> Int]
  BY DEF ExecInv, Shapes
<1>2. child' = [child EXCEPT ![p] = "exited"] /\ exitStatus' = [exitStatus EXCEPT ![p] = status]
  BY DEF Exits, GoTo
<1>4. "exited" \in Stages /\ status \in Int
  BY DEF Stages, Statuses
<1>3. MayWrite(p)
  BY DEF MayWrite
<1> QED
  BY <1>1, <1>2, <1>3, <1>4 DEF Alive

LEMMA AliveKeeps ==
  ASSUME ExecInv, NEW p \in Peers, Alive(p), n' \in [Peers -> Nat],
         got' \in PeerFrames, socket' \in Seq(PeerFrames), chan' \in Seq(PeerFrames)
  PROVE  ExecInv'
<1>1. /\ pipe \in [Peers -> Seq(PeerLines)] /\ wrote \in [Peers -> Seq(PeerLines)]
      /\ result \in [Peers -> Results] /\ parent \in [Peers -> Callers]
      /\ \A q \in Peers : Kept(q)
  BY DEF ExecInv, Shapes
<1>2. parent[p] # "returned" /\ UNCHANGED <<parent, result>>
  BY <1>1 DEF Alive, Kept
<1>3. CASE UNCHANGED <<pipe, wrote>>
  <2>1. Shapes'
    BY <1>1, <1>2, <1>3 DEF Shapes, Alive
  <2>2. ASSUME NEW q \in Peers PROVE Kept(q)'
    BY <1>1, <1>2, <1>3 DEF Kept, Alive
  <2> QED
    BY <2>1, <2>2 DEF ExecInv
<1>4. CASE \E line \in PeerLines : Writes(p, line)
  <2>1. PICK line \in PeerLines : Writes(p, line)
    BY <1>4
  <2>2. /\ pipe' = [pipe EXCEPT ![p] = Append(pipe[p], line)]
        /\ wrote' = [wrote EXCEPT ![p] = Append(wrote[p], line)]
    BY <2>1 DEF Writes
  <2>3. pipe' \in [Peers -> Seq(PeerLines)] /\ wrote' \in [Peers -> Seq(PeerLines)]
    BY <1>1, <2>2
  <2>4. Shapes'
    BY <1>1, <1>2, <2>3 DEF Shapes, Alive
  <2>5. Kept(p)'
    <3>1. result[p].output \in Seq(PeerLines) /\ pipe[p] \in Seq(PeerLines)
      BY <1>1 DEF Results
    <3>2. result[p].output \o Append(pipe[p], line) = Append(result[p].output \o pipe[p], line)
      <4> DEFINE a == result[p].output
                 b == pipe[p]
      <4>1. a \in Seq(PeerLines) /\ b \in Seq(PeerLines) /\ line \in PeerLines
        BY <3>1
      <4> HIDE DEF a, b
      <4>2. a \o Append(b, line) = Append(a \o b, line)
        BY SMTT(30), <4>1, AppendAfter
      <4> QED
        BY <4>2 DEF a, b
    <3>3. pipe'[p] = Append(pipe[p], line) /\ wrote'[p] = Append(wrote[p], line)
      BY <1>1, <2>2
    <3>4. result'[p].output \o pipe'[p] = wrote'[p]
      BY <1>1, <1>2, <3>2, <3>3 DEF Kept
    <3> QED
      BY <1>1, <1>2, <3>4 DEF Kept
  <2>6. ASSUME NEW q \in Peers, q # p PROVE Kept(q)'
    <3>1. pipe'[q] = pipe[q] /\ wrote'[q] = wrote[q]
      BY <1>1, <2>2, <2>6
    <3> QED
      BY <1>1, <1>2, <2>6, <3>1 DEF Kept, Alive
  <2> QED
    BY <2>4, <2>5, <2>6 DEF ExecInv
<1> QED
  BY <1>3, <1>4 DEF Alive, MayWrite

LEMMA ChildStepKeeps == ASSUME ExecInv, NEW p \in Peers, ChildStep(p) PROVE ExecInv'
<1> USE DEF At
<1>1. /\ child \in [Peers -> Stages] /\ exitStatus \in [Peers -> Int] /\ n \in [Peers -> Nat]
      /\ got \in PeerFrames /\ socket \in Seq(PeerFrames) /\ chan \in Seq(PeerFrames)
  BY DEF ExecInv, Shapes
<1>2. Writer \in Peers /\ Reader \in Peers /\ Count \in Nat
  BY InteropAssumption DEF Peers
<1>3. ASSUME Exec(p) \/ Open(p) PROVE ExecInv'
  <2>1. child[p] # "reaped" /\ UNCHANGED <<parent, result>>
    BY <1>3 DEF Exec, Open, execVars
  <2>2. UNCHANGED <<n, got, socket, chan>>
    BY <1>3 DEF Exec, Open, canVars
  <2>3. \/ /\ \E spot \in Stages : GoTo(p, spot)
           /\ UNCHANGED <<pipe, wrote, exitStatus>>
        \/ \E line \in PeerLines, status \in Statuses : Writes(p, line) /\ Exits(p, status)
    <3>1. Diagnostic \in PeerLines /\ SummaryLine(FALSE, 0) \in PeerLines
      BY LinesAreLines
    <3>2. 127 \in Statuses /\ 1 \in Statuses /\ {"open", "send", "subscribe"} \subseteq Stages
      BY DEF Statuses, Stages
    <3>3. CASE Exec(p)
      BY <3>1, <3>2, <3>3 DEF Exec
    <3>4. CASE Open(p)
      <4> DEFINE next == IF p = Writer THEN "send" ELSE "subscribe"
      <4>1. next \in Stages
        BY <3>2
      <4> HIDE DEF next
      <4>2. \/ GoTo(p, next) /\ UNCHANGED <<pipe, wrote, exitStatus>>
            \/ Writes(p, SummaryLine(FALSE, 0)) /\ Exits(p, 1)
        BY <3>4 DEF Open, next
      <4> QED
        BY <3>1, <3>2, <4>1, <4>2
    <3> QED
      BY <1>3, <3>3, <3>4
  <2>4. Alive(p)
    BY <2>1, <2>3, Stays, Leaves DEF MayWrite
  <2> QED
    BY <1>1, <2>2, <2>4, AliveKeeps
<1>4. ASSUME WriterSends PROVE ExecInv'
  <2>1. Alive(Writer)
    <3>1. /\ child[Writer] # "reaped" /\ UNCHANGED <<parent, result, exitStatus>>
          /\ GoTo(Writer, "print") /\ "print" \in Stages
      BY <1>4 DEF WriterSends, execVars, Stages
    <3>2. MayWrite(Writer)
      BY <1>4 DEF WriterSends, MayWrite
    <3> QED
      BY <1>2, <3>1, <3>2, Stays
  <2>2. socket' \in Seq(PeerFrames)
    <3>1. WriterFrame(n[Writer]) \in PeerFrames
      BY <1>1, <1>2, WrittenFrame
    <3>2. OnWire(WriterFrame(n[Writer]))
      BY <1>4 DEF WriterSends
    <3> QED
      BY <1>1, <3>1, <3>2 DEF OnWire
  <2>3. UNCHANGED <<n, got, chan>>
    BY <1>4 DEF WriterSends
  <2> QED
    BY <1>1, <1>2, <2>1, <2>2, <2>3, AliveKeeps
<1>5. ASSUME WriterPrints PROVE ExecInv'
  <2>1. FrameLine(WriterFrame(n[Writer])) \in PeerLines
    BY <1>1, <1>2, WrittenFrame, LinesAreLines
  <2>2. Alive(Writer)
    <3>1. /\ child[Writer] # "reaped" /\ UNCHANGED <<parent, result, exitStatus>>
          /\ GoTo(Writer, "send") /\ "send" \in Stages
      BY <1>5 DEF WriterPrints, execVars, Stages
    <3>2. MayWrite(Writer)
      BY <1>5, <2>1 DEF WriterPrints, MayWrite
    <3> QED
      BY <1>2, <3>1, <3>2, Stays
  <2>3. n' \in [Peers -> Nat] /\ UNCHANGED <<got, socket, chan>>
    BY <1>1, <1>2, <1>5 DEF WriterPrints, canVars
  <2> QED
    BY <1>1, <1>2, <2>2, <2>3, AliveKeeps
<1>6. ASSUME WriterEnds PROVE ExecInv'
  <2>1. SummaryLine(TRUE, Count) \in PeerLines
    BY <1>2, LinesAreLines
  <2>2. Alive(Writer)
    <3>1. child[Writer] # "reaped" /\ UNCHANGED <<parent, result>>
      BY <1>6 DEF WriterEnds, execVars
    <3>2. Writes(Writer, SummaryLine(TRUE, Count)) /\ Exits(Writer, 0) /\ 0 \in Statuses
      BY <1>6 DEF WriterEnds, Statuses
    <3> QED
      BY <1>2, <2>1, <3>1, <3>2, Leaves
  <2>3. UNCHANGED <<n, got, socket, chan>>
    BY <1>6 DEF WriterEnds, canVars
  <2> QED
    BY <1>1, <1>2, <2>2, <2>3, AliveKeeps
<1>7. ASSUME ReaderSubscribes PROVE ExecInv'
  <2>1. Alive(Reader)
    <3>1. /\ child[Reader] # "reaped" /\ UNCHANGED <<parent, result, exitStatus>>
          /\ GoTo(Reader, "poll") /\ "poll" \in Stages
      BY <1>7 DEF ReaderSubscribes, execVars, Stages
    <3>2. MayWrite(Reader)
      BY <1>7 DEF ReaderSubscribes, MayWrite
    <3> QED
      BY <1>2, <3>1, <3>2, Stays
  <2>2. UNCHANGED <<n, got, socket, chan>>
    BY <1>7 DEF ReaderSubscribes, canVars
  <2> QED
    BY <1>1, <1>2, <2>1, <2>2, AliveKeeps
<1>8. ASSUME ReaderTakes PROVE ExecInv'
  <2>1. Alive(Reader)
    <3>1. /\ child[Reader] # "reaped" /\ UNCHANGED <<parent, result, exitStatus>>
          /\ GoTo(Reader, "print") /\ "print" \in Stages
      BY <1>8 DEF ReaderTakes, execVars, Stages
    <3>2. MayWrite(Reader)
      BY <1>8 DEF ReaderTakes, MayWrite
    <3> QED
      BY <1>2, <3>1, <3>2, Stays
  <2>2. got' \in PeerFrames /\ chan' \in Seq(PeerFrames) /\ UNCHANGED <<n, socket>>
    BY <1>1, <1>8 DEF ReaderTakes
  <2> QED
    BY <1>1, <1>2, <2>1, <2>2, AliveKeeps
<1>9. ASSUME ReaderPrints PROVE ExecInv'
  <2>1. FrameLine(got) \in PeerLines
    BY <1>1, LinesAreLines
  <2>2. Alive(Reader)
    <3>1. /\ child[Reader] # "reaped" /\ UNCHANGED <<parent, result, exitStatus>>
          /\ GoTo(Reader, "poll") /\ "poll" \in Stages
      BY <1>9 DEF ReaderPrints, execVars, Stages
    <3>2. MayWrite(Reader)
      BY <1>9, <2>1 DEF ReaderPrints, MayWrite
    <3> QED
      BY <1>2, <3>1, <3>2, Stays
  <2>3. n' \in [Peers -> Nat] /\ got' \in PeerFrames /\ UNCHANGED <<socket, chan>>
    BY <1>1, <1>2, <1>9 DEF ReaderPrints, canVars, NoFrame, PeerFrames
  <2> QED
    BY <1>1, <1>2, <2>2, <2>3, AliveKeeps
<1>10. ASSUME ReaderEnds PROVE ExecInv'
  <2> DEFINE ok == n[Reader] = Count
  <2>1. SummaryLine(ok, n[Reader]) \in PeerLines
    BY <1>1, <1>2, LinesAreLines
  <2>2. Writes(Reader, SummaryLine(ok, n[Reader])) /\ Exits(Reader, IF ok THEN 0 ELSE 1)
    BY <1>10 DEF ReaderEnds
  <2> HIDE DEF ok
  <2>3. Alive(Reader)
    <3>1. child[Reader] # "reaped" /\ UNCHANGED <<parent, result>>
      BY <1>10 DEF ReaderEnds, execVars
    <3>2. (IF ok THEN 0 ELSE 1) \in Statuses
      BY DEF Statuses
    <3> QED
      BY <1>2, <2>1, <2>2, <3>1, <3>2, Leaves
  <2>4. socket' = <<>> /\ chan' = <<>> /\ UNCHANGED <<n, got>>
    BY <1>10 DEF ReaderEnds
  <2> QED
    BY <1>1, <1>2, <2>3, <2>4, AliveKeeps
<1> QED
  BY <1>3, <1>4, <1>5, <1>6, <1>7, <1>8, <1>9, <1>10 DEF ChildStep, WriterStep, ReaderStep

LEMMA WriterFailsKeeps == ASSUME ExecInv, WriterFails PROVE ExecInv'
<1>1. /\ child \in [Peers -> Stages] /\ exitStatus \in [Peers -> Int] /\ n \in [Peers -> Nat]
      /\ got \in PeerFrames /\ socket \in Seq(PeerFrames) /\ chan \in Seq(PeerFrames) /\ Writer \in Peers
  BY DEF ExecInv, Shapes, Peers
<1>2. SummaryLine(FALSE, n[Writer]) \in PeerLines
  BY <1>1, LinesAreLines
<1>3. Alive(Writer)
  <2>1. child[Writer] # "reaped" /\ UNCHANGED <<parent, result>>
    BY DEF WriterFails, At, execVars
  <2>2. Writes(Writer, SummaryLine(FALSE, n[Writer])) /\ Exits(Writer, 1) /\ 1 \in Statuses
    BY DEF WriterFails, Statuses
  <2> QED
    BY <1>1, <1>2, <2>1, <2>2, Leaves
<1>4. UNCHANGED <<n, got, socket, chan>>
  BY DEF WriterFails, canVars
<1> QED
  BY <1>1, <1>3, <1>4, AliveKeeps

\* The medium and the time touch neither process nor caller.
LEMMA MediumKeeps == ASSUME ExecInv, Pump \/ Overdue \/ OtherNodeSends PROVE ExecInv'
<1>1. /\ UNCHANGED <<parent, result, child, exitStatus, pipe, wrote, n, got>>
      /\ socket \in Seq(PeerFrames) /\ chan \in Seq(PeerFrames)
  BY DEF Pump, Overdue, OtherNodeSends, execVars, peerVars, ExecInv, Shapes
<1>2. socket' \in Seq(PeerFrames) /\ chan' \in Seq(PeerFrames)
  <2>1. CASE Pump
    BY <1>1, <2>1 DEF Pump
  <2>2. CASE Overdue
    BY <1>1, <2>2 DEF Overdue, canVars
  <2>3. CASE OtherNodeSends
    <3>1. PICK f \in Noise : OnWire(f)
      BY <2>3 DEF OtherNodeSends
    <3>2. f \in PeerFrames
      BY InteropAssumption DEF PeerFrames
    <3> QED
      BY <1>1, <2>3, <3>1, <3>2 DEF OnWire, OtherNodeSends
  <2> QED
    BY <2>1, <2>2, <2>3
<1>3. Shapes'
  BY <1>1, <1>2 DEF ExecInv, Shapes
<1>4. ASSUME NEW p \in Peers PROVE Kept(p)'
  BY <1>1 DEF ExecInv, Kept
<1> QED
  BY <1>3, <1>4 DEF ExecInv

-----------------------------------------------------------------------------
(* exec_capture: the caller *)

\* A step of the caller of p: what becomes of the call, the process, the pipe and the
\* result; the other peer and what was written are left alone.
Turns(p, where, spot, left, r) ==
  /\ where \in Callers /\ spot \in Stages /\ left \in Seq(PeerLines) /\ r \in Results
  /\ parent' = [parent EXCEPT ![p] = where] /\ child' = [child EXCEPT ![p] = spot]
  /\ pipe' = [pipe EXCEPT ![p] = left] /\ result' = [result EXCEPT ![p] = r]
  /\ UNCHANGED <<exitStatus, wrote, n, got, socket, chan>>
  /\ r.output \o left = wrote[p] /\ (r.timed_out => where = "returned")
  /\ where = "returned" => spot = "reaped"
  /\ where = "returned" /\ ~r.timed_out => left = <<>> /\ r.exit_code = exitStatus[p]

LEMMA CallerKeeps ==
  ASSUME ExecInv, NEW p \in Peers, NEW where, NEW spot, NEW left, NEW r, Turns(p, where, spot, left, r)
  PROVE  ExecInv'
<1>1. Shapes'
  BY DEF ExecInv, Shapes, Turns
<1>2. Kept(p)'
  BY DEF ExecInv, Shapes, Kept, Turns
<1>3. ASSUME NEW q \in Peers, q # p PROVE Kept(q)'
  <2>1. /\ parent'[q] = parent[q] /\ child'[q] = child[q] /\ pipe'[q] = pipe[q]
        /\ result'[q] = result[q] /\ wrote'[q] = wrote[q] /\ exitStatus'[q] = exitStatus[q]
    BY <1>3 DEF ExecInv, Shapes, Turns
  <2>2. Kept(q)
    BY DEF ExecInv
  <2> QED
    BY <2>1, <2>2 DEF Kept
<1> QED
  BY <1>1, <1>2, <1>3 DEF ExecInv

LEMMA ParentStepKeeps ==
  ASSUME ExecInv, NEW p \in Peers, Fork(p) \/ ParentStep(p) \/ TimePasses(p)
  PROVE  ExecInv'
<1> DEFINE r == result[p]
<1>1. /\ parent \in [Peers -> Callers] /\ child \in [Peers -> Stages] /\ pipe \in [Peers -> Seq(PeerLines)]
      /\ result \in [Peers -> Results] /\ r \in Results
      /\ parent[p] \in Callers /\ child[p] \in Stages /\ pipe[p] \in Seq(PeerLines)
      /\ r.output \in Seq(PeerLines) /\ r.exit_code \in Int /\ r.timed_out \in BOOLEAN
      /\ exitStatus[p] \in Int
  BY DEF ExecInv, Shapes, Results
<1>2. Kept(p)
  BY DEF ExecInv
<1>3. /\ pipe = [pipe EXCEPT ![p] = pipe[p]] /\ result = [result EXCEPT ![p] = r]
      /\ child = [child EXCEPT ![p] = child[p]] /\ parent = [parent EXCEPT ![p] = parent[p]]
  BY <1>1
<1> HIDE DEF r
<1>4. /\ r.output \o pipe[p] = wrote[p] /\ (r.timed_out => parent[p] = "returned")
      /\ (parent[p] = "returned" => child[p] = "reaped")
  BY <1>2 DEF Kept, r
<1>5. /\ {"fork", "forked", "read", "wait", "clock", "returned", "threw"} \subseteq Callers
      /\ {"start", "reaped"} \subseteq Stages
  BY AllStages
<1>6. ASSUME Fork(p) PROVE ExecInv'
  <2>1. /\ parent[p] = "fork" /\ UNCHANGED <<exitStatus, wrote, n, got, socket, chan>>
        /\ result' = result /\ pipe' = pipe
    BY <1>6 DEF Fork, canVars
  <2>2. CASE Calls(p, "forked") /\ GoTo(p, "start")
    <3>1. Turns(p, "forked", "start", pipe[p], r)
      BY <1>1, <1>3, <1>4, <1>5, <2>1, <2>2 DEF Turns, GoTo, Calls
    <3> QED
      BY <3>1, CallerKeeps
  <2>3. CASE Calls(p, "threw") /\ UNCHANGED child
    <3>1. Turns(p, "threw", child[p], pipe[p], r)
      BY <1>1, <1>3, <1>4, <1>5, <2>1, <2>3 DEF Turns, Calls
    <3> QED
      BY <3>1, CallerKeeps
  <2> QED
    BY <1>6, <2>2, <2>3 DEF Fork
<1>13. ASSUME SetNonBlocking(p) PROVE ExecInv'
  <2>1. /\ parent[p] = "forked" /\ UNCHANGED <<exitStatus, wrote, n, got, socket, chan>>
        /\ result' = result /\ pipe' = pipe
    BY <1>13 DEF SetNonBlocking, canVars
  <2>2. CASE Calls(p, "read") /\ UNCHANGED child
    <3>1. Turns(p, "read", child[p], pipe[p], r)
      BY <1>1, <1>3, <1>4, <1>5, <2>1, <2>2 DEF Turns, Calls
    <3> QED
      BY <3>1, CallerKeeps
  <2>3. CASE Calls(p, "threw") /\ GoTo(p, "reaped")
    <3>1. Turns(p, "threw", "reaped", pipe[p], r)
      BY <1>1, <1>3, <1>4, <1>5, <2>1, <2>3 DEF Turns, GoTo, Calls
    <3> QED
      BY <3>1, CallerKeeps
  <2> QED
    BY <1>13, <2>2, <2>3 DEF SetNonBlocking
<1>7. ASSUME ReadSome(p) PROVE ExecInv'
  <2>1. /\ parent[p] = "read" /\ UNCHANGED <<exitStatus, wrote, n, got, socket, chan>>
        /\ parent' = parent /\ child' = child /\ Takes(p)
    BY <1>7 DEF ReadSome, peerVars, canVars
  <2> DEFINE taken == r.output \o pipe[p]
             r2 == [r EXCEPT !.output = taken]
  <2>2. result' = [result EXCEPT ![p] = r2] /\ pipe' = [pipe EXCEPT ![p] = <<>>]
    BY <1>1, <2>1 DEF Takes, r, Results
  <2>3. taken \in Seq(PeerLines) /\ taken \o <<>> = taken /\ <<>> \in Seq(PeerLines)
    BY <1>1
  <2>4. taken = wrote[p]
    BY <1>4
  <2> HIDE DEF taken
  <2>5. r2 \in Results /\ r2.output = taken /\ r2.timed_out = r.timed_out
    BY <1>1, <2>3 DEF Results
  <2> HIDE DEF r2
  <2>6. Turns(p, "read", child[p], <<>>, r2)
    BY <1>1, <1>3, <1>4, <1>5, <2>1, <2>2, <2>3, <2>4, <2>5 DEF Turns
  <2> QED
    BY <2>6, CallerKeeps
<1>8. ASSUME ReadEnd(p) PROVE ExecInv'
  <2>1. /\ parent[p] = "read" /\ pipe[p] = <<>> /\ UNCHANGED <<exitStatus, wrote, n, got, socket, chan>>
        /\ pipe' = pipe /\ Returns(p) /\ result' = [result EXCEPT ![p].exit_code = exitStatus[p]]
    BY <1>8 DEF ReadEnd, canVars
  <2> DEFINE r2 == [r EXCEPT !.exit_code = exitStatus[p]]
  <2>2. result' = [result EXCEPT ![p] = r2]
    BY <1>1, <2>1 DEF r, Results
  <2>3. /\ r2 \in Results /\ r2.output = r.output /\ r2.timed_out = r.timed_out
        /\ r2.exit_code = exitStatus[p]
    BY <1>1 DEF Results
  <2> HIDE DEF r2
  <2>4. Turns(p, "returned", "reaped", pipe[p], r2)
    BY <1>1, <1>3, <1>4, <1>5, <2>1, <2>2, <2>3 DEF Turns, Returns, GoTo, Calls
  <2> QED
    BY <2>4, CallerKeeps
<1>9. ASSUME ReadNothing(p) PROVE ExecInv'
  <2>1. /\ parent[p] = "read" /\ UNCHANGED <<exitStatus, wrote, n, got, socket, chan>>
        /\ result' = result /\ pipe' = pipe /\ child' = child /\ parent' = [parent EXCEPT ![p] = "wait"]
    BY <1>9 DEF ReadNothing, peerVars, canVars, Calls
  <2>2. Turns(p, "wait", child[p], pipe[p], r)
    BY <1>1, <1>3, <1>4, <1>5, <2>1 DEF Turns
  <2> QED
    BY <2>2, CallerKeeps
<1>10. ASSUME WaitPid(p) PROVE ExecInv'
  <2>1. /\ parent[p] = "wait" /\ UNCHANGED <<exitStatus, wrote, n, got, socket, chan>>
    BY <1>10 DEF WaitPid, canVars
  <2>2. CASE /\ Returns(p) /\ pipe' = [pipe EXCEPT ![p] = <<>>]
             /\ result' = [result EXCEPT ![p].output = @ \o pipe[p], ![p].exit_code = exitStatus[p]]
    <3> DEFINE taken == r.output \o pipe[p]
               r2 == [r EXCEPT !.output = taken, !.exit_code = exitStatus[p]]
    <3>2. result' = [result EXCEPT ![p] = r2]
      BY <1>1, <2>2 DEF r, Results
    <3>3. taken \in Seq(PeerLines) /\ taken \o <<>> = taken /\ <<>> \in Seq(PeerLines)
      BY <1>1
    <3>4. taken = wrote[p]
      BY <1>4
    <3> HIDE DEF taken
    <3>5. /\ r2 \in Results /\ r2.output = taken /\ r2.timed_out = r.timed_out
          /\ r2.exit_code = exitStatus[p]
      BY <1>1, <3>3 DEF Results
    <3> HIDE DEF r2
    <3>6. Turns(p, "returned", "reaped", <<>>, r2)
      BY <1>1, <1>3, <1>4, <1>5, <2>1, <2>2, <3>2, <3>3, <3>4, <3>5 DEF Turns, Returns, GoTo, Calls
    <3> QED
      BY <3>6, CallerKeeps
  <2>3. CASE Calls(p, "clock") /\ UNCHANGED <<child, result, pipe>>
    <3>1. Turns(p, "clock", child[p], pipe[p], r)
      BY <1>1, <1>3, <1>4, <1>5, <2>1, <2>3 DEF Turns, Calls
    <3> QED
      BY <3>1, CallerKeeps
  <2> QED
    BY <1>10, <2>2, <2>3 DEF WaitPid
<1>11. ASSUME Clock(p) PROVE ExecInv'
  <2>1. /\ parent[p] = "clock" /\ UNCHANGED <<exitStatus, wrote, n, got, socket, chan>> /\ pipe' = pipe
    BY <1>11 DEF Clock, canVars
  <2>2. CASE Returns(p) /\ result' = [result EXCEPT ![p].timed_out = TRUE]
    <3> DEFINE r2 == [r EXCEPT !.timed_out = TRUE]
    <3>1. result' = [result EXCEPT ![p] = r2]
      BY <1>1, <2>2 DEF r, Results
    <3>2. r2 \in Results /\ r2.output = r.output /\ r2.timed_out
      BY <1>1 DEF Results
    <3> HIDE DEF r2
    <3>3. Turns(p, "returned", "reaped", pipe[p], r2)
      BY <1>1, <1>3, <1>4, <1>5, <2>1, <2>2, <3>1, <3>2 DEF Turns, Returns, GoTo, Calls
    <3> QED
      BY <3>3, CallerKeeps
  <2>3. CASE Calls(p, "read") /\ UNCHANGED <<child, result>>
    <3>1. Turns(p, "read", child[p], pipe[p], r)
      BY <1>1, <1>3, <1>4, <1>5, <2>1, <2>3 DEF Turns, Calls
    <3> QED
      BY <3>1, CallerKeeps
  <2> QED
    BY <1>11, <2>2, <2>3 DEF Clock
<1>12. ASSUME TimePasses(p) PROVE ExecInv'
  <2>1. UNCHANGED <<parent, result, child, exitStatus, n, got, socket, chan, pipe, wrote>>
    BY <1>12 DEF TimePasses, peerVars, canVars
  <2> QED
    BY <2>1 DEF ExecInv, Shapes, Kept
<1> QED
  BY <1>6, <1>7, <1>8, <1>9, <1>10, <1>11, <1>12, <1>13 DEF ParentStep

\* The invariant holds in every state (interop_common.hpp:144-183).
LEMMA ExecAlways == InteropSpec => []ExecInv
<1>1. InteropInit => ExecInv
  <2> SUFFICES ASSUME InteropInit PROVE ExecInv
    OBVIOUS
  <2>1. /\ <<>> \in Seq(PeerLines) /\ <<>> \in Seq(PeerFrames) /\ NoFrame \in PeerFrames
        /\ [output |-> <<>>, exit_code |-> -1, timed_out |-> FALSE] \in Results
    BY DEF NoFrame, PeerFrames, Results
  <2>2. Shapes
    BY <2>1, AllStages DEF InteropInit, Shapes
  <2>3. ASSUME NEW p \in Peers PROVE Kept(p)
    <3>1. /\ result[p].output = <<>> /\ result[p].timed_out = FALSE /\ pipe[p] = <<>> /\ wrote[p] = <<>>
          /\ parent[p] = "fork"
      BY DEF InteropInit
    <3> QED
      BY <3>1 DEF Kept
  <2> QED
    BY <2>2, <2>3 DEF ExecInv
<1>2. ExecInv /\ [InteropNext]_interopVars => ExecInv'
  <2> SUFFICES ASSUME ExecInv, [InteropNext]_interopVars PROVE ExecInv'
    OBVIOUS
  <2>1. CASE UNCHANGED interopVars
    <3>1. UNCHANGED <<parent, result, child, exitStatus, n, got, socket, chan, pipe, wrote>>
      BY <2>1 DEF interopVars, execVars, peerVars, canVars
    <3> QED
      BY <3>1 DEF ExecInv, Shapes, Kept
  <2> QED
    BY <2>1, ParentStepKeeps, ChildStepKeeps, WriterFailsKeeps, MediumKeeps DEF InteropNext
<1> QED
  BY <1>1, <1>2, PTL DEF InteropSpec

\* Whatever the processes write and however they end, exec_capture gives back all of
\* it with the exit code, or, of a process it killed, a part from the start, and has
\* waited for the process (interop_common.hpp:144-183).
THEOREM OutputCaptured == InteropSpec => []OutputWhole
<1>1. ExecInv => OutputWhole
  <2> SUFFICES ASSUME ExecInv, NEW p \in Peers, parent[p] = "returned"
               PROVE  /\ child[p] = "reaped"
                      /\ IF result[p].timed_out THEN IsPrefix(result[p].output, wrote[p])
                         ELSE result[p].output = wrote[p] /\ result[p].exit_code = exitStatus[p]
    BY DEF OutputWhole
  <2> DEFINE a == result[p].output
  <2>1. a \in Seq(PeerLines) /\ pipe[p] \in Seq(PeerLines) /\ Kept(p)
    BY DEF ExecInv, Shapes, Results
  <2>2. a \o pipe[p] = wrote[p]
    BY <2>1 DEF Kept
  <2> HIDE DEF a
  <2>3. IsPrefix(a, wrote[p])
    BY <2>1, <2>2, PrefixOfConcat
  <2>4. pipe[p] = <<>> => a = wrote[p]
    BY <2>1, <2>2
  <2> QED
    BY <2>1, <2>3, <2>4 DEF Kept, a
<1> QED
  BY <1>1, ExecAlways, PTL

-----------------------------------------------------------------------------
(* The two peers agree: the invariant *)

LastLine(p) == wrote[p][n[p] + 1]
TellsOk(line) == KindOf(line) = "summary" /\ BoolOf(line, "ok")

\* The caller of p killed it, or never started it.
Killed(p) == result[p].timed_out \/ parent[p] = "threw"

\* What p has written follows from where it is: one line for each frame it counts and,
\* once it has ended, one line more, which tells success if and only if its exit code
\* does.  Of a process that was killed only the frames are certain.
Story(p) ==
  /\ parent[p] = "fork" => child[p] = "none"
  /\ n[p] <= Len(wrote[p])
  /\ \A i \in 1..n[p] : KindOf(wrote[p][i]) = "frame"
  /\ child[p] \in {"none", "start", "open", "subscribe"} => n[p] = 0
  /\ child[p] \notin {"exited", "reaped"} => Len(wrote[p]) = n[p]
  /\ child[p] = "exited" \/ (child[p] = "reaped" /\ ~Killed(p)) =>
       /\ Len(wrote[p]) = n[p] + 1
       /\ KindOf(LastLine(p)) # "frame"
       /\ exitStatus[p] = 0 <=> TellsOk(LastLine(p))
       /\ exitStatus[p] = 0 => n[p] = Count

WriterStory == \A i \in 1..n[Writer] : wrote[Writer][i] = FrameLine(WriterFrame(i - 1))

\* Frames the writer has put on the wire, and frames the reader has taken.
One(b) == IF b THEN 1 ELSE 0
SentSoFar == n[Writer] + One(child[Writer] = "print")
Taken == n[Reader] + One(child[Reader] = "print")

\* g[i] counts the frames of the id that the reader has taken or still may, among those
\* up to place i of its socket; nothing else gets into its channel.
Tracks(g) ==
  /\ g \in [0..Len(socket) -> Int]
  /\ g[0] = Taken + Len(chan)
  /\ \A i \in 1..Len(socket) : g[i] = g[i - 1] + One(socket[i].id = Id)
  /\ \A i \in 0..Len(socket) : g[i] <= g[Len(socket)]

Seen(g) == g[Len(socket)]

\* The reader has missed nothing: printed lines, the frame in hand, channel and socket
\* are what the writer sent, in its order, with other frames in between in the socket.
InStep(g) ==
  /\ Seen(g) = SentSoFar
  /\ \A i \in 1..n[Reader] : wrote[Reader][i] = FrameLine(WriterFrame(i - 1))
  /\ child[Reader] = "print" => got = WriterFrame(n[Reader])
  /\ \A i \in 1..Len(chan) : chan[i] = WriterFrame(Taken + i - 1)
  /\ \A i \in 1..Len(socket) : socket[i].id = Id => socket[i] = WriterFrame(g[i - 1])

\* A reader that missed a frame stays behind for ever and never gets to Count.
Holds(g) == Tracks(g) /\ (Seen(g) < SentSoFar \/ InStep(g))

Quiet == \A i \in DOMAIN noise : noise[i].id # Id
Tally == Quiet /\ ~Killed(Writer) => \E g : Holds(g)

AgreeInv ==
  /\ noise \in Seq(PeerFrames)
  /\ \A p \in Peers : Story(p)
  /\ WriterStory
  /\ Tally

LEMMA LineKinds ==
  /\ \A f \in PeerFrames : KindOf(FrameLine(f)) = "frame" /\ ~TellsOk(FrameLine(f))
  /\ KindOf(Diagnostic) # "frame" /\ ~TellsOk(Diagnostic)
  /\ \A ok \in BOOLEAN, count \in Nat :
       KindOf(SummaryLine(ok, count)) # "frame" /\ (TellsOk(SummaryLine(ok, count)) <=> ok)
  BY DEF TellsOk, KindOf, FrameLine, Diagnostic, SummaryLine, ValueOf, BoolOf, HasA, Text, Bool, Num

\* What both invariants say of the values of the variables.
LEMMA PeerShapes ==
  ASSUME ExecInv, NEW p \in Peers
  PROVE  /\ wrote[p] \in Seq(PeerLines) /\ n[p] \in Nat /\ child[p] \in Stages /\ exitStatus[p] \in Int
         /\ result[p] \in Results /\ result[p].timed_out \in BOOLEAN /\ parent[p] \in Callers
         /\ chan \in Seq(PeerFrames) /\ socket \in Seq(PeerFrames)
         /\ Writer \in Peers /\ Reader \in Peers /\ Writer # Reader /\ Peers = {Writer, Reader}
  BY SMTT(30), InteropAssumption DEF ExecInv, Shapes, Results, Peers

LEMMA Counts ==
  ASSUME ExecInv
  PROVE  /\ n[Writer] \in Nat /\ n[Reader] \in Nat /\ Len(chan) \in Nat /\ Len(socket) \in Nat
         /\ One(child[Writer] = "print") \in Nat /\ One(child[Reader] = "print") \in Nat
         /\ Taken \in Nat /\ SentSoFar \in Nat
  BY SMTT(30), PeerShapes DEF Taken, SentSoFar, One, Peers

\* Who does nothing keeps his story.
LEMMA StoryStays ==
  ASSUME NEW p \in Peers, Story(p), wrote'[p] = wrote[p], n'[p] = n[p], child'[p] = child[p],
         exitStatus'[p] = exitStatus[p], result'[p].timed_out = result[p].timed_out,
         parent'[p] = parent[p]
  PROVE  Story(p)'
  BY DEF Story, LastLine, Killed

LEMMA WriterStays ==
  ASSUME WriterStory, n'[Writer] = n[Writer],
         \A i \in 1..n[Writer] : wrote'[Writer][i] = wrote[Writer][i]
  PROVE  WriterStory'
  BY DEF WriterStory

\* A step of p on which no frame and no line depends.
LEMMA TallyStays ==
  ASSUME Tally, n' = n, \A i \in 1..n[Reader] : wrote'[Reader][i] = wrote[Reader][i],
         got' = got, chan' = chan, socket' = socket, noise' = noise,
         Killed(Writer) => Killed(Writer)',
         (child'[Writer] = "print") = (child[Writer] = "print"),
         (child'[Reader] = "print") = (child[Reader] = "print")
  PROVE  Tally'
<1>1. SentSoFar' = SentSoFar /\ Taken' = Taken
  BY DEF SentSoFar, Taken, One
<1>2. ASSUME NEW g, Holds(g) PROVE Holds(g)'
  BY <1>1, <1>2 DEF Holds, Tracks, Seen, InStep
<1> QED
  BY <1>2 DEF Tally, Quiet

\* A frame enters the socket: one more that was sent, or another node's.
LEMMA SocketGrows ==
  ASSUME ExecInv, NEW g, Holds(g), NEW f \in PeerFrames, socket' = Append(socket, f),
         f.id = Id => f = WriterFrame(SentSoFar), SentSoFar' = SentSoFar + One(f.id = Id),
         Taken' = Taken, UNCHANGED <<chan, got, wrote, n>>, child'[Reader] = child[Reader]
  PROVE  \E h : Holds(h)'
<1> DEFINE m == Len(socket)
           more == One(f.id = Id)
<1>1. /\ m \in Nat /\ Len(socket') = m + 1 /\ socket'[m + 1] = f
      /\ \A i \in 1..m : socket'[i] = socket[i]
  BY DEF ExecInv, Shapes
<1>2. more \in {0, 1} /\ (more = 1 <=> f.id = Id)
  BY DEF One
<1>3. /\ g \in [0..m -> Int] /\ g[0] = Taken + Len(chan)
      /\ \A i \in 1..m : g[i] = g[i - 1] + One(socket[i].id = Id)
      /\ \A i \in 0..m : g[i] <= g[m]
      /\ g[m] < SentSoFar \/ InStep(g)
  BY DEF Holds, Tracks, Seen
<1>4. SentSoFar' = SentSoFar + more
  OBVIOUS
<1> HIDE DEF m, more
<1>5. PICK h : h = [i \in 0..(m + 1) |-> IF i = m + 1 THEN g[m] + more ELSE g[i]]
  OBVIOUS
<1>6. /\ h \in [0..(m + 1) -> Int] /\ h[m + 1] = g[m] + more /\ g[m] \in Int
      /\ \A i \in 0..m : h[i] = g[i]
  BY <1>1, <1>2, <1>3, <1>5
<1>7. Tracks(h)'
  <2>1. h[0] = Taken' + Len(chan')
    BY <1>1, <1>3, <1>6
  <2>2. ASSUME NEW i \in 1..(m + 1) PROVE h[i] = h[i - 1] + One(socket'[i].id = Id)
    <3>1. CASE i = m + 1
      <4>1. i - 1 = m /\ m \in 0..m
        BY <1>1, <3>1
      <4> QED
        BY <1>1, <1>6, <3>1, <4>1 DEF more
    <3>2. CASE i \in 1..m
      <4>1. i \in 0..m /\ i - 1 \in 0..m
        BY <1>1, <3>2
      <4> QED
        BY <1>1, <1>3, <1>6, <3>2, <4>1
    <3> QED
      BY <1>1, <3>1, <3>2
  <2>3. \A i \in 0..(m + 1) : h[i] <= h[m + 1]
    <3>1. \A i \in 0..(m + 1) : i \in 0..m \/ i = m + 1
      BY <1>1
    <3>2. \A i \in 0..m : g[i] \in Int /\ g[i] <= g[m]
      BY <1>3
    <3> QED
      BY <1>2, <1>6, <3>1, <3>2
  <2> QED
    BY <1>1, <1>6, <2>1, <2>2, <2>3 DEF Tracks
<1>8. Seen(h)' = g[m] + more
  BY <1>1, <1>6 DEF Seen
<1>9. ASSUME InStep(g) PROVE InStep(h)'
  <2>1. g[m] = SentSoFar
    BY <1>9 DEF InStep, Seen, m
  <2>2. ASSUME NEW i \in 1..(m + 1), socket'[i].id = Id PROVE socket'[i] = WriterFrame(h[i - 1])
    <3>1. CASE i = m + 1
      <4>1. i - 1 = m /\ m \in 0..m
        BY <1>1, <3>1
      <4> QED
        BY <1>1, <1>6, <2>1, <2>2, <3>1, <4>1
    <3>2. CASE i \in 1..m
      <4>1. i - 1 \in 0..m
        BY <1>1, <3>2
      <4> QED
        BY <1>1, <1>6, <1>9, <2>2, <3>2, <4>1 DEF InStep, m
    <3> QED
      BY <1>1, <3>1, <3>2
  <2> QED
    BY <1>1, <1>4, <1>8, <1>9, <2>1, <2>2 DEF InStep
<1>10. g[m] < SentSoFar => g[m] + more < SentSoFar + more
  BY <1>2, <1>6, Counts
<1> QED
  BY <1>3, <1>4, <1>7, <1>8, <1>9, <1>10 DEF Holds

-----------------------------------------------------------------------------
(* The two peers agree: the callers *)

\* What a step of its caller may do to the process p.
Handles(p) ==
  /\ UNCHANGED <<wrote, n, exitStatus, got, socket, chan, noise>>
  /\ \A q \in Peers : q # p =>
       /\ child'[q] = child[q] /\ parent'[q] = parent[q]
       /\ result'[q].timed_out = result[q].timed_out
  /\ parent'[p] = "fork" => parent[p] = "fork" /\ child'[p] = child[p]
  /\ Killed(p) => Killed(p)'
  /\ \/ child'[p] = child[p]
     \/ child[p] = "none" /\ child'[p] = "start"
     \/ child[p] = "exited" /\ child'[p] = "reaped"
     \/ child'[p] = "reaped" /\ Killed(p)'

LEMMA HandlesKeeps ==
  ASSUME ExecInv, AgreeInv, NEW p \in Peers, Handles(p)
  PROVE  AgreeInv'
<1>1. Story(p)'
  <2>1. Story(p) /\ wrote'[p] = wrote[p] /\ n'[p] = n[p] /\ exitStatus'[p] = exitStatus[p]
    BY DEF AgreeInv, Handles
  <2> QED
    BY <2>1 DEF Handles, Story, LastLine
<1>2. ASSUME NEW q \in Peers, q # p PROVE Story(q)'
  <2>1. Story(q)
    BY DEF AgreeInv
  <2> QED
    BY <1>2, <2>1, StoryStays DEF Handles
<1>3. WriterStory'
  BY WriterStays DEF AgreeInv, Handles
<1>4. Tally'
  <2>1. /\ Writer \in Peers /\ Reader \in Peers /\ Writer # Reader
        /\ Killed(Writer) => Killed(Writer)'
    BY InteropAssumption DEF Peers, Handles, Killed
  <2>2. CASE (child'[p] = "print") = (child[p] = "print")
    BY <2>1, <2>2, TallyStays DEF Handles, AgreeInv
  <2>3. CASE child'[p] = "reaped" /\ Killed(p)'
    <3>1. CASE p = Writer
      BY <2>3, <3>1 DEF Tally
    <3>2. CASE p = Reader /\ child[p] # "print"
      BY <2>1, <2>3, <3>2, TallyStays DEF Handles, AgreeInv
    <3>3. CASE p = Reader /\ child[p] = "print"
      <4>1. SentSoFar' = SentSoFar /\ SentSoFar \in Nat /\ Len(socket) \in Nat
        BY <2>1, <3>3, Counts DEF SentSoFar, Handles
      <4>2. Taken' = Taken - 1 /\ Taken \in Nat
        BY <2>3, <3>3, Counts DEF Taken, One, Handles
      <4>3. ASSUME NEW g, Holds(g) PROVE \E h : Holds(h)'
        <5> DEFINE m == Len(socket)
        <5>1. /\ m \in Nat /\ g \in [0..m -> Int] /\ g[0] = Taken + Len(chan) /\ Len(chan) \in Nat
              /\ \A i \in 1..m : g[i] = g[i - 1] + One(socket[i].id = Id) /\ i \in 0..m /\ i - 1 \in 0..m
              /\ \A i \in 0..m : g[i] <= g[m]
              /\ g[m] <= SentSoFar
          <6>1. Tracks(g) /\ m \in Nat /\ Len(chan) \in Nat
            BY <4>3, Counts DEF Holds
          <6>2. g[m] <= SentSoFar
            <7>1. g[m] \in Int
              BY <6>1 DEF Tracks
            <7>2. g[m] < SentSoFar \/ g[m] = SentSoFar
              BY <4>3 DEF Holds, Seen, InStep
            <7> QED
              BY <4>1, <7>1, <7>2
          <6> HIDE DEF m
          <6>3. \A i \in 1..m : i \in 0..m /\ i - 1 \in 0..m
            BY <6>1
          <6> QED
            BY <6>1, <6>2, <6>3 DEF Tracks, m
        <5>2. PICK h : h = [i \in 0..m |-> g[i] - 1]
          OBVIOUS
        <5>3. socket' = socket /\ chan' = chan
          BY DEF Handles
        <5>4. \A i \in 1..m : One(socket[i].id = Id) \in Int
          BY DEF One
        <5> HIDE DEF m
        <5>5. /\ h \in [0..m -> Int] /\ h[0] = Taken - 1 + Len(chan)
              /\ \A i \in 1..m : h[i] = h[i - 1] + One(socket[i].id = Id)
              /\ \A i \in 0..m : h[i] <= h[m]
              /\ h[m] < SentSoFar
          <6>1. h \in [0..m -> Int] /\ \A i \in 0..m : h[i] = g[i] - 1 /\ g[i] \in Int
            BY <5>1, <5>2
          <6>2. 0 \in 0..m /\ m \in 0..m
            BY <5>1
          <6>3. h[0] = Taken - 1 + Len(chan)
            BY <4>2, <5>1, <6>1, <6>2
          <6>4. \A i \in 1..m : h[i] = h[i - 1] + One(socket[i].id = Id)
            BY <5>1, <5>4, <6>1
          <6> QED
            BY <4>1, <5>1, <6>1, <6>2, <6>3, <6>4
        <5>6. Len(chan') = Len(chan) /\ Len(socket') = m
          BY <5>3 DEF m
        <5>7. Tracks(h)' /\ Seen(h)' = h[m]
          BY <4>2, <5>3, <5>5, <5>6 DEF Tracks, Seen
        <5> QED
          BY <4>1, <5>5, <5>7 DEF Holds
      <4> QED
        BY <2>1, <4>3 DEF Tally, Quiet, Handles, AgreeInv
    <3> QED
      BY <3>1, <3>2, <3>3 DEF Peers
  <2> QED
    BY <2>2, <2>3 DEF Handles
<1> QED
  BY <1>1, <1>2, <1>3, <1>4 DEF AgreeInv, Handles

LEMMA CallerAgrees ==
  ASSUME ExecInv, AgreeInv, NEW p \in Peers, Fork(p) \/ ParentStep(p) \/ TimePasses(p)
  PROVE  AgreeInv'
<1>1. /\ parent \in [Peers -> Callers] /\ child \in [Peers -> Stages] /\ result \in [Peers -> Results]
      /\ Story(p)
  BY DEF ExecInv, Shapes, AgreeInv
<1>2. \A q \in Peers : result[q] \in [output : Seq(PeerLines), exit_code : Int, timed_out : BOOLEAN]
  BY <1>1 DEF Results
<1> USE DEF GoTo, Returns, Calls, Killed, peerVars, canVars
<1>3. ASSUME Fork(p) PROVE Handles(p)
  <2>1. UNCHANGED <<wrote, n, exitStatus, got, socket, chan, noise, result>> /\ parent[p] = "fork"
    BY <1>3 DEF Fork
  <2>2. child[p] = "none"
    BY <1>1, <2>1 DEF Story
  <2> QED
    BY <1>1, <1>3, <2>1, <2>2 DEF Fork, Handles
<1>10. ASSUME SetNonBlocking(p) PROVE Handles(p)
  <2>1. UNCHANGED <<wrote, n, exitStatus, got, socket, chan, noise, result>> /\ parent[p] = "forked"
    BY <1>10 DEF SetNonBlocking
  <2> QED
    BY <1>1, <1>10, <2>1 DEF SetNonBlocking, Handles
<1>4. ASSUME ReadSome(p) PROVE Handles(p)
  <2>1. /\ UNCHANGED <<wrote, n, exitStatus, got, socket, chan, noise, child, parent>>
        /\ result' = [result EXCEPT ![p].output = result[p].output \o pipe[p]]
    BY <1>4 DEF ReadSome, Takes
  <2>2. \A q \in Peers : result'[q].timed_out = result[q].timed_out
    BY <1>1, <1>2, <2>1
  <2> QED
    BY <2>1, <2>2 DEF Handles
<1>5. ASSUME ReadEnd(p) PROVE Handles(p)
  <2>1. /\ UNCHANGED <<wrote, n, exitStatus, got, socket, chan, noise>>
        /\ child[p] = "exited" /\ parent[p] = "read"
        /\ result' = [result EXCEPT ![p].exit_code = exitStatus[p]]
        /\ child' = [child EXCEPT ![p] = "reaped"] /\ parent' = [parent EXCEPT ![p] = "returned"]
    BY <1>5 DEF ReadEnd, Gone
  <2>2. \A q \in Peers : result'[q].timed_out = result[q].timed_out
    BY <1>1, <1>2, <2>1
  <2> QED
    BY <1>1, <2>1, <2>2 DEF Handles
<1>6. ASSUME ReadNothing(p) PROVE Handles(p)
  BY <1>1, <1>6 DEF ReadNothing, Handles
<1>7. ASSUME WaitPid(p) PROVE Handles(p)
  <2>1. UNCHANGED <<wrote, n, exitStatus, got, socket, chan, noise>> /\ parent[p] = "wait"
    BY <1>7 DEF WaitPid
  <2>2. CASE /\ child[p] = "exited" /\ child' = [child EXCEPT ![p] = "reaped"]
             /\ parent' = [parent EXCEPT ![p] = "returned"]
             /\ result' = [result EXCEPT ![p].output = @ \o pipe[p], ![p].exit_code = exitStatus[p]]
    <3>1. \A q \in Peers : result'[q].timed_out = result[q].timed_out
      BY <1>1, <1>2, <2>2
    <3> QED
      BY <1>1, <2>1, <2>2, <3>1 DEF Handles
  <2>3. CASE parent' = [parent EXCEPT ![p] = "clock"] /\ UNCHANGED <<child, result>>
    BY <1>1, <2>1, <2>3 DEF Handles
  <2> QED
    BY <1>7, <2>2, <2>3 DEF WaitPid, Gone
<1>8. ASSUME Clock(p) PROVE Handles(p)
  <2>1. UNCHANGED <<wrote, n, exitStatus, got, socket, chan, noise>> /\ parent[p] = "clock"
    BY <1>8 DEF Clock
  <2>2. CASE /\ child' = [child EXCEPT ![p] = "reaped"]
             /\ parent' = [parent EXCEPT ![p] = "returned"]
             /\ result' = [result EXCEPT ![p].timed_out = TRUE]
    <3>1. /\ \A q \in Peers : q # p => result'[q].timed_out = result[q].timed_out
          /\ result'[p].timed_out
      BY <1>1, <1>2, <2>2
    <3> QED
      BY <1>1, <2>1, <2>2, <3>1 DEF Handles
  <2>3. CASE parent' = [parent EXCEPT ![p] = "read"] /\ UNCHANGED <<child, result>>
    BY <1>1, <2>1, <2>3 DEF Handles
  <2> QED
    BY <1>8, <2>2, <2>3 DEF Clock
<1>9. ASSUME TimePasses(p) PROVE Handles(p)
  BY <1>9 DEF TimePasses, Handles
<1> QED
  BY <1>3, <1>4, <1>5, <1>6, <1>7, <1>8, <1>9, <1>10, HandlesKeeps DEF ParentStep

-----------------------------------------------------------------------------
(* The two peers agree: the processes and the medium *)

Running == {"start", "open", "send", "subscribe", "poll", "print"}

\* A step of p that writes nothing.
LEMMA MovesOn ==
  ASSUME ExecInv, AgreeInv, NEW p \in Peers, UNCHANGED <<parent, result, wrote, n, exitStatus>>,
         child[p] \in Running, NEW spot \in Running, GoTo(p, spot),
         spot \in {"start", "open", "subscribe"} => n[p] = 0
  PROVE  WriterStory' /\ \A q \in Peers : Story(q)'
<1>1. child' = [child EXCEPT ![p] = spot] /\ child \in [Peers -> Stages]
  BY DEF GoTo, ExecInv, Shapes
<1>2. WriterStory'
  BY WriterStays DEF AgreeInv
<1>3. Story(p)'
  <2>1. Story(p) /\ child'[p] = spot /\ child[p] # "none" /\ spot \notin {"none", "exited", "reaped"}
        /\ child[p] \notin {"exited", "reaped"}
    BY <1>1 DEF AgreeInv, Running
  <2> QED
    BY <2>1 DEF Story, LastLine
<1>4. ASSUME NEW q \in Peers, q # p PROVE Story(q)'
  <2>1. Story(q) /\ child'[q] = child[q]
    BY <1>1, <1>4 DEF AgreeInv
  <2> QED
    BY <2>1, StoryStays
<1> QED
  BY <1>2, <1>3, <1>4

\* What a write leaves as it was.
LEMMA Wrote ==
  ASSUME ExecInv, AgreeInv, NEW p \in Peers, NEW line \in PeerLines, Writes(p, line)
  PROVE  /\ \A q \in Peers : q # p => wrote'[q] = wrote[q]
         /\ Len(wrote'[p]) = Len(wrote[p]) + 1 /\ wrote'[p][Len(wrote[p]) + 1] = line
         /\ \A q \in Peers : \A i \in 1..n[q] : wrote'[q][i] = wrote[q][i]
<1>1. /\ wrote' = [wrote EXCEPT ![p] = Append(wrote[p], line)]
      /\ wrote \in [Peers -> Seq(PeerLines)] /\ n \in [Peers -> Nat]
      /\ \A q \in Peers : n[q] <= Len(wrote[q])
  BY DEF Writes, ExecInv, Shapes, AgreeInv, Story
<1>2. \A q \in Peers : q # p => wrote'[q] = wrote[q]
  BY <1>1
<1>3. wrote'[p] = Append(wrote[p], line) /\ wrote[p] \in Seq(PeerLines) /\ n[p] \in Nat /\ n[p] <= Len(wrote[p])
  BY <1>1
<1>4. \A i \in 1..n[p] : wrote'[p][i] = wrote[p][i]
  BY <1>3
<1>5. \A q \in Peers : \A i \in 1..n[q] : wrote'[q][i] = wrote[q][i]
  BY <1>2, <1>4
<1>6. Len(wrote'[p]) = Len(wrote[p]) + 1 /\ wrote'[p][Len(wrote[p]) + 1] = line
  BY <1>3
<1> QED
  BY <1>2, <1>5, <1>6

Ending(p, line, status) ==
  /\ KindOf(line) # "frame"
  /\ status = 0 <=> TellsOk(line)
  /\ status = 0 => n[p] = Count

\* The last step of p.
LEMMA EndsWell ==
  ASSUME ExecInv, AgreeInv, NEW p \in Peers, UNCHANGED <<parent, result, n>>,
         child[p] \in Running, NEW line \in PeerLines, NEW status \in Int,
         Ending(p, line, status), Writes(p, line), Exits(p, status)
  PROVE  WriterStory' /\ \A q \in Peers : Story(q)'
<1>1. /\ child' = [child EXCEPT ![p] = "exited"] /\ child \in [Peers -> Stages]
      /\ exitStatus' = [exitStatus EXCEPT ![p] = status] /\ exitStatus \in [Peers -> Int]
  BY DEF Exits, GoTo, ExecInv, Shapes
<1>2. WriterStory'
  BY Wrote, WriterStays DEF AgreeInv, Peers
<1>3. Story(p)'
  <2>1. /\ Story(p) /\ child'[p] = "exited" /\ exitStatus'[p] = status
        /\ n[p] \in Nat /\ Len(wrote[p]) = n[p]
    BY <1>1, PeerShapes DEF AgreeInv, Running, Story
  <2>2. /\ Len(wrote'[p]) = n'[p] + 1 /\ n'[p] = n[p]
        /\ wrote'[p][n'[p] + 1] = line
        /\ \A i \in 1..n[p] : wrote'[p][i] = wrote[p][i]
    BY <2>1, Wrote
  <2>3. \A i \in 1..n'[p] : KindOf(wrote'[p][i]) = "frame"
    BY <2>1, <2>2 DEF Story
  <2>4. parent'[p] # "fork"
    BY <2>1 DEF Story, Running
  <2> QED
    <3>1. Len(wrote'[p]) = n'[p] + 1 /\ n'[p] <= Len(wrote'[p])
      BY <2>1, <2>2
    <3>2. LastLine(p)' = line
      BY <2>2 DEF LastLine
    <3> QED
      BY <2>1, <2>2, <2>3, <2>4, <3>1, <3>2 DEF Story, Ending
<1>4. ASSUME NEW q \in Peers, q # p PROVE Story(q)'
  <2>1. Story(q) /\ child'[q] = child[q] /\ exitStatus'[q] = exitStatus[q] /\ wrote'[q] = wrote[q]
    BY <1>1, <1>4, Wrote DEF AgreeInv
  <2> QED
    BY <2>1, StoryStays
<1> QED
  BY <1>2, <1>3, <1>4

\* The tally does not see the last line, nor where a process is that has no frame in hand.
LEMMA EndsAgree ==
  ASSUME ExecInv, AgreeInv, NEW p \in Peers, UNCHANGED <<execVars, n, got, overdue, noise, canVars>>,
         child[p] \in Running \ {"print"}, NEW line \in PeerLines, NEW status \in Int,
         Ending(p, line, status), Writes(p, line), Exits(p, status)
  PROVE  AgreeInv'
<1>1. WriterStory' /\ \A q \in Peers : Story(q)'
  BY EndsWell DEF execVars
<1>2. child' = [child EXCEPT ![p] = "exited"] /\ child \in [Peers -> Stages]
  BY DEF Exits, GoTo, ExecInv, Shapes
<1>3. Writer \in Peers /\ Reader \in Peers
  BY DEF Peers
<1>4. \A q \in Peers : (child'[q] = "print") = (child[q] = "print")
  BY <1>2
<1>5. \A i \in 1..n[Reader] : wrote'[Reader][i] = wrote[Reader][i]
  BY <1>3, Wrote
<1>6. Tally'
  BY <1>3, <1>4, <1>5, TallyStays DEF AgreeInv, execVars, canVars, Killed
<1> QED
  BY <1>1, <1>6 DEF AgreeInv

LEMMA MovesAgree ==
  ASSUME ExecInv, AgreeInv, NEW p \in Peers,
         UNCHANGED <<execVars, exitStatus, n, got, noise, canVars, wrote>>,
         child[p] \in Running \ {"print"}, NEW spot \in Running \ {"print"}, GoTo(p, spot),
         spot \in {"start", "open", "subscribe"} => n[p] = 0
  PROVE  AgreeInv'
<1>1. WriterStory' /\ \A q \in Peers : Story(q)'
  BY MovesOn DEF execVars
<1>2. child' = [child EXCEPT ![p] = spot] /\ child \in [Peers -> Stages]
  BY DEF GoTo, ExecInv, Shapes
<1>3. Writer \in Peers /\ Reader \in Peers
  BY DEF Peers
<1>4. \A q \in Peers : (child'[q] = "print") = (child[q] = "print")
  BY <1>2
<1>6. Tally'
  BY <1>3, <1>4, TallyStays DEF AgreeInv, execVars, canVars, Killed
<1> QED
  BY <1>1, <1>6 DEF AgreeInv

LEMMA StartsAgree ==
  ASSUME ExecInv, AgreeInv, NEW p \in Peers, Exec(p) \/ Open(p)
  PROVE  AgreeInv'
<1>1. /\ child[p] \in {"start", "open"} /\ UNCHANGED <<execVars, n, got, overdue, noise, canVars>>
      /\ {"start", "open", "send", "subscribe"} \subseteq Running \ {"print"}
  BY DEF Exec, Open, At, Running
<1>2. n[p] = 0 /\ Diagnostic \in PeerLines /\ SummaryLine(FALSE, 0) \in PeerLines
  BY <1>1, LinesAreLines DEF AgreeInv, Story
<1>3. ASSUME Writes(p, Diagnostic), Exits(p, 127) PROVE AgreeInv'
  <2>1. Ending(p, Diagnostic, 127)
    BY LineKinds DEF Ending
  <2> QED
    BY <1>1, <1>2, <1>3, <2>1, EndsAgree
<1>4. ASSUME Writes(p, SummaryLine(FALSE, 0)), Exits(p, 1) PROVE AgreeInv'
  <2> DEFINE line == SummaryLine(FALSE, 0)
  <2>1. KindOf(line) # "frame" /\ ~TellsOk(line)
    BY LineKinds
  <2>2. line \in PeerLines /\ Writes(p, line)
    BY <1>2, <1>4
  <2> HIDE DEF line
  <2>3. Ending(p, line, 1)
    BY <2>1 DEF Ending
  <2> QED
    BY <1>1, <1>4, <2>2, <2>3, EndsAgree
<1>5. ASSUME UNCHANGED <<pipe, wrote, exitStatus>>,
             GoTo(p, "open") \/ GoTo(p, "send") \/ GoTo(p, "subscribe")
      PROVE  AgreeInv'
  BY <1>1, <1>2, <1>5, MovesAgree
<1>6. CASE Exec(p)
  BY <1>3, <1>5, <1>6 DEF Exec
<1>7. CASE Open(p)
  <2>1. CASE p = Writer
    BY <1>4, <1>5, <1>7, <2>1 DEF Open
  <2>2. CASE p # Writer
    BY <1>4, <1>5, <1>7, <2>2 DEF Open
  <2> QED
    BY <2>1, <2>2
<1> QED
  BY <1>6, <1>7

LEMMA WriterClosesAgree == ASSUME ExecInv, AgreeInv, WriterFails \/ WriterEnds PROVE AgreeInv'
<1>1. /\ Writer \in Peers /\ child[Writer] \in Running \ {"print"} /\ n[Writer] \in Nat /\ Count \in Nat
      /\ UNCHANGED <<execVars, n, got, overdue, noise, canVars>>
  BY PeerShapes, InteropAssumption DEF WriterFails, WriterEnds, At, Running, Peers
<1>2. SummaryLine(FALSE, n[Writer]) \in PeerLines /\ SummaryLine(TRUE, Count) \in PeerLines
  BY <1>1, LinesAreLines
<1>3. CASE WriterFails
  <2> DEFINE line == SummaryLine(FALSE, n[Writer])
  <2>1. KindOf(line) # "frame" /\ ~TellsOk(line)
    BY <1>1, LineKinds
  <2>2. line \in PeerLines /\ Writes(Writer, line) /\ Exits(Writer, 1)
    BY <1>2, <1>3 DEF WriterFails
  <2> HIDE DEF line
  <2>3. Ending(Writer, line, 1)
    BY <2>1 DEF Ending
  <2> QED
    BY <1>1, <2>2, <2>3, EndsAgree
<1>4. CASE WriterEnds
  <2> DEFINE line == SummaryLine(TRUE, Count)
  <2>1. KindOf(line) # "frame" /\ TellsOk(line) /\ n[Writer] = Count
    BY <1>1, <1>4, LineKinds DEF WriterEnds
  <2>2. line \in PeerLines /\ Writes(Writer, line) /\ Exits(Writer, 0)
    BY <1>2, <1>4 DEF WriterEnds
  <2> HIDE DEF line
  <2>3. Ending(Writer, line, 0)
    BY <2>1 DEF Ending
  <2> QED
    BY <1>1, <2>2, <2>3, EndsAgree
<1> QED
  BY <1>3, <1>4

\* A frame in hand becomes a line.
LEMMA PrintsWell ==
  ASSUME ExecInv, AgreeInv, NEW p \in Peers, UNCHANGED <<parent, result, exitStatus>>,
         child[p] = "print", NEW spot \in {"send", "poll"}, GoTo(p, spot),
         n' = [n EXCEPT ![p] = @ + 1],
         NEW f \in PeerFrames, Writes(p, FrameLine(f)), p = Writer => f = WriterFrame(n[Writer])
  PROVE  /\ WriterStory' /\ \A q \in Peers : Story(q)'
         /\ \A q \in Peers : q # p => child'[q] = child[q] /\ n'[q] = n[q]
         /\ child'[p] = spot /\ n'[p] = n[p] + 1
         /\ \A q \in Peers : \A i \in 1..n[q] : wrote'[q][i] = wrote[q][i]
         /\ wrote'[p][n[p] + 1] = FrameLine(f)
<1> DEFINE line == FrameLine(f)
<1>1. line \in PeerLines /\ Writes(p, line) /\ KindOf(line) = "frame"
  BY LinesAreLines, LineKinds
<1>2. /\ child' = [child EXCEPT ![p] = spot] /\ child \in [Peers -> Stages] /\ n \in [Peers -> Nat]
  BY DEF GoTo, ExecInv, Shapes
<1>3. p = Writer => line = FrameLine(WriterFrame(n[Writer]))
  OBVIOUS
<1> HIDE DEF line
<1>4. /\ \A q \in Peers : q # p => wrote'[q] = wrote[q]
      /\ Len(wrote'[p]) = Len(wrote[p]) + 1 /\ wrote'[p][Len(wrote[p]) + 1] = line
      /\ \A q \in Peers : \A i \in 1..n[q] : wrote'[q][i] = wrote[q][i]
  BY <1>1, Wrote
<1>5. n'[p] = n[p] + 1 /\ child'[p] = spot /\ n[p] \in Nat
  BY <1>2
<1>6. Len(wrote[p]) = n[p] /\ parent[p] # "fork"
  BY DEF AgreeInv, Story
<1>7. \A i \in 1..n'[p] : i \in 1..n[p] \/ i = n[p] + 1
  BY <1>5
<1>8. Story(p)'
  <2>1. Len(wrote'[p]) = n'[p]
    BY <1>4, <1>5, <1>6
  <2>2. \A i \in 1..n'[p] : KindOf(wrote'[p][i]) = "frame"
    <3>1. \A i \in 1..n[p] : KindOf(wrote[p][i]) = "frame"
      BY DEF AgreeInv, Story
    <3> QED
      BY <1>1, <1>4, <1>6, <1>7, <3>1
  <2>3. spot \notin {"none", "start", "open", "subscribe", "exited", "reaped"} /\ parent'[p] # "fork"
    BY <1>6
  <2>4. n'[p] <= Len(wrote'[p])
    BY <1>5, <2>1
  <2> QED
    BY <1>5, <2>1, <2>2, <2>3, <2>4 DEF Story
<1>9. ASSUME NEW q \in Peers, q # p PROVE Story(q)' /\ child'[q] = child[q] /\ n'[q] = n[q]
  <2>1. Story(q) /\ child'[q] = child[q] /\ n'[q] = n[q] /\ wrote'[q] = wrote[q]
    BY <1>2, <1>4, <1>9 DEF AgreeInv
  <2> QED
    BY <2>1, StoryStays
<1>10. WriterStory'
  <2>1. CASE p = Writer
    <3>1. \A i \in 1..n[p] : wrote[p][i] = FrameLine(WriterFrame(i - 1))
      BY <2>1 DEF AgreeInv, WriterStory
    <3>2. ASSUME NEW i \in 1..n'[p] PROVE wrote'[p][i] = FrameLine(WriterFrame(i - 1))
      <4>1. CASE i \in 1..n[p]
        BY <1>4, <3>1, <4>1
      <4>2. CASE i = n[p] + 1
        <5>1. i - 1 = n[p]
          BY <1>5, <4>2
        <5> QED
          BY <1>3, <1>4, <1>6, <2>1, <4>2, <5>1
      <4> QED
        BY <1>7, <4>1, <4>2
    <3> QED
      BY <2>1, <3>2 DEF WriterStory
  <2>2. CASE p # Writer
    <3>1. Writer \in Peers
      BY DEF Peers
    <3> QED
      BY <1>4, <1>9, <2>2, <3>1, WriterStays DEF AgreeInv
  <2> QED
    BY <2>1, <2>2
<1> QED
  BY <1>4, <1>5, <1>6, <1>8, <1>9, <1>10 DEF line

LEMMA WriterSendsAgrees == ASSUME ExecInv, AgreeInv, WriterSends PROVE AgreeInv'
<1> DEFINE f == WriterFrame(n[Writer])
<1>1. /\ child[Writer] = "send" /\ GoTo(Writer, "print")
      /\ socket' = IF Listening THEN Append(socket, f) ELSE socket
      /\ UNCHANGED <<parent, result, exitStatus, n, got, noise, chan, wrote>>
  BY DEF WriterSends, At, OnWire, execVars
<1>2. /\ Writer \in Peers /\ Reader \in Peers /\ Writer # Reader
      /\ child \in [Peers -> Stages] /\ socket \in Seq(PeerFrames) /\ f \in PeerFrames
  BY PeerShapes, WrittenFrame DEF Peers, ExecInv, Shapes
<1>3. WriterStory' /\ \A q \in Peers : Story(q)'
  <2>1. child[Writer] \in Running /\ "print" \in Running
    BY <1>1 DEF Running
  <2> QED
    BY <1>1, <1>2, <2>1, MovesOn
<1>4. child'[Writer] = "print" /\ child'[Reader] = child[Reader]
  BY <1>1, <1>2 DEF GoTo
<1>5. SentSoFar = n[Writer] /\ SentSoFar' = SentSoFar + 1 /\ Taken' = Taken
  BY <1>1, <1>4, Counts DEF SentSoFar, Taken, One
<1>6. f.id = Id /\ f = WriterFrame(SentSoFar)
  BY <1>5, WrittenFrame, Counts
<1> HIDE DEF f
<1>7. ASSUME NEW g, Holds(g) PROVE \E h : Holds(h)'
  <2>1. CASE socket' = socket
    <3>1. Tracks(g)' /\ Seen(g)' = Seen(g) /\ Seen(g) \in Int
      BY <1>1, <1>5, <1>7, <2>1, Counts DEF Holds, Tracks, Seen
    <3>2. Seen(g) <= SentSoFar
      BY <1>7, <3>1, Counts DEF Holds, InStep
    <3>3. Seen(g)' < SentSoFar'
      <4>1. SentSoFar \in Nat
        BY Counts
      <4>2. ASSUME NEW a \in Int, a <= SentSoFar PROVE a < SentSoFar + 1
        BY <4>1, <4>2
      <4>3. Seen(g) < SentSoFar + 1
        BY <3>1, <3>2, <4>2
      <4> QED
        BY <1>5, <3>1, <4>3
    <3> QED
      BY <3>1, <3>3 DEF Holds
  <2>2. CASE socket' = Append(socket, f)
    <3>1. SentSoFar' = SentSoFar + One(f.id = Id)
      BY <1>5, <1>6 DEF One
    <3> QED
      BY <1>1, <1>2, <1>4, <1>5, <1>6, <1>7, <2>2, <3>1, SocketGrows
  <2> QED
    BY <1>1, <2>1, <2>2
<1>8. Tally'
  BY <1>1, <1>7 DEF AgreeInv, Tally, Quiet, Killed
<1> QED
  BY <1>1, <1>3, <1>8 DEF AgreeInv

LEMMA WriterPrintsAgrees == ASSUME ExecInv, AgreeInv, WriterPrints PROVE AgreeInv'
<1> DEFINE f == WriterFrame(n[Writer])
<1>1. /\ child[Writer] = "print" /\ GoTo(Writer, "send") /\ Writes(Writer, FrameLine(f))
      /\ n' = [n EXCEPT ![Writer] = @ + 1]
      /\ UNCHANGED <<parent, result, exitStatus, got, noise, chan, socket>>
  BY DEF WriterPrints, At, execVars, canVars
<1>2. Writer \in Peers /\ Reader \in Peers /\ Writer # Reader /\ f \in PeerFrames
  BY PeerShapes, WrittenFrame DEF Peers
<1>3. /\ WriterStory' /\ \A q \in Peers : Story(q)'
      /\ child'[Reader] = child[Reader] /\ n'[Reader] = n[Reader]
      /\ child'[Writer] = "send" /\ n'[Writer] = n[Writer] + 1
      /\ \A i \in 1..n[Reader] : wrote'[Reader][i] = wrote[Reader][i]
  <2> HIDE DEF f
  <2> QED
    BY <1>1, <1>2, PrintsWell DEF f
<1>4. SentSoFar' = SentSoFar /\ Taken' = Taken
  BY <1>1, <1>3, Counts DEF SentSoFar, Taken, One
<1>5. ASSUME NEW g, Holds(g) PROVE Holds(g)'
  BY <1>1, <1>3, <1>4, <1>5 DEF Holds, Tracks, Seen, InStep
<1>6. Tally'
  BY <1>1, <1>5 DEF AgreeInv, Tally, Quiet, Killed
<1> QED
  BY <1>1, <1>3, <1>6 DEF AgreeInv

LEMMA ReaderTakesAgrees == ASSUME ExecInv, AgreeInv, ReaderTakes PROVE AgreeInv'
<1>1. /\ child[Reader] = "poll" /\ GoTo(Reader, "print") /\ chan # <<>>
      /\ got' = Head(chan) /\ chan' = Tail(chan)
      /\ UNCHANGED <<parent, result, exitStatus, n, noise, socket, wrote>>
  BY DEF ReaderTakes, At, execVars
<1>2. /\ Writer \in Peers /\ Reader \in Peers /\ Writer # Reader
      /\ child \in [Peers -> Stages] /\ chan \in Seq(PeerFrames)
  BY PeerShapes DEF Peers, ExecInv, Shapes
<1>3. WriterStory' /\ \A q \in Peers : Story(q)'
  <2>1. child[Reader] \in Running /\ "print" \in Running
    BY <1>1 DEF Running
  <2> QED
    BY <1>1, <1>2, <2>1, MovesOn
<1>4. child'[Reader] = "print" /\ child'[Writer] = child[Writer]
  BY <1>1, <1>2 DEF GoTo
<1>5. /\ got' = chan[1] /\ Len(chan) > 0 /\ Len(chan') = Len(chan) - 1
      /\ \A i \in 1..Len(chan') : i + 1 \in 1..Len(chan) /\ chan'[i] = chan[i + 1]
  BY <1>1, <1>2
<1>6. SentSoFar' = SentSoFar /\ Taken = n[Reader] /\ Taken' = Taken + 1
  BY <1>1, <1>4, Counts DEF SentSoFar, Taken, One
<1>7. ASSUME NEW g, Holds(g) PROVE Holds(g)'
  <2>1. Taken' + Len(chan') = Taken + Len(chan)
    BY <1>5, <1>6, Counts
  <2>2. Tracks(g)' /\ Seen(g)' = Seen(g)
    BY <1>1, <1>7, <2>1 DEF Holds, Tracks, Seen
  <2>3. ASSUME InStep(g) PROVE InStep(g)'
    <3>1. got' = WriterFrame(n[Reader])
      <4>1. 1 \in 1..Len(chan) /\ Taken + 1 - 1 = n[Reader]
        BY <1>5, <1>6, Counts
      <4> QED
        BY <1>5, <2>3, <4>1 DEF InStep
    <3>2. ASSUME NEW i \in 1..Len(chan') PROVE chan'[i] = WriterFrame(Taken' + i - 1)
      <4>1. Taken + (i + 1) - 1 = Taken' + i - 1
        <5>1. i \in Int /\ Taken \in Int
          BY <3>2, Counts
        <5> QED
          BY <1>6, <5>1
      <4> QED
        BY <1>5, <2>3, <4>1 DEF InStep
    <3> QED
      BY <1>1, <1>6, <2>2, <2>3, <3>1, <3>2 DEF InStep
  <2> QED
    BY <1>6, <1>7, <2>2, <2>3 DEF Holds
<1>8. Tally'
  BY <1>1, <1>7 DEF AgreeInv, Tally, Quiet, Killed
<1> QED
  BY <1>1, <1>3, <1>8 DEF AgreeInv

LEMMA ReaderPrintsAgrees == ASSUME ExecInv, AgreeInv, ReaderPrints PROVE AgreeInv'
<1>1. /\ child[Reader] = "print" /\ GoTo(Reader, "poll") /\ Writes(Reader, FrameLine(got))
      /\ n' = [n EXCEPT ![Reader] = @ + 1]
      /\ UNCHANGED <<parent, result, exitStatus, noise, chan, socket>>
  BY DEF ReaderPrints, At, execVars, canVars
<1>2. Writer \in Peers /\ Reader \in Peers /\ Writer # Reader /\ got \in PeerFrames
  BY PeerShapes DEF Peers, ExecInv, Shapes
<1>3. /\ WriterStory' /\ \A q \in Peers : Story(q)'
      /\ child'[Writer] = child[Writer] /\ n'[Writer] = n[Writer]
      /\ child'[Reader] = "poll" /\ n'[Reader] = n[Reader] + 1
      /\ \A i \in 1..n[Reader] : wrote'[Reader][i] = wrote[Reader][i]
      /\ wrote'[Reader][n[Reader] + 1] = FrameLine(got)
  BY <1>1, <1>2, PrintsWell
<1>4. SentSoFar' = SentSoFar /\ Taken' = Taken
  BY <1>1, <1>3, Counts DEF SentSoFar, Taken, One
<1>5. ASSUME NEW g, InStep(g) PROVE InStep(g)'
  <2>1. ASSUME NEW i \in 1..n'[Reader] PROVE wrote'[Reader][i] = FrameLine(WriterFrame(i - 1))
    <3>1. CASE i \in 1..n[Reader]
      BY <1>3, <1>5, <3>1 DEF InStep
    <3>2. CASE i = n[Reader] + 1
      <4>1. i - 1 = n[Reader] /\ got = WriterFrame(n[Reader])
        BY <1>1, <1>5, <3>2, Counts DEF InStep
      <4> QED
        BY <1>3, <3>2, <4>1
    <3> QED
      BY <1>3, <3>1, <3>2, Counts
  <2> QED
    BY <1>1, <1>3, <1>4, <1>5, <2>1 DEF InStep, Seen
<1>6. ASSUME NEW g, Holds(g) PROVE Holds(g)'
  BY <1>1, <1>4, <1>5, <1>6 DEF Holds, Tracks, Seen
<1>7. Tally'
  BY <1>1, <1>6 DEF AgreeInv, Tally, Quiet, Killed
<1> QED
  BY <1>1, <1>3, <1>7 DEF AgreeInv

LEMMA ReaderEndsAgrees == ASSUME ExecInv, AgreeInv, ReaderEnds PROVE AgreeInv'
<1> DEFINE ok == n[Reader] = Count
           line == SummaryLine(ok, n[Reader])
           status == IF ok THEN 0 ELSE 1
<1>1. /\ child[Reader] = "poll" /\ Writes(Reader, line) /\ Exits(Reader, status)
      /\ socket' = <<>> /\ chan' = <<>> /\ UNCHANGED <<parent, result, n, got, noise>>
  BY DEF ReaderEnds, At, execVars
<1>2. /\ Writer \in Peers /\ Reader \in Peers /\ Writer # Reader
      /\ child \in [Peers -> Stages]
  BY PeerShapes DEF Peers, ExecInv, Shapes
<1>3. line \in PeerLines /\ KindOf(line) # "frame" /\ (TellsOk(line) <=> ok)
  BY LineKinds, LinesAreLines, Counts
<1>4. status \in Int /\ (status = 0 <=> ok)
  OBVIOUS
<1> HIDE DEF line, status
<1>5. WriterStory' /\ \A q \in Peers : Story(q)'
  <2>1. child[Reader] \in Running
    BY <1>1 DEF Running
  <2>2. Ending(Reader, line, status)
    BY <1>3, <1>4 DEF Ending
  <2> QED
    BY <1>1, <1>2, <1>3, <1>4, <2>1, <2>2, EndsWell
<1>6. child'[Reader] = "exited" /\ child'[Writer] = child[Writer]
  BY <1>1, <1>2 DEF Exits, GoTo
<1>7. \A i \in 1..n[Reader] : wrote'[Reader][i] = wrote[Reader][i]
  BY <1>1, <1>2, <1>3, Wrote
<1>8. Len(socket') = 0 /\ Len(chan') = 0
  BY <1>1
<1>9. SentSoFar' = SentSoFar /\ Taken' = Taken
  BY <1>1, <1>6 DEF SentSoFar, Taken, One
<1>10. ASSUME NEW g, Holds(g) PROVE \E h : Holds(h)'
  <2>1. PICK h : h = [i \in 0..0 |-> Taken]
    OBVIOUS
  <2>2. Tracks(h)' /\ Seen(h)' = Taken
    BY <1>8, <1>9, <2>1, Counts DEF Tracks, Seen
  <2>3. Taken <= Seen(g) /\ Seen(g) \in Int
    <3>1. /\ g \in [0..Len(socket) -> Int] /\ g[0] = Taken + Len(chan) /\ g[0] <= g[Len(socket)]
          /\ Len(socket) \in 0..Len(socket)
      BY <1>10, Counts DEF Holds, Tracks
    <3> QED
      BY <3>1, Counts DEF Seen
  <2>4. CASE Taken < SentSoFar
    BY <1>9, <2>2, <2>4 DEF Holds
  <2>5. CASE ~(Taken < SentSoFar)
    <3>1. InStep(g) /\ Taken = SentSoFar
      BY <1>10, <2>3, <2>5, Counts DEF Holds, InStep
    <3>2. InStep(h)'
      BY <1>1, <1>6, <1>7, <1>8, <1>9, <2>2, <3>1 DEF InStep
    <3> QED
      BY <2>2, <3>2 DEF Holds
  <2> QED
    BY <2>4, <2>5
<1>11. Tally'
  BY <1>1, <1>10 DEF AgreeInv, Tally, Quiet, Killed
<1> QED
  BY <1>1, <1>5, <1>11 DEF AgreeInv

LEMMA PumpAgrees == ASSUME ExecInv, AgreeInv, Pump PROVE AgreeInv'
<1>1. /\ socket # <<>> /\ socket' = Tail(socket)
      /\ chan' = chan \/ (chan' = Append(chan, Head(socket)) /\ Head(socket).id = Id)
      /\ UNCHANGED <<parent, result, child, exitStatus, n, got, noise, wrote>>
  BY DEF Pump, execVars, peerVars
<1>2. chan \in Seq(PeerFrames) /\ socket \in Seq(PeerFrames)
  BY DEF ExecInv, Shapes
<1>3. WriterStory' /\ \A q \in Peers : Story(q)'
  BY <1>1, StoryStays, WriterStays DEF AgreeInv
<1>4. SentSoFar' = SentSoFar /\ Taken' = Taken
  BY <1>1 DEF SentSoFar, Taken
<1>5. ASSUME NEW g, Holds(g) PROVE \E h : Holds(h)'
  <2> DEFINE m == Len(socket) - 1
  <2>1. /\ m \in Nat /\ Len(socket) = m + 1 /\ Len(socket') = m /\ Head(socket) = socket[1]
        /\ Head(socket) \in PeerFrames
        /\ \A i \in 1..m : socket'[i] = socket[i + 1]
    BY <1>1, <1>2
  <2> HIDE DEF m
  <2>2. /\ g \in [0..(m + 1) -> Int] /\ g[0] = Taken + Len(chan)
        /\ \A i \in 1..(m + 1) : g[i] = g[i - 1] + One(socket[i].id = Id)
        /\ \A i \in 0..(m + 1) : g[i] <= g[m + 1]
        /\ g[m + 1] < SentSoFar \/ InStep(g)
    BY <1>5, <2>1 DEF Holds, Tracks, Seen
  <2> DEFINE first == One(socket[1].id = Id)
  <2>3. first \in {0, 1} /\ (first = 1 <=> socket[1].id = Id) /\ g[1] = g[0] + first
    <3>1. 1 \in 1..(m + 1) /\ 1 - 1 = 0
      BY <2>1
    <3> QED
      BY <2>2, <3>1 DEF One
  <2>4. \A i \in 0..m : i + 1 \in 0..(m + 1) /\ i + 1 \in 1..(m + 1) /\ (i + 1) - 1 = i /\ g[i + 1] \in Int
    BY <2>1, <2>2
  <2>5. g[m + 1] <= SentSoFar /\ g[0] \in Int
    BY <2>1, <2>2, Counts DEF InStep, Seen
  <2> HIDE DEF first
  <2>6. \A i \in 1..m : One(socket'[i].id = Id) \in Int /\ g[i + 1] = g[i] + One(socket'[i].id = Id)
    BY <2>1, <2>2, <2>4 DEF One
  <2>7. CASE chan' = chan
    <3>1. PICK h : h = [i \in 0..m |-> g[i + 1] - first]
      OBVIOUS
    <3>2. /\ h \in [0..m -> Int] /\ h[0] = g[0] /\ h[m] = g[m + 1] - first
          /\ \A i \in 0..m : h[i] = g[i + 1] - first
      BY <2>1, <2>3, <2>4, <2>5, <3>1
    <3>3. \A i \in 1..m : h[i] = h[i - 1] + One(socket'[i].id = Id)
      <4>1. ASSUME NEW i \in 1..m PROVE h[i] = h[i - 1] + One(socket'[i].id = Id)
        <5>1. h[i] = g[i + 1] - first /\ i - 1 \in 0..m /\ h[i - 1] = g[(i - 1) + 1] - first /\ (i - 1) + 1 = i
          BY <2>1, <3>2
        <5>2. g[i] \in Int /\ g[i + 1] \in Int
          BY <2>1, <2>2
        <5> QED
          BY <2>3, <2>6, <5>1, <5>2
      <4> QED
        BY <4>1
    <3>4. \A i \in 0..m : h[i] <= h[m]
      <4>1. \A i \in 0..m : g[i + 1] \in Int /\ g[i + 1] <= g[m + 1]
        BY <2>2, <2>4
      <4>2. m \in 0..m /\ first \in Int
        BY <2>1, <2>3
      <4>3. ASSUME NEW i \in 0..m PROVE h[i] <= h[m]
        <5>1. /\ h[i] = g[i + 1] - first /\ h[m] = g[m + 1] - first
              /\ g[i + 1] \in Int /\ g[m + 1] \in Int /\ g[i + 1] <= g[m + 1]
          BY <3>2, <4>1, <4>2
        <5> QED
          BY <4>2, <5>1
      <4> QED
        BY <4>3
    <3>5. Tracks(h)' /\ Seen(h)' = g[m + 1] - first
      BY <1>4, <2>1, <2>2, <2>7, <3>2, <3>3, <3>4 DEF Tracks, Seen
    <3>6. CASE first = 1 \/ g[m + 1] < SentSoFar
      <4>1. g[m + 1] - first < SentSoFar
        BY <2>1, <2>3, <2>4, <2>5, <3>6, Counts
      <4> QED
        BY <1>4, <3>5, <4>1 DEF Holds
    <3>7. CASE first = 0 /\ InStep(g)
      <4>1. ASSUME NEW i \in 1..m, socket'[i].id = Id PROVE socket'[i] = WriterFrame(h[i - 1])
        <5>1. socket[i + 1] = WriterFrame(g[(i + 1) - 1])
          BY <2>1, <2>4, <3>7, <4>1 DEF InStep
        <5>2. (i + 1) - 1 = i /\ i - 1 \in 0..m /\ (i - 1) + 1 = i /\ h[i - 1] = g[(i - 1) + 1] - 0 /\ g[i] \in Int
          BY <2>1, <2>2, <3>2, <3>7
        <5> QED
          BY <2>1, <5>1, <5>2
      <4>2. Seen(h)' = SentSoFar
        BY <2>1, <2>4, <3>5, <3>7 DEF InStep, Seen
      <4>3. InStep(h)'
        BY <1>1, <1>4, <2>1, <2>7, <3>7, <4>1, <4>2 DEF InStep
      <4> QED
        BY <3>5, <4>3 DEF Holds
    <3> QED
      BY <2>2, <2>3, <3>6, <3>7
  <2>8. CASE chan' = Append(chan, Head(socket)) /\ Head(socket).id = Id
    <3>1. PICK h : h = [i \in 0..m |-> g[i + 1]]
      OBVIOUS
    <3>2. /\ Len(chan') = Len(chan) + 1 /\ chan'[Len(chan) + 1] = socket[1]
          /\ \A i \in 1..Len(chan) : chan'[i] = chan[i]
      BY <1>2, <2>1, <2>8
    <3>3. first = 1
      BY <2>1, <2>3, <2>8
    <3>4. /\ h \in [0..m -> Int] /\ h[0] = Taken + Len(chan') /\ h[m] = g[m + 1]
          /\ \A i \in 0..m : h[i] = g[i + 1]
      <4>1. h \in [0..m -> Int] /\ (\A i \in 0..m : h[i] = g[i + 1]) /\ 0 \in 0..m /\ m \in 0..m
        BY <2>1, <2>4, <3>1
      <4>2. g[0 + 1] = Taken + Len(chan')
        <5>1. g[1] = g[0] + 1 /\ g[0] = Taken + Len(chan)
          BY <2>2, <2>3, <3>3
        <5> QED
          BY <3>2, <5>1, Counts
      <4> QED
        BY <4>1, <4>2
    <3>5. \A i \in 1..m : h[i - 1] = g[i] /\ h[i] = h[i - 1] + One(socket'[i].id = Id)
      <4>1. ASSUME NEW i \in 1..m PROVE h[i - 1] = g[i] /\ h[i] = g[i + 1]
        <5>1. i \in 0..m /\ i - 1 \in 0..m /\ (i - 1) + 1 = i
          BY <2>1
        <5>2. h[i - 1] = g[(i - 1) + 1]
          BY <3>4, <5>1
        <5> QED
          BY <3>4, <5>1, <5>2
      <4> QED
        BY <2>6, <4>1
    <3>6. \A i \in 0..m : h[i] <= h[m]
      BY <2>2, <2>4, <3>4
    <3>7. Tracks(h)' /\ Seen(h)' = Seen(g)
      BY <1>4, <2>1, <3>4, <3>5, <3>6 DEF Tracks, Seen
    <3>8. ASSUME InStep(g) PROVE InStep(h)'
      <4>1. ASSUME NEW i \in 1..Len(chan') PROVE chan'[i] = WriterFrame(Taken + i - 1)
        <5>1. CASE i \in 1..Len(chan)
          BY <3>2, <3>8, <5>1 DEF InStep
        <5>2. CASE i = Len(chan) + 1
          <6>1. 1 \in 1..Len(socket) /\ 1 - 1 = 0 /\ Taken + i - 1 = g[0]
            BY <2>1, <2>2, <5>2, Counts
          <6>2. socket[1] = WriterFrame(g[0])
            BY <2>1, <2>8, <3>8, <6>1 DEF InStep
          <6> QED
            BY <3>2, <5>2, <6>1, <6>2
        <5> QED
          BY <3>2, <5>1, <5>2, Counts
      <4>2. ASSUME NEW i \in 1..m, socket'[i].id = Id PROVE socket'[i] = WriterFrame(h[i - 1])
        <5>1. socket[i + 1] = WriterFrame(g[(i + 1) - 1]) /\ (i + 1) - 1 = i
          BY <2>1, <2>4, <3>8, <4>2 DEF InStep
        <5> QED
          BY <2>1, <3>5, <5>1
      <4> QED
        BY <1>1, <1>4, <2>1, <3>7, <3>8, <4>1, <4>2 DEF InStep
    <3> QED
      BY <1>4, <1>5, <3>7, <3>8 DEF Holds
  <2> QED
    BY <1>1, <2>7, <2>8
<1>6. Tally'
  BY <1>1, <1>5 DEF AgreeInv, Tally, Quiet, Killed
<1> QED
  BY <1>1, <1>3, <1>6 DEF AgreeInv

LEMMA OthersAgree == ASSUME ExecInv, AgreeInv, Overdue \/ OtherNodeSends PROVE AgreeInv'
<1>1. UNCHANGED <<parent, result, child, exitStatus, n, got, chan, wrote>>
  BY DEF Overdue, OtherNodeSends, execVars, canVars
<1>2. WriterStory' /\ \A q \in Peers : Story(q)'
  BY <1>1, StoryStays, WriterStays DEF AgreeInv
<1>3. CASE Overdue
  <2>1. UNCHANGED <<noise, socket>>
    BY <1>3 DEF Overdue, canVars
  <2>2. Tally'
    BY <1>1, <2>1, TallyStays DEF AgreeInv, Killed
  <2> QED
    BY <1>2, <2>1, <2>2 DEF AgreeInv
<1>4. CASE OtherNodeSends
  <2>1. PICK f \in Noise : OnWire(f) /\ noise' = Append(noise, f) /\ Listening
    BY <1>4 DEF OtherNodeSends
  <2>2. f \in PeerFrames /\ socket' = Append(socket, f)
    BY <2>1, InteropAssumption DEF PeerFrames, OnWire
  <2>3. noise' \in Seq(PeerFrames) /\ (Quiet' => Quiet /\ f.id # Id)
    <3>1. noise \in Seq(PeerFrames)
      BY DEF AgreeInv
    <3>2. /\ Len(noise) \in Nat /\ DOMAIN noise' = 1..(Len(noise) + 1) /\ noise'[Len(noise) + 1] = f
          /\ DOMAIN noise = 1..Len(noise) /\ \A i \in 1..Len(noise) : noise'[i] = noise[i]
      BY <2>1, <2>2, <3>1
    <3> QED
      BY <2>1, <2>2, <3>1, <3>2 DEF Quiet
  <2>4. SentSoFar' = SentSoFar /\ Taken' = Taken /\ SentSoFar \in Nat
    BY <1>1, Counts DEF SentSoFar, Taken
  <2>5. ASSUME NEW g, Holds(g), f.id # Id PROVE \E h : Holds(h)'
    <3>1. SentSoFar' = SentSoFar + One(f.id = Id)
      BY <2>4, <2>5 DEF One
    <3> QED
      BY <1>1, <2>2, <2>4, <2>5, <3>1, SocketGrows
  <2>6. Tally'
    BY <1>1, <2>3, <2>5 DEF AgreeInv, Tally, Killed
  <2> QED
    BY <1>2, <2>3, <2>6 DEF AgreeInv
<1> QED
  BY <1>3, <1>4

LEMMA ReaderSubscribesAgrees == ASSUME ExecInv, AgreeInv, ReaderSubscribes PROVE AgreeInv'
<1>1. /\ Reader \in Peers /\ child[Reader] \in Running \ {"print"} /\ "poll" \in Running \ {"print"}
      /\ GoTo(Reader, "poll") /\ UNCHANGED <<execVars, exitStatus, n, got, noise, canVars, wrote>>
  BY DEF ReaderSubscribes, At, Running, Peers
<1> QED
  BY <1>1, MovesAgree

LEMMA ChildAgrees == ASSUME ExecInv, AgreeInv, NEW p \in Peers, ChildStep(p) PROVE AgreeInv'
  BY StartsAgree, WriterSendsAgrees, WriterPrintsAgrees, WriterClosesAgree, ReaderSubscribesAgrees,
     ReaderTakesAgrees, ReaderPrintsAgrees, ReaderEndsAgrees DEF ChildStep, WriterStep, ReaderStep

-----------------------------------------------------------------------------
(* The two peers agree: what their outputs say *)

LEMMA EndedStory ==
  ASSUME ExecInv, AgreeInv, NEW p \in Peers, Ended(p)
  PROVE  LET out == result[p].output IN
           /\ out = wrote[p] /\ result[p].exit_code = exitStatus[p]
           /\ out \in Seq(PeerLines) /\ Len(out) = n[p] + 1 /\ n[p] \in Nat
           /\ \A i \in 1..n[p] : KindOf(out[i]) = "frame"
           /\ KindOf(out[n[p] + 1]) # "frame"
           /\ exitStatus[p] = 0 <=> TellsOk(out[n[p] + 1])
           /\ exitStatus[p] = 0 => n[p] = Count
<1>1. Kept(p) /\ Story(p) /\ parent[p] = "returned" /\ ~result[p].timed_out
  BY DEF ExecInv, AgreeInv, Ended
<1> DEFINE a == result[p].output
<1>2. a \in Seq(PeerLines) /\ n[p] \in Nat
  BY PeerShapes DEF Results
<1>3. a \o pipe[p] = wrote[p] /\ pipe[p] = <<>> /\ child[p] = "reaped"
      /\ result[p].exit_code = exitStatus[p]
  BY <1>1 DEF Kept
<1> HIDE DEF a
<1>4. a = wrote[p]
  BY <1>2, <1>3
<1> QED
  BY <1>1, <1>2, <1>3, <1>4 DEF Story, LastLine, Killed, a

\* Where every line but the last is a frame, FramesIn has one for each of them.
LEMMA FramesOfLines ==
  ASSUME NEW out \in Seq(PeerLines), NEW m \in Nat, Len(out) = m + 1,
         \A i \in 1..m : KindOf(out[i]) = "frame", KindOf(out[m + 1]) # "frame"
  PROVE  FramesIn(out) = [k \in 1..m |-> ParseFrameLine(out[k])]
<1> DEFINE places == {i \in DOMAIN out : KindOf(out[i]) = "frame"}
           place(k) == CHOOSE i \in places : Cardinality({j \in places : j <= i}) = k
<1>1. places = 1..m
  BY DOMAIN out = 1..(m + 1)
<1> HIDE DEF places
<1>2. ASSUME NEW i \in Nat PROVE Cardinality(1..i) = i
  BY FS_Interval
<1>3. ASSUME NEW k \in 1..m PROVE place(k) = k
  <2>1. \A i \in 1..m : {j \in places : j <= i} = 1..i
    BY <1>1
  <2>2. ASSUME NEW i \in 1..m PROVE Cardinality({j \in places : j <= i}) = i
    <3>1. {j \in places : j <= i} = 1..i /\ i \in Nat
      BY <2>1
    <3> QED
      BY <1>2, <3>1
  <2> QED
    BY <1>1, <2>2
<1>4. FramesIn(out) = [k \in 1..Cardinality(places) |-> ParseFrameLine(out[place(k)])]
  BY DEF FramesIn, places
<1> HIDE DEF place
<1>5. [k \in 1..m |-> ParseFrameLine(out[place(k)])] = [k \in 1..m |-> ParseFrameLine(out[k])]
  BY <1>3
<1> QED
  BY <1>1, <1>2, <1>4, <1>5

\* What the writer's lines say is what it was told to send.
LEMMA HexSurvives ==
  ASSUME NEW d \in Seq(0..255)
  PROVE  HexDecode(HexEncode(d)) = d
<1> DEFINE m == Len(d)
           text == HexEncode(d)
           bad == {i \in 1..(Len(text) \div 2) : NoNibble \in {text[2 * i - 1], text[2 * i]}}
<1>1. m \in Nat /\ d = [i \in 1..m |-> d[i]] /\ \A i \in 1..m : d[i] \in 0..255
  <2>1. ASSUME NEW S, NEW s \in Seq(S) PROVE Len(s) \in Nat /\ s \in [1..Len(s) -> S]
    OBVIOUS
  <2>2. m \in Nat /\ d \in [1..m -> 0..255]
    BY <2>1, Zenon
  <2> HIDE DEF m
  <2>3. d = [i \in 1..m |-> d[i]]
    BY <2>2
  <2>4. \A i \in 1..m : d[i] \in 0..255
    BY <2>2
  <2> QED
    BY <2>2, <2>3, <2>4
<1> HIDE DEF m
<1>2. text = [k \in 1..(2 * m) |-> IF k % 2 = 1 THEN d[(k + 1) \div 2] \div 16 ELSE d[k \div 2] % 16]
  BY DEF HexEncode, m
<1> HIDE DEF text
<1>3. Len(text) = 2 * m /\ (2 * m) \div 2 = m
  BY <1>1, <1>2
<1>4. ASSUME NEW i \in 1..m PROVE text[2 * i - 1] = d[i] \div 16 /\ text[2 * i] = d[i] % 16
  <2>1. /\ 2 * i - 1 \in 1..(2 * m) /\ 2 * i \in 1..(2 * m)
        /\ (2 * i - 1) % 2 = 1 /\ (2 * i) % 2 = 0
        /\ (2 * i - 1 + 1) \div 2 = i /\ (2 * i) \div 2 = i
    <3>1. i \in Int /\ 1 <= i /\ i <= m
      BY <1>1
    <3>2. ASSUME NEW k \in Int
          PROVE  (2 * k - 1) % 2 = 1 /\ (2 * k) % 2 = 0 /\ (2 * k - 1 + 1) \div 2 = k /\ (2 * k) \div 2 = k
      OBVIOUS
    <3>3. 2 * i - 1 \in 1..(2 * m) /\ 2 * i \in 1..(2 * m)
      BY <1>1, <3>1
    <3> QED
      BY <3>1, <3>2, <3>3
  <2> QED
    BY <1>2, <2>1
<1>5. ASSUME NEW b \in 0..255
      PROVE  b \div 16 \in 0..15 /\ b % 16 \in 0..15 /\ 16 * (b \div 16) + (b % 16) = b
  OBVIOUS
<1>6. bad = {}
  <2>1. ASSUME NEW i \in 1..m PROVE NoNibble \notin {text[2 * i - 1], text[2 * i]}
    <3>1. text[2 * i - 1] \in 0..15 /\ text[2 * i] \in 0..15
      <4>1. d[i] \in 0..255 /\ text[2 * i - 1] = d[i] \div 16 /\ text[2 * i] = d[i] % 16
        BY <1>1, <1>4
      <4>2. d[i] \div 16 \in 0..15 /\ d[i] % 16 \in 0..15
        BY <1>5, <4>1, Zenon
      <4> QED
        BY <4>1, <4>2
    <3> QED
      BY <3>1, 16 \notin 0..15 DEF NoNibble
  <2> QED
    BY <1>3, <2>1
<1> HIDE DEF bad
<1>7. HexDecode(text) = [i \in 1..m |-> 16 * text[2 * i - 1] + text[2 * i]]
  BY <1>3, <1>6 DEF HexDecode, bad
<1>8. \A i \in 1..m : 16 * text[2 * i - 1] + text[2 * i] = d[i]
  BY <1>1, <1>4, <1>5
<1>9. HexDecode(text) = [i \in 1..m |-> d[i]]
  BY <1>7, <1>8
<1> QED
  BY <1>1, <1>9 DEF text

LEMMA FrameSurvives ==
  ASSUME NEW f \in PeerFrames, f.id \in 0..MaxU32
  PROVE  ParseFrameLine(FrameLine(f)) = f
<1> DEFINE line == FrameLine(f)
<1>1. f = [id |-> f.id, flags |-> f.flags, data |-> f.data] /\ f.flags \subseteq Flags /\ f.data \in Seq(0..255)
  BY DEF PeerFrames
<1>2. U32Of(line, "id") = f.id
  BY DEF U32Of, HasU32, HasA, ValueOf, FrameLine, Num
<1>3. \A flag \in Flags : BoolOf(line, flag) <=> flag \in f.flags
  <2> USE DEF BoolOf, HasA, ValueOf, FrameLine, Bool
  <2>1. BoolOf(line, "ext") <=> "ext" \in f.flags
    OBVIOUS
  <2>2. BoolOf(line, "rtr") <=> "rtr" \in f.flags
    OBVIOUS
  <2>3. BoolOf(line, "fd") <=> "fd" \in f.flags
    OBVIOUS
  <2>4. BoolOf(line, "brs") <=> "brs" \in f.flags
    OBVIOUS
  <2>5. BoolOf(line, "esi") <=> "esi" \in f.flags
    OBVIOUS
  <2> HIDE DEF BoolOf, line
  <2> QED
    BY <2>1, <2>2, <2>3, <2>4, <2>5 DEF Flags
<1>4. HexDecode(ValueOf(line, "data_hex")) = f.data
  BY <1>1, HexSurvives DEF ValueOf, FrameLine, Text
<1> HIDE DEF line
<1>5. {flag \in Flags : BoolOf(line, flag)} = f.flags
  BY <1>1, <1>3
<1>6. ParseFrameLine(line) = [id |-> f.id, flags |-> f.flags, data |-> f.data]
  BY <1>2, <1>4, <1>5 DEF ParseFrameLine
<1> QED
  BY <1>1, <1>6 DEF line

\* A writer that reports success says exactly the frames of its command line, and so does
\* a reader that reports success too, for any count, any flags, any room in pipe, socket
\* and channel, any time-outs and any order of the steps, when no other node uses the id,
\* whatever others send; and a peer that reports success says so with its exit code and has
\* its Count frames (test_two_process_interop.cpp:148-164).
THEOREM TwoPeersAgree == InteropSpec => []PeersAgree
<1>1. InteropInit => AgreeInv
  <2> SUFFICES ASSUME InteropInit PROVE AgreeInv
    OBVIOUS
  <2>1. Writer \in Peers /\ Reader \in Peers
    BY DEF Peers
  <2>2. ASSUME NEW p \in Peers PROVE Story(p)
    <3>1. wrote[p] = <<>> /\ n[p] = 0 /\ child[p] = "none"
      BY DEF InteropInit
    <3> QED
      BY <3>1 DEF Story
  <2>3. n[Writer] = 0 /\ n[Reader] = 0 /\ child[Writer] = "none" /\ child[Reader] = "none"
        /\ chan = <<>> /\ socket = <<>> /\ noise = <<>>
    BY <2>1 DEF InteropInit
  <2>4. WriterStory
    BY <2>3 DEF WriterStory
  <2>5. PICK g : g = [i \in 0..0 |-> 0]
    OBVIOUS
  <2>6. Len(socket) = 0 /\ Len(chan) = 0 /\ Taken = 0 /\ SentSoFar = 0 /\ g[0] = 0 /\ g \in [0..0 -> Int]
    BY <2>3, <2>5 DEF Taken, SentSoFar, One
  <2>7. Tracks(g) /\ InStep(g)
    BY <2>3, <2>6 DEF Tracks, InStep, Seen
  <2> QED
    BY <2>2, <2>3, <2>4, <2>7 DEF AgreeInv, Tally, Holds
<1>2. ExecInv /\ AgreeInv /\ [InteropNext]_interopVars => AgreeInv'
  <2> SUFFICES ASSUME ExecInv, AgreeInv, [InteropNext]_interopVars PROVE AgreeInv'
    OBVIOUS
  <2>1. CASE UNCHANGED interopVars
    <3>1. UNCHANGED <<parent, result, child, exitStatus, n, got, socket, chan, noise, wrote>>
      BY <2>1 DEF interopVars, execVars, peerVars, canVars
    <3> QED
      BY <3>1, StoryStays, WriterStays, TallyStays DEF AgreeInv, Killed
  <2>2. CASE InteropNext
    BY <2>2, CallerAgrees, ChildAgrees, WriterClosesAgree, PumpAgrees, OthersAgree DEF InteropNext
  <2> QED
    BY <2>1, <2>2
<1>3. ExecInv /\ AgreeInv => PeersAgree
  <2> SUFFICES ASSUME ExecInv, AgreeInv PROVE PeersAgree
    OBVIOUS
  <2>1. ASSUME NEW p \in Peers, Ended(p)
        PROVE  LET out == result[p].output IN
                 /\ SaysOk(out) <=> exitStatus[p] = 0
                 /\ result[p].exit_code = exitStatus[p]
                 /\ FramesIn(out) = [k \in 1..n[p] |-> ParseFrameLine(out[k])]
                 /\ n[p] \in Nat /\ out = wrote[p]
                 /\ exitStatus[p] = 0 => n[p] = Count
    <3> DEFINE out == result[p].output
    <3>1. /\ out = wrote[p] /\ result[p].exit_code = exitStatus[p]
          /\ out \in Seq(PeerLines) /\ Len(out) = n[p] + 1 /\ n[p] \in Nat
          /\ \A i \in 1..n[p] : KindOf(out[i]) = "frame"
          /\ KindOf(out[n[p] + 1]) # "frame"
          /\ exitStatus[p] = 0 <=> TellsOk(out[n[p] + 1])
          /\ exitStatus[p] = 0 => n[p] = Count
      BY <2>1, EndedStory
    <3> HIDE DEF out
    <3>2. SaysOk(out) <=> TellsOk(out[n[p] + 1])
      <4>1. DOMAIN out = 1..(n[p] + 1) /\ n[p] + 1 \in DOMAIN out
        BY <3>1
      <4>2. \A i \in DOMAIN out : i \in 1..n[p] \/ i = n[p] + 1
        BY <3>1, <4>1
      <4>3. \A i \in 1..n[p] : ~TellsOk(out[i])
        BY <3>1 DEF TellsOk
      <4> QED
        BY <4>1, <4>2, <4>3 DEF SaysOk, TellsOk
    <3>3. FramesIn(out) = [k \in 1..n[p] |-> ParseFrameLine(out[k])]
      BY <3>1, FramesOfLines
    <3> QED
      BY <3>1, <3>2, <3>3 DEF out
  <2>2. ASSUME NEW p \in Peers, Ended(p)
        PROVE  LET out == result[p].output IN
                 /\ SaysOk(out) <=> result[p].exit_code = 0
                 /\ SaysOk(out) => Len(FramesIn(out)) = Count
    <3> DEFINE out == result[p].output
               said == [k \in 1..n[p] |-> ParseFrameLine(out[k])]
    <3>1. /\ SaysOk(out) <=> exitStatus[p] = 0
          /\ result[p].exit_code = exitStatus[p] /\ FramesIn(out) = said
          /\ n[p] \in Nat /\ (exitStatus[p] = 0 => n[p] = Count)
      BY <2>1, <2>2
    <3>2. Len(said) = n[p]
      BY <3>1
    <3> QED
      BY <3>1, <3>2
  <2> DEFINE said == [k \in 1..Count |-> WriterFrame(k - 1)]
  <2>3. ASSUME NEW p \in Peers, Ended(p), SaysOk(result[p].output),
               \A k \in 1..Count : wrote[p][k] = FrameLine(WriterFrame(k - 1))
        PROVE  FramesIn(result[p].output) = said
    <3>1. n[p] = Count /\ FramesIn(result[p].output) = [k \in 1..Count |-> ParseFrameLine(wrote[p][k])]
      BY <2>1, <2>3
    <3>2. ASSUME NEW k \in 1..Count PROVE ParseFrameLine(wrote[p][k]) = WriterFrame(k - 1)
      <4>1. Count \in Nat /\ Id \in 0..MaxU32
        BY InteropAssumption, JsonAssumption DEF Id
      <4>2. k - 1 \in Nat
        BY <4>1
      <4> QED
        BY <2>3, <4>1, <4>2, WrittenFrame, FrameSurvives
    <3> QED
      BY <3>1, <3>2
  <2>4. ASSUME Ended(Writer), SaysOk(result[Writer].output)
        PROVE  n[Writer] = Count /\ \A k \in 1..Count : wrote[Writer][k] = FrameLine(WriterFrame(k - 1))
    BY <2>1, <2>4 DEF AgreeInv, WriterStory, Peers
  <2>5. ASSUME Ended(Writer), SaysOk(result[Writer].output), Ended(Reader), SaysOk(result[Reader].output), Quiet
        PROVE  \A k \in 1..Count : wrote[Reader][k] = FrameLine(WriterFrame(k - 1))
    <3>1. Writer \in Peers /\ Reader \in Peers /\ Count \in Nat
      BY InteropAssumption DEF Peers
    <3>2. n[Writer] = Count /\ n[Reader] = Count
      BY <2>1, <2>5, <3>1
    <3>3. child[Writer] = "reaped" /\ ~Killed(Writer)
      BY <2>5, <3>1 DEF ExecInv, Kept, Ended, Killed
    <3>4. SentSoFar = Count /\ Count <= Taken
      BY <3>1, <3>2, <3>3, Counts DEF SentSoFar, Taken, One
    <3>5. PICK g : Holds(g)
      BY <2>5, <3>3 DEF AgreeInv, Tally
    <3>6. /\ g \in [0..Len(socket) -> Int] /\ g[0] = Taken + Len(chan) /\ g[0] <= g[Len(socket)]
          /\ Len(socket) \in 0..Len(socket)
      BY <3>5, Counts DEF Holds, Tracks
    <3>7. ~(Seen(g) < SentSoFar)
      <4>1. Taken \in Nat /\ Len(chan) \in Nat /\ g[Len(socket)] \in Int
        BY <3>6, Counts
      <4> QED
        BY <3>1, <3>4, <3>6, <4>1 DEF Seen
    <3> QED
      BY <3>2, <3>5, <3>7 DEF Holds, InStep
  <2> QED
    BY <2>2, <2>3, <2>4, <2>5 DEF PeersAgree, Quiet, Peers
<1>4. InteropSpec => []ExecInv
  BY ExecAlways
<1> QED
  BY <1>1, <1>2, <1>3, <1>4, PTL DEF InteropSpec
===================================================================================
