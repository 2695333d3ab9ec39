-------------------------------- MODULE JsonLines --------------------------------
(***************************************************************************)
(* The JSON reading and writing of cpp-can-cli (cli/json.hpp) and of the     *)
(* interoperability peers (interop/interop_common.hpp).                      *)
(*                                                                           *)
(* An object is a function from its keys to values that carry their type; a  *)
(* key is looked for anywhere in the text, and a value of another type than  *)
(* the one asked for counts as missing.  A base64 character is its value, a  *)
(* hexadecimal one its nibble.                                               *)
(***************************************************************************)
EXTENDS Integers, Sequences, SequencesExt

CONSTANT MaxU32   \* 2^32 - 1

ASSUME JsonAssumption == MaxU32 \in Nat /\ MaxU32 > 0

Num(n) == <<"number", n>>
Bool(b) == <<"boolean", b>>
Text(s) == <<"string", s>>
List(s) == <<"list", s>>
Map(f) == <<"map", f>>

HasA(o, key, type) == key \in DOMAIN o /\ o[key][1] = type
ValueOf(o, key) == o[key][2]

HasU32(o, key) == HasA(o, key, "number") /\ ValueOf(o, key) \in 0..MaxU32
BoolOf(o, key) == HasA(o, key, "boolean") /\ ValueOf(o, key)
U32Of(o, key) == IF HasU32(o, key) THEN ValueOf(o, key) ELSE 0

-----------------------------------------------------------------------------
(* base64 *)

Pad == 64     \* '='
Junk == 65    \* any character that is not of the alphabet

\* Three bytes give four characters; those no byte reaches are padding.
Base64Encode(data) ==
  LET byte(i) == IF i <= Len(data) THEN data[i] ELSE 0
      group(g) == 65536 * byte(3 * g + 1) + 256 * byte(3 * g + 2) + byte(3 * g + 3)
  IN [k \in 1..(4 * ((Len(data) + 2) \div 3)) |->
        LET g == (k - 1) \div 4
            c == (k - 1) % 4
        IN IF c >= 2 /\ 3 * g + c > Len(data) THEN Pad ELSE (group(g) \div 2^(18 - 6 * c)) % 64]

\* Fault: a byte is taken only when more than eight bits are there.
NextChar_Late(s, c) ==
  LET accum == 64 * s.accum + c
      left == s.bits - 2
  IN IF s.ended \/ c = Pad THEN [s EXCEPT !.ended = TRUE]
     ELSE IF c = Junk THEN s
     ELSE IF left > 0 THEN [s EXCEPT !.accum = accum % 2^left, !.bits = left, !.out = Append(@, accum \div 2^left)]
     ELSE [s EXCEPT !.accum = accum, !.bits = @ + 6]

\* A character of the alphabet adds six bits, and eight bits make a byte; others are
\* skipped, and the first padding ends the text.  Of the accumulator only the bits
\* that are still read are kept.
NextChar(s, c) ==
  LET accum == 64 * s.accum + c
      left == s.bits - 2
  IN IF s.ended \/ c = Pad THEN [s EXCEPT !.ended = TRUE]
     ELSE IF c = Junk THEN s
     ELSE IF left >= 0 THEN [s EXCEPT !.accum = accum % 2^left, !.bits = left, !.out = Append(@, accum \div 2^left)]
     ELSE [s EXCEPT !.accum = accum, !.bits = @ + 6]

Base64Start == [accum |-> 0, bits |-> 0, out |-> <<>>, ended |-> FALSE]

Base64Decode(text) ==
  LET after[k \in 0..Len(text)] ==
        IF k = 0 THEN Base64Start ELSE NextChar(after[k - 1], text[k])
  IN after[Len(text)].out

\* A string is base64; a list of numbers is read up to the first that is no byte.
BytesOf(o, key) ==
  CASE HasA(o, key, "string") -> Base64Decode(ValueOf(o, key))
    [] HasA(o, key, "list") ->
         LET stop == SelectInSeq(ValueOf(o, key), LAMBDA b : b \notin 0..255)
         IN IF stop = 0 THEN ValueOf(o, key) ELSE SubSeq(ValueOf(o, key), 1, stop - 1)
    [] OTHER -> <<>>

-----------------------------------------------------------------------------
(* Hexadecimal *)

NoNibble == 16   \* a character that is no hexadecimal digit

HexEncode(data) ==
  [k \in 1..(2 * Len(data)) |->
     IF k % 2 = 1 THEN data[(k + 1) \div 2] \div 16 ELSE data[k \div 2] % 16]

\* Pairs up to the first that is not one; a last odd character is left.
HexDecode(text) ==
  LET bad == {i \in 1..(Len(text) \div 2) : NoNibble \in {text[2 * i - 1], text[2 * i]}}
      n == IF bad = {} THEN Len(text) \div 2 ELSE (CHOOSE i \in bad : \A j \in bad : i <= j) - 1
  IN [i \in 1..n |-> 16 * text[2 * i - 1] + text[2 * i]]
===============================================================================
