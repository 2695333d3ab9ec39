--------------------------------- MODULE MCTools ---------------------------------
(* The programs and the parser that keep to themselves: in one behaviour only one   *)
(* of them runs.                                                                    *)
EXTENDS Dbc, Cli, Interop, TLC

CONSTANT Tools   \* the ones of this run

VARIABLE tool    \* the one that runs

vars == <<dbcVars, cliVars, interopVars, tool>>

-----------------------------------------------------------------------------
(* DBC files: five lines of any kind, and a message with one signal of any layout. *)

Sig(start, length, order, signed) ==
  [start |-> start, length |-> length, order |-> order, signed |-> signed,
   factor |-> 3, offset |-> 2, values |-> <<>>]
Bo(id) == [kind |-> "BO_", id |-> id, ok |-> TRUE]
Sg(name, sig) == [kind |-> "SG_", name |-> name, sig |-> sig, ok |-> TRUE]
Val(id, name, pairs) == [kind |-> "VAL_", id |-> id, name |-> name, pairs |-> pairs]
Table == <<<<1, "on">>, <<0, "off">>>>

Structure ==
  [max |-> 5, lines |->
   {[kind |-> "blank"], [kind |-> "other"], Bo(1), Bo(2), [Bo(1) EXCEPT !.ok = FALSE],
    Sg("a", Sig(0, 2, "little", FALSE)), Sg("a", Sig(7, 2, "big", TRUE)),
    [Sg("b", Sig(0, 1, "little", FALSE)) EXCEPT !.ok = FALSE],
    Val(1, "a", Table), Val(1, "a", <<<<1, "auto">>, <<1, "error">>>>),
    Val(Unreadable, "a", Table), Val(1, "a", <<<<0, "off">>, <<Unreadable, "on">>>>)}]

FileOf(sig) == [max |-> 3, lines |-> {Bo(1), Sg("a", sig), Val(1, "a", Table)}]

EverySignal ==
  {Sig(start, length, order, signed) :
     start \in {-1, 0, 3, 6, 7, 8, 13}, length \in {0, 1, 2, 5, 7, 8, 9}, order \in {"little", "big"},
     signed \in BOOLEAN}

Wide(sig) == sig.signed /\ sig.length = IntBits
MCInputs == {Structure} \cup {FileOf(sig) : sig \in {sig \in EverySignal : ~Wide(sig)}}
MCWideInputs == {FileOf(sig) : sig \in {sig \in EverySignal : Wide(sig)}}
MCPayloads == {<<>>, <<129>>, <<255, 255>>, <<165, 60>>, <<0, 1>>}

-----------------------------------------------------------------------------
(* Command lines, frames and messages as JSON. *)

Data == <<0, 129, 255, 7>>
FrameObject == [id |-> Num(5), data |-> List(Data)]
MCObjects ==
  {FrameObject, [FrameObject EXCEPT !.data = Text(<<Junk, 0, 8, 31, 63, Pad, 1>>)],
   [data |-> List(Data)], [FrameObject EXCEPT !.id = Num(MaxU32 + 1)],
   [FrameObject EXCEPT !.id = Num(2^11)], [FrameObject EXCEPT !.id = Text(5)],
   FrameObject @@ [ext |-> Num(1)], [FrameObject EXCEPT !.id = Num(2^11)] @@ [ext |-> Bool(TRUE)],
   FrameObject @@ [fd |-> Bool(TRUE), brs |-> Bool(TRUE), esi |-> Bool(TRUE), sdt |-> Num(259)],
   FrameObject @@ [fd |-> Bool(FALSE), brs |-> Bool(TRUE)],
   FrameObject @@ [xl |-> Bool(TRUE), sdt |-> Num(3)],
   FrameObject @@ [rtr |-> Bool(TRUE)], [id |-> Num(5), rtr |-> Bool(TRUE)]}
  \cup {[FrameObject EXCEPT !.data = List(d)] :
          d \in {<<1, 300, 2>>, [i \in 1..9 |-> i]} \cup UNION {[1..k -> {0, 77, 255}] : k \in 0..4}}

Message == MessageJson(ToMessage(ParseFrame(FrameObject)), Data)
MCStreamed ==
  {Message, [Message EXCEPT !.id = Text(2), !.payload = List(<<9>>)],
   [Message EXCEPT !.protocol = Num(2)], [Message EXCEPT !.protocol = Text(1)],
   [Message EXCEPT !.id = Num(5)], [Message EXCEPT !.id = Text(NotANumber)],
   [Message EXCEPT !.meta = Num(0)],
   [Message EXCEPT !.meta = Map([fd |-> FALSE, brs |-> TRUE])],
   [Message EXCEPT !.meta = Map([sdt |-> NotANumber])]}

Options == {"--format", "--protocol", "--verbose", "json", "text", "CAN", "MQTT"}
MCArgLists ==
  {<<>>} \cup {<<c>> \o o : c \in {"version", "capabilities", "status", "send", "convert", "listen"},
               o \in UNION {[1..k -> Options] : k \in 0..2}}
  \cup {<<"convert", "--protocol", "CAN", "--format", "json">>, <<"convert", "--format", "text", "--protocol", "CAN">>,
        <<"convert", "--protocol", "MQTT", "--protocol", "CAN">>,
        <<"send", "--format", "json", "--format", "text">>, <<"version", "--format", "xml", "--format", "text">>}

-----------------------------------------------------------------------------
(* Frames of other nodes: one with the id of the peers, one without. *)

MCNoise == {[id |-> Id, flags |-> {}, data |-> <<0>>], [id |-> 5, flags |-> {"ext", "rtr"}, data |-> <<>>]}

-----------------------------------------------------------------------------
Init ==
  /\ tool \in Tools
  /\ DbcInit(IF tool = "dbc" THEN Inputs ELSE {Structure})
  /\ CliInit(IF tool = "cli" THEN ArgLists ELSE {<<>>})
  /\ InteropInit

Next ==
  /\ UNCHANGED tool
  /\ \/ tool = "dbc" /\ DbcNext /\ UNCHANGED <<cliVars, interopVars>>
     \/ tool = "cli" /\ CliNext /\ UNCHANGED <<dbcVars, interopVars>>
     \/ tool = "interop" /\ InteropNext /\ UNCHANGED <<dbcVars, cliVars>>

Spec == Init /\ [][Next]_vars /\ InteropFairness
==================================================================================
