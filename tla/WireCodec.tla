------------------------------ MODULE WireCodec -------------------------------
(***************************************************************************)
(* The wire grammar of host/mcuscope/protocol.py: what the formatters      *)
(* emit, what the parsers take, and that the two agree. A line is its      *)
(* tokens; a token is what the parsers tell apart of it. The spec takes    *)
(* one input, formats it (or is refused) and parses what came out; noise   *)
(* from the wire is parsed directly.                                       *)
(***************************************************************************)
EXTENDS Integers, Sequences, SequencesExt, FiniteSets, FiniteSetsExt

CONSTANTS
  SeqMax, TickMax,    \* SEQ_MAX, TICK_MS_MAX
  StdMax, ExtMax,     \* CAN_ID_MAX_STD, CAN_ID_MAX_EXT
  TokensMax,          \* MAX_COMMAND_TOKENS
  DataMax             \* 8, the bytes of a CAN payload

VARIABLES stage, input, wire, output
vars == <<stage, input, wire, output>>

None    == [k |-> "none"]
Refused == [k |-> "refused"]        \* ProtocolError
Opt(S)  == S \cup {-1}              \* -1 is a missing number

-------------------------------------------------------------------------------
(* CAN frames and the `!can` event. *)

Frame(bus, tick, ext, rtr, id, dlc) ==
  [k |-> "can", bus |-> bus, tick |-> tick, ext |-> ext, rtr |-> rtr, id |-> id, dlc |-> dlc]

(* CanFrame: without rtr the dlc is the length of the data; `data` is that  *)
(* length.                                                                  *)
Frames == {[k |-> "frame", bus |-> b, tick |-> t, ext |-> e, rtr |-> r, id |-> i, dlc |-> d,
            data |-> IF r THEN n ELSE d] :
             b \in {0, 1, 2, 9, 10}, t \in {-1, 0, TickMax, TickMax + 1}, e \in BOOLEAN,
             r \in BOOLEAN, i \in {0, StdMax, StdMax + 1, ExtMax, ExtMax + 1},
             d \in {0, 1, DataMax, DataMax + 1}, n \in {0, 1}}

IdLimit(ext) == IF ext THEN ExtMax ELSE StdMax

FormatFamily(bus) == IF bus = 1 THEN <<"!can">> ELSE <<"!can", bus>>
ParseFamily(t) ==
  IF Len(t) = 1 THEN 1 ELSE IF t[2] \in 1 .. 9 THEN t[2] ELSE -1

FormatFlags(ext, rtr) ==
  IF ~ext /\ ~rtr THEN <<"-">> ELSE (IF ext THEN <<"x">> ELSE <<>>) \o (IF rtr THEN <<"r">> ELSE <<>>)

GoodFlags(t) == t = <<"-">> \/ (t # <<>> /\ Range(t) \subseteq {"x", "r"})

(* Mutant: the id is not held to what the parser takes. *)
FormatCanAnyId(f) ==
  IF f.tick \notin 0 .. TickMax \/ f.dlc \notin 0 .. DataMax \/ (f.rtr /\ f.data > 0)
     \/ f.bus \notin 1 .. 9
    THEN Refused
    ELSE [k |-> "can", name |-> FormatFamily(f.bus), tick |-> f.tick,
          flags |-> FormatFlags(f.ext, f.rtr), id |-> f.id,
          payload |-> IF f.rtr THEN <<"digit", f.dlc>>
                      ELSE IF f.data > 0 THEN <<"hex", 2 * f.data>> ELSE <<"-", 0>>]

(* format_can_event: refuses what parse_can_event would not give back. *)
FormatCan(f) ==
  IF f.id \notin 0 .. IdLimit(f.ext) \/ f.tick \notin 0 .. TickMax \/ f.dlc \notin 0 .. DataMax
     \/ (f.rtr /\ f.data > 0) \/ f.bus \notin 1 .. 9
    THEN Refused
    ELSE [k |-> "can", name |-> FormatFamily(f.bus), tick |-> f.tick,
          flags |-> FormatFlags(f.ext, f.rtr), id |-> f.id,
          payload |-> IF f.rtr THEN <<"digit", f.dlc>>
                      ELSE IF f.data > 0 THEN <<"hex", 2 * f.data>> ELSE <<"-", 0>>]

(* parse_can_event_tokens. A hex payload is its digits; a lone decimal      *)
(* digit is no hex pair.                                                    *)
ParseCan(w) ==
  LET rtr == "r" \in Range(w.flags)   ext == "x" \in Range(w.flags) IN
  IF \/ ParseFamily(w.name) = -1 \/ w.tick \notin 0 .. TickMax \/ ~GoodFlags(w.flags)
     \/ w.id > IdLimit(ext)
     \/ rtr /\ ~(w.payload[1] = "digit" /\ w.payload[2] <= 8)
     \/ ~rtr /\ ~(w.payload[1] = "-" \/ (w.payload[1] = "hex" /\ w.payload[2] % 2 = 0
                                          /\ w.payload[2] <= 2 * DataMax))
    THEN None
    ELSE Frame(ParseFamily(w.name), w.tick, ext, rtr, w.id,
               IF rtr \/ w.payload[1] = "-" THEN w.payload[2] ELSE w.payload[2] \div 2)

CanNoise ==
  {[k |-> "can", name |-> n, tick |-> t, flags |-> f, id |-> i, payload |-> p] :
     n \in {<<"!can">>, <<"!can", 0>>, <<"!can", 1>>, <<"!can", 9>>},
     t \in {0, TickMax, TickMax + 1}, f \in {<<"-">>, <<"r", "x">>, <<"x", "x">>, <<"q">>, <<"x", "-">>},
     i \in {0, StdMax, StdMax + 1, ExtMax + 1},
     p \in {<<"-", 0>>, <<"digit", 0>>, <<"digit", 9>>, <<"hex", 2>>, <<"hex", 3>>,
            <<"hex", 2 * DataMax>>, <<"hex", 2 * DataMax + 2>>}}

(* parse_can_tx_args: the arguments of `can tx`; `-` is no flags token.     *)
CanTxArgs == {[k |-> "tx", id |-> i, payload |-> p, flags |-> f] :
  i \in {0, StdMax, StdMax + 1, ExtMax + 1}, f \in {<<>>, <<"-">>, <<"x">>, <<"r", "x">>, <<"q">>},
  p \in {<<"-", 0>>, <<"digit", 8>>, <<"digit", 9>>, <<"hex", 2>>, <<"hex", 2 * DataMax + 2>>}}

ParseCanTx(a) ==
  IF a.flags = <<"-">> THEN Refused
  ELSE LET f == ParseCan([k |-> "can", name |-> <<"!can">>, tick |-> 0, id |-> a.id,
                          flags |-> IF a.flags = <<>> THEN <<"-">> ELSE a.flags,
                          payload |-> a.payload])
       IN IF f = None THEN Refused ELSE f

-------------------------------------------------------------------------------
(* Commands, responses and markers. Words are what split_tokens leaves;     *)
(* "@" stands for a word that reads as a tick, "break" for one with a CR or *)
(* LF.                                                                      *)

Words == {"w", "@", "break"}
Texts == UNION {[1 .. n -> Words] : n \in 0 .. 3}
Broken(t) == "break" \in Range(t)

Commands == {[k |-> "cmd", seq |-> s, words |-> t] : s \in {0, 1, SeqMax, SeqMax + 1}, t \in Texts}

FormatCommand(c) ==
  IF c.seq \notin 1 .. SeqMax \/ c.words = <<>> \/ Broken(c.words) \/ 1 + Len(c.words) > TokensMax
    THEN Refused ELSE [k |-> ">", seq |-> c.seq, words |-> c.words]

ParseCommand(w) ==
  IF w.seq \notin 1 .. SeqMax \/ w.words = <<>> THEN None
  ELSE [k |-> "cmd", seq |-> w.seq, words |-> w.words]

ErrorNames == 1 .. 2
Responses ==
  {[k |-> "resp", seq |-> s, code |-> c, words |-> t] :
     s \in {0, 1, SeqMax, SeqMax + 1}, c \in 0 .. 3, t \in Texts}

(* Code 0 is OK; a code without a name is refused. *)
FormatResponse(r) ==
  IF r.seq \notin 1 .. SeqMax \/ Broken(r.words) \/ r.code \notin {0} \cup ErrorNames THEN Refused
  ELSE [k |-> "<", seq |-> r.seq,
        words |-> IF r.code = 0 THEN <<"OK">> \o r.words ELSE <<"ERR", r.code, "name">> \o r.words]

ParseResponse(w) ==
  IF w.seq \notin 1 .. SeqMax \/ w.words = <<>> THEN None
  ELSE IF w.words[1] = "OK" THEN [k |-> "resp", seq |-> w.seq, code |-> 0, words |-> Tail(w.words)]
  ELSE IF w.words[1] = "ERR" /\ Len(w.words) >= 3
    THEN [k |-> "resp", seq |-> w.seq, code |-> w.words[2], words |-> SubSeq(w.words, 4, Len(w.words))]
  ELSE None

Markers == {[k |-> "mark", tick |-> t, words |-> x] : t \in {-1, 0, TickMax, TickMax + 1}, x \in Texts}

(* Mutant: a text that starts with a tick is let through. *)
FormatMarkerAnyText(m) ==
  IF m.words = <<>> \/ Broken(m.words) \/ m.tick > TickMax THEN Refused
  ELSE [k |-> "!m", words |-> (IF m.tick >= 0 THEN <<<<"@", m.tick>>>> ELSE <<>>)
                      \o [i \in DOMAIN m.words |-> IF m.words[i] = "@" THEN <<"@", 5>> ELSE <<"w">>]]

(* format_marker: without a tick, a text whose first word reads as one is   *)
(* refused.                                                                 *)
FormatMarker(m) ==
  IF m.words = <<>> \/ Broken(m.words) \/ m.tick > TickMax \/ (m.tick = -1 /\ Head(m.words) = "@")
    THEN Refused
  ELSE [k |-> "!m", words |-> (IF m.tick >= 0 THEN <<<<"@", m.tick>>>> ELSE <<>>)
                      \o [i \in DOMAIN m.words |-> IF m.words[i] = "@" THEN <<"@", 5>> ELSE <<"w">>]]

ParseMarker(w) ==
  LET ticked == w.words # <<>> /\ w.words[1][1] = "@"
      text   == IF ticked THEN Tail(w.words) ELSE w.words
  IN IF text = <<>> \/ (ticked /\ w.words[1][2] > TickMax) THEN None
     ELSE [k |-> "mark", tick |-> IF ticked THEN w.words[1][2] ELSE -1,
           words |-> [i \in DOMAIN text |-> text[i][1]]]

-------------------------------------------------------------------------------
(* Plot definitions and samples. *)

Width(type) == CASE type \in {"u1", "s1"} -> 1 [] type = "u2" -> 2 [] OTHER -> 4

(* A channel spec as it is written: scale "ok" is a good factor, "bad" a    *)
(* malformed one; the third field is a unit, empty, an enum or bit lanes.   *)
Specs ==
  {[name |-> n, type |-> t, scale |-> s, unit |-> u] :
     n \in {"a", "0bad"}, t \in {"u1", "f4"}, s \in {"none", "ok", "bad"},
     u \in {<<"none">>, <<"unit">>, <<"empty">>, <<"enum">>, <<"lanes", <<"a">>>>,
            <<"lanes", <<"b", "-", "c">>>>, <<"lanes", <<"-">>>>,
            <<"lanes", <<"b", "b", "b", "b", "b", "b", "b", "b", "c">>>>}}
  \cup {[name |-> "b", type |-> t, scale |-> "none", unit |-> <<"none">>] : t \in {"s1", "u7"}}

Lanes(s) == SelectSeq(s.unit[2], LAMBDA l : l # "-")

(* _parse_channel_spec, with _parse_enum_labels and _parse_bit_lanes. *)
SpecOk(s) ==
  /\ s.name # "0bad" /\ s.type # "u7" /\ s.scale # "bad" /\ s.unit[1] # "empty"
  /\ s.unit[1] \in {"enum", "lanes"} => s.scale = "none" /\ s.type # "f4"
  /\ s.unit[1] = "lanes" => Len(s.unit[2]) <= 8 * Width(s.type) /\ Lanes(s) # <<>>

(* Every name a definition brings: of its channels and their bit lanes.     *)
Brings(s) == <<s.name>> \o IF s.unit[1] = "lanes" THEN Lanes(s) ELSE <<>>

(* Mutant: only channel names are held to be unique. *)
DefOkChannels(d) ==
  /\ \A i \in DOMAIN d : SpecOk(d[i])
  /\ Cardinality({d[i].name : i \in DOMAIN d}) = Len(d)

(* _parse_plot_def_tokens: one namespace for channels and lanes.            *)
DefOk(d) ==
  /\ \A i \in DOMAIN d : SpecOk(d[i])
  /\ LET all == FlattenSeq([i \in DOMAIN d |-> Brings(d[i])]) IN Cardinality(Range(all)) = Len(all)

(* A hex field: its digits and what it decodes to; _decode_field wants the  *)
(* width of the type, and only an f4 decodes to something not finite.       *)
Fields == {[digits |-> n, finite |-> f] : n \in {2, 8}, f \in BOOLEAN}
FieldOk(x, type) == x.digits = 2 * Width(type)

(* The points of one field: a lane each, the channel itself, or nothing for *)
(* a value that is not finite (an f4, or one a scale carried out of range). *)
Points(x, s) ==
  IF s.unit[1] = "lanes" THEN Lanes(s)
  ELSE IF s.unit[1] # "enum" /\ ~x.finite /\ (s.type = "f4" \/ s.scale = "ok") THEN <<>> ELSE <<s.name>>

(* _decode_plot_sample_tokens: one field per channel, or a plain event.     *)
DecodeSample(d, xs) ==
  IF Len(xs) # Len(d) \/ \E i \in DOMAIN d : ~FieldOk(xs[i], d[i].type) THEN None
  ELSE LET points == FlattenSeq([i \in DOMAIN d |-> Points(xs[i], d[i])])
       IN IF points = <<>> THEN None ELSE [k |-> "sample", points |-> points]

(* _parse_plot_adhoc_tokens: pairs of a name and a value that parses; a     *)
(* name given twice spoils the line.                                        *)
Pairs == {[name |-> n, ok |-> v] : n \in {"a", "b", "0bad"}, v \in BOOLEAN}
DecodeAdhoc(ps) ==
  IF ps = <<>> \/ \E i \in DOMAIN ps : ~ps[i].ok \/ ps[i].name = "0bad" THEN None
  ELSE IF Cardinality({ps[i].name : i \in DOMAIN ps}) < Len(ps) THEN None
  ELSE [k |-> "sample", points |-> [i \in DOMAIN ps |-> ps[i].name]]

Seconds == {s \in Specs : s.name = "b" \/ (s.scale = "none" /\ s.type = "u1" /\ s.unit[1] = "lanes")}
Streams ==
  {[k |-> "ps", def |-> <<s>>, fields |-> <<x>>] : s \in Specs, x \in Fields}
    \cup {[k |-> "ps", def |-> <<s, t>>, fields |-> <<x, y>>] :
             s \in Specs, t \in Seconds, x \in Fields, y \in {[digits |-> 2, finite |-> TRUE]}}
Adhocs  == {[k |-> "p", pairs |-> ps] : ps \in UNION {[1 .. n -> Pairs] : n \in 0 .. 2}}

-------------------------------------------------------------------------------

Format(x) == CASE x.k = "frame" -> FormatCan(x) [] x.k = "cmd" -> FormatCommand(x)
               [] x.k = "resp" -> FormatResponse(x) [] x.k = "mark" -> FormatMarker(x)

(* classify and the dispatch of _submit_rx_line on the first token.         *)
Parse(w) == CASE w.k = "can" -> ParseCan(w) [] w.k = "tx" -> ParseCanTx(w)
              [] w.k = ">" -> ParseCommand(w) [] w.k = "<" -> ParseResponse(w)
              [] w.k = "!m" -> ParseMarker(w)
              [] w.k = "ps" -> IF DefOk(w.def) THEN DecodeSample(w.def, w.fields) ELSE None
              [] w.k = "p" -> DecodeAdhoc(w.pairs)

Init ==
  \/ /\ stage = "given" /\ input \in Frames \cup Commands \cup Responses \cup Markers
     /\ wire = None /\ output = None
  \/ /\ stage = "sent" /\ wire \in CanNoise \cup CanTxArgs \cup Streams \cup Adhocs
     /\ input = None /\ output = None

Sends ==
  /\ stage = "given"
  /\ wire' = Format(input)
  /\ stage' = (IF wire' = Refused THEN "refused" ELSE "sent")
  /\ UNCHANGED <<input, output>>

Receives ==
  /\ stage = "sent"
  /\ output' = Parse(wire)
  /\ stage' = "received"
  /\ UNCHANGED <<input, wire>>

Next == Sends \/ Receives
Spec == Init /\ [][Next]_vars

TypeOK == stage \in {"given", "refused", "sent", "received"}

-------------------------------------------------------------------------------
(* Properties. *)

(* What a formatter emits, its parser gives back unchanged, and a formatter *)
(* refuses every input that would not come back: the board and the host     *)
(* cannot read two things into one line.                                    *)
RoundTrip ==
  stage = "received" /\ input # None =>
    output = IF input.k = "frame"
               THEN Frame(input.bus, input.tick, input.ext, input.rtr, input.id, input.dlc)
               ELSE input

(* What the CAN parser takes from the wire, noise or not, the formatter     *)
(* would emit: a stored frame can be sent again.                            *)
ParsedFramesFormat ==
  stage = "received" /\ input = None /\ wire.k \in {"can", "tx"} /\ output.k = "can" =>
    FormatCan([k |-> "frame", bus |-> output.bus, tick |-> output.tick, ext |-> output.ext,
               rtr |-> output.rtr, id |-> output.id, dlc |-> output.dlc,
               data |-> IF output.rtr THEN 0 ELSE output.dlc]) # Refused

(* A sample never brings one name twice, whether its names come from the    *)
(* line or from channels and bit lanes of a definition.                     *)
PointsHaveOneName ==
  stage = "received" /\ output.k = "sample" => Cardinality(Range(output.points)) = Len(output.points)
===============================================================================
