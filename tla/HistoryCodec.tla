---------------------------- MODULE HistoryCodec ----------------------------
(***************************************************************************)
(* The recorded client history that cc-checker reads back: the document of *)
(* versions 2 to 4 and the lines of version 1.  An initial key is one byte.*)
(***************************************************************************)
EXTENDS Codec

HistoryKey == F("key", Bytes)
MaybeBytes(n) == F(n, Opt(Bytes))

PlainOperations ==
  <<F("Set", Rec(<<HistoryKey, F("value", Bytes)>>)), F("Get", Rec(<<HistoryKey>>)),
    F("Del", Rec(<<HistoryKey>>)), F("Incr", Rec(<<HistoryKey>>)),
    F("Cas", Rec(<<HistoryKey, MaybeBytes("expected"), F("value", Bytes)>>)),
    F("Scan", Rec(<<MaybeBytes("prefix"), F("limit", Num)>>))>>
encode_operation_kind ==
  Tagged(Append(PlainOperations, F("Batch", Many(Tagged(PlainOperations), Nat))))

(***************************************************************************)
(* A batch is read from version 4 on, and only at the top.                 *)
(***************************************************************************)
decode_operation_kind(version) ==
  Tagged(IF version >= 4
         THEN Append(PlainOperations,
                     F("Batch", Many(Tagged(PlainOperations), 0..Cap.entries)))
         ELSE PlainOperations)

PlainOutcomes(counts) ==
  <<F("Ok", Unit), F("Value", Opt(Bytes)), F("Integer", Num), F("Cas", Flag),
    F("Scan", Many(Rec(<<HistoryKey, F("value", Bytes)>>), counts)),
    F("Error", Unit), F("Timeout", Unit)>>
encode_outcome ==
  Tagged(Append(PlainOutcomes(Nat), F("Batch", Many(Tagged(PlainOutcomes(Nat)), Nat))))
decode_outcome ==
  LET plain == PlainOutcomes(0..Cap.entries)
  IN Tagged(Append(plain, F("Batch", Many(Tagged(plain), 0..Cap.entries))))

Consistency == Enum(<<"Strong", "StaleLocal", "Diagnostic">>)
Diagnostic ==
  Either(<<F("None", Rec(<<Const(0)>>)), F("FinalProbe", Rec(<<Const(1)>>)),
           F("ReplicaState", Rec(<<Const(2)>> \o
              Ints(<<"replica", "committed_index", "state_hash">>)))>>)

encode_operation ==
  Rec(Ints(<<"id", "client", "sequence", "invoke">>) \o
      <<F("complete", Opt(Num)), F("kind", encode_operation_kind),
        F("outcome", encode_outcome), F("deadline", Opt(Num)),
        F("consistency", Consistency), F("diagnostic", Diagnostic)>>)
decode_operation(version) ==
  Rec(Ints(<<"id", "client", "sequence", "invoke">>) \o
      <<F("complete", Opt(Num)), F("kind", decode_operation_kind(version)),
        F("outcome", decode_outcome)>> \o
      (IF version >= 3
       THEN <<F("deadline", Opt(Num)), F("consistency", Consistency),
              F("diagnostic", Diagnostic)>>
       ELSE <<F("deadline", Absent({})), F("consistency", Absent("Strong")),
              F("diagnostic", Absent([is |-> "None", v |-> <<>>]))>>))

CCHX == 122
Initial(counts) == Map("key", Rec(<<F("key", Framed(Num)), F("value", Bytes)>>), counts)
encode_history ==
  Rec(Header(CCHX, 4) \o
    <<F("build_label", Bytes), F("config_hash", Num), F("retain_open", Flag),
      F("initial", Initial(Nat)), F("operations", Many(encode_operation, Nat))>>)
decode_history_of(version) ==
  Where("history_valid", Rec(Header(CCHX, version) \o
    <<F("build_label", Bytes), F("config_hash", Num), F("retain_open", Flag),
      F("initial", Initial(0..Cap.history)),
      F("operations", Many(decode_operation(version), 0..Cap.history))>>))
decode_history == First(<<decode_history_of(4), decode_history_of(3), decode_history_of(2)>>)

(***************************************************************************)
(* Version 1: one line of five fields per operation.  A text field is the  *)
(* sequence of its hexadecimal digits (16 is any other character, <<16>>   *)
(* the dash); a decimal field is a set holding its number, empty when it   *)
(* does not parse.                                                         *)
(***************************************************************************)
Dash == <<16>>
decode_history_v1_hex(text) ==
  IF Len(text) % 2 = 1 \/ \E i \in DOMAIN text : text[i] > 15 THEN {}
  ELSE {[i \in 1..Len(text) \div 2 |-> 16 * text[2 * i - 1] + text[2 * i]]}
v1_argument(line) == IF line.text = Dash THEN {{}} ELSE {{b} : b \in decode_history_v1_hex(line.text)}
v1_cas == <<99>>
v1_operation(line, key) ==
  CASE line.op = "SET"  -> {[kind |-> [is |-> "Set", v |-> [key |-> key, value |-> b]],
                             outcome |-> [is |-> "Ok", v |-> <<>>]] :
                              b \in decode_history_v1_hex(line.text)}
    [] line.op = "GET"  -> {[kind |-> [is |-> "Get", v |-> [key |-> key]],
                             outcome |-> [is |-> "Value", v |-> a]] : a \in v1_argument(line)}
    [] line.op = "DEL"  -> {[kind |-> [is |-> "Del", v |-> [key |-> key]],
                             outcome |-> [is |-> "Ok", v |-> <<>>]]}
    [] line.op = "INCR" -> {[kind |-> [is |-> "Incr", v |-> [key |-> key]],
                             outcome |-> [is |-> "Integer", v |-> n]] : n \in line.number}
    [] line.op = "CAS"  -> {[kind |-> [is |-> "Cas", v |-> [key |-> key, expected |-> a,
                                                            value |-> v1_cas]],
                             outcome |-> [is |-> "Cas", v |-> line.text # Dash]] :
                              a \in v1_argument(line)}
    [] OTHER            -> {}

(***************************************************************************)
(* One line: a blank or comment line is skipped, a bad field refuses the   *)
(* document.  Operation::completed takes the completion time as identity.  *)
(***************************************************************************)
v1_line(line) ==
  IF line.fields # 5 \/ line.invoke = {} \/ line.complete = {} THEN {}
  ELSE UNION {{[id |-> The(line.complete), client |-> 0, sequence |-> The(line.complete),
                invoke |-> The(line.invoke), complete |-> line.complete,
                kind |-> o.kind, outcome |-> o.outcome, deadline |-> {},
                consistency |-> "Strong", diagnostic |-> [is |-> "None", v |-> <<>>]] :
                 o \in v1_operation(line, key)} : key \in decode_history_v1_hex(line.key)}
decode_history_v1_tsv(lines) ==
  LET kept == SelectSeq(lines, LAMBDA l : ~ l.comment)
  IN IF \E i \in DOMAIN kept : v1_line(kept[i]) = {} THEN {}
     ELSE {[i \in DOMAIN kept |-> The(v1_line(kept[i]))]}
=============================================================================
