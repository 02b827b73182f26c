------------------------------- MODULE KvCodec -------------------------------
(***************************************************************************)
(* The commands and replies of cc-kv.  A batch has a version and a tag of  *)
(* its own and holds framed plain commands or replies.                     *)
(***************************************************************************)
EXTENDS Codec

Key      == F("key", Bytes)
Value    == F("value", Bytes)
Maybe(n) == F(n, Opt(Bytes))

CCKV == 107
enc_plain_command ==
  Rec(Header(CCKV, 1) \o <<F("op", Tagged(
    <<F("Set", Rec(<<Key, Value, F("ttl", Opt(Num))>>)), F("Del", Rec(<<Key>>)),
      F("Cas", Rec(<<Key, Maybe("expected"), Maybe("value")>>)),
      F("Incr", Rec(<<Key, F("delta", Num)>>)),
      F("Expire", Rec(<<Key, F("ttl", Num)>>)), F("Persist", Rec(<<Key>>)),
      F("PurgeExpired", Rec(<<F("up_to", Num)>>)),
      F("ExpireSessions", Rec(<<F("up_to", Num)>>)), F("Get", Rec(<<Key>>)),
      F("Scan", Rec(<<Maybe("start"), Maybe("end"), F("limit", Num)>>)),
      F("Ping", Unit), F("Append", Rec(<<Key, Value>>)),
      F("GetSet", Rec(<<Key, Value>>)), F("GetDel", Rec(<<Key>>)),
      F("ExpireAt", Rec(<<Key, F("at", Num)>>)), F("Ttl", Rec(<<Key>>)),
      F("ConditionalSet", Rec(<<Key, Value, F("ttl", Opt(Num)),
                                F("condition", Enum(<<"Nx", "Xx">>))>>))>>))>>)
dec_plain_command ==
  Rec(Header(CCKV, 1) \o <<F("op", Tagged(
    <<F("Set", Rec(<<Key, Value, F("ttl", Opt(Num))>>)), F("Del", Rec(<<Key>>)),
      F("Cas", Rec(<<Key, Maybe("expected"), Maybe("value")>>)),
      F("Incr", Rec(<<Key, F("delta", Num)>>)),
      F("Expire", Rec(<<Key, F("ttl", Num)>>)), F("Persist", Rec(<<Key>>)),
      F("PurgeExpired", Rec(<<F("up_to", Num)>>)),
      F("ExpireSessions", Rec(<<F("up_to", Num)>>)), F("Get", Rec(<<Key>>)),
      F("Scan", Rec(<<Maybe("start"), Maybe("end"), F("limit", Num)>>)),
      F("Ping", Unit), F("Append", Rec(<<Key, Value>>)),
      F("GetSet", Rec(<<Key, Value>>)), F("GetDel", Rec(<<Key>>)),
      F("ExpireAt", Rec(<<Key, F("at", Num)>>)), F("Ttl", Rec(<<Key>>)),
      F("ConditionalSet", Rec(<<Key, Value, F("ttl", Opt(Num)),
                                F("condition", Enum(<<"Nx", "Xx">>))>>))>>))>>)

BatchTag == 18
enc_command ==
  Either(<<F("Plain", enc_plain_command),
           F("Batch", Rec(Header(CCKV, 3) \o <<Const(BatchTag),
                          F("commands", Many(Framed(enc_plain_command), Nat))>>))>>)
dec_command ==
  Either(<<F("Plain", dec_plain_command),
           F("Batch", Rec(Header(CCKV, 3) \o <<Const(BatchTag),
                          F("commands", Many(Framed(dec_plain_command), 1..Cap.batch))>>))>>)

(***************************************************************************)
(* Store and Decode errors share tag 8, which no decoder accepts: they     *)
(* stop the node and never become a reply.                                 *)
(***************************************************************************)
error_tag == [StaleSequence |-> <<1>>, SequenceConflict |-> <<2>>, SessionExpired |-> <<3>>,
              NotNumeric |-> <<4>>, CasMismatch |-> <<5>>, TooLarge |-> <<6>>,
              InvalidInput |-> <<7>>, Store |-> <<8>>, Busy |-> <<9>>]
error_from_tag == [StaleSequence |-> <<1>>, SequenceConflict |-> <<2>>,
                   SessionExpired |-> <<3>>, NotNumeric |-> <<4>>, CasMismatch |-> <<5>>,
                   TooLarge |-> <<6>>, InvalidInput |-> <<7>>, Busy |-> <<9>>]

ScanItem == Rec(<<Key, Value>>)
ErrorTag == 7

CCRY == 108
enc_plain_reply ==
  Sealed(Rec(Header(CCRY, 1) \o <<F("is", Tagged(
    <<F("Ok", Unit), F("Value", Opt(Bytes)), F("Integer", Num), F("Cas", Flag),
      F("Conditional", Flag), F("Scan", Many(ScanItem, Nat)),
      F("Error", Words(error_tag))>>))>>))
dec_plain_reply ==
  Sealed(Rec(Header(CCRY, 1) \o <<F("is", Tagged(
    <<F("Ok", Unit), F("Value", Opt(Bytes)), F("Integer", Num), F("Cas", Flag),
      F("Conditional", Flag), F("Scan", Many(ScanItem, 0..Cap.scan)),
      F("Error", Words(error_from_tag))>>))>>))

enc_reply ==
  Either(<<F("Plain", enc_plain_reply),
           F("Batch", Sealed(Rec(Header(CCRY, 3) \o <<Const(ErrorTag), Const(1),
                F("replies", Many(Framed(enc_plain_reply), Nat))>>))),
           F("BatchError", Sealed(Rec(Header(CCRY, 3) \o <<Const(ErrorTag), Const(0),
                F("failed_index", Blank(Num, 1)), F("error", Framed(enc_plain_reply))>>)))>>)
dec_reply ==
  Either(<<F("Plain", dec_plain_reply),
           F("Batch", Sealed(Rec(Header(CCRY, 3) \o <<Const(ErrorTag), Const(1),
                F("replies", Many(Framed(dec_plain_reply), 1..Cap.batch))>>))),
           F("BatchError", Sealed(Rec(Header(CCRY, 3) \o <<Const(ErrorTag), Const(0),
                F("failed_index", Blank(UpTo(Cap.batch - 1), 1)),
                F("error", Where("is_error", Framed(dec_plain_reply)))>>)))>>)
=============================================================================
