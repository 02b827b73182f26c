------------------------------ MODULE RaftCodec ------------------------------
(***************************************************************************)
(* The consensus messages of cc-raft (codec.rs), and the log records of    *)
(* cc-log.  Semantic version 3 adds the requirements of an entry and the   *)
(* follower-read messages.                                                 *)
(***************************************************************************)
EXTENDS CoreCodec

EntryKindsV2 == [App |-> <<1>>, Noop |-> <<2>>, Config |-> <<3>>]

(***************************************************************************)
(* entry_v3_fields and decode_entry_kind: a kind is written as the minimum *)
(* semantic version, the required features and the base kind.              *)
(***************************************************************************)
entry_v3_fields == [App |-> <<2, 0, 1>>, Noop |-> <<2, 0, 2>>, Config |-> <<2, 0, 3>>,
                    AppV3 |-> <<3, ATOMIC_BATCH, 1>>, ConfigV3 |-> <<3, 0, 3>>]
decode_entry_kind == [App |-> <<2, 0, 1>>, Noop |-> <<2, 0, 2>>, Config |-> <<2, 0, 3>>,
                      AppV3 |-> <<3, ATOMIC_BATCH, 1>>, ConfigV3 |-> <<3, 0, 3>>]

encode_entry(semantic) ==
  Where("payload_fits", Rec(<<F("term", Num), F("index", Pos),
    F("kind", Words(IF semantic = 3 THEN entry_v3_fields ELSE EntryKindsV2)),
    F("payload", Bytes)>>))
decode_entry(semantic) ==
  Rec(<<F("term", Num), F("index", Pos),
        F("kind", Words(IF semantic = 3 THEN decode_entry_kind ELSE EntryKindsV2)),
        F("payload", Bytes)>>)

RejectReasons == [None |-> <<0>>, RestartFromZero |-> <<1>>, Gap |-> <<2>>,
                  Conflict |-> <<3>>, TooLarge |-> <<4>>, StaleTerm |-> <<5>>,
                  Corrupt |-> <<6>>]
IndexTerm == Rec(Ints(<<"last_index", "last_term">>))
Granted   == Rec(<<F("granted", Flag)>>)

(***************************************************************************)
(* The message kinds as encode writes them under a semantic version.       *)
(***************************************************************************)
encode_kinds(semantic) ==
  <<F("PreVoteReq", IndexTerm), F("PreVoteResp", Granted),
    F("VoteReq", IndexTerm), F("VoteResp", Granted),
    F("AppendReq", Rec(Ints(<<"prev_index", "prev_term", "leader_commit", "read_round">>)
                       \o <<F("entries", Many(encode_entry(semantic), 0..Cap.entries))>>)),
    F("AppendResp", Where("append_resp_valid",
        Rec(<<F("success", Flag), F("match_index", Num), F("conflict_term", Blank(Num, 1)),
              F("conflict_index", Num), F("read_round", Num)>>))),
    F("SnapshotChunk", Where("chunk_valid",
        Rec(Ints(<<"transfer_id", "last_included_index", "last_included_term",
                   "total_len", "snapshot_crc32c", "offset">>)
            \o <<F("done", Flag), F("data", Summed)>>))),
    F("SnapshotAck", Where("ack_valid",
        Rec(Ints(<<"transfer_id", "next_offset">>)
            \o <<F("accepted", Flag), F("reason", Words(RejectReasons))>>))),
    F("TimeoutNow", Rec(<<F("intent_index", Pos)>>)),
    F("FollowerReadRequest", IF semantic # 3 THEN Never ELSE
        Rec(<<F("request_id", Pos), F("command_hash", Num)>>)),
    F("FollowerReadGrant", IF semantic # 3 THEN Never ELSE
        Rec(<<F("request_id", Pos)>> \o Ints(<<"command_hash", "read_index", "read_time">>)))>>

decode_kinds(semantic) ==
  <<F("PreVoteReq", IndexTerm), F("PreVoteResp", Granted),
    F("VoteReq", IndexTerm), F("VoteResp", Granted),
    F("AppendReq", Rec(Ints(<<"prev_index", "prev_term", "leader_commit", "read_round">>)
                       \o <<F("entries", Many(decode_entry(semantic), 0..Cap.entries))>>)),
    F("AppendResp", Where("append_resp_valid",
        Rec(<<F("success", Flag), F("match_index", Num), F("conflict_term", Blank(Num, 1)),
              F("conflict_index", Num), F("read_round", Num)>>))),
    F("SnapshotChunk", Where("chunk_valid",
        Rec(Ints(<<"transfer_id", "last_included_index", "last_included_term",
                   "total_len", "snapshot_crc32c", "offset">>)
            \o <<F("done", Flag), F("data", Summed)>>))),
    F("SnapshotAck", Where("ack_valid",
        Rec(Ints(<<"transfer_id", "next_offset">>)
            \o <<F("accepted", Flag), F("reason", Words(RejectReasons))>>))),
    F("TimeoutNow", Rec(<<F("intent_index", Pos)>>)),
    F("FollowerReadRequest", IF semantic # 3 THEN Never ELSE
        Rec(<<F("request_id", Pos), F("command_hash", Num)>>)),
    F("FollowerReadGrant", IF semantic # 3 THEN Never ELSE
        Rec(<<F("request_id", Pos)>> \o Ints(<<"command_hash", "read_index", "read_time">>)))>>

CCRP == 106
enc_message ==
  Where("addressed", Rec(Header(CCRP, 1) \o
    Ints(<<"proto_version", "from", "to", "term">>) \o
    <<F("kind", Dep("proto_version", 2 :> Tagged(encode_kinds(2))
                                  @@ 3 :> Tagged(encode_kinds(3))))>>))
dec_message ==
  Where("addressed", Rec(Header(CCRP, 1) \o
    <<F("proto_version", In({2, 3})), F("from", Pos), F("to", Pos), F("term", Num),
      F("kind", Dep("proto_version", 2 :> Tagged(decode_kinds(2))
                                  @@ 3 :> Tagged(decode_kinds(3))))>>))

-----------------------------------------------------------------------------
(***************************************************************************)
(* The semantic log records of cc-log and the stream a host file holds.    *)
(***************************************************************************)

Origins == <<"Bootstrap", "Join", "Restore">>
V3Kinds == [AppV3 |-> <<3, ATOMIC_BATCH, 1>>, ConfigV3 |-> <<3, 0, 3>>]
PlainKinds == <<"App", "Noop", "Config">>

CCLR == 113
encode_record ==
  Sealed(Rec(Header(CCLR, 1) \o <<F("record", Tagged(
    <<F("Genesis", Where("genesis_valid",
        Rec(<<F("origin", Enum(Origins)), F("cluster_id", Num),
              F("policy", Framed(enc_policy)), F("membership", Framed(enc_membership))>>))),
      F("Hard", Rec(Ints(<<"term", "voted_for">>))),
      F("Append", Where("payload_fits",
        Rec(<<F("term", Num), F("index", Pos), F("kind", Enum(PlainKinds)),
              F("payload", Bytes)>>))),
      F("Truncate", Rec(<<F("from", Pos)>>)),
      F("SnapshotMark", Rec(<<F("index", Pos)>> \o Ints(<<"term", "generation", "crc">>))),
      F("InstalledSnapshotMark",
        Rec(<<F("index", Pos)>> \o Ints(<<"term", "generation", "crc">>))),
      F("AppendV3", Where("payload_fits",
        Rec(<<F("term", Num), F("index", Pos), F("kind", Words(V3Kinds)),
              F("payload", Bytes)>>)))>>))>>))

decode_record ==
  Sealed(Rec(Header(CCLR, 1) \o <<F("record", Tagged(
    <<F("Genesis",
        Rec(<<F("origin", Enum(Origins)), F("cluster_id", Num),
              F("policy", Framed(dec_policy)), F("membership", Framed(dec_membership))>>)),
      F("Hard", Rec(Ints(<<"term", "voted_for">>))),
      F("Append",
        Rec(<<F("term", Num), F("index", Pos), F("kind", Enum(PlainKinds)),
              F("payload", Bytes)>>)),
      F("Truncate", Rec(<<F("from", Pos)>>)),
      F("SnapshotMark", Rec(<<F("index", Pos)>> \o Ints(<<"term", "generation", "crc">>))),
      F("InstalledSnapshotMark",
        Rec(<<F("index", Pos)>> \o Ints(<<"term", "generation", "crc">>))),
      F("AppendV3",
        Rec(<<F("term", Num), F("index", Pos), F("kind", Words(V3Kinds)),
              F("payload", Bytes)>>))>>))>>))

(***************************************************************************)
(* A record of the host file: its length, then its cells.                  *)
(***************************************************************************)
encode_framed_durable_record(r) == {<<Len(b)>> \o b : b \in enc(encode_record, r)}

(***************************************************************************)
(* The complete prefix of a file: an incomplete final record is a torn     *)
(* tail, an impossible length or a bad complete record is corruption, and  *)
(* the genesis comes first and once.                                       *)
(***************************************************************************)
RECURSIVE recover_framed_record_stream(_, _)
recover_short_of_end(s, recs) ==
  IF s = <<>> \/ (Head(s) >= Len(s) - 1 /\ Head(s) <= Cap.codec)
  THEN IF recs = <<>> THEN {} ELSE {[records |-> recs, torn |-> s # <<>>]}
  ELSE IF Head(s) \notin 1..Cap.codec THEN {}
  ELSE UNION {recover_framed_record_stream(SubSeq(s, Head(s) + 2, Len(s)), Append(recs, r)) :
                r \in decode(decode_record, SubSeq(s, 2, Head(s) + 1))}
recover_framed_record_stream(s, recs) ==
  IF s = <<>> \/ (Head(s) > Len(s) - 1 /\ Head(s) <= Cap.codec)
  THEN IF recs = <<>> THEN {} ELSE {[records |-> recs, torn |-> s # <<>>]}
  ELSE IF Head(s) \notin 1..Cap.codec THEN {}
  ELSE UNION {IF (recs = <<>>) # (r.record.is = "Genesis") THEN {}
              ELSE recover_framed_record_stream(SubSeq(s, Head(s) + 2, Len(s)), Append(recs, r)) :
                r \in {r \in decode(decode_record, SubSeq(s, 2, Head(s) + 1)) :
                         r.record.is = "Genesis" => genesis_valid(r.record.v)}}
=============================================================================
