---------------------------- MODULE JournalCodec ----------------------------
(***************************************************************************)
(* The input journal of cc-host (journal.rs): the boot image a recording   *)
(* starts from, one frame per delivered input with the block reads it made *)
(* and the effects it returned, and a terminal frame.                      *)
(***************************************************************************)
EXTENDS EnvCodec

RaftFields  == <<"election_min", "election_max", "heartbeat", "max_entries_per_append",
                 "pipeline_window", "leader_transfer_timeout">>
StoreFields == <<"memtable_bytes", "store_key_bytes", "store_value_bytes", "segment_size",
                 "max_record_size">>
(***************************************************************************)
(* The limits that HostLimits::validate relates to one another; the others *)
(* of each group are one field.                                            *)
(***************************************************************************)
LimitsV2 == <<"max_queues", "max_snapshot_bytes", "max_threads", "thread_stack_bytes">>
LimitsV3 == <<"max_peer_frame_bytes", "max_log_bytes_before_snapshot", "max_raft_log_bytes",
              "max_store_wal_bytes", "max_data_dir_bytes", "max_snapshot_chunk_bytes",
              "max_snapshot_staging_bytes", "max_checkpoint_builder_bytes",
              "max_host_thread_stack_bytes", "max_host_input_bytes",
              "max_host_total_input_bytes", "max_host_output_bytes",
              "max_host_total_output_bytes", "max_host_queued_requests",
              "max_host_total_queued_requests", "max_referenced_sst_bytes", "max_others">>
DefaultLimit(name) == IF name \in {"max_data_dir_bytes", "max_host_thread_stack_bytes"}
                      THEN 40 ELSE IF name = "max_raft_log_bytes" THEN 5 ELSE 4

encode_node_config ==
  Rec(<<F("id", Pos), F("seed", Num)>> \o Ints(RaftFields) \o Ints(StoreFields) \o
      <<F("policy", Framed(enc_policy)),
        F("host_limits", Where("limits_valid", Rec(Ints(LimitsV2) \o Ints(LimitsV3))))>>)

(***************************************************************************)
(* Images before version 3 carry the first group only; the host's defaults *)
(* stand for the rest.                                                     *)
(***************************************************************************)
decode_node_config(version) ==
  Rec(<<F("id", Pos), F("seed", Num)>> \o Ints(RaftFields) \o Ints(StoreFields) \o
      <<F("policy", Framed(dec_policy)),
        F("host_limits", Where("limits_valid", Rec(Ints(LimitsV2) \o
          (IF version >= 3 THEN Ints(LimitsV3)
           ELSE [i \in DOMAIN LimitsV3 |->
                   F(LimitsV3[i], Absent(DefaultLimit(LimitsV3[i])))]))))>>)

CCBI == 119
encode_boot_image ==
  Limit(Cap.image, Where("image_valid", Rec(Header(CCBI, 4) \o
    <<F("cluster_id", Num), F("config", encode_node_config),
      F("membership", Framed(enc_membership)), F("boot_epoch", Num),
      F("build_label", Bytes), F("wal", Bytes), F("store_wal", Bytes),
      F("snapshot", Opt(Bytes))>>)))
decode_boot_image_of(version) ==
  Where("image_fits", Rec(Header(CCBI, version) \o
    <<F("cluster_id", Num), F("config", decode_node_config(version)),
      F("membership", Framed(dec_membership)), F("boot_epoch", Num),
      F("build_label", Bytes), F("wal", Bytes)>> \o
    (IF version >= 4 THEN <<F("store_wal", Bytes), F("snapshot", Opt(Bytes))>>
     ELSE <<F("store_wal", Absent(<<>>)), F("snapshot", Absent({}))>>)))
decode_boot_image ==
  First(<<decode_boot_image_of(4), decode_boot_image_of(3), decode_boot_image_of(2)>>)

BlockResults == <<"Ok", "MissingTable", "InvalidInput", "TooLarge", "Busy", "Corrupt",
                  "MetaMismatch", "Wal", "Decode">>
encode_journal_record ==
  Limit(Cap.record, Rec(<<F("ordinal", Num), F("now", Num), F("input", Framed(encode_input)),
    F("observations", Many(Where("observation_valid",
        Rec(<<F("file", Framed(encode_file)), F("offset", Num), F("len", Num),
              F("result", Enum(BlockResults)), F("bytes", Bytes), F("service", Num)>>)),
        0..Cap.effects)),
    F("effects", Many(Framed(encode_effect), 0..Cap.effects))>>))
decode_journal_record ==
  Rec(<<F("ordinal", Num), F("now", Num), F("input", Framed(decode_input)),
    F("observations", Many(Where("observation_valid",
        Rec(<<F("file", Framed(decode_file)), F("offset", Num), F("len", Num),
              F("result", Enum(BlockResults)), F("bytes", Bytes), F("service", Num)>>)),
        0..Cap.effects)),
    F("effects", Many(Framed(decode_effect), 0..Cap.effects))>>)

Terminations == <<"Complete", "Capped", "HostError", "FatalIo">>
CCIF == 120
encode_footer_body == Rec(Header(CCIF, 1) \o <<F("termination", Enum(Terminations)),
                                               F("last_ordinal", Num)>>)
decode_footer_body == Rec(Header(CCIF, 1) \o <<F("termination", Enum(Terminations)),
                                               F("last_ordinal", Num)>>)

CCIJ == 121
FooterBit == 1000
encode_journal_header(image) == {<<CCIJ, 1>> \o bytes(image)}
encode_record_frame(r) ==
  {<<Len(b), crc(b)>> \o b : b \in enc(encode_journal_record, r)}
encode_footer_frame(f) ==
  {<<Len(b) + FooterBit, crc(b)>> \o b : b \in enc(encode_footer_body, f)}
encode_journal(j) ==
  Join(<<encode_journal_header(j.boot_image)>>
       \o [i \in DOMAIN j.records |-> encode_record_frame(j.records[i])]
       \o (IF j.footer = {} THEN <<>> ELSE <<encode_footer_frame(The(j.footer))>>))

(***************************************************************************)
(* InputJournal::push and finish.                                          *)
(***************************************************************************)
push(j, r) ==
  LET last == j.records[Len(j.records)]
  IN IF j.records # <<>> /\ (r.ordinal <= last.ordinal \/ r.now < last.now) THEN {}
     ELSE {[j EXCEPT !.records = Append(@, r)]}
finish(j, f) ==
  LET last == IF j.records = <<>> THEN 0 ELSE j.records[Len(j.records)].ordinal
  IN IF f.last_ordinal # last THEN {} ELSE {[j EXCEPT !.footer = {f}]}

(***************************************************************************)
(* InputJournal::decode: every complete frame; a cut final frame is the    *)
(* mark of a crash and is dropped; nothing follows a footer.               *)
(***************************************************************************)
RECURSIVE journal_frames(_, _)
journal_frames(s, j) ==
  IF Len(s) < 2 THEN {j}
  ELSE LET footer == Head(s) >= FooterBit
           length == IF footer THEN Head(s) - FooterBit ELSE Head(s)
           body   == SubSeq(s, 3, length + 2)
           rest   == SubSeq(s, length + 3, Len(s))
       IN IF length > (IF footer THEN Cap.footer ELSE Cap.record) THEN {}
          ELSE IF length > Len(s) - 2 THEN {j}
          ELSE IF crc(body) # s[2] THEN {}
          ELSE IF footer
          THEN IF rest # <<>> THEN {}
               ELSE UNION {finish(j, f) : f \in decode(decode_footer_body, body)}
          ELSE UNION {UNION {journal_frames(rest, k) : k \in push(j, r)} :
                        r \in decode(decode_journal_record, body)}
decode_journal(s) ==
  IF Len(s) < 2 THEN {}
  ELSE IF SubSeq(s, 1, 2) # <<CCIJ, 1>> THEN {}
  ELSE UNION {journal_frames(b[2], [boot_image |-> b[1], records |-> <<>>, footer |-> {}]) :
                b \in string(SubSeq(s, 3, Len(s)))}
=============================================================================
