------------------------------- MODULE EnvCodec -------------------------------
(***************************************************************************)
(* The host boundary of cc-env: the connection preamble and what two peers *)
(* negotiate from it, peer frames, and the inputs and effects of a node as *)
(* the journal records them.  Feature bits are sets.                       *)
(***************************************************************************)
EXTENDS CoreCodec

CCHL == 109
enc_hello ==
  Where("hello_valid", Sealed(Rec(Header(CCHL, 1) \o
    <<F("cluster_id", Num), F("node_id", Num), F("cluster_policy", Framed(dec_policy))>> \o
    Ints(<<"semantic_min", "semantic_max", "supported_features", "required_features",
           "max_peer_frame">>))))
dec_hello ==
  Where("hello_valid", Sealed(Rec(Header(CCHL, 1) \o
    <<F("cluster_id", Num), F("node_id", Num),
      F("cluster_policy", Limit(Cap.hello, Framed(dec_policy)))>> \o
    Ints(<<"semantic_min", "semantic_max", "supported_features", "required_features",
           "max_peer_frame">>))))

(***************************************************************************)
(* PeerHello::negotiate: what this side concludes from the other's hello,  *)
(* or the empty set where it refuses the connection.                       *)
(***************************************************************************)
negotiate_one_way(h, peer) ==
  LET high == IF h.semantic_max < peer.semantic_max THEN h.semantic_max ELSE peer.semantic_max
  IN {a \in {[semantic_version |-> high,
              features |-> Features(h.supported_features) \cap Features(peer.supported_features),
              max_peer_frame |-> IF h.max_peer_frame < peer.max_peer_frame
                                 THEN h.max_peer_frame ELSE peer.max_peer_frame]} :
        /\ h.cluster_id = peer.cluster_id /\ h.cluster_policy = peer.cluster_policy
        /\ h.node_id # peer.node_id
        /\ high >= h.semantic_min /\ high >= peer.semantic_min
        /\ Features(h.required_features) \subseteq Features(peer.supported_features)}
negotiate(h, peer) ==
  LET low  == IF h.semantic_min > peer.semantic_min THEN h.semantic_min ELSE peer.semantic_min
      high == IF h.semantic_max < peer.semantic_max THEN h.semantic_max ELSE peer.semantic_max
      agreed == [semantic_version |-> high,
                 features |-> Features(h.supported_features)
                                \cap Features(peer.supported_features),
                 max_peer_frame |-> IF h.max_peer_frame < peer.max_peer_frame
                                    THEN h.max_peer_frame ELSE peer.max_peer_frame]
  IN {a \in {agreed} :
        /\ hello_valid(h) /\ hello_valid(peer)
        /\ h.cluster_id = peer.cluster_id
        /\ h.cluster_policy = peer.cluster_policy
        /\ h.node_id # peer.node_id
        /\ low <= high
        /\ Features(h.required_features) \subseteq Features(peer.supported_features)
        /\ Features(peer.required_features) \subseteq Features(h.supported_features)}

CCPF == 110
encode_peer_frame ==
  Where("frame_fits", Rec(Header(CCPF, 1) \o
    <<F("msg", SumFramed(Rec(<<F("proto_version", Num), F("payload", Rest)>>), Nat))>>))
decode_peer_frame ==
  Rec(Header(CCPF, 1) \o
    <<F("msg", SumFramed(Rec(<<F("proto_version", Num), F("payload", Rest)>>),
                         1..(Cap.frame + 1)))>>)

(***************************************************************************)
(* bounded_bytes: the encoder refuses what Enc::bytes would stop on.       *)
(***************************************************************************)
bounded_bytes   == Where("within_codec", Bytes)

encode_file == Tagged(<<F("Wal", Num), F("Sst", Num), F("Manifest", Num),
                        F("Snapshot", Num), F("Meta", Unit), F("Temp", Num),
                        F("StoreWal", Num)>>)
decode_file == Tagged(<<F("Wal", Num), F("Sst", Num), F("Manifest", Num),
                        F("Snapshot", Num), F("Meta", Unit), F("Temp", Num),
                        F("StoreWal", Num)>>)

IoErrors == <<F("Eio", Unit), F("Enospc", Unit), F("NotFound", Unit),
              F("AlreadyExists", Unit), F("PermissionDenied", Unit),
              F("InvalidData", Unit), F("InvalidRange", Unit)>>
encode_io_result ==
  Tagged(<<F("Written", Num), F("Read", bounded_bytes), F("Fsynced", Unit),
           F("Truncated", Num),
           F("Failed", Tagged(Append(IoErrors, F("Corrupt", bounded_bytes))))>>)
decode_io_result ==
  Tagged(<<F("Written", Num), F("Read", Bytes), F("Fsynced", Unit), F("Truncated", Num),
           F("Failed", Tagged(Append(IoErrors, F("Corrupt", Bytes))))>>)

encode_wire == <<F("proto_version", Num), F("payload", bounded_bytes)>>
decode_wire == <<F("proto_version", Num), F("payload", Bytes)>>

CCEI == 111
encode_input ==
  Sealed(Limit(Cap.codec, Rec(Header(CCEI, 1) \o <<F("input", Tagged(
    <<F("Recv", Rec(<<F("from", Pos)>> \o encode_wire)),
      F("IoDone", Rec(<<F("id", Num), F("result", encode_io_result)>>)),
      F("TimerFired", Rec(Ints(<<"id", "generation">>))),
      F("ClientRequest",
        Rec(<<F("client", Pos), F("req", Num),
              F("session", Blank(Rec(<<F("client", Pos), F("sequence", Pos)>>), 2)),
              F("command", bounded_bytes)>>)),
      F("Tick", Unit)>>))>>)))
decode_input ==
  Sealed(Rec(Header(CCEI, 1) \o <<F("input", Tagged(
    <<F("Recv", Rec(<<F("from", Pos)>> \o decode_wire)),
      F("IoDone", Rec(<<F("id", Num), F("result", decode_io_result)>>)),
      F("TimerFired", Rec(Ints(<<"id", "generation">>))),
      F("ClientRequest",
        Rec(<<F("client", Pos), F("req", Num),
              F("session", Blank(Rec(<<F("client", Pos), F("sequence", Pos)>>), 2)),
              F("command", Bytes)>>)),
      F("Tick", Unit)>>))>>))

CCEO == 112
encode_effect ==
  Sealed(Limit(Cap.codec, Rec(Header(CCEO, 1) \o <<F("effect", Tagged(
    <<F("Send", Rec(<<F("to", Pos)>> \o encode_wire)),
      F("DiskWrite", Rec(<<F("file", encode_file), F("at", Num), F("bytes", bounded_bytes),
                           F("id", Num)>>)),
      F("DiskFsync", Rec(<<F("file", encode_file), F("id", Num)>>)),
      F("DiskRead", Rec(<<F("file", encode_file)>> \o Ints(<<"at", "len", "id">>))),
      F("DiskTruncate", Rec(<<F("file", encode_file)>> \o Ints(<<"to_len", "id">>))),
      F("DiskCreateTemp", Rec(<<F("file", encode_file), F("id", Num)>>)),
      F("DiskRename", Rec(<<F("from", encode_file), F("to", encode_file), F("id", Num)>>)),
      F("DiskDelete", Rec(<<F("file", encode_file), F("id", Num)>>)),
      F("DiskSyncDir", Rec(<<F("id", Num)>>)),
      F("SetTimer", Rec(Ints(<<"id", "fire_at">>))),
      F("CancelTimer", Rec(<<F("id", Num)>>)),
      F("ClientReply", Rec(<<F("client", Pos), F("req", Num), F("reply", bounded_bytes)>>)),
      F("Trace", Framed(enc_event))>>))>>)))
decode_effect ==
  Sealed(Rec(Header(CCEO, 1) \o <<F("effect", Tagged(
    <<F("Send", Rec(<<F("to", Pos)>> \o decode_wire)),
      F("DiskWrite", Rec(<<F("file", decode_file), F("at", Num), F("bytes", Bytes),
                           F("id", Num)>>)),
      F("DiskFsync", Rec(<<F("file", decode_file), F("id", Num)>>)),
      F("DiskRead", Rec(<<F("file", decode_file)>> \o Ints(<<"at", "len", "id">>))),
      F("DiskTruncate", Rec(<<F("file", decode_file)>> \o Ints(<<"to_len", "id">>))),
      F("DiskCreateTemp", Rec(<<F("file", decode_file), F("id", Num)>>)),
      F("DiskRename", Rec(<<F("from", decode_file), F("to", decode_file), F("id", Num)>>)),
      F("DiskDelete", Rec(<<F("file", decode_file), F("id", Num)>>)),
      F("DiskSyncDir", Rec(<<F("id", Num)>>)),
      F("SetTimer", Rec(Ints(<<"id", "fire_at">>))),
      F("CancelTimer", Rec(<<F("id", Num)>>)),
      F("ClientReply", Rec(<<F("client", Pos), F("req", Num), F("reply", Bytes)>>)),
      F("Trace", Framed(dec_event))>>))>>))
=============================================================================
