------------------------------ MODULE MCFormats ------------------------------
(***************************************************************************)
(* Three scenes: every format with samples of each alternative, absent and *)
(* present options, empty and nonempty lists and limits reached (Formats); *)
(* snapshot files written and read in chunks (SnapshotStream); and client  *)
(* histories judged by the checker (Checker).  A behaviour plays one.      *)
(***************************************************************************)
EXTENDS Formats

CONSTANTS Images, Chunks, MaxTotal, Cluster, Every,
          Keys, MaxInt, MaxStates, Budget, Workloads
VARIABLES scene,
          image, writer, file, damage, reader, given,
          history, now, load, configs
streamvars == <<image, writer, file, damage, reader, given>>
checkvars  == <<history, now, load, configs>>

Stream == INSTANCE SnapshotStream
Check  == INSTANCE Checker

MCCap == [codec |-> 120, members |-> 3, duration |-> 9, policy |-> 60, chunk |-> 2,
          entries |-> 4, batch |-> 2, scan |-> 2, frame |-> 4, hello |-> 40, label |-> 2,
          image |-> 130, default_key |-> 2, default_value |-> 3, level |-> 6, restart |-> 2,
          block |-> 26, probes |-> 2, record |-> 130, effects |-> 2, footer |-> 8,
          history |-> 3]

Pol == [max_members |-> 3, max_key_bytes |-> 2, max_value_bytes |-> 3,
        max_live_logical_bytes |-> 50, max_command_bytes |-> 40, max_reply_bytes |-> 40,
        max_scan_items |-> 3, max_live_deadlines |-> 3, max_sessions |-> 2,
        max_session_bytes |-> 45, max_session_tombstones |-> 2, session_idle_ns |-> 1,
        session_retry_grace_ns |-> 2, leader_transfer_timeout_ns |-> 5,
        max_keys_per_expiry_sweep |-> 2, max_batch_commands |-> 2, max_batch_bytes |-> 30,
        max_batch_reply_bytes |-> 30]
V(name, v) == [is |-> name, v |-> v]
U(name)    == V(name, <<>>)
Addr4 == V("V4", [ip |-> 10, port |-> 1])
Addr6 == V("V6", [ip |-> 3, port |-> 2])
Mem(voters, learners, joint, addresses, features) ==
  [voters |-> voters, learners |-> learners, joint |-> joint, addresses |-> addresses,
   active_features |-> features]
M1 == Mem({1}, {}, {}, {}, 0)
M3 == Mem({1, 2}, {3}, {}, {[id |-> 2, address |-> Addr4]}, 2)
MJ == Mem({1, 2, 3}, {}, {[old_voters |-> {1, 2}, new_voters |-> {1, 3}, enter_index |-> 4]},
          {[id |-> 1, address |-> Addr6]}, 0)

AdminSession == [namespace |-> 1, client |-> 2, sequence |-> 3]
Config(session, op) == [admin_session |-> session, leader_time |-> 7, operation |-> op]
Configs ==
  <<Config({}, V("AddLearner", [id |-> 3, address |-> {Addr4}])),
    Config({AdminSession}, V("AddLearner", [id |-> 3, address |-> {}])),
    Config({}, V("RemoveLearner", [id |-> 3])),
    Config({}, V("UpdateAddress", [id |-> 3, address |-> Addr6])),
    Config({AdminSession}, V("EnterJoint", [new_voters |-> {1, 3}])),
    Config({}, V("LeaveJoint", [enter_index |-> 4])),
    Config({AdminSession}, V("BeginLeaderTransfer", [target |-> 2])),
    Config({}, V("FinishLeaderTransfer", [intent_index |-> 5, result |-> "Timeout"])),
    Config({}, V("ActivateFeature", [feature |-> 2]))>>
AdminReplies ==
  <<[operation_tag |-> 1, result |-> "Applied", source_index |-> 3, detail |-> <<>>],
    [operation_tag |-> 8, result |-> "Rejected", source_index |-> 0, detail |-> <<5>>]>>
Ev(node) == [seq |-> 1, time |-> 2, node |-> node, kind |-> 30, payload |-> <<4>>]
Traces == <<[seed |-> 1, config_hash |-> 2, build |-> <<6>>, events |-> <<Ev({}), Ev({1})>>]>>

Msg(version, kind) == [proto_version |-> version, from |-> 1, to |-> 2, term |-> 5,
                       kind |-> kind]
Ent(kind) == [term |-> 1, index |-> 2, kind |-> kind, payload |-> <<8>>]
Append2(entries) == V("AppendReq", [prev_index |-> 1, prev_term |-> 1, leader_commit |-> 0,
                                    read_round |-> 2, entries |-> entries])
Resp(ok, ct, ci) == V("AppendResp", [success |-> ok, match_index |-> 2, conflict_term |-> ct,
                                     conflict_index |-> ci, read_round |-> 0])
Chunk(offset, done, data) ==
  V("SnapshotChunk", [transfer_id |-> 1, last_included_index |-> 2, last_included_term |-> 1,
                      total_len |-> 3, snapshot_crc32c |-> 77, offset |-> offset,
                      done |-> done, data |-> data])
Ack(ok, reason, next) == V("SnapshotAck", [transfer_id |-> 1, next_offset |-> next,
                                           accepted |-> ok, reason |-> reason])
Messages ==
  <<Msg(2, V("PreVoteReq", [last_index |-> 1, last_term |-> 1])),
    Msg(2, V("PreVoteResp", [granted |-> TRUE])),
    Msg(2, V("VoteReq", [last_index |-> 0, last_term |-> 0])),
    Msg(3, V("VoteResp", [granted |-> FALSE])),
    Msg(2, Append2(<<Ent("App"), Ent("Noop"), Ent("Config")>>)),
    Msg(3, Append2(<<Ent("AppV3"), Ent("ConfigV3"), Ent("App")>>)),
    Msg(2, Resp(TRUE, {}, 0)), Msg(2, Resp(FALSE, {1}, 2)),
    Msg(2, Chunk(0, FALSE, <<1, 2>>)), Msg(2, Chunk(2, TRUE, <<3>>)),
    Msg(2, Ack(TRUE, "None", 2)), Msg(2, Ack(FALSE, "Gap", 1)), Msg(2, Ack(FALSE, "Corrupt", 0)),
    Msg(2, V("TimeoutNow", [intent_index |-> 3])),
    Msg(3, V("FollowerReadRequest", [request_id |-> 1, command_hash |-> 9])),
    Msg(3, V("FollowerReadGrant", [request_id |-> 1, command_hash |-> 9, read_index |-> 2,
                                   read_time |-> 4]))>>

K == <<1>>
Op(name, v) == [op |-> V(name, v)]
Plains ==
  <<Op("Set", [key |-> K, value |-> <<2, 3>>, ttl |-> {4}]),
    Op("Set", [key |-> K, value |-> <<>>, ttl |-> {}]), Op("Del", [key |-> K]),
    Op("Cas", [key |-> K, expected |-> {}, value |-> {<<2>>}]),
    Op("Incr", [key |-> K, delta |-> 5]), Op("Expire", [key |-> K, ttl |-> 2]),
    Op("Persist", [key |-> K]), Op("PurgeExpired", [up_to |-> 3]),
    Op("ExpireSessions", [up_to |-> 3]), Op("Get", [key |-> K]),
    Op("Scan", [start |-> {K}, end |-> {}, limit |-> 2]), Op("Ping", <<>>),
    Op("Append", [key |-> K, value |-> <<2>>]), Op("GetSet", [key |-> K, value |-> <<2>>]),
    Op("GetDel", [key |-> K]), Op("ExpireAt", [key |-> K, at |-> 6]), Op("Ttl", [key |-> K]),
    Op("ConditionalSet", [key |-> K, value |-> <<2>>, ttl |-> {}, condition |-> "Xx"])>>
Commands == [i \in DOMAIN Plains |-> V("Plain", Plains[i])]
              \o <<V("Batch", [commands |-> <<Plains[3], Plains[5]>>])>>
Rp(name, v) == [is |-> V(name, v)]
PlainReplies ==
  <<Rp("Ok", <<>>), Rp("Value", {<<2>>}), Rp("Value", {}), Rp("Integer", 6), Rp("Cas", TRUE),
    Rp("Conditional", FALSE), Rp("Scan", <<[key |-> K, value |-> <<2>>]>>),
    Rp("Error", "Busy")>>
Replies == [i \in DOMAIN PlainReplies |-> V("Plain", PlainReplies[i])]
             \o <<V("Batch", [replies |-> <<PlainReplies[1], PlainReplies[4]>>]),
                  V("BatchError", [failed_index |-> {1}, error |-> PlainReplies[8]]),
                  V("BatchError", [failed_index |-> {}, error |-> PlainReplies[8]])>>
Envelopes ==
  <<[session |-> {}, leader_time |-> 3, command |-> Commands[3]],
    [session |-> {[namespace |-> 0, client |-> 1, sequence |-> 2]}, leader_time |-> 3,
     command |-> Commands[19]]>>

Hello(id, cluster, low, high, supported, required, frame) ==
  [cluster_id |-> cluster, node_id |-> id, cluster_policy |-> Pol, semantic_min |-> low,
   semantic_max |-> high, supported_features |-> supported, required_features |-> required,
   max_peer_frame |-> frame]
Hellos == <<Hello(1, 7, 2, 3, 3, 0, 4), Hello(2, 7, 2, 2, 1, 1, 3), Hello(3, 7, 3, 3, 3, 2, 4),
            Hello(4, 8, 2, 3, 3, 0, 4), Hello(5, 7, 2, 3, 2, 0, 2)>>
Frames == <<[msg |-> [proto_version |-> 2, payload |-> <<1, 2>>]],
            [msg |-> [proto_version |-> 3, payload |-> <<>>]]>>
In1(v) == [input |-> v]
Inputs ==
  <<In1(V("Recv", [from |-> 1, proto_version |-> 2, payload |-> <<5>>])),
    In1(V("IoDone", [id |-> 1, result |-> V("Written", 3)])),
    In1(V("IoDone", [id |-> 1, result |-> V("Read", <<5>>)])),
    In1(V("IoDone", [id |-> 1, result |-> U("Fsynced")])),
    In1(V("IoDone", [id |-> 1, result |-> V("Truncated", 0)])),
    In1(V("IoDone", [id |-> 1, result |-> V("Failed", U("Enospc"))])),
    In1(V("IoDone", [id |-> 1, result |-> V("Failed", V("Corrupt", <<2>>))])),
    In1(V("TimerFired", [id |-> 1, generation |-> 2])),
    In1(V("ClientRequest", [client |-> 1, req |-> 2,
                            session |-> {[client |-> 1, sequence |-> 2]}, command |-> <<3>>])),
    In1(V("ClientRequest", [client |-> 1, req |-> 2, session |-> {}, command |-> <<>>])),
    In1(U("Tick"))>>
Out(v) == [effect |-> v]
Wal == V("Wal", 1)
Effects ==
  <<Out(V("Send", [to |-> 2, proto_version |-> 2, payload |-> <<5>>])),
    Out(V("DiskWrite", [file |-> Wal, at |-> 0, bytes |-> <<5>>, id |-> 1])),
    Out(V("DiskFsync", [file |-> U("Meta"), id |-> 1])),
    Out(V("DiskRead", [file |-> V("Sst", 2), at |-> 0, len |-> 3, id |-> 1])),
    Out(V("DiskTruncate", [file |-> Wal, to_len |-> 0, id |-> 1])),
    Out(V("DiskCreateTemp", [file |-> V("Temp", 1), id |-> 1])),
    Out(V("DiskRename", [from |-> V("Temp", 1), to |-> V("Manifest", 2), id |-> 1])),
    Out(V("DiskDelete", [file |-> V("Snapshot", 1), id |-> 1])),
    Out(V("DiskSyncDir", [id |-> 1])), Out(V("SetTimer", [id |-> 1, fire_at |-> 2])),
    Out(V("CancelTimer", [id |-> 1])),
    Out(V("ClientReply", [client |-> 1, req |-> 1, reply |-> <<2>>])),
    Out(V("Trace", Ev({1})))>>

LogRecord(v) == [record |-> v]
Genesis == LogRecord(V("Genesis", [origin |-> "Join", cluster_id |-> 7, policy |-> Pol,
                                   membership |-> M3]))
LogRecords ==
  <<Genesis, LogRecord(V("Hard", [term |-> 2, voted_for |-> 1])),
    LogRecord(V("Append", Ent("Config"))), LogRecord(V("Truncate", [from |-> 2])),
    LogRecord(V("SnapshotMark", [index |-> 2, term |-> 1, generation |-> 1, crc |-> 5])),
    LogRecord(V("InstalledSnapshotMark", [index |-> 2, term |-> 1, generation |-> 1, crc |-> 5])),
    LogRecord(V("AppendV3", Ent("AppV3")))>>

Batch1(kind, mutations, metadata) ==
  [entry_kind |-> kind, index |-> 2, term |-> 1, time |-> 3, mutations |-> mutations,
   metadata |-> metadata, canonical_command |-> <<4>>, cached_reply |-> <<>>]
Batches ==
  <<Batch1("App", <<V("Put", [key |-> K, value |-> <<2, 3>>]), V("Delete", [key |-> <<2>>])>>,
           <<V("Upsert", [namespace |-> 1, key |-> K, value |-> <<4>>])>>),
    Batch1("Config", <<>>, <<V("Delete", [namespace |-> 1, key |-> K])>>)>>
Metas   == <<[generation |-> 3]>>
MetasV2 == <<[generation |-> 3, manifest_header_crc |-> 8]>>
Ver(key, seq, kind, value) == [user_key |-> key, sequence |-> seq, kind |-> kind,
                               value |-> value]
TablesV1 == <<[file_no |-> 1, entries |-> <<Ver(K, 1, "Put", <<2>>), Ver(<<2>>, 2, "Delete", <<>>)>>]>>
IK(key, seq) == [user_key |-> key, sequence |-> seq, kind |-> "Put"]
MFile(level, no, low, high) == [level |-> level, file_no |-> no, file_size |-> 4,
                                smallest |-> IK(low, 3), largest |-> IK(high, 1),
                                footer_crc |-> 6]
Bases ==
  <<[next_file_no |-> 1, watermark |-> [index |-> 0, term |-> 0, time |-> 0],
     store_sequence |-> 0, checkpoint |-> {}, files |-> {}],
    [next_file_no |-> 3, watermark |-> [index |-> 4, term |-> 1, time |-> 2],
     store_sequence |-> 5, checkpoint |-> {[index |-> 3, term |-> 1, generation |-> 1, crc |-> 9]},
     files |-> {MFile(1, 1, K, K), MFile(1, 2, <<2>>, <<3>>)}]>>
Edits ==
  <<<<V("AddFile", MFile(0, 3, K, <<2>>)), V("RemoveFile", [level |-> 1, file_no |-> 1]),
      V("NextFileNo", 4)>>,
    <<V("AppliedWatermark", [watermark |-> [index |-> 5, term |-> 1, time |-> 2],
                             store_sequence |-> 6]),
      V("Checkpoint", {[index |-> 4, term |-> 1, generation |-> 2, crc |-> 9]}),
      V("Checkpoint", {})>>>>

AllLimits == {LimitsV2[i] : i \in DOMAIN LimitsV2} \cup {LimitsV3[i] : i \in DOMAIN LimitsV3}
Limits == [n \in AllLimits |-> IF n \in {LimitsV3[i] : i \in DOMAIN LimitsV3}
                               THEN DefaultLimit(n) ELSE 4]
Names(fields) == {fields[i] : i \in DOMAIN fields}
NodeConfig == [n \in {"id", "seed"} \cup Names(RaftFields) \cup Names(StoreFields) |-> 2]
                @@ [policy |-> Pol, host_limits |-> Limits]
Image(snapshot) == [cluster_id |-> 7, config |-> NodeConfig, membership |-> M3,
                    boot_epoch |-> 1, build_label |-> <<9>>, wal |-> <<1, 2>>,
                    store_wal |-> <<>>, snapshot |-> snapshot]
Observed(result, data) == [file |-> V("Sst", 1), offset |-> 0, len |-> 1, result |-> result,
                           bytes |-> data, service |-> 2]
JRecord(ordinal, at, observations) ==
  [ordinal |-> ordinal, now |-> at, input |-> Inputs[8], observations |-> observations,
   effects |-> <<Effects[9], Effects[11]>>]
JRecords == <<JRecord(1, 5, <<Observed("Ok", <<4>>), Observed("Busy", <<>>)>>),
              JRecord(3, 5, <<>>)>>
Footers == <<[termination |-> "Complete", last_ordinal |-> 3],
             [termination |-> "FatalIo", last_ordinal |-> 0]>>

HOp(id, complete, kind, outcome, diagnostic) ==
  [id |-> id, client |-> 1, sequence |-> 2, invoke |-> 3, complete |-> complete, kind |-> kind,
   outcome |-> outcome, deadline |-> {}, consistency |-> "Strong", diagnostic |-> diagnostic]
HGet == V("Get", [key |-> K])
Document(open, ops) == [build_label |-> <<9>>, config_hash |-> 1, retain_open |-> open,
                        initial |-> {[key |-> 1, value |-> <<2>>]}, operations |-> ops]
Documents ==
  <<Document(TRUE, <<HOp(1, {4}, HGet, V("Value", {<<2>>}), U("None")),
                     HOp(2, {}, V("Set", [key |-> K, value |-> <<2>>]), U("Timeout"), U("None"))>>),
    Document(FALSE, <<HOp(1, {4}, V("Batch", <<HGet, V("Incr", [key |-> K])>>),
                          V("Batch", <<V("Value", {}), V("Integer", 1)>>), U("FinalProbe")),
                      HOp(2, {4}, V("Scan", [prefix |-> {}, limit |-> 2]),
                          V("Scan", <<[key |-> K, value |-> <<2>>]>>),
                          V("ReplicaState", [replica |-> 1, committed_index |-> 2,
                                             state_hash |-> 3]))>>),
    Document(FALSE, <<HOp(1, {4}, V("Cas", [key |-> K, expected |-> {}, value |-> <<2>>]),
                          V("Cas", FALSE), U("None")),
                      HOp(2, {4}, V("Del", [key |-> K]), U("Ok"), U("None")),
                      HOp(3, {4}, HGet, U("Error"), U("None"))>>)>>

Line(op, key, text, number, fields, comment) ==
  [op |-> op, key |-> key, text |-> text, number |-> number, invoke |-> {1}, complete |-> {2},
   fields |-> fields, comment |-> comment]
MCLines ==
  <<<<Line("SET", <<6, 1>>, <<6, 2>>, {}, 5, FALSE), Line("", <<>>, <<>>, {}, 0, TRUE),
      Line("GET", <<6, 1>>, Dash, {}, 5, FALSE), Line("INCR", <<6, 1>>, <<1>>, {1}, 5, FALSE),
      Line("CAS", <<6, 1>>, <<6, 2>>, {}, 5, FALSE), Line("DEL", <<6, 1>>, <<>>, {}, 5, FALSE)>>,
    <<Line("GET", <<6>>, Dash, {}, 5, FALSE)>>,
    <<Line("GET", <<6, 1>>, Dash, {}, 5, FALSE), Line("GET", <<6, 1>>, Dash, {}, 4, FALSE)>>>>

SstEntries ==
  <<<<Ver(K, 3, "Put", <<2>>), Ver(K, 1, "Put", <<3>>), Ver(<<1, 1>>, 4, "Delete", <<>>),
      Ver(<<2>>, 2, "Put", <<>>)>>,
    <<Ver(K, 4, "Delete", <<>>), Ver(K, 3, "Put", <<2, 2, 2>>), Ver(K, 2, "Put", <<3, 3, 3>>),
      Ver(<<1, 1>>, 1, "Put", <<5>>)>>,
    <<Ver(<<3>>, 1, "Put", <<2>>)>>>>

MCSamples ==
  [policy |-> <<Pol>>, membership |-> <<M1, M3, MJ>>, config |-> Configs,
   admin_reply |-> AdminReplies, trace |-> Traces, message |-> Messages, command |-> Commands,
   reply |-> Replies, envelope |-> Envelopes, hello |-> Hellos, frame |-> Frames,
   input |-> Inputs, effect |-> Effects, record |-> LogRecords, batch |-> Batches,
   meta |-> Metas, meta_v2 |-> MetasV2, table |-> TablesV1, manifest_base |-> Bases,
   manifest_edits |-> Edits, image |-> <<Image({<<3>>}), Image({})>>,
   journal_record |-> JRecords, journal_footer |-> Footers, history |-> Documents,
   sst |-> SstEntries,
   log |-> <<[records |-> LogRecords]>>,
   store_wal |-> <<[records |-> Batches]>>,
   journal |-> <<[boot_image |-> <<1, 2>>, records |-> JRecords, footer |-> {Footers[1]}]>>,
   manifest |-> <<[generation |-> 2, base |-> Bases[2], records |-> Edits]>>]

UserCommand  == The(encode(enc_command, Commands[3]))
UserReply    == The(encode(enc_reply, Replies[1]))
AdminCommand == The(encode(enc_config_envelope, Configs[3]))
AdminAnswer  == The(encode(enc_admin_reply, AdminReplies[1]))
Session(namespace, client, active) ==
  [namespace |-> namespace, client |-> client, max_seq |-> 2, last_active |-> active,
   canonical_command |-> IF namespace = 0 THEN UserCommand ELSE AdminCommand,
   cached_reply |-> IF namespace = 0 THEN UserReply ELSE AdminAnswer]
Tomb(namespace, client, expires) ==
  [namespace |-> namespace, client |-> client, max_seq |-> 3, expires_at |-> expires]
Entry(key, seq, value, deadline) ==
  [key |-> key, sequence |-> seq, value |-> value, deadline |-> deadline]
Snap(cluster, entries, sessions, tombs, transfer) ==
  [cluster_id |-> cluster, policy |-> Pol, membership |-> M1, index |-> 4, term |-> 2,
   time |-> 5, store_sequence |-> 3, entries |-> entries, sessions |-> sessions,
   tombstones |-> tombs, transfer |-> transfer]
Transfer(session) == [intent_index |-> 3, target |-> 1, deadline |-> 9, finishing |-> FALSE,
                      admin_session |-> session]
Two == <<Entry(<<1>>, 2, <<7>>, {}), Entry(<<1, 2>>, 3, <<>>, {6})>>
MCImages ==
  {Snap(7, <<>>, {}, {}, {}),
   Snap(7, Two, {Session(0, 1, 4), Session(1, 2, 5)}, {Tomb(0, 2, 7)}, {Transfer({AdminSession})}),
   Snap(7, Two, {Session(0, 1, 3)}, {Tomb(0, 2, 7), Tomb(0, 3, 9), Tomb(1, 1, 8)}, {}),
   Snap(7, Two, {Session(0, 1, 3)}, {Tomb(0, 2, 7)}, {}),
   Snap(8, <<>>, {}, {}, {Transfer({})}),
   Snap(7, <<Entry(<<1>>, 4, <<7>>, {})>>, {}, {}, {})}

Kind(op, key, value, expected, parts) ==
  [op |-> op, key |-> key, value |-> value, expected |-> expected, parts |-> parts]
Set(k, v) == Kind("Set", k, v, {}, <<>>)
Get(k) == Kind("Get", k, 0, {}, <<>>)
Del(k) == Kind("Del", k, 0, {}, <<>>)
Incr(k) == Kind("Incr", k, 0, {}, <<>>)
Cas(k, e, v) == Kind("Cas", k, v, e, <<>>)
Scan(limit) == Kind("Scan", 0, limit, {}, <<>>)
Batch(parts) == Kind("Batch", 0, 0, {}, parts)
Workload(ops, open, kinds, values, clients, ttls, pause, errors, probe) ==
  [ops |-> ops, open |-> open, kinds |-> kinds, values |-> values, clients |-> clients,
   ttls |-> ttls, pause |-> pause, errors |-> errors, probe |-> probe]
MCWorkloads ==
  {Workload(3, 2, {Set(1, 1), Set(1, 2), Get(1), Del(1)}, {1, 2}, {0, 1},
            {{}}, 0, FALSE, FALSE),
   Workload(3, 2, {Incr(1), Cas(1, {1}, 2), Get(1)}, {1, 2}, {0}, {{}}, 0,
            TRUE, FALSE),
   Workload(3, 2, {Set(1, 1), Get(1)}, {1}, {0, 1}, {{2}}, 0, FALSE, FALSE),
   Workload(3, 2, {Set(1, 1), Scan(2), Batch(<<Set(2, 2), Del(1)>>)},
            {1}, {0}, {{}}, 0, FALSE, FALSE),
   Workload(2, 2, {Set(1, 1), Set(1, 2), Del(1), Incr(1)}, {1, 2}, {0},
            {{}}, 0, FALSE, TRUE)}

NoFormats == format = "" /\ sample = 0 /\ cells = <<>> /\ state = ""
NoStream  == image = 0 /\ writer = 0 /\ file = 0 /\ damage = 0 /\ reader = 0 /\ given = 0
NoChecker == history = 0 /\ now = 0 /\ load = 0 /\ configs = 0
MCInit ==
  \/ scene = "formats" /\ FInit /\ NoStream /\ NoChecker
  \/ scene = "stream"  /\ Stream!SInit /\ NoFormats /\ NoChecker
  \/ scene = "checker" /\ Check!Init /\ NoFormats /\ NoStream
MCNext ==
  \/ scene = "formats" /\ FNext /\ UNCHANGED <<scene, streamvars, checkvars>>
  \/ scene = "stream"  /\ Stream!SNext /\ UNCHANGED <<scene, fvars, checkvars>>
  \/ scene = "checker" /\ Check!Next /\ UNCHANGED <<scene, fvars, streamvars>>
MCSpec == MCInit /\ [][MCNext]_<<scene, fvars, streamvars, checkvars>>

\* A snapshot that travels in chunks is the snapshot: the streaming writer makes
\* the bytes of the whole image, the streaming reader accepts what the whole
\* decoder accepts, an undamaged file restores what was exported and a damaged
\* one nothing, and a restored cluster still refuses a retried command
\* (SnapshotStream.WriterMakesImage, ReaderAgrees, RestoresExport, RestoreSound).
StreamedIsWhole ==
  scene = "stream" => /\ Stream!WriterMakesImage /\ Stream!ReaderAgrees
                      /\ Stream!RestoresExport /\ Stream!RestoreSound

\* The checker says what is so: its verdict is that of the definition of
\* linearizability, a witness is itself a failing history, and a linearizable
\* history has no session violation and earns no label of lost or stale data
\* (Checker.VerdictExact, WitnessFails, SessionsAgree, LabelsAreFacts).
JudgedRight ==
  scene = "checker" => /\ Check!VerdictExact /\ Check!WitnessFails
                       /\ Check!SessionsAgree /\ Check!LabelsAreFacts
=============================================================================
