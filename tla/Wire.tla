-------------------------------- MODULE Wire --------------------------------
(***************************************************************************)
(* The vocabulary in which the durable and wire formats are written down.  *)
(* A format is a value: it says which cells an encoder emits for a value   *)
(* and which cell sequences a decoder accepts.  A cell stands for one      *)
(* fixed-width integer, tag, flag or checksum field, or for one byte of an *)
(* opaque string.  Widths and endianness are left out; presence, order,    *)
(* tags, counts, lengths, limits and checks are kept.                      *)
(*                                                                         *)
(* Encoders and decoders of one record are written as two formats, each    *)
(* from its own function of the source.                                    *)
(***************************************************************************)
EXTENDS Integers, Sequences, FiniteSets, TLC

CONSTANT Cap
  (* The hard limits of the formats by name (Cap.codec is                  *)
  (* MAX_CODEC_BYTES), scaled so that samples reach them.                  *)

ASSUME CapAssumption ==
  /\ \A n \in DOMAIN Cap : Cap[n] \in Nat
  /\ {"codec", "members"} \subseteq DOMAIN Cap

Num          == [k |-> "int"]                       \* any integer
Lit(c)       == [k |-> "lit", c |-> c]              \* exactly the cell c
In(S)        == [k |-> "in", of |-> S]              \* an integer of S
Pos          == [k |-> "pos"]                       \* a nonzero integer
UpTo(n)      == In(0..n)
Flag         == [k |-> "flag"]                      \* a Boolean as 0 or 1
Enum(names)  == [k |-> "enum", names |-> names]     \* a name as its position
Words(t)     == [k |-> "words", t |-> t]            \* a name as a fixed run of cells
Bytes        == [k |-> "bytes"]                     \* length, then the cells
Summed       == [k |-> "summed"]                    \* checksum of a string, then the string
Rest         == [k |-> "rest"]                      \* every remaining cell
Opt(f)       == [k |-> "opt", f |-> f]              \* 0, or 1 and the value
Blank(f, n)  == [k |-> "blank", f |-> f, n |-> n]   \* 0 and n zeros, or 1 and the value
Many(f, S)   == [k |-> "many", f |-> f, of |-> S]   \* count in S, then the items
SetOf(S)     == [k |-> "set", of |-> S]             \* nonzero members, ascending when written
Map(key, f, S) == [k |-> "map", key |-> key, f |-> f, of |-> S]
                                                    \* records by ascending key when written
Framed(f)    == [k |-> "framed", f |-> f]           \* length, then exactly f
SumFramed(f, S) == [k |-> "sumframed", f |-> f, of |-> S]
                                                    \* length in S, checksum, then exactly f
Sealed(f)    == [k |-> "sealed", f |-> f]           \* f, then the checksum of its cells
Limit(n, f)  == [k |-> "limit", n |-> n, f |-> f]   \* f in at most n cells
Where(p, f)  == [k |-> "where", p |-> p, f |-> f]   \* f, if the check named p passes
Tagged(cs)   == [k |-> "tagged", cs |-> cs]         \* position of a case, then its value
Either(cs)   == [k |-> "either", cs |-> cs]         \* the one case whose constants match
First(fs)    == [k |-> "first", fs |-> fs]          \* the first format that accepts
Absent(v)    == [k |-> "absent", v |-> v]           \* no cell; always reads as v
Rec(fs)      == [k |-> "rec", fs |-> fs]            \* the fields in order

(***************************************************************************)
(* A field of a record, an alternative of a Tagged format, and a field     *)
(* whose format depends on the value of an earlier field of its record.    *)
(***************************************************************************)
F(name, f)       == <<name, f>>
Ints(names)      == [i \in DOMAIN names |-> <<names[i], Num>>]
Const(c)         == <<"", Lit(c)>>
Header(magic, v) == <<Const(magic), Const(v)>>
Dep(field, table) == [k |-> "dep", field |-> field, table |-> table]
Unit             == Rec(<<>>)
Never            == In({})

(***************************************************************************)
(* A sequence s is in strictly ascending order of the cells key(s[i]).     *)
(***************************************************************************)
Ascending(s, key(_)) == \A i \in 1..Len(s) - 1 : key(s[i]) < key(s[i + 1])
Distinct(s, key(_))  == \A i, j \in DOMAIN s : key(s[i]) = key(s[j]) => i = j

-----------------------------------------------------------------------------
(***************************************************************************)
(* The validations that encoders and decoders run on a whole value, named  *)
(* after the function or the check they model, and `meets`, by which a     *)
(* format refers to one of them.                                           *)
(***************************************************************************)

(***************************************************************************)
(* ClusterPolicy::validate: no limit is zero, the limits are coherent, and *)
(* each is below its hard bound.                                           *)
(***************************************************************************)
policy_valid(p) ==
  /\ \A n \in DOMAIN p : p[n] # 0
  /\ p.max_batch_bytes <= p.max_command_bytes
  /\ p.max_batch_reply_bytes <= p.max_reply_bytes
  /\ p.max_key_bytes <= p.max_command_bytes
  /\ p.max_value_bytes <= p.max_command_bytes
  /\ p.max_session_bytes <= p.max_live_logical_bytes
  /\ \A n \in {"max_key_bytes", "max_value_bytes", "max_command_bytes",
               "max_reply_bytes", "max_batch_bytes", "max_batch_reply_bytes"} :
       p[n] <= Cap.codec
  /\ p.max_members <= Cap.members
  /\ \A n \in {"session_idle_ns", "session_retry_grace_ns",
               "leader_transfer_timeout_ns"} : p[n] <= Cap.duration
  /\ \A n \in {"max_live_logical_bytes", "max_scan_items", "max_live_deadlines",
               "max_sessions", "max_session_bytes", "max_session_tombstones",
               "max_keys_per_expiry_sweep", "max_batch_commands"} : p[n] <= Cap.policy

(***************************************************************************)
(* Peer addresses: the IP bytes are one cell (0 is unspecified, 224 is     *)
(* multicast, and for version 6 the cell 4 is a mapped version 4 address). *)
(***************************************************************************)
address_valid(a) ==
  /\ a.v.port # 0
  /\ a.v.ip # 0
  /\ a.v.ip # 224
  /\ ~ (a.is = "V6" /\ a.v.ip = 4)

ATOMIC_BATCH == 2

membership_valid(m) ==
  /\ m.voters # {}
  /\ 0 \notin m.voters \cup m.learners
  /\ m.voters \cap m.learners = {}
  /\ Cardinality(m.voters) + Cardinality(m.learners) <= Cap.members
  /\ m.active_features \in {0, ATOMIC_BATCH}
  /\ \A a \in m.addresses : a.id \in m.voters \cup m.learners /\ address_valid(a.address)
  /\ \A j \in m.joint : /\ j.old_voters # {} /\ j.new_voters # {}
                        /\ j.enter_index # 0
                        /\ j.old_voters \cup j.new_voters \subseteq m.voters

admin_reply_valid(r) ==
  r.result \in {"Applied", "TransferSuccess", "TransferTimeout", "TransferSuperseded"}
    => r.source_index # 0

(***************************************************************************)
(* Consensus messages.                                                     *)
(***************************************************************************)
payload_fits(e) == Len(e.payload) <= Cap.codec

append_resp_valid(r) == r.success => r.conflict_term = {} /\ r.conflict_index = 0

chunk_valid(c) ==
  /\ c.transfer_id # 0 /\ c.total_len # 0
  /\ c.data # <<>> /\ Len(c.data) <= Cap.chunk
  /\ c.offset + Len(c.data) <= c.total_len
  /\ c.done = (c.offset + Len(c.data) = c.total_len)

ack_valid(a) ==
  /\ a.transfer_id # 0
  /\ a.accepted = (a.reason = "None")
  /\ ~ a.accepted /\ a.reason \notin {"RestartFromZero", "Gap"} => a.next_offset = 0

addressed(m) == m.from # 0 /\ m.to # 0 /\ m.from # m.to

is_error(reply) == reply.is.is = "Error"

(***************************************************************************)
(* The host boundary.  A feature word is a cell; Features gives its bits.  *)
(***************************************************************************)
FollowerRead == 1
Features(cell) == {f \in {FollowerRead, ATOMIC_BATCH} :
                     IF f = FollowerRead THEN cell % 2 = 1 ELSE (cell \div 2) % 2 = 1}

hello_valid(h) ==
  /\ h.node_id # 0
  /\ h.semantic_min # 0 /\ h.semantic_min <= h.semantic_max
  /\ h.supported_features \in 0..3 /\ h.required_features \in 0..3
  /\ Features(h.required_features) \subseteq Features(h.supported_features)
  /\ h.max_peer_frame \in 1..Cap.frame

frame_fits(m) == Len(m.msg.payload) <= Cap.frame

within_codec(s) == Len(s) <= Cap.codec
nonempty(s)     == s # <<>>

(***************************************************************************)
(* HostLimits::validate: what one node may be configured with.             *)
(***************************************************************************)
limits_valid(l) ==
  /\ \A n \in DOMAIN l : l[n] # 0
  /\ l.max_snapshot_chunk_bytes <= l.max_peer_frame_bytes
  /\ l.max_snapshot_chunk_bytes <= l.max_checkpoint_builder_bytes
  /\ l.max_log_bytes_before_snapshot < l.max_raft_log_bytes
  /\ l.max_snapshot_bytes <= l.max_snapshot_staging_bytes
  /\ l.max_host_input_bytes <= l.max_host_total_input_bytes
  /\ l.max_host_output_bytes <= l.max_host_total_output_bytes
  /\ l.max_host_queued_requests <= l.max_host_total_queued_requests
  /\ l.max_threads * l.thread_stack_bytes <= l.max_host_thread_stack_bytes
  /\ l.max_data_dir_bytes >= 2 * l.max_referenced_sst_bytes + l.max_raft_log_bytes
                               + l.max_store_wal_bytes + l.max_snapshot_staging_bytes

(***************************************************************************)
(* The boot image a journal starts from (decode checks its sizes only; the *)
(* node identity and limits are checked with the node configuration), and  *)
(* one block read of a record.                                             *)
(***************************************************************************)
image_fits(b) ==
  /\ Len(b.build_label) <= Cap.label
  /\ Len(b.wal) <= Cap.image /\ Len(b.store_wal) <= Cap.image
  /\ \A s \in b.snapshot : Len(s) <= Cap.image

image_valid(b) == image_fits(b) /\ b.cluster_id # 0 /\ b.config.id # 0

observation_valid(o) ==
  IF o.result = "Ok" THEN Len(o.bytes) = o.len ELSE o.bytes = <<>>

(***************************************************************************)
(* validate_genesis: a log begins from the identity of a valid cluster.    *)
(***************************************************************************)
genesis_valid(g) ==
  /\ g.cluster_id # 0
  /\ policy_valid(g.policy)
  /\ membership_valid(g.membership)

(***************************************************************************)
(* validate_apply_batch against a store configured with `limit` (its       *)
(* position relative to an earlier watermark is checked by the store).     *)
(***************************************************************************)
batch_valid_for(b, limit) ==
  /\ b.index # 0 /\ b.term # 0
  /\ \A i \in DOMAIN b.mutations :
       LET m == b.mutations[i]
       IN /\ Len(m.v.key) \in 1..limit.key
          /\ m.is = "Put" => Len(m.v.value) <= limit.value
  /\ \A i \in DOMAIN b.metadata :
       LET e == b.metadata[i].v
       IN /\ e.namespace # 0 /\ Len(e.key) \in 1..Cap.codec
          /\ \A j \in 1..i - 1 :
               ~ (/\ b.metadata[j].v.namespace = e.namespace
                  /\ b.metadata[j].v.key = e.key)
  /\ Len(b.canonical_command) <= Cap.codec
  /\ Len(b.cached_reply) <= Cap.codec

(***************************************************************************)
(* decode_apply_batch validates with StoreConfig::default.                 *)
(***************************************************************************)
batch_valid(b) == batch_valid_for(b, [key |-> Cap.default_key, value |-> Cap.default_value])

(***************************************************************************)
(* User keys order byte by byte; internal keys by user key, then from the  *)
(* newest sequence, then a deletion before a put.                          *)
(***************************************************************************)
lex_below(a, b) ==
  \E n \in 0..Len(a) :
     /\ n < Len(b)
     /\ \A i \in 1..n : a[i] = b[i]
     /\ n = Len(a) \/ a[n + 1] < b[n + 1]
KindRank == [Delete |-> 0, Put |-> 1]
key_below(a, b) ==
  \/ lex_below(a.user_key, b.user_key)
  \/ /\ a.user_key = b.user_key
     /\ \/ a.sequence > b.sequence
        \/ a.sequence = b.sequence /\ KindRank[a.kind] < KindRank[b.kind]

file_valid(f) ==
  /\ f.level <= Cap.level
  /\ f.file_no # 0 /\ f.file_size # 0
  /\ ~ key_below(f.largest, f.smallest)

watermark_valid(w) ==
  \/ w.index # 0 /\ w.term # 0
  \/ w.index = 0 /\ w.term = 0 /\ w.time = 0

checkpoint_valid(c) == c.index # 0 /\ c.term # 0 /\ c.generation # 0

snapshot_valid(m) ==
  /\ m.next_file_no # 0
  /\ watermark_valid(m.watermark)
  /\ m.watermark.index = 0 => m.store_sequence = 0 /\ m.checkpoint = {}
  /\ \A c \in m.checkpoint : c.index <= m.watermark.index
  /\ \A f \in m.files : f.file_no < m.next_file_no
  /\ \A f, g \in m.files :
       /\ f.level = g.level /\ f.level > 0 /\ f.file_no < g.file_no
       /\ ~ \E h \in m.files : /\ h.level = f.level
                               /\ h.file_no \in f.file_no + 1 .. g.file_no - 1
       => \/ lex_below(g.largest.user_key, f.smallest.user_key)
          \/ lex_below(f.largest.user_key, g.smallest.user_key)

(***************************************************************************)
(* HistoryDocument::decode: identities are distinct, and an operation with *)
(* no completion needs the document's leave.                               *)
(***************************************************************************)
history_valid(d) ==
  /\ \A i, j \in DOMAIN d.operations : d.operations[i].id = d.operations[j].id => i = j
  /\ ~ d.retain_open => \A i \in DOMAIN d.operations : d.operations[i].complete # {}

meets(check, v) ==
  CASE check = "policy_valid"      -> policy_valid(v)
    [] check = "address_valid"     -> address_valid(v)
    [] check = "membership_valid"  -> membership_valid(v)
    [] check = "admin_reply_valid" -> admin_reply_valid(v)
    [] check = "payload_fits"      -> payload_fits(v)
    [] check = "append_resp_valid" -> append_resp_valid(v)
    [] check = "chunk_valid"       -> chunk_valid(v)
    [] check = "ack_valid"         -> ack_valid(v)
    [] check = "addressed"         -> addressed(v)
    [] check = "is_error"          -> is_error(v)
    [] check = "hello_valid"       -> hello_valid(v)
    [] check = "frame_fits"        -> frame_fits(v)
    [] check = "within_codec"      -> within_codec(v)
    [] check = "nonempty"          -> nonempty(v)
    [] check = "limits_valid"      -> limits_valid(v)
    [] check = "image_fits"        -> image_fits(v)
    [] check = "image_valid"       -> image_valid(v)
    [] check = "observation_valid" -> observation_valid(v)
    [] check = "genesis_valid"     -> genesis_valid(v)
    [] check = "batch_valid"       -> batch_valid(v)
    [] check = "file_valid"        -> file_valid(v)
    [] check = "watermark_valid"   -> watermark_valid(v)
    [] check = "checkpoint_valid"  -> checkpoint_valid(v)
    [] check = "snapshot_valid"    -> snapshot_valid(v)
    [] check = "history_valid"     -> history_valid(v)
=============================================================================
