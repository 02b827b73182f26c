---------------------------- MODULE ClusterCodec ----------------------------
(***************************************************************************)
(* The formats of cc-cluster: the application-log envelope, the logical    *)
(* snapshot file CCSN, the backup bundle CCBK around it, and the restore   *)
(* of a backup into a fresh cluster.                                       *)
(*                                                                         *)
(* A snapshot is a record: cluster_id, policy, membership, index, term,    *)
(* time, store_sequence, entries (a sequence), sessions and tombstones     *)
(* (sets, one record per session key) and transfer (at most one).          *)
(***************************************************************************)
EXTENDS CoreCodec, KvCodec

UserRequest  == 0
AdminRequest == 1

CCAE == 123
enc_app_envelope ==
  Sealed(Rec(Header(CCAE, 1) \o
    <<F("session", Blank(Rec(Ints(<<"namespace", "client", "sequence">>)), 3)),
      F("leader_time", Num), F("command", Framed(enc_command))>>))
dec_app_envelope ==
  Sealed(Rec(Header(CCAE, 1) \o
    <<F("session", Blank(Rec(<<F("namespace", UpTo(AdminRequest)), F("client", Pos),
                               F("sequence", Pos)>>), 3)),
      F("leader_time", Num), F("command", Framed(dec_command))>>))

-----------------------------------------------------------------------------
(***************************************************************************)
(* The records of a snapshot file.                                         *)
(***************************************************************************)
SessionRank(k) == 1000 * k.namespace + k.client
SameKey(a, b)  == a.namespace = b.namespace /\ a.client = b.client

canonical_session_payload(namespace, command, reply) ==
  LET writers == IF namespace = UserRequest THEN <<enc_command, enc_reply>>
                 ELSE <<enc_config_envelope, enc_admin_reply>>
      readers == IF namespace = UserRequest THEN <<dec_command, dec_reply>>
                 ELSE <<dec_config_envelope, dec_admin_reply>>
      cells   == <<command, reply>>
  IN /\ namespace \in {UserRequest, AdminRequest}
     /\ \A i \in 1..2 : \E v \in decode(readers[i], cells[i]) : encode(writers[i], v) = {cells[i]}

KeyRecord       == Rec(<<F("key", Bytes), F("sequence", Num), F("value", Bytes),
                         F("deadline", Blank(Num, 1))>>)
SessionRecord   == Rec(Ints(<<"namespace", "client", "max_seq", "last_active">>) \o
                       <<F("canonical_command", Bytes), F("cached_reply", Bytes)>>)
TombstoneRecord == Rec(Ints(<<"namespace", "client", "max_seq", "expires_at">>))
TransferRecord  == Rec(Ints(<<"intent_index", "target", "deadline">>) \o
                       <<F("finishing", Flag),
                         F("admin_session",
                           Blank(Rec(Ints(<<"namespace", "client", "sequence">>)), 3))>>)

framed_record(tag, body) == <<Len(body), crc(<<tag>> \o body), tag>> \o body
ccsn_record(kind) == framed_record(kind[1], The(encode(kind[2], kind[3])))

\* What a record of each kind is read with, and the checks on what it says.
CcsnFormats == <<dec_membership, dec_policy, KeyRecord, SessionRecord, TombstoneRecord,
                 TransferRecord>>
decode_ccsn_key(e, h) ==
  /\ \A d \in e.deadline : d > h.time
  /\ e.key # <<>> /\ e.sequence \in 1..h.store_sequence
decode_ccsn_session(s) ==
  /\ s.namespace \in {UserRequest, AdminRequest} /\ s.client # 0
  /\ s.max_seq # 0
  /\ canonical_session_payload(s.namespace, s.canonical_command, s.cached_reply)
decode_ccsn_tombstone(t) == t.namespace \in {UserRequest, AdminRequest} /\ t.client # 0
decode_ccsn_transfer(t, h) ==
  /\ \A a \in t.admin_session : /\ a.namespace = AdminRequest
                                /\ a.sequence # 0 /\ a.client # 0
  /\ t.intent_index \in 1..h.index /\ t.target # 0

session_bytes(sessions) ==
  LET s == Sorted(sessions, SessionRank)
      f[i \in 0..Len(s)] == IF i = 0 THEN 0
                            ELSE f[i - 1] + Len(s[i].canonical_command) + Len(s[i].cached_reply)
  IN f[Len(s)]

(***************************************************************************)
(* What both encoders refuse to write.                                     *)
(***************************************************************************)
validate_ccsn_encode_snapshot(s) ==
  /\ s.cluster_id # 0
  /\ membership_valid(s.membership)
  /\ s.index # 0 /\ s.term # 0
  /\ \A t \in s.transfer :
       /\ t.intent_index \in 1..s.index
       /\ t.target \in s.membership.voters
       /\ \A a \in t.admin_session : a.namespace = AdminRequest /\ a.sequence # 0
  /\ \A i \in DOMAIN s.entries :
       LET e == s.entries[i]
       IN /\ Len(e.key) \in 1..s.policy.max_key_bytes
          /\ Len(e.value) <= s.policy.max_value_bytes
          /\ e.sequence \in 1..s.store_sequence
          /\ i > 1 => lex_below(s.entries[i - 1].key, e.key)
          /\ \A d \in e.deadline : d > s.time
  /\ \A r \in s.sessions :
       /\ r.namespace <= AdminRequest /\ r.max_seq # 0 /\ r.last_active <= s.time
       /\ canonical_session_payload(r.namespace, r.canonical_command, r.cached_reply)
  /\ session_bytes(s.sessions) <= s.policy.max_session_bytes
  /\ \A t \in s.tombstones :
       /\ t.namespace <= AdminRequest /\ t.max_seq # 0 /\ t.expires_at > s.time
       /\ ~ \E r \in s.sessions : SameKey(r, t)

policy_hash(policy) == crc(The(encode(enc_policy, policy)))

CCSN == 124
CcsnEnd == 125
HEADER_LEN == 10
FOOTER_LEN == 4
ccsn_header(s, count) ==
  LET h == <<CCSN, 1, s.cluster_id, policy_hash(s.policy), s.index, s.term, s.time,
             s.store_sequence, count>>
  IN Append(h, crc(h))

(***************************************************************************)
(* encode_ccsn: header, records by kind, footer.  The file checksum is     *)
(* taken with its own field zero.                                          *)
(***************************************************************************)
record_count(s) == 2 + Cardinality(s.transfer) + Len(s.entries)
                     + Cardinality(s.sessions) + Cardinality(s.tombstones)
ccsn_records(s) ==
  LET sessions   == Sorted(s.sessions, SessionRank)
      tombstones == Sorted(s.tombstones, SessionRank)
      kinds == <<<<1, enc_membership, s.membership>>, <<2, enc_policy, s.policy>>>>
               \o (IF s.transfer = {} THEN <<>> ELSE <<<<6, TransferRecord, The(s.transfer)>>>>)
               \o [i \in DOMAIN s.entries |-> <<3, KeyRecord, s.entries[i]>>]
               \o [i \in DOMAIN sessions |-> <<4, SessionRecord, sessions[i]>>]
               \o [i \in DOMAIN tombstones |-> <<5, TombstoneRecord, tombstones[i]>>]
  IN [i \in DOMAIN kinds |-> ccsn_record(kinds[i])]
ccsn_file(header, body) ==
  LET footer(c) == <<HEADER_LEN + Len(body) + FOOTER_LEN, crc(body), c, CcsnEnd>>
  IN header \o body \o footer(crc(header \o body \o footer(0)))
encode_ccsn(s) ==
  IF ~ validate_ccsn_encode_snapshot(s) THEN {}
  ELSE {ccsn_file(ccsn_header(s, record_count(s)), Concat(ccsn_records(s)))}

(***************************************************************************)
(* One record in order (decode_ccsn and the streaming reader have the same *)
(* match over tag and phase).  The transfer record is accepted anywhere in *)
(* phase 2.                                                                *)
(***************************************************************************)
NoRecords == [phase |-> 0, membership |-> {}, policy |-> {}, entries |-> <<>>,
              sessions |-> {}, tombstones |-> {}, transfer |-> {}]
Ranks(S) == {SessionRank(x) : x \in S}
consume_read(r, h, tag, body, read) ==
     CASE tag = 1 /\ r.phase = 0 ->
            {[r EXCEPT !.membership = {m}, !.phase = 1] : m \in read}
       [] tag = 2 /\ r.phase = 1 ->
            {[r EXCEPT !.policy = {p}, !.phase = 2] :
               p \in {p \in read : encode(enc_policy, p) = {body} /\ crc(body) = h.policy_hash}}
       [] tag = 6 /\ r.phase = 2 /\ r.transfer = {} ->
            {[r EXCEPT !.transfer = {t}] : t \in {t \in read : decode_ccsn_transfer(t, h)}}
       [] tag = 3 /\ r.phase = 2 ->
            {[r EXCEPT !.entries = Append(@, e)] :
               e \in {e \in read :
                        /\ decode_ccsn_key(e, h)
                        /\ r.entries = <<>> \/ lex_below(r.entries[Len(r.entries)].key, e.key)}}
       [] tag = 4 /\ r.phase \in {2, 3} ->
            {[r EXCEPT !.sessions = @ \cup {s}, !.phase = 3] :
               s \in {s \in read : /\ decode_ccsn_session(s)
                                  /\ \A k \in Ranks(r.sessions) : k < SessionRank(s)
                                  /\ s.last_active <= h.time}}
       [] tag = 5 /\ r.phase \in {2, 3, 4} ->
            {[r EXCEPT !.tombstones = @ \cup {t}, !.phase = 4] :
               t \in {t \in read : /\ decode_ccsn_tombstone(t)
                                  /\ t.max_seq # 0 /\ t.expires_at > h.time
                                  /\ \A k \in Ranks(r.tombstones) : k < SessionRank(t)
                                  /\ SessionRank(t) \notin Ranks(r.sessions)}}
       [] OTHER -> {}
consume_record(r, h, tag, body) ==
  consume_read(r, h, tag, body,
               IF tag \in DOMAIN CcsnFormats THEN decode(CcsnFormats[tag], body) ELSE {})

(***************************************************************************)
(* The checks after the last record.                                       *)
(***************************************************************************)
assemble(cluster_id, h, r) ==
  LET p == The(r.policy)
      m == The(r.membership)
  IN IF r.membership = {} \/ r.policy = {} THEN {}
     ELSE IF \/ \E t \in r.transfer : t.target \notin m.voters
             \/ \E i \in DOMAIN r.entries : \/ Len(r.entries[i].key) > p.max_key_bytes
                                            \/ Len(r.entries[i].value) > p.max_value_bytes
             \/ Cardinality(r.sessions) > p.max_sessions
             \/ Cardinality(r.tombstones) > p.max_session_tombstones
             \/ session_bytes(r.sessions) > p.max_session_bytes
     THEN {}
     ELSE {[cluster_id |-> cluster_id, policy |-> p, membership |-> m, index |-> h.index,
            term |-> h.term, time |-> h.time, store_sequence |-> h.store_sequence,
            entries |-> r.entries, sessions |-> r.sessions, tombstones |-> r.tombstones,
            transfer |-> r.transfer]}

header_of(s, cluster_id) ==
  IF \/ s[1] # CCSN \/ s[2] # 1 \/ s[3] # cluster_id
     \/ crc(SubSeq(s, 1, HEADER_LEN - 1)) # s[HEADER_LEN]
     \/ s[5] = 0 \/ s[6] = 0
  THEN {}
  ELSE {[policy_hash |-> s[4], index |-> s[5], term |-> s[6], time |-> s[7],
         store_sequence |-> s[8], record_count |-> s[9]]}

RECURSIVE decode_records(_, _, _, _)
decode_records(r, h, seen, s) ==
  IF s = <<>> THEN IF seen = h.record_count THEN {r} ELSE {}
  ELSE IF seen >= h.record_count \/ Len(s) < 3 THEN {}
  ELSE IF s[1] + 3 > Len(s) THEN {}
  ELSE IF crc(SubSeq(s, 3, s[1] + 3)) # s[2] THEN {}
  ELSE UNION {decode_records(n, h, seen + 1, SubSeq(s, s[1] + 4, Len(s))) :
                n \in consume_record(r, h, s[3], SubSeq(s, 4, s[1] + 3))}

decode_ccsn(s, cluster_id, max) ==
  LET footer == Len(s) - FOOTER_LEN
      body   == SubSeq(s, HEADER_LEN + 1, footer)
  IN IF Len(s) > max \/ Len(s) < HEADER_LEN + FOOTER_LEN THEN {}
     ELSE IF \/ s[footer + 1] # Len(s) \/ s[footer + 4] # CcsnEnd
             \/ s[footer + 2] # crc(body)
             \/ s[footer + 3] # crc([s EXCEPT ![footer + 3] = 0])
     THEN {}
     ELSE UNION {UNION {assemble(cluster_id, h, r) : r \in decode_records(NoRecords, h, 0, body)} :
                   h \in header_of(s, cluster_id)}

-----------------------------------------------------------------------------
(***************************************************************************)
(* The backup bundle: a header that repeats the checkpoint's identity, the *)
(* checkpoint, a checksum of everything and an end mark.                   *)
(***************************************************************************)
CCBK == 126
CBKE == 127
SEMANTIC_V3 == 3
BACKUP_HEADER == 12
encode_backup_v2(b) ==
  IF \/ b.cluster_id = 0 \/ b.index = 0 \/ b.term = 0
     \/ b.min_semantic \notin 1..SEMANTIC_V3
     \/ b.checkpoint = <<>>
  THEN {}
  ELSE LET fields == <<CCBK, 2, b.cluster_id, b.index, b.term, b.time, b.policy_hash,
                       b.min_semantic, b.active_features, Len(b.checkpoint),
                       crc(b.checkpoint)>>
           bundle == Append(fields, crc(Append(fields, 0))) \o b.checkpoint
       IN {bundle \o <<crc(bundle \o <<0, CBKE>>), CBKE>>}

BackupMatches(b, s) ==
  /\ s.index = b.index /\ s.term = b.term /\ s.time = b.time
  /\ policy_hash(s.policy) = b.policy_hash
  /\ s.membership.active_features = b.active_features

decode_backup_v2(s, max) ==
  LET footer     == Len(s) - 2
      checkpoint == SubSeq(s, BACKUP_HEADER + 1, footer)
      b == [cluster_id |-> s[3], index |-> s[4], term |-> s[5], time |-> s[6],
            policy_hash |-> s[7], min_semantic |-> s[8], active_features |-> s[9],
            checkpoint |-> checkpoint]
  IN IF Len(s) < BACKUP_HEADER + 2 THEN {}
     ELSE IF \/ s[1] # CCBK \/ s[2] # 2
             \/ s[12] # crc(Append(SubSeq(s, 1, 11), 0))
             \/ s[footer + 2] # CBKE
             \/ s[footer + 1] # crc([s EXCEPT ![footer + 1] = 0])
             \/ s[10] \notin 1..max \/ s[10] # Len(checkpoint)
             \/ s[11] # crc(checkpoint)
             \/ b.cluster_id = 0 \/ b.index = 0 \/ b.term = 0
             \/ b.min_semantic \notin 1..SEMANTIC_V3
     THEN {}
     ELSE {b2 \in {b} : \E n \in decode_ccsn(checkpoint, b.cluster_id, max) : BackupMatches(b2, n)}

(***************************************************************************)
(* SessionTable::for_fresh_cluster_restore: user sessions still active are *)
(* kept; idle ones become tombstones while their retry grace lasts.        *)
(***************************************************************************)
for_fresh_cluster_restore(s, at) ==
  LET user  == {r \in s.sessions : r.namespace = UserRequest}
      idle(r) == r.last_active + s.policy.session_idle_ns
      kept  == {r \in user : at <= idle(r)}
      expired == {[namespace |-> r.namespace, client |-> r.client, max_seq |-> r.max_seq,
                   expires_at |-> idle(r) + s.policy.session_retry_grace_ns] :
                    r \in user \ kept}
      aged  == {t \in expired : t.expires_at > at}
      older == {t \in s.tombstones : /\ t.namespace = UserRequest /\ t.expires_at > at
                                     /\ ~ \E r \in kept : SameKey(r, t)}
      merged == {[a EXCEPT !.max_seq = IF \E t \in older : SameKey(t, a) /\ t.max_seq > @
                                       THEN (CHOOSE t \in older : SameKey(t, a)).max_seq
                                       ELSE @] : a \in aged}
      tombstones == merged \cup {t \in older : ~ \E a \in aged : SameKey(a, t)}
  IN IF \/ Cardinality(kept) > s.policy.max_sessions
        \/ Cardinality(tombstones) > s.policy.max_session_tombstones
        \/ session_bytes(kept) > s.policy.max_session_bytes
     THEN {} ELSE {[sessions |-> kept, tombstones |-> tombstones]}

(***************************************************************************)
(* A validated backup as the first state of a new single-node cluster.     *)
(***************************************************************************)
snapshot_for_fresh_cluster(b, cluster_id, node, at, max) ==
  IF cluster_id \in {0, b.cluster_id} \/ node = 0 \/ at < b.time THEN {}
  ELSE UNION {{[s EXCEPT !.entries = SelectSeq(@, LAMBDA e : \A d \in e.deadline : d > at),
                         !.sessions = t.sessions, !.tombstones = t.tombstones,
                         !.membership = [voters |-> {node}, learners |-> {}, joint |-> {},
                                         addresses |-> {},
                                         active_features |-> b.active_features],
                         !.cluster_id = cluster_id, !.transfer = {},
                         !.index = 1, !.term = 1, !.time = at] :
                 t \in for_fresh_cluster_restore(s, at)} :
                s \in {s \in decode_ccsn(b.checkpoint, b.cluster_id, max) : BackupMatches(b, s)}}
=============================================================================
