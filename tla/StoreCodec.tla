----------------------------- MODULE StoreCodec -----------------------------
(***************************************************************************)
(* The files of cc-store: first the apply batch, the store WAL, META,      *)
(* version 1 tables and the manifest, then the block tables.               *)
(***************************************************************************)
EXTENDS Codec

EntryKinds == <<"App", "Noop", "Config">>
PutKey     == F("key", Bytes)
PutValue   == F("value", Bytes)

CCSW == 114
encode_apply_batch ==
  Rec(Header(CCSW, 2) \o
    <<F("entry_kind", Enum(EntryKinds))>> \o Ints(<<"index", "term", "time">>) \o
    <<F("mutations", Many(Tagged(<<F("Put", Rec(<<PutKey, PutValue>>)),
                                   F("Delete", Rec(<<PutKey>>))>>), Nat)),
      F("metadata", Many(Tagged(<<F("Upsert", Rec(<<F("namespace", Num), PutKey, PutValue>>)),
                                  F("Delete", Rec(<<F("namespace", Num), PutKey>>))>>), Nat)),
      F("canonical_command", Bytes), F("cached_reply", Bytes)>>)
decode_apply_batch ==
  Where("batch_valid", Rec(Header(CCSW, 2) \o
    <<F("entry_kind", Enum(EntryKinds))>> \o Ints(<<"index", "term", "time">>) \o
    <<F("mutations", Many(Tagged(<<F("Put", Rec(<<PutKey, PutValue>>)),
                                   F("Delete", Rec(<<PutKey>>))>>), 0..Cap.codec)),
      F("metadata", Many(Tagged(<<F("Upsert", Rec(<<F("namespace", Num), PutKey, PutValue>>)),
                                  F("Delete", Rec(<<F("namespace", Num), PutKey>>))>>),
                         0..Cap.codec)),
      F("canonical_command", Bytes), F("cached_reply", Bytes)>>))

encode_store_wal_frame(b) == {<<Len(p), crc(p)>> \o p : p \in enc(encode_apply_batch, b)}

(***************************************************************************)
(* The records of a store WAL: an incomplete final frame is a torn tail; a *)
(* bad length, checksum or record is corruption.                           *)
(***************************************************************************)
RECURSIVE recover_store_wal(_, _)
recover_store_wal(s, recs) ==
  IF Len(s) < 2 THEN {[records |-> recs, torn |-> s # <<>>]}
  ELSE IF Head(s) \notin 1..Cap.codec THEN {}
  ELSE IF Head(s) > Len(s) - 2 THEN {[records |-> recs, torn |-> TRUE]}
  ELSE LET payload == SubSeq(s, 3, Head(s) + 2)
       IN IF crc(payload) # s[2] THEN {}
          ELSE UNION {recover_store_wal(SubSeq(s, Head(s) + 3, Len(s)), Append(recs, r)) :
                        r \in decode(decode_apply_batch, payload)}

CCMT == 115
encode_meta    == Sealed(Rec(Header(CCMT, 1) \o <<F("generation", Num)>>))
decode_meta    == Sealed(Rec(Header(CCMT, 1) \o <<F("generation", Num)>>))
encode_meta_v2 == Sealed(Rec(Header(CCMT, 2) \o Ints(<<"generation", "manifest_header_crc">>)))
decode_meta_v2 == Sealed(Rec(Header(CCMT, 2) \o Ints(<<"generation", "manifest_header_crc">>)))

ValueKinds == <<"Put", "Delete">>
CCST == 116
from_entries ==
  Sealed(Rec(Header(CCST, 1) \o <<F("file_no", Num),
    F("entries", Many(Rec(<<F("user_key", Bytes), F("sequence", Num),
                            F("kind", Enum(ValueKinds)), PutValue>>), Nat))>>))
decode_table ==
  Sealed(Rec(Header(CCST, 1) \o <<F("file_no", Num),
    F("entries", Many(Rec(<<F("user_key", Bytes), F("sequence", Num),
                            F("kind", Enum(ValueKinds)), PutValue>>), 0..Cap.codec))>>))

(***************************************************************************)
(* Manifest records.                                                       *)
(***************************************************************************)
encode_internal_key ==
  Rec(<<F("user_key", Where("nonempty", Bytes)), F("sequence", Pos),
        F("kind", Enum(ValueKinds))>>)
decode_internal_key ==
  Rec(<<F("user_key", Where("nonempty", Bytes)), F("sequence", Pos),
        F("kind", Enum(ValueKinds))>>)
encode_manifest_file ==
  Where("file_valid", Rec(Ints(<<"level", "file_no", "file_size">>) \o
    <<F("smallest", encode_internal_key), F("largest", encode_internal_key),
      F("footer_crc", Num)>>))
decode_manifest_file ==
  Where("file_valid", Rec(Ints(<<"level", "file_no", "file_size">>) \o
    <<F("smallest", decode_internal_key), F("largest", decode_internal_key),
      F("footer_crc", Num)>>))

Watermark  == Where("watermark_valid", Rec(Ints(<<"index", "term", "time">>)))
Checkpoint == Blank(Where("checkpoint_valid",
                          Rec(Ints(<<"index", "term", "generation", "crc">>))), 4)

encode_snapshot ==
  Limit(Cap.codec, Where("snapshot_valid", Rec(
    <<F("next_file_no", Num), F("watermark", Watermark), F("store_sequence", Num),
      F("checkpoint", Checkpoint),
      F("files", Map("file_no", encode_manifest_file, Nat))>>)))
decode_snapshot ==
  Where("snapshot_valid", Rec(
    <<F("next_file_no", Pos), F("watermark", Watermark), F("store_sequence", Num),
      F("checkpoint", Checkpoint),
      F("files", Map("file_no", decode_manifest_file, 0..Cap.codec))>>))

(***************************************************************************)
(* An edit is its tag and its body as an opaque string.  The order checks  *)
(* of append_edit_batch are those of the manifest state, not of its bytes. *)
(***************************************************************************)
encode_edit_batch ==
  Limit(Cap.codec, Many(Tagged(
    <<F("AddFile", Framed(encode_manifest_file)),
      F("RemoveFile", Framed(Rec(Ints(<<"level", "file_no">>)))),
      F("NextFileNo", Framed(Num)),
      F("AppliedWatermark", Framed(Rec(<<F("watermark", Watermark),
                                         F("store_sequence", Num)>>))),
      F("Checkpoint", Framed(Checkpoint))>>), Nat \ {0}))
decode_edit_batch ==
  Many(Tagged(
    <<F("AddFile", Framed(decode_manifest_file)),
      F("RemoveFile", Framed(Rec(Ints(<<"level", "file_no">>)))),
      F("NextFileNo", Framed(Num)),
      F("AppliedWatermark", Framed(Rec(<<F("watermark", Rec(Ints(<<"index", "term", "time">>))),
                                         F("store_sequence", Num)>>))),
      F("Checkpoint", Framed(Checkpoint))>>), 1..Cap.codec)

CCMF == 117
manifest_header == Sealed(Rec(Header(CCMF, 2) \o <<F("generation", Pos)>>))

(***************************************************************************)
(* A record of the manifest: length of its body, checksum of tag and body, *)
(* tag, body.                                                              *)
(***************************************************************************)
append_record(tag, body) == <<Len(body), crc(<<tag>> \o body), tag>> \o body

encode_manifest_v2(m) ==
  Join(<<enc(manifest_header, [generation |-> m.generation]),
         {append_record(1, b) : b \in enc(encode_snapshot, m.base)}>>
       \o [i \in DOMAIN m.edits |->
             {append_record(2, b) : b \in enc(encode_edit_batch, m.edits[i])}])

(***************************************************************************)
(* The records of a manifest after its header: one snapshot, then edit     *)
(* batches.                                                                *)
(***************************************************************************)
RECURSIVE manifest_records(_, _)
manifest_records(s, m) ==
  IF Len(s) < 3 \/ (Head(s) <= Cap.codec /\ Head(s) > Len(s) - 3)
  THEN IF m.base = {} THEN {} ELSE {[manifest |-> m, torn |-> s # <<>>]}
  ELSE IF Head(s) > Cap.codec \/ crc(SubSeq(s, 3, Head(s) + 3)) # s[2] THEN {}
  ELSE LET body == SubSeq(s, 4, Head(s) + 3)
           rest == SubSeq(s, Head(s) + 4, Len(s))
       IN CASE s[3] = 1 /\ m.base = {} ->
                 UNION {manifest_records(rest, [m EXCEPT !.base = {b}]) :
                          b \in decode(decode_snapshot, body)}
            [] s[3] = 2 /\ m.base # {} ->
                 UNION {manifest_records(rest, [m EXCEPT !.edits = Append(@, e)]) :
                          e \in decode(decode_edit_batch, body)}
            [] OTHER -> {}

decode_manifest_v2_prefix(s) ==
  UNION {manifest_records(h[2], [generation |-> h[1].generation, base |-> {}, edits |-> <<>>]) :
           h \in dec(manifest_header, s)}

-----------------------------------------------------------------------------
(***************************************************************************)
(* The block tables of cc-store (sst_v2.rs): prefix-compressed data blocks *)
(* with restart points, an index of their last keys, a bloom filter and a  *)
(* footer, and the reader that fetches one block at a time.                *)
(*                                                                         *)
(* Bits of the filter are cells, so its rounding to bytes is left out.     *)
(***************************************************************************)

Longest(S) == CHOOSE n \in S : \A m \in S : m <= n
common_prefix(a, b) ==
  Longest({n \in 0..Len(a) : n <= Len(b) /\ \A i \in 1..n : a[i] = b[i]})

kind_cell(kind) == IF kind = "Put" THEN 1 ELSE 0

validate_entries(es) ==
  /\ Len(es) \in 1..Cap.entries
  /\ \A i \in DOMAIN es : /\ Len(es[i].user_key) \in 1..Cap.default_key
                          /\ Len(es[i].value) <= Cap.default_value
  /\ \A i \in 1..Len(es) - 1 : key_below(es[i], es[i + 1])

(***************************************************************************)
(* finish_block and parse_block_trailer: restart offsets, their count, the *)
(* block type and a checksum close every block.                            *)
(***************************************************************************)
finish_block(body, restarts) ==
  LET b == body \o restarts \o <<Len(restarts), 0>> IN Append(b, crc(b))

parse_block_trailer(b) ==
  IF Len(b) < 3 \/ b[Len(b)] # crc(SubSeq(b, 1, Len(b) - 1)) \/ b[Len(b) - 1] # 0 THEN {}
  ELSE LET count == b[Len(b) - 2]
           end   == Len(b) - 3 - count
           restarts == [i \in 1..count |-> b[end + i]]
       IN IF \/ end < 0
             \/ \E i \in 1..count - 1 : restarts[i] >= restarts[i + 1]
             \/ \E i \in 1..count : restarts[i] >= end
          THEN {}
          ELSE {[body |-> SubSeq(b, 1, end), restarts |-> restarts]}

encode_data_entry(e, shared) ==
  LET tail == SubSeq(e.user_key, shared + 1, Len(e.user_key))
  IN <<shared, Len(tail), Len(e.value)>> \o tail \o <<e.sequence, kind_cell(e.kind)>> \o e.value

(***************************************************************************)
(* One block: entries until the next would pass the target size, a restart *)
(* point every Cap.restart entries.                                        *)
(***************************************************************************)
RECURSIVE fill_block(_, _, _, _)
fill_block(es, used, body, restarts) ==
  IF used = Len(es) THEN [used |-> used, block |-> finish_block(body, restarts)]
  ELSE LET restart == used % Cap.restart = 0
           shared  == IF restart THEN 0
                      ELSE common_prefix(es[used].user_key, es[used + 1].user_key)
           encoded == encode_data_entry(es[used + 1], shared)
       IN IF used > 0 /\ Len(body) + Len(encoded) + Len(restarts) + 1 + 3 > Cap.block
          THEN [used |-> used, block |-> finish_block(body, restarts)]
          ELSE fill_block(es, used + 1, body \o encoded,
                          IF restart THEN Append(restarts, Len(body)) ELSE restarts)
encode_data_block(es) == fill_block(es, 0, <<>>, <<>>)

IndexRecord == Rec(<<F("user_key", Where("nonempty", Bytes)), F("sequence", Num),
                     F("kind", Words([Delete |-> <<0>>, Put |-> <<1>>])),
                     F("offset", Num), F("length", Num)>>)

encode_index_block(records) ==
  finish_block(The(Join([i \in DOMAIN records |-> enc(IndexRecord, records[i])])), <<>>)

RECURSIVE index_records(_, _)
index_records(s, acc) ==
  IF s = <<>> THEN {acc}
  ELSE UNION {IF acc # <<>> /\ ~ key_below(acc[Len(acc)], r[1]) THEN {}
              ELSE index_records(r[2], Append(acc, r[1])) : r \in dec(IndexRecord, s)}
decode_index_block(b) ==
  UNION {IF t.restarts # <<>> THEN {} ELSE index_records(t.body, <<>>) :
           t \in parse_block_trailer(b)}

(***************************************************************************)
(* The bloom filter: Cap.probes cells per key, found by double hashing.    *)
(***************************************************************************)
bloom_len(n) == IF n * 3 > 8 THEN n * 3 ELSE 8
bloom_hashes(key, len) ==
  {(crc(key) + p * (2 * crc(<<255>> \o key) + 1)) % len : p \in 0..Cap.probes - 1}
build_bloom(es) ==
  LET len == bloom_len(Len(es))
      set == UNION {bloom_hashes(es[i].user_key, len) : i \in DOMAIN es}
  IN [i \in 1..len |-> IF i - 1 \in set THEN 1 ELSE 0]
bloom_may_contain(bits, key) ==
  bits # <<>> /\ \A i \in bloom_hashes(key, Len(bits)) : bits[i + 1] = 1
encode_bloom_block(bits) == finish_block(<<Len(bits), Cap.probes>> \o bits, <<>>)
decode_bloom_block(b, count) ==
  {SubSeq(t.body, 3, Len(t.body)) :
     t \in {t \in parse_block_trailer(b) :
              /\ t.restarts = <<>> /\ Len(t.body) >= 2
              /\ t.body[2] = Cap.probes
              /\ t.body[1] = Len(t.body) - 2
              /\ t.body[1] = bloom_len(count)}}

FooterFields == <<"index_offset", "index_length", "bloom_offset", "bloom_length",
                  "entry_count">>
FOOTER == 8
SstMagic == 118
encode_footer(meta) ==
  LET head == [i \in 1..5 |-> meta[FooterFields[i]]] \o <<2>>
  IN head \o <<crc(head \o <<0, SstMagic>>), SstMagic>>
decode_footer(s) ==
  IF Len(s) # FOOTER \/ s[8] # SstMagic \/ s[6] # 2 THEN {}
  ELSE IF s[7] # crc(SubSeq(s, 1, 6) \o <<0, SstMagic>>) THEN {}
  ELSE {[n \in {FooterFields[i] : i \in 1..5} |-> s[position(FooterFields, n)]]}

(***************************************************************************)
(* SstV2Table::encode.                                                     *)
(***************************************************************************)
RECURSIVE data_blocks(_, _, _)
data_blocks(es, out, records) ==
  IF es = <<>> THEN [out |-> out, records |-> records]
  ELSE LET b == encode_data_block(es)
           last == es[b.used]
       IN data_blocks(SubSeq(es, b.used + 1, Len(es)), out \o b.block,
            Append(records, [user_key |-> last.user_key, sequence |-> last.sequence,
                             kind |-> last.kind, offset |-> Len(out),
                             length |-> Len(b.block)]))
encode_sst(es) ==
  IF ~ validate_entries(es) THEN {}
  ELSE LET data  == data_blocks(es, <<>>, <<>>)
           index == encode_index_block(data.records)
           bloom == encode_bloom_block(build_bloom(es))
           body  == data.out \o index \o bloom
       IN {body \o encode_footer(
             [index_offset |-> Len(data.out), index_length |-> Len(index),
              bloom_offset |-> Len(data.out) + Len(index), bloom_length |-> Len(bloom),
              entry_count |-> Len(es)])}

(***************************************************************************)
(* decode_data_block: an entry sits at a restart offset exactly when its   *)
(* position is a multiple of the interval, and shares nothing there.       *)
(***************************************************************************)
RECURSIVE data_entries(_, _, _, _)
data_entries(s, at, restarts, acc) ==
  IF s = <<>> THEN IF restarts = <<>> THEN {acc} ELSE {}
  ELSE IF Len(s) < 3 THEN {}
  ELSE LET ahead    == SelectSeq(restarts, LAMBDA o : o >= at)
           due      == ahead # <<>> /\ Head(ahead) = at
           previous == IF acc = <<>> THEN <<>> ELSE acc[Len(acc)].user_key
           shared   == s[1]
           size     == 3 + s[2] + 2 + s[3]
           key      == SubSeq(previous, 1, shared) \o SubSeq(s, 4, 3 + s[2])
           entry    == [user_key |-> key, sequence |-> s[4 + s[2]],
                        kind |-> IF s[5 + s[2]] = 1 THEN "Put" ELSE "Delete",
                        value |-> SubSeq(s, 6 + s[2], size)]
       IN IF \/ shared > Len(previous) \/ s[2] > Cap.default_key \/ s[3] > Cap.default_value
             \/ due /\ shared # 0
             \/ due # (Len(acc) % Cap.restart = 0)
             \/ size > Len(s)
          THEN {}
          ELSE IF \/ Len(key) \notin 1..Cap.default_key \/ s[5 + s[2]] \notin {0, 1}
                  \/ acc # <<>> /\ ~ key_below(acc[Len(acc)], entry)
               THEN {}
               ELSE data_entries(SubSeq(s, size + 1, Len(s)), at + size,
                                 IF due THEN Tail(ahead) ELSE ahead, Append(acc, entry))
decode_data_block(b) ==
  UNION {IF t.restarts = <<>> \/ Head(t.restarts) # 0 THEN {}
         ELSE data_entries(t.body, 0, t.restarts, <<>>) : t \in parse_block_trailer(b)}

(***************************************************************************)
(* The footer's ranges: the index follows the data, the filter ends at the *)
(* footer.                                                                 *)
(***************************************************************************)
ranges_ok(meta, footer) ==
  /\ meta.index_offset # 0
  /\ meta.index_offset + meta.index_length <= footer
  /\ meta.bloom_offset >= meta.index_offset + meta.index_length
  /\ meta.bloom_offset + meta.bloom_length = footer
slice(s, from, n) == SubSeq(s, from + 1, from + n)

(***************************************************************************)
(* SstV2Table::decode: every block in order, each index record the last    *)
(* key of its block.                                                       *)
(***************************************************************************)
RECURSIVE gather(_, _, _, _)
gather(s, records, next, acc) ==
  IF records = <<>> THEN {[next |-> next, entries |-> acc]}
  ELSE LET r == Head(records)
       IN IF r.offset # next \/ r.length = 0 \/ next + r.length > Len(s) THEN {}
          ELSE UNION {IF \/ es = <<>>
                         \/ es[Len(es)].user_key # r.user_key
                         \/ es[Len(es)].sequence # r.sequence
                         \/ es[Len(es)].kind # r.kind
                      THEN {}
                      ELSE gather(s, Tail(records), next + r.length, acc \o es) :
                        es \in decode_data_block(slice(s, r.offset, r.length))}
decode_sst(s) ==
  IF Len(s) < FOOTER THEN {}
  ELSE UNION {
    IF ~ ranges_ok(meta, Len(s) - FOOTER) THEN {}
    ELSE UNION {UNION {
           {[entries |-> g.entries, bloom |-> bits] :
              g \in {g \in gather(SubSeq(s, 1, meta.index_offset), records, 0, <<>>) :
                       /\ g.next = meta.index_offset
                       /\ Len(g.entries) = meta.entry_count
                       /\ validate_entries(g.entries)}} :
             bits \in decode_bloom_block(slice(s, meta.bloom_offset, meta.bloom_length),
                                         meta.entry_count)} :
           records \in {rs \in decode_index_block(slice(s, meta.index_offset,
                                                        meta.index_length)) : rs # <<>>}} :
    meta \in decode_footer(SubSeq(s, Len(s) - FOOTER + 1, Len(s)))}

(***************************************************************************)
(* SstV2Reader: open keeps the index and the filter; get fetches the first *)
(* block whose last key is not below the key; scan walks the blocks.       *)
(***************************************************************************)
open_sst(s) ==
  IF Len(s) < FOOTER THEN {}
  ELSE UNION {
    IF ~ ranges_ok(meta, Len(s) - FOOTER) THEN {}
    ELSE UNION {{[file |-> s, index |-> records, bloom |-> bits] :
                   bits \in decode_bloom_block(slice(s, meta.bloom_offset, meta.bloom_length),
                                               meta.entry_count)} :
           records \in {rs \in decode_index_block(slice(s, meta.index_offset,
                                                        meta.index_length)) : rs # <<>>}} :
    meta \in decode_footer(SubSeq(s, Len(s) - FOOTER + 1, Len(s)))}

newest(es, key, snapshot) ==
  LET seen == {i \in DOMAIN es : es[i].user_key = key /\ es[i].sequence <= snapshot}
  IN {es[i] : i \in {i \in seen : \A j \in seen : es[j].sequence <= es[i].sequence}}

sst_get(reader, key, snapshot) ==
  LET at == {i \in DOMAIN reader.index : ~ lex_below(reader.index[i].user_key, key)}
      r  == reader.index[CHOOSE i \in at : \A j \in at : i <= j]
  IN IF ~ bloom_may_contain(reader.bloom, key) \/ at = {} THEN {}
     ELSE UNION {newest(es, key, snapshot) :
                   es \in decode_data_block(slice(reader.file, r.offset, r.length))}

RECURSIVE scan_blocks(_, _, _, _, _, _, _)
scan_blocks(reader, i, start, end, snapshot, limit, visible) ==
  LET keys == {e.user_key : e \in visible}
      before_start(key) == \E k \in start : lex_below(key, k)
      past_end(key)     == \E k \in end : ~ lex_below(key, k)
  IN IF i > Len(reader.index) \/ Cardinality(keys) >= limit THEN visible
     ELSE LET r == reader.index[i]
          IN IF before_start(r.user_key)
             THEN scan_blocks(reader, i + 1, start, end, snapshot, limit, visible)
             ELSE LET es == The(decode_data_block(slice(reader.file, r.offset, r.length)))
                      all == visible \cup {es[k] : k \in {k \in DOMAIN es :
                                /\ es[k].sequence <= snapshot
                                /\ ~ before_start(es[k].user_key)
                                /\ ~ past_end(es[k].user_key)}}
                  IN scan_blocks(reader, i + 1, start, end, snapshot, limit,
                       {e \in all : \A d \in all : d.user_key = e.user_key
                                                     => d.sequence <= e.sequence})
sst_scan(reader, start, end, snapshot, limit) ==
  IF limit = 0 THEN {}
  ELSE LET v == scan_blocks(reader, 1, start, end, snapshot, limit, {})
       IN {e \in v : Cardinality({d \in v : lex_below(d.user_key, e.user_key)}) < limit}
=============================================================================
