------------------------------- MODULE Formats -------------------------------
(***************************************************************************)
(* Every durable and wire format of the system at work: a record or a      *)
(* stream of records is written by its encoder, then the cells are read    *)
(* back as they are, cut short, extended, altered in one cell, or altered  *)
(* with the closing checksum made to agree again.                          *)
(***************************************************************************)
EXTENDS RaftCodec, JournalCodec, StoreCodec, HistoryCodec, ClusterCodec

CONSTANTS Samples,  \* for each format, a sequence of values
          Replaced, \* the cells an alteration puts in place of another
          Lines     \* documents of the version 1 history, as sequences of lines

VARIABLES format,   \* which format
          sample,   \* which of its samples
          cells,    \* the cells as they stand
          state     \* "written", "cut", "extended", "altered", "resealed"
fvars == <<format, sample, cells, state>>

Pair(e, d) == [e |-> e, d |-> d]
Records ==
  [policy    |-> Pair(enc_policy, dec_policy),
   membership |-> Pair(enc_membership, dec_membership),
   config    |-> Pair(enc_config_envelope, dec_config_envelope),
   admin_reply |-> Pair(enc_admin_reply, dec_admin_reply),
   trace     |-> Pair(enc_trace, dec_trace),
   message   |-> Pair(enc_message, dec_message),
   command   |-> Pair(enc_command, dec_command),
   reply     |-> Pair(enc_reply, dec_reply),
   envelope  |-> Pair(enc_app_envelope, dec_app_envelope),
   hello     |-> Pair(enc_hello, dec_hello),
   frame     |-> Pair(encode_peer_frame, decode_peer_frame),
   input     |-> Pair(encode_input, decode_input),
   effect    |-> Pair(encode_effect, decode_effect),
   record    |-> Pair(encode_record, decode_record),
   batch     |-> Pair(encode_apply_batch, decode_apply_batch),
   meta      |-> Pair(encode_meta, decode_meta),
   meta_v2   |-> Pair(encode_meta_v2, decode_meta_v2),
   table     |-> Pair(from_entries, decode_table),
   manifest_base |-> Pair(encode_snapshot, decode_snapshot),
   manifest_edits |-> Pair(encode_edit_batch, decode_edit_batch),
   image     |-> Pair(encode_boot_image, decode_boot_image),
   journal_record |-> Pair(encode_journal_record, decode_journal_record),
   journal_footer |-> Pair(encode_footer_body, decode_footer_body),
   history   |-> Pair(encode_history, decode_history)]

(***************************************************************************)
(* Streams of records: the encoder of each frame and what recovery reads.  *)
(* A journal's sample also has its boot image and footer, a manifest's its *)
(* base.                                                                   *)
(***************************************************************************)
Streams == {"log", "store_wal", "journal", "manifest"}
write_stream(name, x) ==
  CASE name = "log"       -> Join([i \in DOMAIN x.records |->
                                     encode_framed_durable_record(x.records[i])])
    [] name = "store_wal" -> Join([i \in DOMAIN x.records |->
                                     encode_store_wal_frame(x.records[i])])
    [] name = "journal"   -> encode_journal(x)
    [] name = "manifest"  -> encode_manifest_v2([generation |-> x.generation, base |-> x.base,
                                                 edits |-> x.records])
read_stream(name, s) ==
  CASE name = "log"       -> {r.records : r \in recover_framed_record_stream(s, <<>>)}
    [] name = "store_wal" -> {r.records : r \in recover_store_wal(s, <<>>)}
    [] name = "journal"   -> {j.records : j \in decode_journal(s)}
    [] name = "manifest"  -> {r.manifest.edits : r \in decode_manifest_v2_prefix(s)}

Sample == Samples[format][sample]
IsRecord == format \in DOMAIN Records
IsStream == format \in Streams
IsTable  == format = "sst"

written(name, x) ==
  CASE name \in DOMAIN Records -> enc(Records[name].e, x)
    [] name \in Streams        -> write_stream(name, x)
    [] OTHER                   -> encode_sst(x)

(***************************************************************************)
(* Damage to a record that was written whole.                              *)
(***************************************************************************)
reseal_last(s) == [s EXCEPT ![Len(s)] = crc(SubSeq(s, 1, Len(s) - 1))]
Damage(s, how) == /\ state = "written" /\ cells' = s /\ state' = how
                  /\ UNCHANGED <<format, sample>>
CutShort == \E n \in 0..Len(cells) - 1 : Damage(SubSeq(cells, 1, n), "cut")
Extend   == \E c \in Replaced : Damage(Append(cells, c), "extended")
Alter    == \E n \in 1..Len(cells), c \in Replaced :
              cells[n] # c /\ Damage([cells EXCEPT ![n] = c], "altered")
AlterAndSeal == \E n \in 1..Len(cells) - 1, c \in Replaced :
                  /\ IsRecord
                  /\ cells[n] # c
                  /\ Damage(reseal_last([cells EXCEPT ![n] = c]), "resealed")

FInit == /\ format \in DOMAIN Samples
         /\ sample \in 1..Len(Samples[format])
         /\ cells = The(written(format, Sample))
         /\ state = "written"
FNext == CutShort \/ Extend \/ Alter \/ AlterAndSeal
-----------------------------------------------------------------------------
Read == decode(Records[format].d, cells)

(***************************************************************************)
(* What an encoder wrote its decoder reads back, for every kind of record  *)
(* and every alternative of it: commands, replies, messages, log records,  *)
(* store batches, manifests, journal records and histories.                *)
(***************************************************************************)
RoundTrip ==
  state = "written" =>
    /\ IsRecord => Read = {Sample}
    /\ IsStream => read_stream(format, cells) = {Sample.records}
    /\ IsTable  => \E t \in decode_sst(cells) : t.entries = Sample

(***************************************************************************)
(* No decoder takes part of a record for the whole, or a record with cells *)
(* after it.  (A peer frame says its length, and its payload takes the     *)
(* rest.)                                                                  *)
(***************************************************************************)
TornRefused ==
  state \in {"cut", "extended"} =>
    /\ IsRecord => Read = {}
    /\ IsTable  => decode_sst(cells) = {} /\ open_sst(cells) = {}

(***************************************************************************)
(* A sealed record, a frame or a table with one changed cell is refused.   *)
(***************************************************************************)
SealedFormats == {"policy", "membership", "config", "admin_reply", "reply", "envelope",
                  "hello", "input", "effect", "record", "meta", "meta_v2", "table"}
SealDetects ==
  state = "altered" =>
    /\ format \in SealedFormats => Read = {}
    /\ IsTable => decode_sst(cells) = {}

(***************************************************************************)
(* What a decoder accepts after a change, its encoder writes back cell for *)
(* cell, so equal values have equal bytes: the session table compares      *)
(* commands and replies as bytes, and a CCSN record must be canonical.     *)
(* (Member sets are read in any order, so records with one are left out.)  *)
(***************************************************************************)
CanonicalFormats == {"policy", "admin_reply", "command", "reply", "envelope",
                     "message", "hello", "meta", "meta_v2"}
Canonical ==
  state \in {"altered", "resealed"} /\ format \in CanonicalFormats =>
    \A v \in Read : enc(Records[format].e, v) = {cells}

(***************************************************************************)
(* A stream cut anywhere recovers exactly the records that are complete    *)
(* (the log needs its genesis, the others their header); one with a        *)
(* changed cell recovers a prefix of what was written or nothing.          *)
(***************************************************************************)
FirstRecords(x, n) == [x EXCEPT !.records = SubSeq(@, 1, n)]
Unfooted(x) == IF "footer" \in DOMAIN x THEN [x EXCEPT !.footer = {}] ELSE x
EndOf(n) == Len(The(write_stream(format, Unfooted(FirstRecords(Sample, n)))))
Complete == {n \in 0..Len(Sample.records) : /\ n = 0 => format # "log"
                                            /\ EndOf(n) <= Len(cells)}
StreamPrefix ==
  IsStream =>
    /\ state = "cut" =>
         read_stream(format, cells)
           = IF Complete = {} THEN {}
             ELSE {SubSeq(Sample.records, 1, Longest(Complete))}
    /\ state = "altered" =>
         read_stream(format, cells)
           \subseteq {SubSeq(Sample.records, 1, n) : n \in 0..Len(Sample.records)}

(***************************************************************************)
(* Both ends of a connection conclude the same from the two hellos, or     *)
(* both refuse; what they agree on is within what each offered.            *)
(***************************************************************************)
NegotiationAgrees ==
  format = "hello" /\ state = "written" =>
    \A i \in DOMAIN Samples.hello :
      LET peer == Samples.hello[i]
      IN /\ negotiate(Sample, peer) = negotiate(peer, Sample)
         /\ \A a \in negotiate(Sample, peer) :
              \A h \in {Sample, peer} :
                /\ a.semantic_version \in h.semantic_min..h.semantic_max
                /\ Features(h.required_features) \subseteq a.features
                /\ a.features \subseteq Features(h.supported_features)
                /\ a.max_peer_frame <= h.max_peer_frame

(***************************************************************************)
(* Reading a table block by block: the filter never hides a key, a get at  *)
(* the newest snapshot finds the newest version, and a scan finds the      *)
(* newest version of every key of its range up to its limit.               *)
(***************************************************************************)
TableKeys == {Sample[i].user_key : i \in DOMAIN Sample}
NewestOf(key) == newest(Sample, key, Cap.codec)
TableReads ==
  IsTable /\ state = "written" =>
    \A reader \in open_sst(cells) :
      /\ \A key \in TableKeys : /\ bloom_may_contain(reader.bloom, key)
                                /\ sst_get(reader, key, Cap.codec) = NewestOf(key)
      /\ sst_get(reader, <<9>>, Cap.codec) = {}
      /\ \A start \in {{}} \cup {{k} : k \in TableKeys}, limit \in 0..Cardinality(TableKeys) :
           LET inside == {k \in TableKeys : \A b \in start : ~ lex_below(k, b)}
               first  == {k \in inside :
                            Cardinality({j \in inside : lex_below(j, k)}) < limit}
           IN sst_scan(reader, start, {}, Cap.codec, limit) = UNION {NewestOf(k) : k \in first}

(***************************************************************************)
(* A version 1 history keeps its operations in order, reads a binary value *)
(* as the bytes its digits stand for, and is refused as a whole when one   *)
(* line is malformed.                                                      *)
(***************************************************************************)
LegacyHistory ==
  format = "history" /\ state = "written" => \A i \in DOMAIN Lines :
    LET doc == Lines[i]
        kept == SelectSeq(doc, LAMBDA l : ~ l.comment)
        read == decode_history_v1_tsv(doc)
    IN /\ \A h \in read : /\ Len(h) = Len(kept)
                          /\ \A k \in DOMAIN h : {h[k].invoke} = kept[k].invoke
       /\ (\E k \in DOMAIN kept : kept[k].fields # 5 \/ Len(kept[k].key) % 2 = 1) => read = {}

=============================================================================
