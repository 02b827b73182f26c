--------------------------- MODULE SnapshotStream ---------------------------
(***************************************************************************)
(* A snapshot file written and read in chunks: CcsnStreamEncoder emits the *)
(* image in pieces of at most the size asked for, the file may be damaged  *)
(* on its way, and CcsnStreamDecoder takes it in pieces of any size.  The  *)
(* whole-file functions of ClusterCodec are the reference.                 *)
(***************************************************************************)
EXTENDS ClusterCodec

CONSTANTS Images,   \* the logical snapshots to write
          Chunks,   \* the chunk sizes asked for and delivered
          MaxTotal, \* the receiver's max_total_bytes
          Cluster,  \* the receiver's cluster
          Every     \* the distance between the cells that get damaged

VARIABLES image,    \* the snapshot being exported
          writer,   \* CcsnStreamEncoder
          file,     \* the cells written so far, then as they reach the reader
          damage,   \* what has happened to the file: "none", "cut", "altered", "resealed"
          reader,   \* CcsnStreamDecoder, or {} once it has refused
          given     \* cells of the file handed to the reader
svars == <<image, writer, file, damage, reader, given>>

Positions(s) == {i \in 1..Len(s) : i % Every = 0}

-----------------------------------------------------------------------------
(***************************************************************************)
(* The writer.  Records are made one at a time, by ordinal.                *)
(***************************************************************************)
ccsn_record_by_ordinal(s, ordinal) ==
  LET after      == ordinal - (2 + Cardinality(s.transfer))
      session    == after - Len(s.entries)
      tombstone  == session - Cardinality(s.sessions)
      kind == CASE ordinal = 0 -> <<1, enc_membership, s.membership>>
                [] ordinal = 1 -> <<2, enc_policy, s.policy>>
                [] ordinal = 2 /\ s.transfer # {} -> <<6, TransferRecord, The(s.transfer)>>
                [] ordinal >= 2 + Cardinality(s.transfer) /\ after < Len(s.entries) ->
                     <<3, KeyRecord, s.entries[after + 1]>>
                [] after >= Len(s.entries) /\ session < Cardinality(s.sessions) ->
                     <<4, SessionRecord, Sorted(s.sessions, SessionRank)[session + 1]>>
                [] OTHER ->
                     <<5, TombstoneRecord, Sorted(s.tombstones, SessionRank)[tombstone + 1]>>
  IN ccsn_record(kind)

(***************************************************************************)
(* new: the first pass takes lengths and checksums record by record.       *)
(***************************************************************************)
writer_of(header, records) ==
  LET total == HEADER_LEN + Len(records) + FOOTER_LEN
      footer(c) == <<total, crc(records), c, CcsnEnd>>
      file_crc == crc_update(crc_update(crc(header), records), footer(0))
  IN [header |-> header, footer |-> footer(file_crc),
      next |-> 0, current |-> {}, offset |-> 0, done |-> FALSE]
new_writer(s) ==
  IF ~ validate_ccsn_encode_snapshot(s) THEN {}
  ELSE {writer_of(ccsn_header(s, record_count(s)),
                  Concat([i \in 1..record_count(s) |-> ccsn_record_by_ordinal(s, i - 1)]))}

(***************************************************************************)
(* next_chunk: fill the output from the current piece, or the next one.    *)
(***************************************************************************)
next_piece(w) ==
  LET n == record_count(image)
  IN IF w.next = 0 THEN [w EXCEPT !.next = 1, !.current = {w.header}, !.offset = 0]
     ELSE IF w.next <= n
     THEN [w EXCEPT !.next = @ + 1, !.current = {ccsn_record_by_ordinal(image, w.next - 1)},
                    !.offset = 0]
     ELSE IF w.next = n + 1
     THEN [w EXCEPT !.next = @ + 1, !.current = {w.footer}, !.offset = 0]
     ELSE [w EXCEPT !.done = TRUE, !.offset = 0]
RECURSIVE fill(_, _, _)
fill_piece(p, c, wanted, out, max) ==
  fill([p EXCEPT !.offset = @ + wanted, !.current = IF p.offset + wanted = Len(c) THEN {} ELSE @],
       out \o SubSeq(c, p.offset + 1, p.offset + wanted), max)
fill_from(p, out, max) ==
  IF p.current = {} THEN [w |-> p, out |-> out]
  ELSE LET c == The(p.current)
           left == Len(c) - p.offset
       IN fill_piece(p, c, IF max - Len(out) < left THEN max - Len(out) ELSE left, out, max)
fill(w, out, max) ==
  IF Len(out) >= max THEN [w |-> w, out |-> out]
  ELSE fill_from(IF w.current = {} THEN next_piece(w) ELSE w, out, max)

WriteChunk(max) ==
  /\ damage = "none" /\ given = 0
  /\ \E w \in writer :
       /\ ~ w.done
       /\ LET f == fill(w, <<>>, max)
          IN writer' = {f.w} /\ file' = file \o f.out
  /\ UNCHANGED <<image, damage, reader, given>>

-----------------------------------------------------------------------------
(***************************************************************************)
(* The reader.                                                             *)
(***************************************************************************)
new_reader == [received |-> 0, pending |-> <<>>, header |-> {}, seen |-> 0,
               complete |-> FALSE, records_crc |-> 1, file_crc |-> 1, state |-> NoRecords]
Dropped(s, n) == SubSeq(s, n + 1, Len(s))

consume_header(d) ==
  LET h == SubSeq(d.pending, 1, HEADER_LEN)
  IN {[d EXCEPT !.pending = Dropped(@, HEADER_LEN), !.header = {x},
                !.file_crc = crc_update(@, h)] : x \in header_of(h, Cluster)}
consume_footer(d) ==
  LET f == SubSeq(d.pending, 1, FOOTER_LEN)
  IN IF \/ f[1] # d.received \/ f[4] # CcsnEnd \/ f[2] # d.records_crc
        \/ f[3] # crc_update(d.file_crc, [f EXCEPT ![3] = 0])
     THEN {}
     ELSE IF Len(d.pending) > FOOTER_LEN THEN {}
     ELSE {[d EXCEPT !.pending = <<>>, !.complete = TRUE, !.file_crc = f[3]]}
take_record(d) ==
  LET n == d.pending[1] + 3
      r == SubSeq(d.pending, 1, n)
  IN IF crc(SubSeq(r, 3, n)) # r[2] THEN {}
     ELSE {[d EXCEPT !.pending = Dropped(@, n), !.state = s, !.seen = @ + 1,
                     !.records_crc = crc_update(@, r), !.file_crc = crc_update(@, r)] :
             s \in consume_record(d.state, The(d.header), r[3], SubSeq(r, 4, n))}

RECURSIVE consume(_)
consume_once(d) ==
  IF d.header = {}
  THEN IF Len(d.pending) < HEADER_LEN THEN {d} ELSE consume_header(d)
  ELSE IF d.seen < The(d.header).record_count
  THEN IF Len(d.pending) < 3 THEN {d}
       ELSE IF d.pending[1] > Cap.record THEN {}
       ELSE IF Len(d.pending) < d.pending[1] + 3 THEN {d}
       ELSE take_record(d)
  ELSE IF Len(d.pending) < FOOTER_LEN THEN {d} ELSE consume_footer(d)
consume(d) ==
  IF d.header = {}
  THEN IF Len(d.pending) < HEADER_LEN THEN {d} ELSE UNION {consume(n) : n \in consume_header(d)}
  ELSE IF d.seen < The(d.header).record_count
  THEN IF Len(d.pending) < 3 THEN {d}
       ELSE IF d.pending[1] > Cap.record THEN {}
       ELSE IF Len(d.pending) < d.pending[1] + 3 THEN {d}
       ELSE UNION {consume(n) : n \in take_record(d)}
  ELSE IF Len(d.pending) < FOOTER_LEN THEN {d} ELSE consume_footer(d)

push_chunk(d, s) ==
  IF d.complete \/ d.received + Len(s) > MaxTotal THEN {}
  ELSE consume([d EXCEPT !.received = @ + Len(s), !.pending = @ \o s])
finish_reader(d) ==
  IF ~ d.complete \/ d.pending # <<>> \/ d.seen # The(d.header).record_count THEN {}
  ELSE assemble(Cluster, The(d.header), d.state)

Written == writer = {} \/ \E w \in writer : w.done

ReadChunk(n) ==
  /\ Written
  /\ given < Len(file)
  /\ LET end == IF given + n < Len(file) THEN given + n ELSE Len(file)
     IN /\ given' = end
        /\ reader' = UNION {push_chunk(d, SubSeq(file, given + 1, end)) : d \in reader}
  /\ UNCHANGED <<image, writer, file, damage>>

(***************************************************************************)
(* The staged file: cut short, one cell changed, or a record changed and   *)
(* every checksum above it made to agree again.                            *)
(***************************************************************************)
RECURSIVE sum_records(_)
sum_records(s) ==
  IF Len(s) < 3 THEN s
  ELSE IF s[1] + 3 > Len(s) THEN s
  ELSE <<s[1], crc(SubSeq(s, 3, s[1] + 3))>> \o SubSeq(s, 3, s[1] + 3)
         \o sum_records(SubSeq(s, s[1] + 4, Len(s)))
reseal(s) ==
  LET footer == Len(s) - FOOTER_LEN
      head   == SubSeq(s, 1, HEADER_LEN - 1)
      body   == sum_records(SubSeq(s, HEADER_LEN + 1, footer))
      summed == Append(head, crc(head)) \o body \o <<s[footer + 1], crc(body), 0, s[footer + 4]>>
  IN [summed EXCEPT ![footer + 3] = crc(summed)]
Undamaged == Written /\ damage = "none" /\ given = 0 /\ file # <<>>
Cut     == \E n \in Positions(file) :
             /\ Undamaged /\ n < Len(file)
             /\ file' = SubSeq(file, 1, n) /\ damage' = "cut"
             /\ UNCHANGED <<image, writer, reader, given>>
Alter   == \E n \in Positions(file) :
             /\ Undamaged
             /\ file' = [file EXCEPT ![n] = @ + 1] /\ damage' = "altered"
             /\ UNCHANGED <<image, writer, reader, given>>
Reseal  == \E n \in Positions(file), c \in 0..3 :
             /\ Undamaged
             /\ file' = reseal([file EXCEPT ![n] = c]) /\ damage' = "resealed"
             /\ UNCHANGED <<image, writer, reader, given>>

SInit == /\ image \in Images
         /\ writer = new_writer(image)
         /\ file = <<>> /\ damage = "none" /\ reader = {new_reader} /\ given = 0
SNext == \/ \E n \in Chunks : WriteChunk(n) \/ ReadChunk(n)
         \/ Cut \/ Alter \/ Reseal
-----------------------------------------------------------------------------
(***************************************************************************)
(* Whatever sizes the host asks for, the chunks are a prefix of the image  *)
(* encode_ccsn makes, and the writer is done when all of it is out.        *)
(***************************************************************************)
WriterMakesImage ==
  damage = "none" =>
    IF writer = {} THEN encode_ccsn(image) = {}
    ELSE \E s \in encode_ccsn(image) :
           /\ file = SubSeq(s, 1, Len(file))
           /\ Written => file = s

(***************************************************************************)
(* Whatever sizes it arrives in and whatever happened to it, the reader    *)
(* accepts a file exactly when decode_ccsn accepts it whole, and makes the *)
(* same state of it.                                                       *)
(***************************************************************************)
ReaderAgrees ==
  Written /\ given = Len(file) =>
    UNION {finish_reader(d) : d \in reader} = decode_ccsn(file, Cluster, MaxTotal)

(***************************************************************************)
(* A file that reaches its receiver whole restores the exported state when *)
(* it was made in the receiver's cluster and fits; a cut or altered one    *)
(* restores nothing.                                                       *)
(***************************************************************************)
RestoresExport ==
  Written /\ given = Len(file) =>
    LET restored == UNION {finish_reader(d) : d \in reader}
    IN CASE damage = "none" ->
              restored = IF /\ writer # {} /\ image.cluster_id = Cluster
                            /\ Len(file) <= MaxTotal
                            /\ Cardinality(image.sessions) <= image.policy.max_sessions
                            /\ Cardinality(image.tombstones)
                                 <= image.policy.max_session_tombstones
                         THEN {image} ELSE {}
         [] damage \in {"cut", "altered"} -> restored = {}
         [] OTHER -> TRUE

(***************************************************************************)
(* A backup of the exported file reads back as it was made, and restoring  *)
(* it under a new identity makes a state that the new cluster can itself   *)
(* export, read back and agree on: live keys keep value and deadline, and  *)
(* a session is either kept, remembered by a tombstone, or past its grace. *)
(***************************************************************************)
RestoreTimes == {image.time, image.time + 1, image.time + 3}
BackupOf(s) ==
  [cluster_id |-> image.cluster_id, index |-> image.index, term |-> image.term,
   time |-> image.time, policy_hash |-> policy_hash(image.policy), min_semantic |-> 1,
   active_features |-> image.membership.active_features, checkpoint |-> s]
RestoreSound ==
  Written /\ damage = "none" /\ given = Len(file)
    /\ UNION {finish_reader(d) : d \in reader} # {} =>
    \A b \in {BackupOf(file)} :
      /\ UNION {decode_backup_v2(s, MaxTotal) : s \in encode_backup_v2(b)} = {b}
      /\ \A at \in RestoreTimes :
           \A n \in snapshot_for_fresh_cluster(b, Cluster + 1, 1, at, MaxTotal) :
             /\ UNION {decode_ccsn(s, Cluster + 1, MaxTotal) : s \in encode_ccsn(n)} = {n}
             /\ {n.entries[i] : i \in DOMAIN n.entries}
                  = {e \in {image.entries[i] : i \in DOMAIN image.entries} :
                       \A d \in e.deadline : d > at}
             /\ \A r \in image.sessions :
                  r.namespace = UserRequest =>
                    \/ r \in n.sessions
                    \/ \E t \in n.tombstones : SameKey(r, t) /\ t.max_seq >= r.max_seq
                    \/ r.last_active + image.policy.session_idle_ns
                         + image.policy.session_retry_grace_ns <= at
=============================================================================
