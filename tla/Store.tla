------------------------------- MODULE Store -------------------------------
(***************************************************************************)
(* The derived key/value store of crates/cc-store: an LSM tree of two      *)
(* memtables and sorted tables under a manifest, multi-version by sequence *)
(* number, fed by committed batches that a host logs in the store WAL      *)
(* before it publishes them, and re-created at boot from a checkpoint image*)
(* and the WAL.                                                            *)
(*                                                                         *)
(* The k-th mutation the store ever applies has sequence number k and      *)
(* writes the value k, so that a read tells exactly which write it saw.    *)
(* The ghost variable `written` holds the map from keys to values after    *)
(* each mutation: what a store with no memtables, tables, compaction or    *)
(* crashes would contain.                                                  *)
(***************************************************************************)
EXTENDS Integers, FiniteSets, Sequences, SequencesExt, FiniteSetsExt

CONSTANTS Key,            \* user keys, a set of integers
          Hash,           \* the Bloom bit of each key
          MemtableBytes,  \* entries that make the active memtable rotate
          BlockEntries,   \* entries of one data block of a v2 table
          Mutations,      \* the mutation lists a committed batch may carry
          Budgets         \* bounds on the operations of one behaviour

ASSUME StoreAssumption ==
  /\ Key \subseteq Int /\ IsFiniteSet(Key)
  /\ MemtableBytes \in Nat \ {0} /\ BlockEntries \in Nat \ {0}
  /\ Mutations \subseteq Seq([key : Key, kind : {"Put", "Delete"}])

VARIABLES store,    \* the Store structure in memory
          staged,   \* the batch whose WAL frame is in flight (at most one)
          frames,   \* the durable frames of the store WAL, oldest first
          image,    \* the durable checkpoint boot starts from
          written,  \* ghost: the contents after each mutation
          budget    \* what is left of the bounds

vars == <<store, staged, frames, image, written, budget>>

InternalKey == [key : Key, seq : Nat, kind : {"Put", "Delete"}]

\* The order of internal keys: by user key, newest version first.
internal_less(a, b) == a.key < b.key \/ (a.key = b.key /\ a.seq > b.seq)
sorted(entries) ==
  [i \in 1..Cardinality(entries) |->
     CHOOSE e \in entries : Cardinality({f \in entries : internal_less(f, e)}) = i - 1]

\* The newest version of a key at a snapshot, in a set of entries.
newest(entries, key, at) ==
  {e \in entries : /\ e.key = key /\ e.seq <= at
                   /\ \A f \in entries : f.key = key /\ f.seq <= at => f.seq <= e.seq}

value_of(best) == {e.seq : e \in {f \in best : f.kind = "Put"}}

-----------------------------------------------------------------------------
(* Sorted tables: the v1 table in memory and the block reader of a v2 file. *)

for_keys(entries) == {Hash[e.key] : e \in entries}
may_contain(bits, key) == Hash[key] \in bits

from_entries(no, entries) == [no |-> no, entries |-> entries, bloom |-> for_keys(entries)]

table_get(table, key, at) ==
  IF may_contain(table.bloom, key) THEN newest(table.entries, key, at) ELSE {}

\* Data blocks hold consecutive entries and may split the versions of a key.
encode_blocks(entries) ==
  LET s == sorted(entries)
      n == (Len(s) + BlockEntries - 1) \div BlockEntries
      Upto(i) == IF i * BlockEntries < Len(s) THEN i * BlockEntries ELSE Len(s)
  IN [i \in 1..n |-> SubSeq(s, (i - 1) * BlockEntries + 1, Upto(i))]

open_reader(table) ==
  [no |-> table.no, blocks |-> encode_blocks(table.entries), bloom |-> table.bloom,
   smallest |-> sorted(table.entries)[1].key,
   largest |-> sorted(table.entries)[Cardinality(table.entries)].key]


\* Only the first block whose last key is not below the key is read.
reader_get(reader, key, at) ==
  LET hit == {i \in 1..Len(reader.blocks) : reader.blocks[i][Len(reader.blocks[i])].key >= key}
  IN IF hit = {} \/ ~may_contain(reader.bloom, key)
       \/ key < reader.smallest \/ key > reader.largest
     THEN {}
     ELSE newest(ToSet(reader.blocks[Min(hit)]), key, at)

-----------------------------------------------------------------------------
(* The store and its reads. *)

new == [active |-> {}, frozen |-> {}, tables |-> <<>>, v2_tables |-> {},
        generation |-> 0, files |-> <<>>, next_file_no |-> 1,
        sequence |-> 0, snapshots |-> <<>>, watermark |-> 0]

in_memory(s) == s.active \cup s.frozen \cup UNION {t.entries : t \in ToSet(s.tables)}

best_in_memory(s, key, at) ==
  newest(s.active, key, at) \cup newest(s.frozen, key, at)
    \cup UNION {table_get(t, key, at) : t \in ToSet(s.tables)}

get(s, key, at) == value_of(newest(best_in_memory(s, key, at), key, at))

get_with_source(s, key, at) ==
  value_of(newest(best_in_memory(s, key, at)
                    \cup UNION {reader_get(r, key, at) : r \in s.v2_tables}, key, at))

visible_entry(s, key) == newest(in_memory(s), key, s.sequence)

\* Keys and values of start <= key < stop, in key order, at most limit of them.
scan(s, start, stop, at, limit) ==
  LET hits == {k \in {e.key : e \in in_memory(s)} :
                 k >= start /\ k < stop /\ get(s, k, at) # {}}
      all == SetToSortSeq(hits, <)
      one(k) == <<k, CHOOSE v \in get(s, k, at) : TRUE>>
  IN [i \in 1..(IF Len(all) < limit THEN Len(all) ELSE limit) |-> one(all[i])]

logical_entries(s) ==
  {e \in UNION {visible_entry(s, k) : k \in {e.key : e \in in_memory(s)}} : e.kind = "Put"}

-----------------------------------------------------------------------------
(* Changing the store. *)

flush(s) ==
  LET source == IF s.frozen # {} THEN s.frozen ELSE s.active
  IN IF source = {} THEN s
     ELSE [s EXCEPT !.active = IF s.frozen # {} THEN s.active ELSE {},
                    !.frozen = {},
                    !.tables = Append(@, from_entries(s.next_file_no, source)),
                    !.files = [n \in DOMAIN s.files \cup {s.next_file_no} |->
                                 IF n = s.next_file_no THEN 0 ELSE s.files[n]],
                    !.next_file_no = @ + 1,
                    !.generation = @ + 1]

validate_apply_batch(s, batch) == batch.index > s.watermark


apply_batch(s, batch) ==
  LET f == IF s.frozen # {} THEN flush(s) ELSE s
      n == Len(batch.mutations)
      added == {[key |-> batch.mutations[i].key, seq |-> f.sequence + i,
                 kind |-> batch.mutations[i].kind] : i \in 1..n}
      grown == f.active \cup added
      full == Cardinality(grown) >= MemtableBytes
  IN [f EXCEPT !.sequence = @ + n, !.watermark = batch.index,
               !.active = IF full THEN {} ELSE grown,
               !.frozen = IF full THEN grown ELSE {}]

min_snapshot(s) == IF s.snapshots = <<>> THEN s.sequence ELSE Min(DOMAIN s.snapshots)

\* Whether a compaction of the entries `all` keeps the entry e.
survives(s, all, e) ==
  /\ e.seq >= min_snapshot(s) \/ \A f \in all : f.key = e.key => f.seq <= e.seq
  /\ ~(e.kind = "Delete" /\ e.seq < min_snapshot(s))

compact(s) ==
  LET all == UNION {t.entries : t \in ToSet(s.tables)}
      keep == {e \in all : survives(s, all, e)}
      old == {t.no : t \in ToSet(s.tables)}
  IN IF Len(s.tables) < 2 THEN s
     ELSE [s EXCEPT !.tables = <<from_entries(s.next_file_no, keep)>>,
                    !.files = [n \in (DOMAIN s.files \ old) \cup {s.next_file_no} |->
                                 IF n = s.next_file_no THEN 1 ELSE s.files[n]],
                    !.next_file_no = @ + 1,
                    !.generation = @ + 1]

snapshot(s) ==
  [s EXCEPT !.snapshots = [q \in DOMAIN @ \cup {s.sequence} |->
     IF q # s.sequence THEN @[q] ELSE IF q \in DOMAIN @ THEN @[q] + 1 ELSE 1]]

release_snapshot(s, q) ==
  [s EXCEPT !.snapshots = IF @[q] = 1 THEN [p \in DOMAIN @ \ {q} |-> @[p]]
                                      ELSE [@ EXCEPT ![q] = @ - 1]]

-----------------------------------------------------------------------------
(* Checkpoint images and boot.  An image is one of three kinds: the logical *)
(* entries a node snapshot carries, the v1 store image, the v2 generation.  *)

logical_image(s) ==
  [kind |-> "logical", entries |-> logical_entries(s), sequence |-> s.sequence,
   watermark |-> s.watermark]

checkpoint_image(kind, s) ==
  [kind |-> kind, tables |-> s.tables, sequence |-> s.sequence, watermark |-> s.watermark,
   generation |-> s.generation, files |-> s.files, next_file_no |-> s.next_file_no]

prepare_v2_image(s) ==
  LET highest == Max({t.no : t \in ToSet(s.tables)})
  IN [checkpoint_image("v2", s) EXCEPT !.generation = s.generation + 1,
                                       !.next_file_no = highest + 1,
        !.files = [n \in {t.no : t \in ToSet(s.tables)} |-> s.files[n]]]

v2_representable(s) ==
  /\ s.watermark > 0
  /\ s.tables # <<>>
  /\ \A t \in ToSet(s.tables) : t.entries # {}

from_logical_at(img) ==
  [new EXCEPT !.active = img.entries, !.sequence = img.sequence, !.watermark = img.watermark]

boot(img) ==
  [new EXCEPT !.tables = img.tables, !.generation = img.generation, !.files = img.files,
              !.next_file_no = img.next_file_no, !.sequence = img.sequence,
              !.watermark = img.watermark]

boot_v2_file_backed(img) ==
  [boot(img) EXCEPT !.tables = <<>>, !.v2_tables = {open_reader(t) : t \in ToSet(img.tables)}]

\* The stores boot can build from an image.
booted(img) ==
  CASE img.kind = "logical" -> {from_logical_at(img)}
    [] img.kind = "v1"      -> {boot(img)}
    [] img.kind = "v2"      -> {boot(img), boot_v2_file_backed(img)}

\* Replay of the WAL: frames the image covers are skipped, a gap refuses boot.
replay_wal(s, fs) ==
  FoldLeft(LAMBDA acc, b :
             IF acc = {} THEN {}
             ELSE LET x == CHOOSE y \in acc : TRUE
                  IN IF b.index <= x.watermark THEN acc
                     ELSE IF b.index # x.watermark + 1 THEN {}
                     ELSE {apply_batch(x, b)},
           {s}, fs)

-----------------------------------------------------------------------------
(* Behaviours. *)

after(contents, batch, from) ==
  LET apply(c, i) == [c EXCEPT ![batch.mutations[i].key] =
                        IF batch.mutations[i].kind = "Put" THEN {from + i} ELSE {}]
      n == Len(batch.mutations)
  IN [i \in 1..n |-> FoldLeft(LAMBDA c, j : apply(c, j), contents, [j \in 1..i |-> j])]

extend(w, batch) == w \o after(w[Len(w)], batch, Len(w) - 1)

Spend(field) == budget[field] > 0 /\ budget' = [budget EXCEPT ![field] = @ - 1]

Init ==
  /\ store = new
  /\ staged = {}
  /\ frames = <<>>
  /\ image = logical_image(new)
  /\ written = <<[k \in Key |-> {}]>>
  /\ budget \in Budgets

\* The node stages the next committed batch and the host appends its frame.
prepare_apply ==
  /\ staged = {}
  /\ Spend("batches")
  /\ \E m \in Mutations :
       LET batch == [index |-> store.watermark + 1, mutations |-> m]
       IN /\ validate_apply_batch(store, batch)
          /\ staged' = {batch}
  /\ UNCHANGED <<store, frames, image, written>>

\* The frame is durable: the prepared store is published.
publish_prepared ==
  \E batch \in staged :
    /\ frames' = Append(frames, batch)
    /\ store' = apply_batch(store, batch)
    /\ written' = extend(written, batch)
    /\ staged' = {}
    /\ UNCHANGED <<image, budget>>

Flush ==
  /\ Spend("flushes")
  /\ store' = flush(store)
  /\ UNCHANGED <<staged, frames, image, written>>

Compact ==
  /\ Spend("compactions")
  /\ Len(store.tables) >= 2
  /\ store' = compact(store)
  /\ UNCHANGED <<staged, frames, image, written>>

Pin ==
  /\ Spend("pins")
  /\ store' = snapshot(store)
  /\ UNCHANGED <<staged, frames, image, written>>

Release ==
  /\ \E q \in DOMAIN store.snapshots : store' = release_snapshot(store, q)
  /\ UNCHANGED <<staged, frames, image, written, budget>>

\* A node snapshot: the live entries become the image boot starts from.
CheckpointLogical ==
  /\ store.v2_tables = {}
  /\ Spend("logical")
  /\ image' = logical_image(store)
  /\ UNCHANGED <<store, staged, frames, written>>

checkpoint ==
  /\ store.v2_tables = {}
  /\ Spend("v1")
  /\ store' = flush(store)
  /\ image' = checkpoint_image("v1", store')
  /\ UNCHANGED <<staged, frames, written>>

\* A refused v2 image still leaves the memtable flushed.
checkpoint_v2 ==
  /\ store.v2_tables = {}
  /\ Spend("v2")
  /\ store' = flush(store)
  /\ image' = IF v2_representable(store') THEN prepare_v2_image(store') ELSE image
  /\ UNCHANGED <<staged, frames, written>>

\* The host reclaims the prefix of the store WAL the image covers.
Reclaim ==
  /\ \E b \in ToSet(frames) : b.index <= image.watermark
  /\ frames' = SelectSeq(frames, LAMBDA b : b.index > image.watermark)
  /\ UNCHANGED <<store, staged, image, written, budget>>

\* The process dies and boots: a frame in flight reached the disk or was torn.
Crash ==
  /\ Spend("crashes")
  /\ \E landed \in SUBSET staged, s \in booted(image) :
       LET fs == frames \o SetToSeq(landed)
       IN /\ store' \in replay_wal(s, fs)
          /\ frames' = fs
          /\ written' = IF landed = {} THEN written
                        ELSE extend(written, CHOOSE b \in landed : TRUE)
          /\ staged' = {}
  /\ UNCHANGED image

Next ==
  \/ prepare_apply \/ publish_prepared
  \/ Flush \/ Compact \/ Pin \/ Release
  \/ CheckpointLogical \/ checkpoint \/ checkpoint_v2 \/ Reclaim
  \/ Crash

Spec == Init /\ [][Next]_vars

-----------------------------------------------------------------------------
(* Properties. *)

\* The fields are well formed, the manifest names exactly the files of the
\* live tables, and a number it may allocate is no number already in use.
TypeOK ==
  /\ store.active \cup store.frozen \subseteq InternalKey
  /\ store.sequence + 1 = Len(written)
  /\ \A e \in in_memory(store) : e.seq \in 1..store.sequence
  /\ DOMAIN store.files = {t.no : t \in ToSet(store.tables) \cup store.v2_tables}
  /\ Cardinality(DOMAIN store.files) = Len(store.tables) + Cardinality(store.v2_tables)
  /\ \A n \in DOMAIN store.files : n < store.next_file_no

\* Whatever arrangement of memtables, tables and file-backed blocks rotation,
\* flushes, compactions, checkpoints, crashes and replays have led to, a read
\* of the latest state returns the last write of the key, or nothing when that
\* write was a delete (Store::get_with_source, Store::get).
GetsLatest ==
  \A k \in Key :
    /\ get_with_source(store, k, store.sequence) = written[Len(written)][k]
    /\ store.v2_tables = {} => get(store, k, store.sequence) = written[Len(written)][k]

\* A scan of any range with any limit returns the first keys of the range that
\* hold a value, with the value a point read would return (Store::scan); the
\* logical export keeps for each of them the sequence number of its write.
ScansAgree ==
  store.v2_tables = {} =>
    /\ \A start \in Key, stop \in Key, limit \in 0..2 :
         LET keys == {k \in Key : start <= k /\ k < stop /\ written[Len(written)][k] # {}}
             got == scan(store, start, stop, store.sequence, limit)
         IN /\ Len(got) = Min({limit, Cardinality(keys)})
            /\ \A i \in 1..Len(got) :
                 /\ got[i][1] \in keys /\ got[i][2] \in written[Len(written)][got[i][1]]
                 /\ Cardinality({k \in keys : k < got[i][1]}) = i - 1
    /\ logical_entries(store) =
         UNION {{[key |-> k, seq |-> v, kind |-> "Put"] : v \in written[Len(written)][k]} :
                  k \in Key}



=============================================================================
