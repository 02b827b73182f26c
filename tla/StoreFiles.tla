----------------------------- MODULE StoreFiles -----------------------------
(***************************************************************************)
(* The files of the v2 store in crates/cc-store: tables, manifests and the *)
(* META pointer, the publication plans that put them on disk one step at a *)
(* time, the selection of what a leveled compaction rewrites, and the      *)
(* choice boot makes among what a crash left.                              *)
(*                                                                         *)
(* The crate builds plans and leaves their execution to a host; the host   *)
(* here executes them on the crashable disk of cc-sim, with the renames    *)
(* that atomically replace their target which publish_plan calls for.      *)
(* A table is the sorted set of the internal keys it holds, <<key, seq>>.  *)
(***************************************************************************)
EXTENDS Integers, Sequences, FiniteSets, SequencesExt, FiniteSetsExt

-----------------------------------------------------------------------------
(***************************************************************************)
(* The crashable disk of crates/cc-sim: a set of files, each with the name *)
(* and bytes the running process sees and the name and bytes a crash leaves.*)
(* Bytes are sequences of abstract chunks; an operation takes the disk and *)
(* returns the disk after it.                                              *)
(***************************************************************************)
named(disk, file) == {f \in disk : f.id = file}
durably_named(disk, file) == {f \in disk : f.durable_id = file}

blank(file) == [id |-> file, durable_id |-> file, visible |-> <<>>, durable |-> <<>>]

\* The file of a name, created empty when there is none.
file_mut(disk, file) ==
  IF named(disk, file) = {} THEN blank(file) ELSE CHOOSE f \in disk : f.id = file

put_file(disk, file, f) == (disk \ named(disk, file)) \cup {f}

\* Write at an offset: the file grows over it, only the page cache changes.
write_at(disk, file, at, bytes) ==
  LET f == file_mut(disk, file)
      end == at + Len(bytes)
      size == IF Len(f.visible) > end THEN Len(f.visible) ELSE end
  IN put_file(disk, file, [f EXCEPT !.visible = [i \in 1..size |->
       IF i > at /\ i <= end THEN bytes[i - at]
       ELSE IF i <= Len(f.visible) THEN f.visible[i] ELSE 0]])

fsync(disk, file) ==
  LET f == file_mut(disk, file) IN put_file(disk, file, [f EXCEPT !.durable = f.visible])

truncate(disk, file, len) ==
  LET f == file_mut(disk, file)
      n == IF Len(f.visible) < len THEN Len(f.visible) ELSE len
  IN put_file(disk, file, [f EXCEPT !.visible = SubSeq(f.visible, 1, n)])

delete(disk, file) == disk \ named(disk, file)

sync_dir(disk) == {[f EXCEPT !.durable_id = f.id] : f \in disk}

crash(disk) == {[f EXCEPT !.visible = f.durable, !.id = f.durable_id] : f \in disk}

visible(disk, file) == (CHOOSE f \in disk : f.id = file).visible
durable(disk, file) == (CHOOSE f \in disk : f.durable_id = file).durable

-----------------------------------------------------------------------------
CONSTANTS TableKeys,       \* the sets of user keys a flushed table may hold
          L0TriggerFiles,  \* CompactionConfig::l0_trigger_files
          Level1Target,    \* CompactionConfig::level1_target_bytes
          LevelMultiplier, \* CompactionConfig::level_multiplier
          MaxLevels,       \* CompactionConfig::max_levels
          OutputTarget,    \* CompactionConfig::output_target_bytes
          MaxGenerations,  \* manifests boot is willing to look at
          FileBudgets      \* bounds: records of tables to flush and crashes

VARIABLES disk,      \* the files
          plan,      \* the publication steps not executed yet
          manifest,  \* the manifest the running store works from
          next,      \* the manifest its plan publishes
          good,      \* ghost: the manifest of the last finished publication
          kept,      \* ghost: the versions its tables held then
          flushed,   \* tables flushed so far, and so the next sequence number
          left       \* what is left of the bounds

fvars == <<disk, plan, manifest, next, good, kept, flushed, left>>

Sst(n) == <<"Sst", n>>
Manifest(g) == <<"Manifest", g>>
Meta == <<"Meta", 0>>
Temp(n) == <<"Temp", n>>
MaxTemp == 20

\* What a file holds: the keys of a table, a manifest, or a generation number.
Bytes == [keys |-> {}, manifest |-> {}, generation |-> 0]
encode_table(keys) == <<[Bytes EXCEPT !.keys = keys]>>
encode_manifest_v2(m) == <<[Bytes EXCEPT !.manifest = {m}]>>
encode_meta_v2(m) == <<[Bytes EXCEPT !.generation = m.generation]>>
table_keys(bytes) == bytes[1].keys

-----------------------------------------------------------------------------
(* Tables and manifests. *)

key_less(a, b) == a[1] < b[1] \/ (a[1] = b[1] /\ a[2] > b[2])
sorted(keys) ==
  [i \in 1..Cardinality(keys) |->
     CHOOSE k \in keys : Cardinality({j \in keys : key_less(j, k)}) = i - 1]
smallest(keys) == CHOOSE k \in keys : \A j \in keys : ~key_less(j, k)
largest(keys) == CHOOSE k \in keys : \A j \in keys : ~key_less(k, j)

manifest_file(level, no, keys) ==
  [level |-> level, no |-> no, size |-> Cardinality(keys),
   smallest |-> smallest(keys), largest |-> largest(keys)]

ranges_overlap(a, b) == a.smallest[1] <= b.largest[1] /\ b.smallest[1] <= a.largest[1]

empty(generation) == [generation |-> generation, next_file_no |-> 1, files |-> {}]

\* One edit of a manifest; no value when the edit is refused.
apply_edit(m, e) ==
  CASE e.edit = "AddFile" ->
         IF \/ \E f \in m.files : f.no = e.file.no
            \/ e.file.no >= m.next_file_no
            \/ e.file.level > 0 /\ \E f \in m.files : f.level = e.file.level /\ ranges_overlap(f, e.file)
         THEN {} ELSE {[m EXCEPT !.files = @ \cup {e.file}]}
    [] e.edit = "RemoveFile" ->
         IF e.file \notin m.files THEN {} ELSE {[m EXCEPT !.files = @ \ {e.file}]}
    [] e.edit = "NextFileNo" ->
         IF e.next <= m.next_file_no THEN {} ELSE {[m EXCEPT !.next_file_no = e.next]}

\* A batch of edits is all or nothing.
append_edit_batch(m, edits) ==
  FoldLeft(LAMBDA acc, e : UNION {apply_edit(x, e) : x \in acc}, {m}, edits)

-----------------------------------------------------------------------------
(* Publication plans. *)

publish(temp, file, bytes) ==
  <<[op |-> "CreateTemp", file |-> temp], [op |-> "Write", file |-> temp, bytes |-> bytes],
    [op |-> "Fsync", file |-> temp], [op |-> "Rename", file |-> temp, to |-> file],
    [op |-> "SyncDirectory"]>>

publish_all(targets, first) ==
  FoldLeft(LAMBDA acc, i : acc \o publish(Temp(first + i), targets[i][1], targets[i][2]),
           <<>>, [i \in 1..Len(targets) |-> i])

publish_plan(m, tables) ==
  LET nos == SetToSortSeq({t.no : t \in tables}, <)
      bytes(n) == (CHOOSE t \in tables : t.no = n).keys
  IN publish_all([i \in 1..Len(nos) |-> <<Sst(nos[i]), encode_table(bytes(nos[i]))>>]
                   \o <<<<Manifest(m.generation), encode_manifest_v2(m)>>, <<Meta, encode_meta_v2(m)>> >>, 0)

deletions(inputs) ==
  LET nos == SetToSortSeq({f.no : f \in inputs}, <)
  IN [i \in 1..Len(nos) |-> [op |-> "Delete", file |-> Sst(nos[i])]]

\* Mutation: the inputs are deleted before the replacement manifest is durable.
compaction_deletes_first(m, outputs, inputs) ==
  publish_all([i \in 1..Len(outputs) |-> <<Sst(outputs[i].no), encode_table(outputs[i].keys)>>], 0)
    \o deletions(inputs)
    \o publish(Temp(MaxTemp), Manifest(m.generation), encode_manifest_v2(m))

compaction_publication(m, outputs, inputs) ==
  publish_all([i \in 1..Len(outputs) |-> <<Sst(outputs[i].no), encode_table(outputs[i].keys)>>]
                \o <<<<Manifest(m.generation), encode_manifest_v2(m)>> >>, 0)
    \o deletions(inputs) \o <<[op |-> "SyncDirectory"]>>

-----------------------------------------------------------------------------
(* What a leveled compaction rewrites. *)

target_for_level(level) ==
  IF level = 0 THEN L0TriggerFiles ELSE Level1Target * LevelMultiplier^(level - 1)

level_files(files, level) == {f \in files : f.level = level}

actual(files, level) ==
  IF level = 0 THEN Cardinality(level_files(files, 0))
  ELSE FoldSet(LAMBDA f, sum : sum + f.size, 0, level_files(files, level))

\* The level with the highest score actual / target, the lowest of equals.
source_levels(files) ==
  LET due == {l \in 0..(MaxLevels - 2) : actual(files, l) >= target_for_level(l)}
      score(a, b) == actual(files, a) * target_for_level(b) - actual(files, b) * target_for_level(a)
  IN {l \in due : \A o \in due : score(l, o) > 0 \/ (score(l, o) = 0 /\ l <= o)}

\* Close the inputs over every file of the two levels that their range touches.
closure(files, source, selected) ==
  LET lo(s) == Min({f.smallest[1] : f \in s})
      hi(s) == Max({f.largest[1] : f \in s})
      eligible(f) == f.level = source + 1 \/ (source = 0 /\ f.level = 0)
      grow(s) == s \cup {f \in files : eligible(f) /\ f.smallest[1] <= hi(s) /\ f.largest[1] >= lo(s)}
  IN FoldLeft(LAMBDA s, i : grow(s), selected, [i \in 1..Cardinality(files) |-> i])

select_compaction(files) ==
  {[source |-> l, inputs |->
      closure(files, l, {CHOOSE f \in level_files(files, l) :
                           \A g \in level_files(files, l) : f.no <= g.no})] : l \in source_levels(files)}

\* Mutation: the output still open when the input ends is dropped.
split_drops_last(entries) ==
  LET all == FoldLeft(LAMBDA acc, e :
               LET cur == acc[Len(acc)] IN
               IF cur # {} /\ largest(cur)[1] # e[1] /\ Cardinality(cur) + 1 > OutputTarget
               THEN Append(acc, {e}) ELSE [acc EXCEPT ![Len(acc)] = @ \cup {e}],
               <<{}>>, sorted(entries))
  IN IF Len(all) > 1 THEN SubSeq(all, 1, Len(all) - 1) ELSE all

\* Split the merge near the target, only where the user key changes.
split_compaction_output(entries) ==
  FoldLeft(LAMBDA acc, e :
             LET cur == acc[Len(acc)] IN
             IF /\ cur # {} /\ largest(cur)[1] # e[1]
                /\ Cardinality(cur) + 1 > OutputTarget
             THEN Append(acc, {e}) ELSE [acc EXCEPT ![Len(acc)] = @ \cup {e}],
           <<{}>>, sorted(entries))

-----------------------------------------------------------------------------
(* Boot. *)

on_disk(file) == durably_named(disk, file) # {} /\ durable(disk, file) # <<>>
keys_of(no) == table_keys(durable(disk, Sst(no)))
manifest_of(g) == CHOOSE m \in durable(disk, Manifest(g))[1].manifest : TRUE
meta_generation == durable(disk, Meta)[1].generation

generations == {f.durable_id[2] : f \in {d \in disk : d.durable_id[1] = "Manifest" /\ d.durable # <<>>}}

verify_manifest_tables(m) ==
  \A f \in m.files : on_disk(Sst(f.no)) /\ manifest_file(f.level, f.no, keys_of(f.no)) = f

loadable(g) == g \in generations /\ verify_manifest_tables(manifest_of(g))

\* The manifest boot exposes: the one META names or, with no META, the highest
\* complete generation; none when boot refuses.
select_manifest_generation ==
  LET ok == {g \in generations : loadable(g)}
      chosen == IF on_disk(Meta) THEN {meta_generation} ELSE {g \in ok : g = Max(ok)}
  IN IF Cardinality(generations) > MaxGenerations THEN {}
     ELSE {manifest_of(g) : g \in chosen \cap ok}

-----------------------------------------------------------------------------
(* Behaviours. *)

\* The versions a manifest's tables hold on a disk.
held(m, d) == UNION {table_keys(visible(d, Sst(f.no))) : f \in m.files}

tables_of(m) == {[no |-> f.no, keys |-> table_keys(visible(disk, Sst(f.no)))] : f \in m.files}

Init ==
  /\ disk = {} /\ plan = <<>> /\ left \in FileBudgets /\ flushed = 0
  /\ manifest = empty(1) /\ next = manifest /\ good = {} /\ kept = {}

\* A memtable is flushed to a new L0 table and a generation with it published.
PublishGeneration ==
  /\ plan = <<>>
  /\ left.tables > 0
  /\ left' = [left EXCEPT !.tables = @ - 1]
  /\ flushed' = flushed + 1
  /\ \E ks \in TableKeys :
       LET no == manifest.next_file_no
           keys == {<<k, flushed + 1>> : k \in ks}
       IN \E m \in append_edit_batch([manifest EXCEPT !.generation = @ + 1],
                     <<[edit |-> "NextFileNo", next |-> no + 1],
                       [edit |-> "AddFile", file |-> manifest_file(0, no, keys)]>>) :
            /\ next' = m
            /\ plan' = publish_plan(m, tables_of(manifest) \cup {[no |-> no, keys |-> keys]})
  /\ UNCHANGED <<disk, manifest, good, kept>>

compaction_edits(sel) ==
  LET all == UNION {table_keys(visible(disk, Sst(f.no))) : f \in sel.inputs}
      parts == split_compaction_output(all)
      no(i) == manifest.next_file_no + i - 1
      removed == SetToSeq(sel.inputs)
  IN [outputs |-> [i \in 1..Len(parts) |-> [no |-> no(i), keys |-> parts[i]]],
      edits |-> <<[edit |-> "NextFileNo", next |-> no(Len(parts) + 1)]>>
        \o [i \in 1..Len(removed) |-> [edit |-> "RemoveFile", file |-> removed[i]]]
        \o [i \in 1..Len(parts) |->
              [edit |-> "AddFile", file |-> manifest_file(sel.source + 1, no(i), parts[i])]]]

\* A compaction replaces its inputs in the manifest of the same generation.
PublishCompaction ==
  /\ plan = <<>>
  /\ good # {}
  /\ \E sel \in select_compaction(manifest.files) :
       LET c == compaction_edits(sel)
       IN \E m \in append_edit_batch(manifest, c.edits) :
            /\ next' = m
            /\ plan' = compaction_publication(m, c.outputs, sel.inputs)
  /\ UNCHANGED <<disk, manifest, good, kept, flushed, left>>

\* A rename that replaces: until the directory is synced a crash undoes it.
rename_over(from, to) ==
  {IF f.id = from THEN [f EXCEPT !.id = to]
   ELSE IF f.id = to THEN [f EXCEPT !.id = <<"Replaced", 0>>] ELSE f : f \in disk}

executed(step) ==
  CASE step.op = "CreateTemp"    -> fsync(truncate(disk, step.file, 0), step.file)
    [] step.op = "Write"         -> write_at(disk, step.file, 0, step.bytes)
    [] step.op = "Fsync"         -> fsync(disk, step.file)
    [] step.op = "Rename"        -> rename_over(step.file, step.to)
    [] step.op = "Delete"        -> delete(disk, step.file)
    [] step.op = "SyncDirectory" -> sync_dir({f \in disk : f.id # <<"Replaced", 0>>})

\* The host executes the next step; after the last one the store moves on.
Step ==
  /\ plan # <<>>
  /\ disk' = executed(plan[1])
  /\ plan' = Tail(plan)
  /\ IF plan' = <<>>
     THEN manifest' = next /\ good' = {next} /\ kept' = kept \cup held(next, disk')
     ELSE UNCHANGED <<manifest, good, kept>>
  /\ UNCHANGED <<next, flushed, left>>

\* The process dies between two steps and boots from what is durable.
Crash ==
  /\ left.crashes > 0
  /\ left' = [left EXCEPT !.crashes = @ - 1]
  /\ disk' = crash(disk)
  /\ plan' = <<>>
  /\ manifest' = IF select_manifest_generation = {} THEN empty(1)
                 ELSE CHOOSE m \in select_manifest_generation : TRUE
  /\ next' = manifest'
  /\ good' = select_manifest_generation
  /\ kept' = kept \cup held(manifest', disk')
  /\ UNCHANGED flushed

Next == PublishGeneration \/ PublishCompaction \/ Step \/ Crash

-----------------------------------------------------------------------------
(* Properties. *)

\* A step is left only while the manifest it leads to is not the current one.
FilesTypeOK ==
  /\ plan # <<>> => next # manifest
  /\ \A f \in manifest.files : f.no < manifest.next_file_no /\ f.level < MaxLevels
  /\ \A a, b \in disk : a.id = b.id /\ a.id # <<"Replaced", 0>> => a = b

\* Between any two steps of a publication a crash leaves a store that boots to
\* the last published manifest or to the one being published, with every table
\* it names complete; before the first publication boot may also refuse
\* (StoreV2Image::publish_plan, StorePlan::compaction_publication).
LastGood ==
  LET boot == select_manifest_generation
  IN IF good = {} THEN boot \subseteq {next} ELSE boot # {} /\ boot \subseteq good \cup {next}

\* Whatever files the levels hold, the edits of the compaction that
\* select_compaction asks for are accepted, and its outputs hold every version
\* of its inputs with no user key in two of them.
CompactionAccepted ==
  plan = <<>> /\ good # {} =>
    \A sel \in select_compaction(manifest.files) :
      LET c == compaction_edits(sel)
      IN /\ append_edit_batch(manifest, c.edits) # {}
         /\ \A i, j \in 1..Len(c.outputs) :
              i # j => {e[1] : e \in c.outputs[i].keys} \cap {e[1] : e \in c.outputs[j].keys} = {}

\* Publication loses nothing: every version the tables of a published manifest
\* ever held is in the tables of the current one, whatever was rewritten,
\* deleted or interrupted since, and the next compaction will be accepted.
VersionsKept ==
  /\ plan = <<>> => kept \subseteq held(manifest, disk)
  /\ CompactionAccepted
=============================================================================
