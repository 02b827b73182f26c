----------------------------- MODULE DurableLog -----------------------------
(***************************************************************************)
(* The durable Raft log: the record vocabulary and planner of              *)
(* crates/cc-log over the segmented write-ahead log of crates/cc-wal, and  *)
(* the framed record stream the hosts write.  Bytes are cells: a record    *)
(* takes HeaderSize cells and its payload, a cell knows the record it      *)
(* belongs to and its place in it, which stands for length and checksum.   *)
(***************************************************************************)
EXTENDS Integers, Sequences, FiniteSets, SequencesExt

CONSTANTS SegmentSize,   \* cells of a segment after its header
          HeaderSize,    \* cells of a record header
          MaxRecord,     \* WalConfig::max_record_size
          Terms,         \* terms of records
          Voters,        \* nodes a vote may name, 0 for none
          MaxIndex,      \* bound: log indexes
          MaxRecords     \* bound: records of a behaviour

VARIABLES segments,  \* Wal::segments: cells and durable length of each
          state,     \* Log::state, what a completed fsync published
          staged,    \* Log::staged, what the queued writes lead to
          issued,    \* ghost: the records appended so far
          durable    \* ghost: how many of them the last commit covered

lvars == <<segments, state, staged, issued, durable>>

Record(kind, index, term, vote, size) ==
  [kind |-> kind, index |-> index, term |-> term, vote |-> vote, size |-> size]
Genesis == Record("Genesis", 0, 0, 0, 2)

-----------------------------------------------------------------------------
(* The semantic records. *)

fresh == [term |-> 0, vote |-> 0, base_index |-> 0, base_term |-> 0, entries |-> <<>>, mark |-> 0]

last_index(s) == IF s.entries = <<>> THEN s.base_index ELSE s.entries[Len(s.entries)].index

term_at(s, index) ==
  IF index = s.base_index THEN {s.base_term}
  ELSE {e.term : e \in {f \in ToSet(s.entries) : f.index = index}}

accepts_hard(s, r) ==
  /\ r.term >= s.term
  /\ ~(r.term = s.term /\ s.vote # 0 /\ r.vote # 0 /\ s.vote # r.vote)

accepts_mark(s, r) ==
  /\ r.index # 0 /\ r.index >= s.base_index
  /\ s.mark # 0 => r.index > s.mark
  /\ IF r.kind = "SnapshotMark" THEN term_at(s, r.index) = {r.term}
                                ELSE term_at(s, r.index) \subseteq {r.term}

accepts(s, r) ==
  CASE r.kind = "Hard"     -> accepts_hard(s, r)
    [] r.kind = "Append"   -> r.index # 0 /\ r.index = last_index(s) + 1
    [] r.kind = "Truncate" -> r.index > s.base_index
    [] r.kind \in {"SnapshotMark", "InstalledSnapshotMark"} -> accepts_mark(s, r)
    [] r.kind = "Genesis"  -> FALSE

applied_mark(s, r) ==
  [s EXCEPT !.entries = SelectSeq(@, LAMBDA e : e.index > r.index),
            !.base_index = r.index, !.base_term = r.term, !.mark = r.index]

\* The state after a record, or nothing when it is refused.
apply_record(s, r) ==
  IF ~accepts(s, r) THEN {}
  ELSE {CASE r.kind = "Hard"     -> [s EXCEPT !.term = r.term, !.vote = r.vote]
          [] r.kind = "Append"   -> [s EXCEPT !.entries = Append(@, [index |-> r.index, term |-> r.term])]
          [] r.kind = "Truncate" -> [s EXCEPT !.entries = SelectSeq(@, LAMBDA e : e.index < r.index)]
          [] OTHER               -> applied_mark(s, r)}

\* Replay of a recovered record sequence: the genesis record first and once.
replay(records) ==
  IF records = <<>> \/ records[1].kind # "Genesis" THEN {}
  ELSE FoldLeft(LAMBDA acc, r : UNION {apply_record(s, r) : s \in acc}, {fresh}, Tail(records))

-----------------------------------------------------------------------------
(* Records as cells, and reading them back. *)

Zero == [rec |-> Genesis, at |-> 0, of |-> 0]
Pad(n) == Record("Pad", 0, 0, 0, n - HeaderSize)
encode_record(r) ==
  [i \in 1..(HeaderSize + r.size) |-> [rec |-> r, at |-> i, of |-> HeaderSize + r.size]]

zero_tail(cells, offset) == \A i \in (offset + 1)..Len(cells) : cells[i] = Zero

\* Whether a complete record with its checksum starts after offset cells.
parses(cells, offset) ==
  /\ Len(cells) - offset >= HeaderSize
  /\ cells[offset + 1].at = 1
  /\ offset + cells[offset + 1].of <= Len(cells)
  /\ \A i \in 1..cells[offset + 1].of :
       cells[offset + i] = [cells[offset + 1] EXCEPT !.at = i]

has_valid_record_after(cells, offset) ==
  \E o \in (offset + 1)..(Len(cells) - 1) : ~zero_tail(cells, o) /\ parses(cells, o)

\* One segment read from its start: how far it goes and how it ends.
RECURSIVE read_segment(_, _, _)
read_segment(cells, offset, records) ==
  IF offset >= Len(cells) THEN [records |-> records, end |-> "complete"]
  ELSE IF zero_tail(cells, offset) THEN [records |-> records, end |-> "complete"]
  ELSE IF parses(cells, offset)
  THEN read_segment(cells, offset + cells[offset + 1].of,
         IF cells[offset + 1].rec.kind = "Pad" THEN records
         ELSE Append(records, cells[offset + 1].rec))
  ELSE [records |-> records,
        end |-> IF has_valid_record_after(cells, offset) THEN "corrupt" ELSE "torn"]

\* The records of the segment images; nothing when recovery refuses.  Only the
\* last segment may end in a torn record.
recover(images) ==
  LET parts == [i \in 1..Len(images) |-> read_segment(images[i], 0, <<>>)]
  IN IF \E i \in 1..Len(parts) :
          parts[i].end = "corrupt" \/ (parts[i].end = "torn" /\ i < Len(parts))
     THEN {}
     ELSE {FlattenSeq([i \in 1..Len(parts) |-> parts[i].records])}

\* The framed stream of a host file: complete records, then at most a torn one.
recover_framed_record_stream(cells) ==
  LET got == read_segment(cells, 0, <<>>) IN IF got.end = "corrupt" THEN {} ELSE {got.records}

-----------------------------------------------------------------------------
(* The write-ahead log. *)

new_segment == [cells |-> <<>>, durable_len |-> 0]
active(segs) == segs[Len(segs)]

\* Fill what is left of the active segment: a padding record, or zeros when
\* that is shorter than a header.
pad_active(segs) ==
  LET left == SegmentSize - Len(active(segs).cells)
      fill == IF left < HeaderSize \/ left > MaxRecord
              THEN [i \in 1..left |-> Zero] ELSE encode_record(Pad(left))
  IN [segs EXCEPT ![Len(segs)].cells = @ \o fill]

fits(r) == HeaderSize + r.size <= MaxRecord /\ HeaderSize + r.size <= SegmentSize

append(segs, r) ==
  LET cells == encode_record(r)
      rolled == IF SegmentSize - Len(active(segs).cells) < Len(cells)
                THEN Append(pad_active(segs), new_segment) ELSE segs
  IN [rolled EXCEPT ![Len(rolled)].cells = @ \o cells]

\* Mutation: the fsync covers the active segment only.
commit_active(segs) == [segs EXCEPT ![Len(segs)].durable_len = Len(active(segs).cells)]

commit(segs) == [i \in 1..Len(segs) |-> [segs[i] EXCEPT !.durable_len = Len(segs[i].cells)]]

durable_images(segs) == [i \in 1..Len(segs) |-> SubSeq(segs[i].cells, 1, segs[i].durable_len)]

\* What a crash can leave: the cells behind the barrier, then any prefix of the
\* later ones in the order they were written.
crash_images(segs) ==
  LET first == CHOOSE i \in 1..Len(segs) :
                 /\ \A j \in 1..(i - 1) : segs[j].durable_len = Len(segs[j].cells)
                 /\ i = Len(segs) \/ segs[i].durable_len < Len(segs[i].cells)
      cut(n, len) == [i \in 1..n |-> SubSeq(segs[i].cells, 1, IF i < n THEN Len(segs[i].cells) ELSE len)]
  IN {cut(first, len) : len \in segs[first].durable_len..Len(segs[first].cells)}
     \cup UNION {{cut(n, len) : len \in 0..Len(segs[n].cells)} : n \in (first + 1)..Len(segs)}

-----------------------------------------------------------------------------
(* Behaviours: the planner's operations, with any record they accept. *)

Init ==
  /\ segments = append(<<new_segment>>, Genesis)
  /\ state = fresh
  /\ staged = fresh
  /\ issued = <<Genesis>>
  /\ durable = 0

append_record(r) ==
  /\ Len(issued) < MaxRecords
  /\ fits(r)
  /\ staged' \in apply_record(staged, r)
  /\ segments' = append(segments, r)
  /\ issued' = Append(issued, r)
  /\ UNCHANGED <<state, durable>>

set_hard == \E t \in Terms, v \in Voters : append_record(Record("Hard", 0, t, v, 1))
append_entry == \E t \in Terms, i \in 1..MaxIndex, n \in 1..2 : append_record(Record("Append", i, t, 0, n))
truncate_suffix == \E i \in 1..MaxIndex : append_record(Record("Truncate", i, 0, 0, 1))
mark_snapshot ==
  \E i \in 1..MaxIndex, t \in Terms, k \in {"SnapshotMark", "InstalledSnapshotMark"} :
    append_record(Record(k, i, t, 0, 2))

Commit ==
  /\ durable < Len(issued)
  /\ segments' = commit(segments)
  /\ state' = staged
  /\ durable' = Len(issued)
  /\ UNCHANGED <<staged, issued>>

Next == set_hard \/ append_entry \/ truncate_suffix \/ mark_snapshot \/ Commit

-----------------------------------------------------------------------------
(* Properties. *)

prefixes(records, least) == {SubSeq(records, 1, n) : n \in least..Len(records)}

\* Segments hold whole records and their padding, and the published state is
\* that of the records the last barrier covered.
LogTypeOK ==
  /\ \A i \in 1..Len(segments) : Len(segments[i].cells) <= SegmentSize
  /\ durable > 0 => {state} = replay(SubSeq(issued, 1, durable))
  /\ {staged} = replay(issued)

\* A crash at any cell of the writes not yet behind a barrier is recovered: no
\* acknowledged record is lost, no record is half applied, none is reordered,
\* and recovery does not mistake a torn tail for corruption (Log::recover).
SegmentsRecover ==
  \A images \in crash_images(segments) :
    \E records \in recover(images) :
      /\ records \in prefixes(issued, durable)
      /\ records # <<>> => replay(records) # {}

\* The same for the framed stream a host writes record by record, and reading
\* only what is durable gives exactly the published state
\* (recover_framed_record_stream, Log::durable_images).
StreamRecovers ==
  LET stream == FlattenSeq([i \in 1..Len(issued) |-> encode_record(issued[i])])
      barrier == Len(FlattenSeq([i \in 1..durable |-> encode_record(issued[i])]))
  IN /\ \A cut \in barrier..Len(stream) :
          \E records \in recover_framed_record_stream(SubSeq(stream, 1, cut)) :
            records \in prefixes(issued, durable)
     /\ durable > 0 => \E records \in recover(durable_images(segments)) : replay(records) = {state}

\* Whatever the planner accepts leaves a log recovery can use: the entries
\* follow the base without a gap and none lies below the newest snapshot mark.
LogContiguous ==
  /\ \A i \in 1..Len(staged.entries) : staged.entries[i].index = staged.base_index + i
  /\ staged.mark = staged.base_index

\* No acknowledged record is lost by a crash, in segments or in a stream, and
\* what recovery finds is a log a node can start from.
RecoversAcknowledged == SegmentsRecover /\ StreamRecovers /\ LogContiguous
=============================================================================
