----------------------------- MODULE CompactLog -----------------------------
(***************************************************************************)
(* The Raft log behind a checkpoint: what RaftNode (crates/cc-raft) does   *)
(* with a log whose prefix has been replaced by a snapshot, and how the    *)
(* framed Raft log (crates/cc-log) and the store WAL rebuild that state    *)
(* after a crash.                                                          *)
(*                                                                         *)
(* A log n is a record with the fields base and baseTerm (snapshot_index   *)
(* and snapshot_term) and log, the terms of the entries base+1, base+2...  *)
(* Payloads are left out: an entry is identified by its index and term.    *)
(* The state machine after k entries is the sequence of their k terms, so  *)
(* a snapshot [index, term, image] carries the state itself, and two of    *)
(* them have one checksum exactly when they are equal.                     *)
(*                                                                         *)
(* An Option is a set of at most one element.                              *)
(***************************************************************************)
EXTENDS Naturals, Sequences, SequencesExt

last_index(n) == n.base + Len(n.log)

last_term(n) == IF n.log = <<>> THEN n.baseTerm ELSE Last(n.log)

term_at(n, i) ==
    CASE i = 0 -> {0}
      [] i # 0 /\ i = n.base -> {n.baseTerm}
      [] i # 0 /\ i < n.base -> {}
      [] i > n.base -> IF i <= last_index(n) THEN {n.log[i - n.base]} ELSE {}

\* log.retain(|entry| entry.index > i)
Beyond(n, i) ==
    IF i <= n.base THEN n.log ELSE SubSeq(n.log, i - n.base + 1, Len(n.log))

\* log.retain(|entry| entry.index < i)
Before(n, i) == SubSeq(n.log, 1, Min({i - n.base - 1, Len(n.log)}))

\* The index and the term of the checkpoint become the origin of the log; the
\* entries beyond it stay as they are.
install_snapshot_state(n, s) ==
    IF s.index < n.base \/ (s.index = n.base /\ s.term # n.baseTerm)
    THEN n
    ELSE [n EXCEPT !.log = Beyond(n, s.index),
                   !.commit = Max({n.commit, s.index}),
                   !.base = s.index,
                   !.baseTerm = s.term]

Snapshot(kv) == [index |-> Len(kv), term |-> Last(kv), image |-> kv]

-----------------------------------------------------------------------------
(* Replication between a leader l and a follower f *)

\* An append carries the entry at `next`, or the first one the leader still
\* has beyond it, and one entry at most (max_entries_per_append = 1).
send_append(l) ==
    LET prev == l.next - 1
        first == Max({l.next, l.base + 1})
    IN  [kind |-> "Append", from |-> l.id, term |-> l.term, prev |-> prev,
         prevTerm |-> IF term_at(l, prev) = {} THEN {0} ELSE term_at(l, prev),
         entries |-> IF first > last_index(l) THEN {}
                     ELSE {[index |-> first, term |-> l.log[first - l.base]]},
         commit |-> l.commit]

AppendResp(f, m, ok, match, conflict) ==
    [kind |-> "AppendResp", to |-> m.from, term |-> f.term, ok |-> ok,
     match |-> match, conflict |-> conflict]

conflict_index(f, m) ==
    IF m.prev > last_index(f) THEN last_index(f) + 1
    ELSE Max({m.prev, f.base + 1})

\* A log entry at index e.index, if the follower has one behind its base
Existing(f, e) == IF e.index > f.base THEN term_at(f, e.index) ELSE {}

Conflicts(f, e) == Existing(f, e) \notin {{}, {e.term}}

\* The log after the entry, and the records the change writes
Appended(f, e) ==
    IF Existing(f, e) = {e.term} THEN f
    ELSE [f EXCEPT !.log = Append(Before(f, e.index), e.term)]

Records(f, e) ==
    (IF Conflicts(f, e) THEN <<[r |-> "Truncate", index |-> e.index]>> ELSE <<>>)
    \o (IF Existing(f, e) = {e.term} THEN <<>>
        ELSE <<[r |-> "Append", index |-> e.index, term |-> e.term]>>)

\* The follower's part of AppendEntries: the new state, the records to write
\* before anything else happens, the indexes to apply, and the answer (none,
\* when the append contradicts a committed entry).
append_request(f, m) ==
    LET refuse(conflict) ==
            [node |-> f, wal |-> <<>>, apply |-> <<>>,
             reply |-> <<AppendResp(f, m, FALSE, last_index(f), conflict)>>]
        accept(g, wal) ==
            LET commit == IF m.commit > g.commit
                          THEN Min({m.commit, last_index(g)}) ELSE g.commit
            IN  [node |-> [g EXCEPT !.commit = commit],
                 wal |-> wal,
                 apply |-> [k \in 1..(commit - Len(g.kv)) |-> Len(g.kv) + k],
                 reply |-> <<AppendResp(g, m, TRUE, last_index(g), 0)>>]
        take(e) ==
            CASE Conflicts(f, e) /\ e.index <= f.commit ->
                   [node |-> f, wal |-> <<>>, apply |-> <<>>, reply |-> <<>>]
              [] Existing(f, e) = {} /\ e.index # last_index(f) + 1 ->
                   refuse(last_index(f) + 1)
              [] OTHER -> accept(Appended(f, e), Records(f, e))
    IN  CASE m.term < f.term -> refuse(last_index(f))
          [] m.term >= f.term /\ term_at(f, m.prev) # m.prevTerm ->
               refuse(conflict_index(f, m))
          [] OTHER -> IF m.entries = {} THEN accept(f, <<>>)
                      ELSE take(CHOOSE e \in m.entries : TRUE)

\* Three voters: the leader, the follower that this model follows (match) and
\* the third one, whose acknowledgements are in `other`.
commit_quorum(l, i) == l.match >= i \/ l.other >= i

\* The commit index moves to the last entry of the leader's own term that a
\* majority holds, and the leader applies up to it.
advance_commit(l) ==
    LET held == {i \in l.commit + 1 .. last_index(l) :
                    commit_quorum(l, i) /\ term_at(l, i) = {l.term}}
        commit == Max(held \cup {l.commit})
    IN  [l EXCEPT !.commit = commit,
                  !.kv = @ \o SubSeq(l.log, Len(@) - l.base + 1, commit - l.base)]

append_response(l, m) ==
    IF m.ok
    THEN LET a == advance_commit([l EXCEPT !.match = m.match, !.next = m.match + 1])
         IN  [node |-> a,
              out |-> IF a.next <= last_index(a) THEN <<send_append(a)>> ELSE <<>>]
    ELSE LET a == [l EXCEPT !.next = Max({m.conflict, 1})]
         IN  [node |-> a, out |-> <<send_append(a)>>]

-----------------------------------------------------------------------------
(* Recovery from the framed Raft log and the store WAL *)

FreshLog == [ok |-> TRUE, term |-> 0, base |-> 0, baseTerm |-> 0,
             log |-> <<>>, mark |-> {}]

\* What a record does to the state rebuilt so far; a record that does not fit
\* it is corruption, and the node cannot be started.
apply_record(s, rec) ==
    LET fits ==
          CASE rec.r = "Hard" -> rec.term >= s.term
            [] rec.r = "Append" -> rec.index = last_index(s) + 1
            [] rec.r = "Truncate" -> rec.index > s.base
            [] OTHER ->
                 /\ rec.snap.index >= s.base
                 /\ \A prior \in s.mark : rec.snap.index > prior.index
                 /\ IF rec.r = "Installed"
                    THEN term_at(s, rec.snap.index) \in {{}, {rec.snap.term}}
                    ELSE term_at(s, rec.snap.index) = {rec.snap.term}
    IN  IF ~s.ok \/ ~fits THEN [s EXCEPT !.ok = FALSE]
        ELSE CASE rec.r = "Hard" -> [s EXCEPT !.term = rec.term]
               [] rec.r = "Append" -> [s EXCEPT !.log = Append(@, rec.term)]
               [] rec.r = "Truncate" -> [s EXCEPT !.log = Before(s, rec.index)]
               [] OTHER -> [s EXCEPT !.log = Beyond(s, rec.snap.index),
                                     !.base = rec.snap.index,
                                     !.baseTerm = rec.snap.term,
                                     !.mark = {rec.snap}]

recover_framed_record_stream(wal) == FoldLeft(apply_record, FreshLog, wal)

\* The records of a log image that starts at a checkpoint
CompactImage(n, snap) ==
    <<[r |-> "Hard", term |-> n.term], [r |-> "Installed", snap |-> snap]>>
    \o [k \in 1..Len(n.log) |->
          [r |-> "Append", index |-> n.base + k, term |-> n.log[k]]]

\* One record of the store WAL is replayed on the state reached so far
recover_durable_apply(s, rec) ==
    LET applied == Len(s.kv)
        fits == IF rec.index <= applied
                THEN rec.index = applied => rec.term = Last(s.kv)
                ELSE /\ rec.index = applied + 1
                     /\ rec.index > s.base /\ term_at(s, rec.index) = {rec.term}
    IN  CASE ~s.ok \/ ~fits -> [s EXCEPT !.ok = FALSE]
          [] s.ok /\ fits /\ rec.index <= applied -> s
          [] OTHER -> [s EXCEPT !.kv = Append(@, rec.term)]

\* A node started from its disk: the Raft log is replayed; a mark must have its
\* published snapshot and its manifest, whose image becomes the state machine;
\* then the store WAL is replayed.
boot(disk) ==
    LET s == recover_framed_record_stream(disk.wal)
        authority == \A mark \in s.mark : mark \in disk.snapshots
                                          /\ mark \in disk.manifests
        image == IF s.mark = {} THEN <<>>
                 ELSE (CHOOSE mark \in s.mark : TRUE).image
        start == [ok |-> s.ok /\ authority, term |-> s.term, base |-> s.base,
                  baseTerm |-> s.baseTerm, log |-> s.log, kv |-> image,
                  mark |-> s.mark]
    IN  FoldLeft(recover_durable_apply, start, disk.store)
=============================================================================
