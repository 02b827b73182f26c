--------------------------- MODULE SnapshotTransfer ---------------------------
(***************************************************************************)
(* Checkpoints: how the host driver (crates/cc-host/src/lib.rs) publishes   *)
(* one, how a leader streams it to a follower that has fallen behind the   *)
(* leader's log, how the follower stages, publishes and installs it, and   *)
(* what the real host (crates/cc-node/src/driver_host.rs, boot) finds on   *)
(* its disk after a crash at any point of that.                            *)
(*                                                                         *)
(* Two nodes are modelled: the leader ldr, whose own durability is left    *)
(* out (a leader that crashes is replaced, see NewLeader), and the         *)
(* follower: its Raft and state-machine state fol, its driver drv and its  *)
(* disk.  The third voter of the group is the two numbers other and held.  *)
(*                                                                         *)
(* The driver refuses every input while an I/O is pending (deliver,        *)
(* require_idle_durability), so a node runs one chain of I/O at a time; it *)
(* is the field `stage` of drv, named after the driver's IoStage.  A chain *)
(* of Raft records and store records waits in `todo`.                      *)
(***************************************************************************)
EXTENDS CompactLog, FiniteSets

CONSTANTS
    Chunks,          \* length of a checkpoint file, in chunks
    LeaderLog,       \* the terms of the leader's log when it is elected
    FollowerLogs,    \* the logs a follower may have at that time
    CheckpointAfter, \* max_log_bytes_before_snapshot, in entries
    MaxLog,          \* bound: the last index a leader proposes
    MaxInFlight,     \* bound: messages that travel when one more is sent
    Budgets          \* bounds: lost, repeated and reordered messages (faults),
                     \* crashes of the follower, changes of the leader, and
                     \* heartbeats before the last chunk is answered (early);
                     \* the transfer identifiers of a leader (transfers) and
                     \* the entries the follower may have applied at first

VARIABLES
    ldr,     \* the leader: RaftNode, Kv, and the sending half of Driver
    fol,     \* the follower: RaftNode and Kv
    drv,     \* the follower's Driver
    disk,    \* the follower's disk: what survives a crash
    toF,     \* the messages to the follower
    toL,     \* the messages to the leader
    budget   \* what is left of the bounds

vars == <<ldr, fol, drv, disk, toF, toL, budget>>

NodeId == {1, 2}          \* the nodes that lead; the follower is the third
Idle == [at |-> "Idle", msg |-> {}, snap |-> {}]

FreshDriver == [up |-> TRUE, incoming |-> {}, completed |-> {}, published |-> {},
                stage |-> Idle, todo |-> <<>>, after |-> <<>>]

InitialFollower(log, applied) ==
    [term |-> 1, base |-> 0, baseTerm |-> 0, log |-> log, commit |-> applied,
     kv |-> SubSeq(log, 1, applied)]

InitialDisk(log, applied) ==
    [wal |-> <<[r |-> "Hard", term |-> 1]>> \o
             [i \in 1..Len(log) |-> [r |-> "Append", index |-> i, term |-> log[i]]],
     snapshots |-> {}, manifests |-> {},
     store |-> [i \in 1..applied |-> [index |-> i, term |-> log[i]]]]

InitialLeader ==
    [id |-> 1, term |-> 2, base |-> 0, baseTerm |-> 0, log |-> LeaderLog,
     commit |-> 0, kv |-> <<>>, next |-> Len(LeaderLog) + 1, match |-> 0, other |-> 0,
     held |-> 0, out |-> {}, published |-> {}, ids |-> [n \in NodeId |-> 0]]

Init ==
    /\ ldr = InitialLeader
    /\ budget \in Budgets
    /\ \E log \in FollowerLogs, applied \in 0..budget.applied :
         /\ applied <= Len(log)
         /\ fol = InitialFollower(log, applied)
         /\ disk = InitialDisk(log, applied)
    /\ drv = FreshDriver
    /\ toF = <<send_append(InitialLeader)>>
    /\ toL = <<>>

-----------------------------------------------------------------------------
(* The leader.  Every input ends in translate, which may begin a checkpoint *)
(* of the leader's own and a transfer to a peer behind the log's base.      *)

\* begin_local_snapshot_publication and the chain it starts, on the leader:
\* nothing else happens there until the chain is done.
Publish(l) ==
    LET snap == Snapshot(l.kv)
    IN  [install_snapshot_state(l, snap) EXCEPT !.published = {snap}]

published_snapshot_matches_applied(l) ==
    \E p \in l.published : p.index = Len(l.kv)

maybe_begin_local_checkpoint(l) ==
    IF l.kv = <<>> \/ published_snapshot_matches_applied(l)
       \/ Len(l.log) < CheckpointAfter
    THEN l ELSE Publish(l)

send_snapshot_chunk(l, s) ==
    [kind |-> "Chunk", from |-> l.id, term |-> l.term, id |-> s.id,
     snap |-> s.snap, offset |-> s.next]

OutgoingSnapshot(id, snap) == [id |-> id, snap |-> snap, next |-> 0]

\* The peer's next index is at or below the base, and no transfer is open
maybe_begin_snapshot_transfer(l) ==
    IF l.base = 0 \/ l.next > l.base \/ l.out # {} \/ l.ids[l.id] >= budget.transfers
    THEN [node |-> l, out |-> <<>>]
    ELSE LET p == IF published_snapshot_matches_applied(l) THEN l ELSE Publish(l)
             s == OutgoingSnapshot(l.ids[l.id] + 1, CHOOSE snap \in p.published : TRUE)
         IN  [node |-> [p EXCEPT !.ids[l.id] = s.id, !.out = {s}],
              out |-> <<send_snapshot_chunk(p, s)>>]

\* The end of translate, after the messages of the input itself
translate(l, msgs) ==
    LET t == maybe_begin_snapshot_transfer(maybe_begin_local_checkpoint(l))
    IN  /\ ldr' = t.node
        /\ toF' = toF \o msgs \o t.out

\* An acknowledgement moves the open transfer on, restarts it, finishes it, or
\* makes the leader give it up.
advance_snapshot_transfer(l, m) ==
    LET s == CHOOSE s \in l.out : TRUE
        resume == [s EXCEPT !.next = m.next]
        done == [l EXCEPT !.out = {}, !.match = s.snap.index,
                          !.next = s.snap.index + 1]
    IN  CASE l.out = {} \/ m.term # l.term \/ m.id # s.id ->
               [node |-> l, out |-> <<>>]
          [] m.ok /\ m.next # s.next + 1 ->
               [node |-> [l EXCEPT !.out = {}], out |-> <<>>]
          [] m.ok /\ m.next = s.next + 1 /\ m.next = Chunks ->
               [node |-> done, out |-> <<send_append(done)>>]
          [] \/ m.ok /\ m.next = s.next + 1 /\ m.next < Chunks
             \/ ~m.ok /\ m.why \in {"RestartFromZero", "Gap"} ->
               [node |-> [l EXCEPT !.out = {resume}],
                out |-> <<send_snapshot_chunk(l, resume)>>]
          [] OTHER -> [node |-> [l EXCEPT !.out = {}], out |-> <<>>]

LeaderReceives ==
    /\ toL # <<>>
    /\ toL' = Tail(toL)
    /\ LET m == Head(toL)
       IN  IF m.to # ldr.id
           THEN UNCHANGED <<ldr, toF>>
           ELSE LET h == CASE m.kind = "AppendResp" ->
                                IF m.term = ldr.term THEN append_response(ldr, m)
                                ELSE [node |-> ldr, out |-> <<>>]
                           [] m.kind = "Ack" -> advance_snapshot_transfer(ldr, m)
                IN  translate(h.node, h.out)
    /\ UNCHANGED <<fol, drv, disk, budget>>

\* The bound on what travels.  When it is reached, the network loses the
\* append of a heartbeat.
Full == Len(toF) + Len(toL) >= MaxInFlight

Travels(kind) == \E m \in Range(toF) \cup Range(toL) : m.kind = kind

Unanswered ==
    /\ ldr.out # {}
    /\ Travels("Chunk") \/ Travels("Ack") \/ (drv.up /\ drv.stage # Idle)

HeartbeatDue == (~Full \/ ldr.out # {}) /\ (Unanswered => budget.early > 0)

retry_snapshot_chunks(l) == {send_snapshot_chunk(l, s) : s \in l.out}

\* Every heartbeat appends and repeats the chunk that is outstanding
Heartbeat ==
    /\ HeartbeatDue
    /\ LET chunks == retry_snapshot_chunks(ldr)
           appends == IF Full THEN <<>> ELSE <<send_append(ldr)>>
       IN  translate(ldr, appends \o SetToSeq(chunks))
    /\ budget' = IF Unanswered THEN [budget EXCEPT !.early = @ - 1] ELSE budget
    /\ UNCHANGED <<fol, drv, disk, toL>>

Propose ==
    /\ last_index(ldr) < MaxLog
    /\ ~Full
    /\ LET l == advance_commit([ldr EXCEPT !.log = Append(@, ldr.term)])
       IN  translate(l, <<send_append(l)>>)
    /\ UNCHANGED <<fol, drv, disk, toL, budget>>

\* The third voter acknowledges entries of the leader's log
OtherAcknowledges ==
    /\ \E i \in ldr.other + 1 .. last_index(ldr) :
         translate(advance_commit([ldr EXCEPT !.other = i, !.held = Max({@, i})]), <<>>)
    /\ UNCHANGED <<fol, drv, disk, toL, budget>>

\* The third voter has the whole log and is elected, with the leader's vote.
\* It may know less of what is committed, and may have made a checkpoint of
\* what it knows.  The old leader, which has that log too, becomes the third
\* voter; `held` is what the third voter has, `other` what the leader knows of
\* it.
NewLeader ==
    /\ budget.leaders > 0
    /\ budget' = [budget EXCEPT !.leaders = @ - 1]
    /\ last_index(ldr) < MaxLog
    /\ \E known \in 0..ldr.commit, base \in 0..ldr.commit :
         /\ base <= known
         /\ LET kv == SubSeq(ldr.kv, 1, known)
                full == SubSeq(ldr.kv, 1, ldr.base) \o ldr.log
                snap == Snapshot(SubSeq(kv, 1, base))
            IN  /\ ldr' = [ldr EXCEPT
                     !.id = CHOOSE n \in NodeId : n # ldr.id, !.term = @ + 1,
                     !.base = base, !.baseTerm = IF base = 0 THEN 0 ELSE kv[base],
                     !.log = Append(SubSeq(full, base + 1, Len(full)), ldr.term + 1),
                     !.commit = known, !.kv = kv, !.next = last_index(ldr) + 2,
                     !.match = 0, !.other = 0, !.held = last_index(ldr), !.out = {},
                     !.published = IF base = 0 THEN {} ELSE {snap}]
                /\ toF' = Append(toF, send_append(ldr'))
    /\ UNCHANGED <<fol, drv, disk, toL>>

-----------------------------------------------------------------------------
(* The follower: inputs *)

Ack(f, m, next, ok, why) ==
    [kind |-> "Ack", to |-> m.from, term |-> f.term, id |-> m.id, next |-> next,
     ok |-> ok, why |-> why]

\* The chunk m belongs to the transfer t
SameTransfer(t, m) ==
    t.from = m.from /\ t.term = m.term /\ t.id = m.id /\ t.snap = m.snap

\* A chunk that the node has no use for: its snapshot is behind the log
UselessSnapshot(f, snap) ==
    \/ snap.index < f.base
    \/ snap.index < Len(f.kv)
    \/ snap.index = f.base /\ snap.term # f.baseTerm

\* The snapshot is the one this node has published and stands at
AlreadyInstalled(f, d, snap) ==
    snap \in d.published /\ snap.index = Len(f.kv) /\ snap.term = Last(f.kv)

\* The mutant that lets an abandoned transfer keep the staging file
never_supersedes(d, m) == m.offset = 0 /\ d.incoming = {}

\* A chunk at offset zero opens a staging file when there is none, or when it
\* comes from a later transfer of the same node or from a later term.
Supersedes(d, m) ==
    /\ m.offset = 0
    /\ \A c \in d.incoming : (c.from = m.from /\ m.id > c.id) \/ m.term > c.term

IncomingSnapshot(m) ==
    [from |-> m.from, term |-> m.term, id |-> m.id, snap |-> m.snap,
     next |-> 0, decoded |-> FALSE]

\* The first I/O of the chain: the read back of a duplicate, or the write
Staging(d, incoming, m, at) ==
    [d EXCEPT !.incoming = incoming, !.stage = [at |-> at, msg |-> {m}, snap |-> {}]]

\* What the driver does with a chunk: answer it at once, or start an I/O chain
stage_snapshot_chunk(f, d, m) ==
    LET answer(next, ok, why) == [drv |-> d, out |-> <<Ack(f, m, next, ok, why)>>]
        stage(incoming, at) == [drv |-> Staging(d, incoming, m, at), out |-> <<>>]
        known == \E c \in d.incoming : SameTransfer(c, m)
        next == (CHOOSE c \in d.incoming : TRUE).next
    IN  IF UselessSnapshot(f, m.snap) THEN answer(0, FALSE, "StaleTerm")
        ELSE IF \/ \E r \in d.completed : SameTransfer(r, m)
                \/ AlreadyInstalled(f, d, m.snap)
        THEN answer(Chunks, TRUE, "")
        ELSE CASE known /\ m.offset > next -> answer(next, FALSE, "Gap")
               [] known /\ m.offset < next -> stage(d.incoming, "SnapshotDuplicateRead")
               [] known /\ m.offset = next -> stage(d.incoming, "SnapshotWrite")
               [] ~known /\ Supersedes(d, m) -> stage({IncomingSnapshot(m)}, "SnapshotWrite")
               [] ~known /\ d.incoming = {} /\ m.offset # 0 ->
                    answer(0, FALSE, "RestartFromZero")
               [] OTHER -> answer(0, FALSE, "Conflict")

\* The end of translate on the follower: a checkpoint of its own, when the log
\* has grown and no I/O is pending.
BeginsCheckpoint(f, d) ==
    /\ d.stage = Idle
    /\ f.kv # <<>>
    /\ \A p \in d.published : p.index # Len(f.kv)
    /\ Len(f.log) >= CheckpointAfter

checkpoint(f, d) ==
    IF BeginsCheckpoint(f, d)
    THEN [d EXCEPT !.stage = [at |-> "LocalSnapshotWrite", msg |-> {},
                              snap |-> {Snapshot(f.kv)}]]
    ELSE d

\* The records and the applies of a handler are durable: what it held back
\* happens (an answer, or a chunk to stage), and translate ends.
release(f, d) ==
    LET m == Head(d.after)
        quiet == [d EXCEPT !.after = <<>>]
        r == IF d.after # <<>> /\ m.kind = "Chunk"
             THEN stage_snapshot_chunk(f, quiet, m)
             ELSE [drv |-> quiet, out |-> d.after]
    IN  [drv |-> checkpoint(f, r.drv), out |-> r.out]

\* The handler's state, its records and applies in order, and the rest.  With
\* nothing to write the rest happens at once.
Begin(f, wal, apply, after) ==
    LET todo == wal \o [k \in 1..Len(apply) |-> [r |-> "Apply", index |-> apply[k]]]
        d == [drv EXCEPT !.todo = todo, !.after = after]
        r == release(f, d)
    IN  /\ fol' = f
        /\ IF todo # <<>> THEN drv' = d /\ UNCHANGED toL
           ELSE drv' = r.drv /\ toL' = toL \o r.out

FollowerIdle == drv.up /\ drv.stage = Idle /\ drv.todo = <<>>

FollowerReceives ==
    /\ FollowerIdle
    /\ toF # <<>>
    /\ toF' = Tail(toF)
    /\ LET m == Head(toF)
           newer == m.term > fol.term
           f == IF newer THEN [fol EXCEPT !.term = m.term] ELSE fol
           hard == IF newer THEN <<[r |-> "Hard", term |-> m.term]>> ELSE <<>>
           h == append_request(f, m)
       IN  IF m.kind = "Chunk" THEN Begin(f, hard, <<>>, <<m>>)
           ELSE Begin(h.node, hard \o h.wal, h.apply, h.reply)
    /\ UNCHANGED <<ldr, disk, budget>>

\* The next record of the handler is written and synced, or the next entry is
\* in the store WAL and then in the store.
Persisted ==
    /\ drv.up
    /\ drv.todo # <<>>
    /\ LET rec == Head(drv.todo)
           term == fol.log[rec.index - fol.base]
           applies == rec.r = "Apply"
           f == IF applies THEN [fol EXCEPT !.kv = Append(@, term)] ELSE fol
           d == [drv EXCEPT !.todo = Tail(@)]
           r == release(f, d)
       IN  /\ fol' = f
           /\ disk' = IF applies
                      THEN [disk EXCEPT !.store = Append(@, [index |-> rec.index, term |-> term])]
                      ELSE [disk EXCEPT !.wal = Append(@, rec)]
           /\ IF d.todo # <<>> THEN drv' = d /\ UNCHANGED toL
              ELSE drv' = r.drv /\ toL' = toL \o r.out
    /\ UNCHANGED <<ldr, toF, budget>>

-----------------------------------------------------------------------------
(* The follower: the I/O chain of a chunk and of a checkpoint *)

\* A stage is one change of the disk and stands for the driver's stages that
\* make it: the write of a file and its fsync; a rename and the sync of the
\* directory; the write, fsync and directory sync of the manifest; the write
\* and fsync of the mark; all four for the compaction of a log.  Until the last
\* of them completes, a crash may leave the disk with the change or without it.


\* The mutant that reclaims the store WAL before the mark
reclaim_first ==
    [SnapshotWrite |-> "SnapshotChunkRead",
     LocalSnapshotWrite |-> "LocalSnapshotRename",
     SnapshotRename |-> "SnapshotManifest",
     LocalSnapshotRename |-> "StoreWalCompact",
     SnapshotManifest |-> "SnapshotMark",
     WalCompact |-> "StoreWalCompact"]

\* The stages that do no more than start the next one
Following ==
    [SnapshotWrite |-> "SnapshotChunkRead",
     LocalSnapshotWrite |-> "LocalSnapshotRename",
     SnapshotRename |-> "SnapshotManifest",
     LocalSnapshotRename |-> "SnapshotManifest",
     SnapshotManifest |-> "SnapshotMark",
     WalCompact |-> "StoreWalCompact"]

IoStage == DOMAIN Following \cup
    {"SnapshotChunkRead", "SnapshotDuplicateRead", "SnapshotMark", "StoreWalCompact"}

\* The mark of a received checkpoint need not be in the log yet
Mark(st) ==
    [r |-> IF st.msg = {} THEN "Mark" ELSE "Installed",
     snap |-> CHOOSE snap \in st.snap : TRUE]

\* The disk with the change of the stage made
Issued(d, f, st) ==
    CASE st.at \in {"SnapshotRename", "LocalSnapshotRename"} ->
           [d EXCEPT !.snapshots = @ \cup st.snap]
      [] st.at = "SnapshotManifest" -> [d EXCEPT !.manifests = @ \cup st.snap]
      [] st.at = "SnapshotMark" -> [d EXCEPT !.wal = Append(@, Mark(st))]
      [] st.at = "WalCompact" ->
           [d EXCEPT !.wal = CompactImage(f, CHOOSE snap \in st.snap : TRUE)]
      [] st.at = "StoreWalCompact" -> [d EXCEPT !.store = <<>>]
      [] OTHER -> d

IoDone ==
    /\ drv.up
    /\ drv.stage.at \in DOMAIN Following
    /\ drv' = [drv EXCEPT !.stage.at = Following[@]]
    /\ disk' = Issued(disk, fol, drv.stage)
    /\ UNCHANGED <<ldr, fol, toF, toL, budget>>

\* The chunk is durable and read back.  The last one is checked against the
\* state machine and goes on to be published; the others are acknowledged.
SnapshotChunkRead ==
    /\ drv.up
    /\ drv.stage.at = "SnapshotChunkRead"
    /\ \E m \in drv.stage.msg, c \in drv.incoming :
         LET moved == [c EXCEPT !.next = m.offset + 1]
         IN  CASE m.offset + 1 < Chunks ->
                    /\ drv' = [drv EXCEPT !.incoming = {moved}, !.stage = Idle]
                    /\ toL' = Append(toL, Ack(fol, m, m.offset + 1, TRUE, ""))
               [] m.offset + 1 = Chunks /\ m.snap.index < Len(fol.kv) ->
                    /\ drv' = [drv EXCEPT !.incoming = {}, !.stage = Idle]
                    /\ toL' = Append(toL, Ack(fol, m, 0, FALSE, "Corrupt"))
               [] OTHER ->
                    /\ drv' = [drv EXCEPT
                         !.incoming = {[moved EXCEPT !.decoded = TRUE]},
                         !.stage = [at |-> "SnapshotRename", msg |-> {m},
                                    snap |-> {m.snap}]]
                    /\ UNCHANGED toL
    /\ UNCHANGED <<ldr, fol, disk, toF, budget>>

\* A chunk staged before is the same; the answer repeats how far staging is
SnapshotDuplicateRead ==
    /\ drv.up
    /\ drv.stage.at = "SnapshotDuplicateRead"
    /\ drv' = [drv EXCEPT !.stage = Idle]
    /\ \E m \in drv.stage.msg, c \in drv.incoming :
         toL' = Append(toL, Ack(fol, m, c.next, TRUE, ""))
    /\ UNCHANGED <<ldr, fol, disk, toF, budget>>

\* The mutant that restores the checkpoint into a store it does not clear
restore_merges(f, st) ==
    LET snap == CHOOSE snap \in st.snap : TRUE
        g == install_snapshot_state(f, snap)
    IN  IF st.msg = {} THEN g ELSE [g EXCEPT !.kv = @ \o snap.image]

\* The node's state after its mark is durable: a received checkpoint replaces
\* the state machine, a local one is the state machine.
finish_snapshot_install(f, st) ==
    LET snap == CHOOSE snap \in st.snap : TRUE
        g == install_snapshot_state(f, snap)
    IN  IF st.msg = {} THEN g ELSE [g EXCEPT !.kv = snap.image]

\* The image that is to replace the log is replayed before it is written
Verified(f, snap) ==
    LET s == recover_framed_record_stream(CompactImage(f, snap))
    IN  s.ok /\ s.term = f.term /\ s.base = snap.index /\ s.log = f.log
        /\ s.mark = {snap}

SnapshotMarked ==
    /\ drv.up
    /\ drv.stage.at = "SnapshotMark"
    /\ disk' = Issued(disk, fol, drv.stage)
    /\ \E snap \in drv.stage.snap :
         /\ fol' = finish_snapshot_install(fol, drv.stage)
         /\ drv' = [drv EXCEPT
              !.up = Verified(fol', snap),
              !.published = {snap},
              !.completed = IF drv.stage.msg = {} THEN @ ELSE drv.incoming,
              !.incoming = IF drv.stage.msg = {} THEN @ ELSE {},
              !.stage.at = "WalCompact"]
    /\ UNCHANGED <<ldr, toF, toL, budget>>

\* The store WAL is empty: the chain ends, and a received checkpoint is
\* acknowledged.
StoreWalCompacted ==
    /\ drv.up
    /\ drv.stage.at = "StoreWalCompact"
    /\ disk' = Issued(disk, fol, drv.stage)
    /\ drv' = [drv EXCEPT !.stage = Idle]
    /\ toL' = toL \o SetToSeq({Ack(fol, m, Chunks, TRUE, "") : m \in drv.stage.msg})
    /\ UNCHANGED <<ldr, fol, toF, budget>>

-----------------------------------------------------------------------------
(* Faults *)

\* The disks a crash may leave
Crashed == {disk, Issued(disk, fol, drv.stage)}

\* A failed I/O stops the process as well
Crash ==
    /\ drv.up
    /\ budget.crashes > 0
    /\ budget' = [budget EXCEPT !.crashes = @ - 1]
    /\ disk' \in Crashed
    /\ drv' = [FreshDriver EXCEPT !.up = FALSE]
    /\ UNCHANGED <<ldr, fol, toF, toL>>

\* A start that finds a mark verifies it and rewrites the log as one image
Boot ==
    /\ ~drv.up
    /\ LET b == boot(disk)
           n == [term |-> b.term, base |-> b.base, baseTerm |-> b.baseTerm,
                 log |-> b.log, commit |-> Len(b.kv), kv |-> b.kv]
       IN  /\ b.ok
           /\ fol' = n
           /\ drv' = [FreshDriver EXCEPT !.published = b.mark]
           /\ disk' = IF b.mark = {} THEN disk
                      ELSE [disk EXCEPT !.wal = CompactImage(n, CHOOSE s \in b.mark : TRUE)]
    /\ UNCHANGED <<ldr, toF, toL, budget>>

\* The network loses, repeats or reorders a message
Perturbed(channel) ==
    {RemoveAt(channel, i) : i \in DOMAIN channel}
    \cup {InsertAt(channel, i, channel[i]) : i \in DOMAIN channel}
    \cup {[channel EXCEPT ![i] = channel[i + 1], ![i + 1] = channel[i]] :
            i \in 1..Len(channel) - 1}

Disturb ==
    /\ budget.faults > 0
    /\ budget' = [budget EXCEPT !.faults = @ - 1]
    /\ \/ toF' \in Perturbed(toF) /\ UNCHANGED toL
       \/ toL' \in Perturbed(toL) /\ UNCHANGED toF
    /\ UNCHANGED <<ldr, fol, drv, disk>>

Next ==
    \/ LeaderReceives
    \/ Heartbeat
    \/ Propose
    \/ OtherAcknowledges
    \/ NewLeader
    \/ FollowerReceives
    \/ Persisted
    \/ IoDone
    \/ SnapshotChunkRead
    \/ SnapshotDuplicateRead
    \/ SnapshotMarked
    \/ StoreWalCompacted
    \/ Crash
    \/ Boot
    \/ Disturb

Spec == Init /\ [][Next]_vars

IoCompletes ==
    IoDone \/ SnapshotChunkRead \/ SnapshotDuplicateRead \/ SnapshotMarked
    \/ StoreWalCompacted

\* The heartbeat timer keeps firing, the network delivers what it does not
\* lose, an issued I/O completes and a crashed process is started again.
\* Nothing is assumed of the third voter, of clients or of faults.  Each line
\* is the weak fairness of an action that is enabled exactly when the negated
\* condition holds.
FairSpec ==
    /\ Spec
    /\ []<>~HeartbeatDue \/ []<><<Heartbeat>>_vars
    /\ []<>(toL = <<>>) \/ []<><<LeaderReceives>>_vars
    /\ []<>(~FollowerIdle \/ toF = <<>>) \/ []<><<FollowerReceives>>_vars
    /\ []<>(~drv.up \/ drv.todo = <<>>) \/ []<><<Persisted>>_vars
    /\ []<>(~drv.up \/ drv.stage = Idle) \/ []<><<IoCompletes>>_vars
    /\ []<>(drv.up \/ ~boot(disk).ok) \/ []<><<Boot>>_vars

-----------------------------------------------------------------------------
(* Properties *)

Comparable(a, b) == IsPrefix(a, b) \/ IsPrefix(b, a)

\* The entry a node started from a disk would have, where b is boot(disk)
Held(b, i) == IF i <= Len(b.kv) THEN {b.kv[i]} ELSE term_at(b, i)

Reboots == {boot(d) : d \in Crashed}

LeaderEntry(i) == IF i <= Len(ldr.kv) THEN {ldr.kv[i]} ELSE term_at(ldr, i)

\* Types of the state (the messages are built by one operator each).
TypeOK ==
    /\ ldr.base <= Len(ldr.kv) /\ Len(ldr.kv) = ldr.commit
    /\ ldr.commit <= last_index(ldr) /\ last_index(ldr) <= MaxLog
    /\ fol.base <= Len(fol.kv) /\ Len(fol.kv) <= fol.commit
    /\ fol.commit <= last_index(fol)
    /\ drv.stage.at \in IoStage \cup {"Idle"}
    /\ Cardinality(drv.incoming) <= 1 /\ Cardinality(drv.published) <= 1


\* The two state machines never disagree on an entry: installing a checkpoint
\* and applying the log behind it lead to the same state.
StateMachinesAgree == Comparable(fol.kv, ldr.kv)

\* Whatever moment it crashes at, a start brings back everything the follower
\* had applied, and the same.
AppliedIsHeld ==
    drv.up => \A b \in Reboots : IsPrefix(fol.kv, b.kv)

\* What the leader counts towards a majority is on the follower's disk, and
\* is the leader's entry: neither a checkpoint nor a crash in the middle of
\* publishing one makes an acknowledgement untrue.
AcknowledgedIsHeld ==
    \A b \in Reboots : \A i \in 1..ldr.match : Held(b, i) = LeaderEntry(i)

\* A committed entry is on a majority of the disks.
CommittedIsHeld ==
    \A b \in Reboots : \A i \in 1..ldr.commit :
        ldr.held >= i \/ Held(b, i) = LeaderEntry(i)

\* A crash at any step of publishing or installing a checkpoint costs nothing
\* that was applied, acknowledged or committed (DriverHost::boot).
NothingIsLost == AppliedIsHeld /\ AcknowledgedIsHeld /\ CommittedIsHeld

\* With messages delivered and I/O completed, the follower ends up with all
\* that is committed, by log or by checkpoint, however many chunks and
\* acknowledgements were lost on the way.
CatchesUp == <>[](fol.kv = ldr.kv)
=============================================================================
