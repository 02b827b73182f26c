------------------------------ MODULE RaftCore ------------------------------
(***************************************************************************)
(* Elections, replication and durability of one Raft group with a fixed    *)
(* set of voters: the handlers of RaftNode (crates/cc-raft/src/lib.rs), the *)
(* durability pipeline that Node wraps around them                         *)
(* (crates/cc-cluster/src/lib.rs: map_effects, Persisted) and recovery from *)
(* the framed Raft log and the store WAL (crates/cc-log/src/lib.rs,         *)
(* Node::restore and recover_durable_applies).                             *)
(*                                                                         *)
(* A handler changes RaftNode at once and returns an ordered list of       *)
(* effects.  Node walks it: a persistence effect goes to the host, and     *)
(* everything behind it waits until the host reports Persisted.  A node    *)
(* that waits refuses every other input, so a node runs one handler and    *)
(* its chain of barriers at a time; the other nodes, the network and a     *)
(* crash interleave with the chain.                                        *)
(*                                                                         *)
(* Handlers are operators from the state r of node n (and a message m) to  *)
(* Effects(r', ops, out): the new state, the barriers in order, and the    *)
(* messages, all of which a handler emits after its last barrier.          *)
(***************************************************************************)
EXTENDS Integers, Sequences, FiniteSets

CONSTANTS
    Node,        \* the voters (RaftNode.voters); no membership change here
    Value,       \* client commands (Entry.payload)
    None,        \* voted_for = None
    Noop,        \* the payload of EntryKind::Noop
    MaxEntries,  \* RaftConfig.max_entries_per_append
    MaxTimeout,  \* bound: election and CheckQuorum timeouts, of all the nodes
    MaxHeartbeat,\* bound: heartbeats, of all the nodes
    MaxInFlight, \* bound: messages in the network at once
    MaxLog,      \* bound: leaders append up to this index
    MaxCrash     \* bound: crashes, of all the nodes

ASSUME ConstantsOK ==
    /\ IsFiniteSet(Node)
    /\ Node # {}
    /\ None \notin Node
    /\ Noop \notin Value
    /\ MaxEntries \in Nat \ {0}
    /\ MaxTimeout \in Nat
    /\ MaxHeartbeat \in Nat
    /\ MaxInFlight \in Nat
    /\ MaxLog \in Nat
    /\ MaxCrash \in Nat

VARIABLES
    raft,    \* RaftNode of each node: volatile
    pend,    \* Node.continuation: [ops, out]
    disk,    \* what a crash leaves: [hard, log, store]
    msgs,    \* messages in the network: each may be delivered now, later,
             \* again, or be lost
    bounds   \* timeouts, heartbeats and crashes so far: only to bound them

vars == <<raft, pend, disk, msgs, bounds>>

-----------------------------------------------------------------------------
(* Data *)

(* An entry's index is its position in the log. *)
Entry == [term : Nat, payload : Value \cup {Noop}]

HardState == [term : Nat, voted_for : Node \cup {None}]

RaftNode ==
    [role : {"Follower", "Candidate", "Leader"},
     hard_state : HardState,
     log : Seq(Entry),
     commit_index : Nat,
     applied_index : Nat,
     pre_votes : SUBSET Node,
     votes : SUBSET Node,
     heard_quorum : SUBSET Node,      \* heard since the window opened
     next_index : [Node -> Nat \ {0}],
     match_index : [Node -> Nat]]

Disk == [hard : HardState, log : Seq(Entry), store : Seq(Entry)]

(* RaftEffect::PersistHard, TruncateSuffix and PersistEntries, and one      *)
(* NodeEffect::PersistStore for each entry of RaftEffect::Apply.            *)
HardOp(h) == [kind |-> "hard", hard |-> h]
TruncateOp(from) == [kind |-> "truncate", from |-> from]
EntriesOp(es) == [kind |-> "entries", entries |-> es]
StoreOp(e) == [kind |-> "store", entry |-> e]

Op == [kind : {"hard"}, hard : HardState]
      \cup [kind : {"truncate"}, from : Nat]
      \cup [kind : {"entries"}, entries : Seq(Entry)]
      \cup [kind : {"store"}, entry : Entry]

VoteRequest ==
    [kind : {"PreVoteReq", "VoteReq"}, from : Node, to : SUBSET Node, term : Nat,
     last_index : Nat, last_term : Nat]
VoteResponse ==
    [kind : {"PreVoteResp", "VoteResp"}, from : Node, to : SUBSET Node, term : Nat,
     granted : BOOLEAN]
AppendRequest ==
    [kind : {"AppendReq"}, from : Node, to : SUBSET Node, term : Nat,
     prev_index : Nat, prev_term : Nat, entries : Seq(Entry),
     leader_commit : Nat]
AppendResponse ==
    [kind : {"AppendResp"}, from : Node, to : SUBSET Node, term : Nat,
     success : BOOLEAN, match_index : Nat, conflict_index : Nat]
Message == VoteRequest \cup VoteResponse \cup AppendRequest \cup AppendResponse

Idle == [ops |-> <<>>, out |-> {}]

TypeOK ==
    /\ raft \in [Node -> RaftNode]
    /\ pend \in [Node -> [ops : Seq(Op), out : SUBSET Message]]
    /\ disk \in [Node -> Disk]
    /\ msgs \in SUBSET Message
    /\ bounds \in [timeouts : Nat, heartbeats : Nat, crashes : Nat]

-----------------------------------------------------------------------------
(* Helpers of RaftNode *)

Min2(a, b) == IF a < b THEN a ELSE b
Max2(a, b) == IF a > b THEN a ELSE b

(* log.retain(|entry| entry.index <= i) *)
Prefix(log, i) == SubSeq(log, 1, Min2(i, Len(log)))

Effects(r, ops, out) == [raft |-> r, ops |-> ops, out |-> out]

Peers(n) == Node \ {n}

(* term_at is Some exactly up to the last index; index 0 is the empty        *)
(* snapshot base.                                                            *)
term_at(log, i) == IF i = 0 THEN 0 ELSE log[i].term

(* Mutant: the check of prev_term is forgotten. *)
has_entry(log, i, t) == i <= Len(log)

has_term(log, i, t) == i <= Len(log) /\ term_at(log, i) = t
last_term(log) == term_at(log, Len(log))

log_is_up_to_date(log, index, term) ==
    \/ term > last_term(log)
    \/ term = last_term(log) /\ index >= Len(log)

has_majority(S) == Cardinality(S) >= Cardinality(Node) \div 2 + 1

(* Mutant: exactly half of the voters is enough. *)
commit_half(n, r, i) ==
    Cardinality({p \in Node : p = n \/ r.match_index[p] >= i}) >= Cardinality(Node) \div 2

(* The leader counts itself without waiting for its own fsync; the sends and *)
(* applies that follow from the count wait for it.                           *)
commit_quorum(n, r, i) ==
    has_majority({p \in Node : p = n \/ r.match_index[p] >= i})

(* Mutant: the store is written before the entries are in the log. *)
apply_before_append(r, c, ops, out) ==
    LET news == SubSeq(r.log, r.applied_index + 1, Min2(c, Len(r.log)))
    IN  Effects([r EXCEPT !.commit_index = c,
                          !.applied_index = @ + Len(news)],
                [k \in DOMAIN news |-> StoreOp(news[k])] \o ops, out)

(* advance_commit and the apply_committed it ends with: a commit index moves *)
(* to c and each newly applied entry becomes a PersistStore barrier.         *)
apply_committed(r, c, ops, out) ==
    LET news == SubSeq(r.log, r.applied_index + 1, Min2(c, Len(r.log)))
    IN  Effects([r EXCEPT !.commit_index = c,
                          !.applied_index = @ + Len(news)],
                ops \o [k \in DOMAIN news |-> StoreOp(news[k])], out)

(* Mutant: an entry of an earlier term is committed by counting replicas. *)
advance_any_term(n, r) ==
    LET ready == {i \in r.commit_index + 1 .. Len(r.log) : commit_quorum(n, r, i)}
    IN  IF ready = {} THEN r.commit_index
        ELSE CHOOSE i \in ready : \A j \in ready : j <= i

advance_commit(n, r) ==
    LET ready == {i \in r.commit_index + 1 .. Len(r.log) :
                    /\ commit_quorum(n, r, i)
                    /\ r.log[i].term = r.hard_state.term}
    IN  IF ready = {} THEN r.commit_index
        ELSE CHOOSE i \in ready : \A j \in ready : j <= i

send_append(n, r, p) ==
    LET prev == r.next_index[p] - 1
    IN  [kind |-> "AppendReq", from |-> n, to |-> {p},
         term |-> r.hard_state.term,
         prev_index |-> prev,
         prev_term |-> IF prev <= Len(r.log) THEN term_at(r.log, prev) ELSE 0,
         entries |-> SubSeq(r.log, prev + 1, Min2(Len(r.log), prev + MaxEntries)),
         leader_commit |-> r.commit_index]

(* One send_append for each peer; the peers that get the same request share  *)
(* a record of the network.                                                  *)
broadcast_append(n, r) ==
    {[send_append(n, r, p) EXCEPT !.to = {q \in Peers(n) : r.next_index[q] = r.next_index[p]}] :
        p \in Peers(n)}

-----------------------------------------------------------------------------
(* Elections *)

become_leader(n, r, ops) ==
    LET noop == [term |-> r.hard_state.term, payload |-> Noop]
        log  == Append(r.log, noop)
        lead == [r EXCEPT !.role = "Leader",
                          !.log = log,
                          !.next_index = [p \in Node |-> Len(log) + 1],
                          !.match_index = [p \in Node |-> 0],
                          !.heard_quorum = {n}]
        c == advance_commit(n, lead)
    IN  apply_committed(lead, c, ops \o <<EntriesOp(<<noop>>)>>,
                        broadcast_append(n, [lead EXCEPT !.commit_index = c]))

(* The vote for itself is the first barrier, before any VoteReq leaves.      *)
start_election(n, r) ==
    LET hard == [term |-> r.hard_state.term + 1, voted_for |-> n]
        cand == [r EXCEPT !.role = "Candidate", !.hard_state = hard, !.votes = {n}]
    IN  IF has_majority({n}) THEN become_leader(n, cand, <<HardOp(hard)>>)
        ELSE Effects(cand, <<HardOp(hard)>>,
                {[kind |-> "VoteReq", from |-> n, to |-> Peers(n), term |-> hard.term,
                  last_index |-> Len(r.log), last_term |-> last_term(r.log)]})

start_pre_vote(n, r) ==
    LET cand == [r EXCEPT !.role = "Candidate", !.pre_votes = {n}, !.votes = {}]
    IN  IF has_majority({n}) THEN start_election(n, cand)
        ELSE Effects(cand, <<>>,
                {[kind |-> "PreVoteReq", from |-> n, to |-> Peers(n),
                  term |-> r.hard_state.term + 1,
                  last_index |-> Len(r.log), last_term |-> last_term(r.log)]})

(* Only consent is sent: no receiver acts on a denial.                       *)
pre_vote_response(n, r, m) ==
    LET granted == /\ m.term >= r.hard_state.term + 1
                   /\ log_is_up_to_date(r.log, m.last_index, m.last_term)
    IN  Effects(r, <<>>,
          IF granted THEN {[kind |-> "PreVoteResp", from |-> n, to |-> {m.from},
                            term |-> m.term, granted |-> TRUE]}
          ELSE {})

on_pre_vote_resp(n, r, m) ==
    LET counted == [r EXCEPT !.pre_votes = @ \cup {m.from}]
    IN  IF r.role # "Leader" /\ m.term = r.hard_state.term + 1 /\ m.granted
        THEN IF has_majority(counted.pre_votes) THEN start_election(n, counted)
             ELSE Effects(counted, <<>>, {})
        ELSE Effects(r, <<>>, {})

(* Mutant: a second candidate of the term gets a vote too. *)
vote_twice(n, r, m, ops) ==
    LET granted == /\ m.term = r.hard_state.term
                   /\ log_is_up_to_date(r.log, m.last_index, m.last_term)
        hard == [r.hard_state EXCEPT !.voted_for = m.from]
        resp == {[kind |-> "VoteResp", from |-> n, to |-> {m.from},
                  term |-> r.hard_state.term, granted |-> granted]}
    IN  IF granted
        THEN Effects([r EXCEPT !.hard_state = hard], ops \o <<HardOp(hard)>>, resp)
        ELSE Effects(r, ops, resp)

(* Mutant: the vote is answered without waiting for its fsync. *)
vote_unsynced(n, r, m, ops) ==
    LET granted == /\ m.term = r.hard_state.term
                   /\ r.hard_state.voted_for \in {None, m.from}
                   /\ log_is_up_to_date(r.log, m.last_index, m.last_term)
        hard == [r.hard_state EXCEPT !.voted_for = m.from]
        resp == {[kind |-> "VoteResp", from |-> n, to |-> {m.from},
                  term |-> r.hard_state.term, granted |-> granted]}
    IN  IF granted
        THEN Effects([r EXCEPT !.hard_state = hard], ops, resp)
        ELSE Effects(r, ops, resp)

vote_request(n, r, m, ops) ==
    LET granted == /\ m.term = r.hard_state.term
                   /\ r.hard_state.voted_for \in {None, m.from}
                   /\ log_is_up_to_date(r.log, m.last_index, m.last_term)
        hard == [r.hard_state EXCEPT !.voted_for = m.from]
        resp == {[kind |-> "VoteResp", from |-> n, to |-> {m.from},
                  term |-> r.hard_state.term, granted |-> granted]}
    IN  IF granted
        THEN Effects([r EXCEPT !.hard_state = hard], ops \o <<HardOp(hard)>>, resp)
        ELSE Effects(r, ops, resp)

on_vote_resp(n, r, m, ops) ==
    LET counted == [r EXCEPT !.votes = @ \cup {m.from}]
    IN  IF r.role = "Candidate" /\ m.term = r.hard_state.term /\ m.granted
        THEN IF has_majority(counted.votes) THEN become_leader(n, counted, ops)
             ELSE Effects(counted, ops, {})
        ELSE Effects(r, ops, {})

-----------------------------------------------------------------------------
(* Replication *)

(* The entries of a request that are not in the log yet, from the first one  *)
(* that is missing or has another term.                                      *)
Unmatched(r, m) ==
    {k \in DOMAIN m.entries : ~has_term(r.log, m.prev_index + k, m.entries[k].term)}

(* Where the leader resumes after a mismatch at prev_index; with no snapshot *)
(* the floor is index 1.                                                     *)
conflict_index(r, m) ==
    IF m.prev_index > Len(r.log) THEN Len(r.log) + 1 ELSE Max2(m.prev_index, 1)

reject(n, r, m, conflict) ==
    {[kind |-> "AppendResp", from |-> n, to |-> {m.from},
      term |-> r.hard_state.term, success |-> FALSE,
      match_index |-> Len(r.log), conflict_index |-> conflict]}

accept(n, r, m) ==
    {[kind |-> "AppendResp", from |-> n, to |-> {m.from},
      term |-> r.hard_state.term, success |-> TRUE,
      match_index |-> Len(r.log), conflict_index |-> 0]}

(* After the entries: follow the leader's commit index and acknowledge.      *)
finish_append(n, r, m, ops) ==
    IF m.leader_commit > r.commit_index
    THEN apply_committed(r, Min2(m.leader_commit, Len(r.log)), ops, accept(n, r, m))
    ELSE Effects(r, ops, accept(n, r, m))

(* A request of the current term: the sender is the leader, whatever         *)
(* happens to its entries.                                                   *)
append_entries(n, r, m, ops) ==
    LET first == CHOOSE k \in Unmatched(r, m) : \A j \in Unmatched(r, m) : k <= j
        at    == m.prev_index + first
        news  == SubSeq(m.entries, first, Len(m.entries))
        grown == [r EXCEPT !.log = Prefix(@, at - 1) \o news]
    IN  IF Unmatched(r, m) = {}
        THEN finish_append(n, r, m, ops)
        ELSE IF at > Len(r.log)
        THEN finish_append(n, grown, m, ops \o <<EntriesOp(news)>>)
        ELSE IF at > r.commit_index
        THEN finish_append(n, grown, m, ops \o <<TruncateOp(at), EntriesOp(news)>>)
        ELSE Effects(r, ops, {})        \* committed_conflict_rejected

append_request(n, r, m, ops) ==
    LET follower == [r EXCEPT !.role = "Follower"]
    IN  IF m.term < r.hard_state.term
        THEN Effects(r, ops, reject(n, r, m, Len(r.log)))
        ELSE IF has_term(r.log, m.prev_index, m.prev_term)
        THEN append_entries(n, follower, m, ops)
        ELSE Effects(follower, ops, reject(n, r, m, conflict_index(r, m)))

append_response(n, r, m, ops) ==
    LET p    == m.from
        seen == [r EXCEPT !.match_index[p] = m.match_index,
                          !.next_index[p] = m.match_index + 1,
                          !.heard_quorum = @ \cup {p}]
        c    == advance_commit(n, seen)
        sent == [seen EXCEPT !.commit_index = c]
        back == [r EXCEPT !.next_index[p] = Max2(m.conflict_index, 1)]
    IN  IF r.role # "Leader" \/ m.term # r.hard_state.term
        THEN Effects(r, ops, {})
        ELSE IF m.success
             THEN apply_committed(seen, c, ops,
                    IF seen.next_index[p] <= Len(r.log)
                    THEN {send_append(n, sent, p)} ELSE {})
             ELSE Effects(back, ops, {send_append(n, back, p)})

(* The common head of on_message_at: a higher term is adopted, and made      *)
(* durable, before the message is looked at.  Pre-votes do not move the term. *)
adopt(r, m) ==
    [r EXCEPT !.hard_state = [term |-> m.term, voted_for |-> None],
              !.role = "Follower", !.votes = {}, !.pre_votes = {}]

on_message_at(n, r0, m) ==
    LET newer == /\ m.term > r0.hard_state.term
                 /\ m.kind \notin {"PreVoteReq", "PreVoteResp"}
        r   == IF newer THEN adopt(r0, m) ELSE r0
        ops == IF newer THEN <<HardOp(r.hard_state)>> ELSE <<>>
    IN  CASE m.kind = "PreVoteReq"  -> pre_vote_response(n, r, m)
          [] m.kind = "PreVoteResp" -> on_pre_vote_resp(n, r, m)
          [] m.kind = "VoteReq"     -> vote_request(n, r, m, ops)
          [] m.kind = "VoteResp"    -> on_vote_resp(n, r, m, ops)
          [] m.kind = "AppendReq"   -> append_request(n, r, m, ops)
          [] m.kind = "AppendResp"  -> append_response(n, r, m, ops)

-----------------------------------------------------------------------------
(* The node: inputs, barriers, crashes *)

(* Mutant: messages leave before the barriers they depend on. *)
send_at_once(n, e) ==
    /\ pend[n] = Idle
    /\ Len(e.raft.log) <= MaxLog
    /\ Cardinality(msgs \cup e.out) <= MaxInFlight
    /\ raft' = [raft EXCEPT ![n] = e.raft]
    /\ msgs' = msgs \cup e.out
    /\ pend' = [pend EXCEPT ![n] = [ops |-> e.ops, out |-> {}]]
    /\ UNCHANGED disk

(* on_input: a node takes an input only when no barrier is outstanding;      *)
(* map_effects then sends at once, or keeps everything behind the barriers.  *)
on_input(n, e) ==
    /\ pend[n] = Idle
    /\ Len(e.raft.log) <= MaxLog
    /\ Cardinality(msgs \cup e.out) <= MaxInFlight
    /\ raft' = [raft EXCEPT ![n] = e.raft]
    /\ IF e.ops = <<>>
       THEN msgs' = msgs \cup e.out /\ UNCHANGED pend
       ELSE pend' = [pend EXCEPT ![n] = [ops |-> e.ops, out |-> e.out]] /\ UNCHANGED msgs
    /\ UNCHANGED disk

Timeout ==
    /\ bounds.timeouts < MaxTimeout
    /\ bounds' = [bounds EXCEPT !.timeouts = @ + 1]

(* tick or an election timer past its deadline *)
ElectionTimeout(n) ==
    /\ raft[n].role # "Leader"
    /\ Timeout
    /\ on_input(n, start_pre_vote(n, raft[n]))

(* tick or a heartbeat timer of a leader *)
Heartbeat(n) ==
    /\ raft[n].role = "Leader"
    /\ bounds.heartbeats < MaxHeartbeat
    /\ bounds' = [bounds EXCEPT !.heartbeats = @ + 1]
    /\ on_input(n, Effects(raft[n], <<>>, broadcast_append(n, raft[n])))

(* tick of a leader at the end of a CheckQuorum window *)
CheckQuorum(n) ==
    /\ raft[n].role = "Leader"
    /\ Timeout
    /\ on_input(n, Effects(
         [raft[n] EXCEPT
            !.role = IF has_majority(raft[n].heard_quorum) THEN @ ELSE "Follower",
            !.heard_quorum = {n}], <<>>, {}))

(* propose_with_kind; the pipeline window never refuses (see the README)     *)
Propose(n, v) ==
    LET e   == [term |-> raft[n].hard_state.term, payload |-> v]
        r   == [raft[n] EXCEPT !.log = Append(@, e)]
        c   == advance_commit(n, r)
    IN  /\ raft[n].role = "Leader"
        /\ UNCHANGED bounds
        /\ on_input(n, apply_committed(r, c, <<EntriesOp(<<e>>)>>,
                         broadcast_append(n, [r EXCEPT !.commit_index = c])))

Receive(kind, n) ==
    \E m \in msgs : /\ m.kind = kind
                    /\ n \in m.to
                    /\ UNCHANGED bounds
                    /\ on_input(n, on_message_at(n, raft[n], m))

(* The number of records a barrier writes, and the disk with the first k.    *)
Records(op) == IF op.kind = "entries" THEN Len(op.entries) ELSE 1

Written(d, op, k) ==
    IF k = 0 THEN d
    ELSE CASE op.kind = "hard"     -> [d EXCEPT !.hard = op.hard]
           [] op.kind = "truncate" -> [d EXCEPT !.log = Prefix(@, op.from - 1)]
           [] op.kind = "entries"  -> [d EXCEPT !.log = @ \o SubSeq(op.entries, 1, k)]
           [] op.kind = "store"    -> [d EXCEPT !.store = Append(@, op.entry)]

(* NodeInput::Persisted(success): the next barrier is issued, or the         *)
(* messages behind the last one are released.                                *)
Persisted(n) ==
    LET op   == Head(pend[n].ops)
        rest == Tail(pend[n].ops)
    IN  /\ pend[n] # Idle
        /\ disk' = [disk EXCEPT ![n] = Written(@, op, Records(op))]
        /\ IF rest = <<>>
           THEN /\ pend' = [pend EXCEPT ![n] = Idle]
                /\ msgs' = msgs \cup pend[n].out
           ELSE /\ pend' = [pend EXCEPT ![n].ops = rest]
                /\ UNCHANGED msgs
        /\ UNCHANGED <<raft, bounds>>

(* Node::restore and recover_durable_applies: commit and apply start at what *)
(* the store holds.                                                          *)
restore(d) ==
    [role |-> "Follower", hard_state |-> d.hard, log |-> d.log,
     commit_index |-> Len(d.store), applied_index |-> Len(d.store),
     pre_votes |-> {}, votes |-> {}, heard_quorum |-> {},
     next_index |-> [p \in Node |-> 1], match_index |-> [p \in Node |-> 0]]

(* A crash loses RaftNode and the continuation.  The write in flight may     *)
(* have reached the disk, in part (any prefix of its records) or not at all. *)
Crash(n) ==
    /\ bounds.crashes < MaxCrash
    /\ bounds' = [bounds EXCEPT !.crashes = @ + 1]
    /\ \E k \in 0 .. (IF pend[n] = Idle THEN 0 ELSE Records(Head(pend[n].ops))) :
         LET d == IF k = 0 THEN disk[n] ELSE Written(disk[n], Head(pend[n].ops), k)
         IN  /\ disk' = [disk EXCEPT ![n] = d]
             /\ raft' = [raft EXCEPT ![n] = restore(d)]
    /\ pend' = [pend EXCEPT ![n] = Idle]
    /\ UNCHANGED msgs

FreshDisk == [hard |-> [term |-> 0, voted_for |-> None], log |-> <<>>, store |-> <<>>]

Lose ==
    \E m \in msgs : msgs' = msgs \ {m} /\ UNCHANGED <<raft, pend, disk, bounds>>

Init ==
    /\ disk = [n \in Node |-> FreshDisk]
    /\ raft = [n \in Node |-> restore(FreshDisk)]
    /\ pend = [n \in Node |-> Idle]
    /\ msgs = {}
    /\ bounds = [timeouts |-> 0, heartbeats |-> 0, crashes |-> 0]

Next ==
    \/ Lose
    \/ \E n \in Node :
        \/ ElectionTimeout(n)
        \/ Heartbeat(n)
        \/ CheckQuorum(n)
        \/ \E v \in Value : Propose(n, v)
        \/ Receive("PreVoteReq", n)
        \/ Receive("PreVoteResp", n)
        \/ Receive("VoteReq", n)
        \/ Receive("VoteResp", n)
        \/ Receive("AppendReq", n)
        \/ Receive("AppendResp", n)
        \/ Persisted(n)
        \/ Crash(n)

Spec == Init /\ [][Next]_vars

-----------------------------------------------------------------------------
(* Properties *)

(* A term has at most one leader (become_leader), although votes arrive      *)
(* late and twice and voters crash between voting and answering.             *)
ElectionSafety ==
    \A a, b \in Node :
        /\ raft[a].role = "Leader"
        /\ raft[b].role = "Leader"
        /\ raft[a].hard_state.term = raft[b].hard_state.term
        => a = b

(* g may follow h on one disk.  cc-log's apply_record refuses at recovery a   *)
(* Hard record that breaks this (and would let a vote be withdrawn, which    *)
(* the handlers never do).                                                   *)
HardLe(h, g) ==
    \/ h.term < g.term
    \/ h.term = g.term /\ h.voted_for \in {None, g.voted_for}

(* On disk a term never goes back and a vote never changes within a term,    *)
(* across crashes too: recovery never meets "hard-state term regressed" or   *)
(* "vote changed in one term".                                               *)
HardStateMonotone ==
    [][\A n \in Node : HardLe(disk[n].hard, disk'[n].hard)]_vars

Logs == {raft[n].log : n \in Node} \cup {disk[n].log : n \in Node}

(* Two logs, in memory or on disk, that agree on the term of an entry agree  *)
(* on everything up to it (the consistency check of append_request).         *)
LogMatching ==
    \A k, l \in Logs : \A i \in 1 .. Min2(Len(k), Len(l)) :
        k[i].term = l[i].term => SubSeq(k, 1, i) = SubSeq(l, 1, i)

(* A leader holds every entry that a node of its term or an earlier one      *)
(* knows to be committed, so no election loses an acknowledged write.        *)
LeaderCompleteness ==
    \A l, n \in Node :
        /\ raft[l].role = "Leader"
        /\ raft[l].hard_state.term >= raft[n].hard_state.term
        => /\ Len(raft[l].log) >= raft[n].commit_index
           /\ \A i \in 1 .. raft[n].commit_index : raft[l].log[i] = raft[n].log[i]

(* No two nodes ever apply different entries at one index: the stores, which *)
(* clients read, are prefixes of one sequence.                               *)
StateMachineSafety ==
    \A a, b \in Node :
        \A i \in 1 .. Min2(Len(disk[a].store), Len(disk[b].store)) :
            disk[a].store[i] = disk[b].store[i]

(* What a node has applied, and so may have answered to a client, is in the  *)
(* durable logs of a majority: the leader counts itself before its own fsync *)
(* and a follower acknowledges from memory, and only the barriers make both  *)
(* true.                                                                     *)
AppliedOnQuorumDisks ==
    \A n \in Node : \A i \in 1 .. Len(disk[n].store) :
        has_majority({p \in Node : /\ Len(disk[p].log) >= i
                                   /\ disk[p].log[i] = disk[n].store[i]})

(* Recovery of a node always succeeds: recover_durable_applies replays the   *)
(* store WAL and refuses a record that is not the entry of the Raft log at   *)
(* its index, and a crash may come between any two barriers.                 *)
StoreWithinLog ==
    \A n \in Node :
        /\ Len(disk[n].store) <= Len(disk[n].log)
        /\ \A i \in 1 .. Len(disk[n].store) : disk[n].store[i] = disk[n].log[i]

(* A success response claims match_index = last_index, the whole log of the  *)
(* follower and not only what the request covered.  As long as the follower  *)
(* is in that term, all of it is durable there and is the leader's own log.  *)
AckCoversLeaderLog ==
    \A m \in msgs :
        m.kind = "AppendResp" /\ m.success =>
        \A l \in m.to :
            /\ raft[l].role = "Leader"
            /\ raft[l].hard_state.term = m.term
            /\ raft[m.from].hard_state.term = m.term
            => /\ m.match_index <= Len(raft[l].log)
               /\ m.match_index <= Len(disk[m.from].log)
               /\ \A i \in 1 .. m.match_index :
                    disk[m.from].log[i] = raft[l].log[i]

-----------------------------------------------------------------------------
(* The invariant behind ElectionSafety (proved in RaftCoreProofs).           *)

(* m is v's consent, in m.term, to candidate c. *)
IsVote(m, v, c) ==
    m.kind = "VoteResp" /\ m.granted /\ m.from = v /\ c \in m.to

Vote(t, c) == [term |-> t, voted_for |-> c]

(* The barriers ops lead from the hard state h to g, never backwards.        *)
HardChain(h, ops, g) ==
    /\ HardLe(h, g)
    /\ h = g \/ \E i \in DOMAIN ops : ops[i] = HardOp(g)
    /\ \A i \in DOMAIN ops : ops[i].kind = "hard" =>
         /\ HardLe(h, ops[i].hard)
         /\ HardLe(ops[i].hard, g)
         /\ \A j \in DOMAIN ops : i < j /\ ops[j].kind = "hard" =>
              HardLe(ops[i].hard, ops[j].hard)

(* The hard state on disk is behind the one in memory, the barriers lead     *)
(* from one to the other, and a node's unsent messages are its own.          *)
HardPipeline ==
    \A v \in Node :
        /\ HardChain(disk[v].hard, pend[v].ops, raft[v].hard_state)
        /\ pend[v].ops = <<>> => pend[v].out = {}
        /\ \A m \in pend[v].out : m.from = v

(* A vote that anyone can count is in the voter's hard state: in memory, and *)
(* on disk once it has left the voter.                                       *)
VotesRecorded ==
    \A v, c \in Node :
        /\ \A m \in msgs \cup pend[v].out :
             IsVote(m, v, c) => HardLe(Vote(m.term, c), raft[v].hard_state)
        /\ \A m \in msgs :
             IsVote(m, v, c) => HardLe(Vote(m.term, c), disk[v].hard)
        /\ v \in raft[c].votes =>
             /\ HardLe(Vote(raft[c].hard_state.term, c), raft[v].hard_state)
             /\ v # c => HardLe(Vote(raft[c].hard_state.term, c), disk[v].hard)

(* All the votes of one voter in one term, on the wire or counted, are for   *)
(* one candidate.                                                            *)
VotesUnique ==
    \A v, c, d \in Node :
        /\ \A m, k \in msgs \cup pend[v].out :
             IsVote(m, v, c) /\ IsVote(k, v, d) /\ m.term = k.term => c = d
        /\ \A m \in msgs \cup pend[v].out :
             /\ IsVote(m, v, c)
             /\ v \in raft[d].votes
             /\ m.term = raft[d].hard_state.term
             => c = d
        /\ /\ v \in raft[c].votes
           /\ v \in raft[d].votes
           /\ raft[c].hard_state.term = raft[d].hard_state.term
           => c = d

LeadersElected ==
    \A n \in Node : raft[n].role = "Leader" => has_majority(raft[n].votes)

(* Each vote is durable before it can be counted, is given once in a term,   *)
(* and a leader holds a majority of them (vote_request, start_election,      *)
(* on_vote_resp and the barriers between them).                              *)
VoteInv == HardPipeline /\ VotesRecorded /\ VotesUnique /\ LeadersElected
=============================================================================
