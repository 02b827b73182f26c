------------------------------- MODULE Reads -------------------------------
(***************************************************************************)
(* How a cluster answers reads: the ReadIndex rounds of RaftNode           *)
(* (crates/cc-raft), the reads a Node (crates/cc-cluster) holds until its  *)
(* state machine has caught up, and the follower reads a follower asks its *)
(* leader to grant.                                                        *)
(*                                                                         *)
(* A node is a record; an Option is a set of at most one element. A log    *)
(* entry is its term: the value a read returns is the index the state      *)
(* machine has applied (kv), so a read is stale when it returns less than  *)
(* the highest index acknowledged to a client before it was asked. `acked` *)
(* is that index; the fields floor, since and asked of the reads, of the   *)
(* grants and of the replies are history, and no step looks at them.       *)
(*                                                                         *)
(* A durability step that keeps the node from every other input until its  *)
(* fsync is done (a hard state, appended entries) is part of the handler   *)
(* that asks for it. The records of committed entries are persisted one by *)
(* one (Persisted), and `cont` holds what waits behind them. An election   *)
(* is one step: RaftCore has its messages.                                 *)
(***************************************************************************)
EXTENDS Naturals, FiniteSets, FiniteSetsExt, Sequences

CONSTANTS
    Node,               \* the voters
    Leader,             \* the one that leads term 1
    MaxBatch,           \* max_entries_per_append
    MaxPendingReads,    \* max_pending_reads
    MaxPendingPeer,     \* max_pending_peer, the bound on grants
    MaxPendingClient    \* max_pending_client, the bound on follower reads

ReadsAssumption ==
    /\ Leader \in Node
    /\ {MaxBatch, MaxPendingReads, MaxPendingPeer, MaxPendingClient}
          \subseteq Nat \ {0}

VARIABLES
    node,       \* the nodes
    msgs,       \* messages under way: any order, any delay
    acked,      \* the highest index acknowledged to a client
    replies,    \* the reads that have been answered
    left        \* how many more of each kind of event may happen

vars == <<node, msgs, acked, replies, left>>

has_majority(S) == 2 * Cardinality(S) > Cardinality(Node)

Others(n) == Node \ {n}

last_index(r) == Len(r.log)

term_at(r, i) ==
    IF i = 0 THEN {0} ELSE IF i <= Len(r.log) THEN {r.log[i]} ELSE {}

-----------------------------------------------------------------------------
(* Replication *)

send_append(n, r, p) ==
    LET next == r.next[p]
    IN  [kind |-> "Append", from |-> n, to |-> p, term |-> r.term,
         prev |-> next - 1, prevTerm |-> term_at(r, next - 1),
         entries |-> SubSeq(r.log, next, Min({next + MaxBatch - 1, Len(r.log)})),
         commit |-> r.commit, round |-> r.round]

broadcast_append(n, r) == {send_append(n, r, p) : p \in Others(n)}

\* The last entry of the leader's own term that a majority holds
advance_commit(n, r) ==
    LET held == {i \in r.commit + 1 .. Len(r.log) :
                    /\ has_majority({n} \cup {p \in Others(n) : r.match[p] >= i})
                    /\ r.log[i] = r.term}
    IN  [r EXCEPT !.commit = Max(held \cup {@})]

\* A handler's result: the node, the read barrier it found confirmed, and the
\* messages it sends. Both wait for what the handler commits to be applied.
Done(r, out) == [node |-> r, barrier |-> {}, out |-> out]

AppendResp(n, r, m, ok, conflict) ==
    {[kind |-> "AppendResp", from |-> n, to |-> m.from, term |-> r.term, ok |-> ok,
      match |-> Len(r.log), conflict |-> conflict, round |-> m.round]}

\* The indexes at which an append contradicts the log
Conflicts(log, m) ==
    {i \in m.prev + 1 .. Min({m.prev + Len(m.entries), Len(log)}) :
        log[i] # m.entries[i - m.prev]}

\* The log after the entries of an append: those it already has stay, the
\* first one that differs replaces the rest.
Merge(log, m) ==
    LET full == SubSeq(log, 1, m.prev) \o m.entries
    IN  IF Conflicts(log, m) = {} /\ Len(full) <= Len(log) THEN log ELSE full

append_request(n, r, m) ==
    LET f == [r EXCEPT !.role = "Follower", !.leader = {m.from}]
        g == [f EXCEPT !.log = Merge(@, m)]
        conflict == IF m.prev > Len(r.log) THEN Len(r.log) + 1 ELSE Max({m.prev, 1})
    IN  CASE m.term < r.term -> Done(r, AppendResp(n, r, m, FALSE, Len(r.log)))
          [] m.term >= r.term /\ term_at(r, m.prev) # m.prevTerm ->
               Done(f, AppendResp(n, f, m, FALSE, conflict))
          [] m.term >= r.term /\ \E i \in Conflicts(r.log, m) : i <= r.commit ->
               Done(f, {})        \* committed_conflict_rejected
          [] OTHER ->
               Done([g EXCEPT !.commit = Max({@, Min({m.commit, Len(g.log)})})],
                    AppendResp(n, g, m, TRUE, 0))

-----------------------------------------------------------------------------
(* ReadIndex *)

current_term_is_committed(r) == \E i \in 1..r.commit : r.log[i] = r.term

CanRequestRead(r) == r.role = "Leader" /\ current_term_is_committed(r)

\* A new round: its index is the commit index, and only the acknowledgements
\* that echo it count. The history field `opened` notes what was acknowledged
\* when the round was opened.
request_read(n, r) ==
    LET g == [r EXCEPT !.round = @ + 1, !.acks = {n}, !.index = {r.commit},
                       !.opened = acked]
    IN  IF has_majority(g.acks)
        THEN [node |-> [g EXCEPT !.index = {}], barrier |-> g.index,
              out |-> broadcast_append(n, g)]
        ELSE Done(g, broadcast_append(n, g))

\* The mutant that lets the acknowledgement of an older append confirm a round
any_round(r, m) == TRUE

Confirms(r, m) == m.round = r.round

append_response(n, r, m) ==
    LET matched == advance_commit(n, [r EXCEPT !.match[m.from] = m.match,
                                               !.next[m.from] = m.match + 1])
        heard == IF Confirms(r, m) THEN [matched EXCEPT !.acks = @ \cup {m.from}]
                 ELSE matched
        ready == heard.index # {} /\ has_majority(heard.acks)
        g == IF ready THEN [heard EXCEPT !.index = {}] ELSE heard
        back == [r EXCEPT !.next[m.from] = Max({m.conflict, 1})]
    IN  CASE r.role # "Leader" \/ m.term # r.term -> Done(r, {})
          [] r.role = "Leader" /\ m.term = r.term /\ m.ok ->
               [node |-> g,
                barrier |-> IF ready THEN heard.index ELSE {},
                out |-> IF g.next[m.from] <= Len(g.log)
                        THEN {send_append(n, g, m.from)} ELSE {}]
          [] OTHER -> Done(back, {send_append(n, back, m.from)})

-----------------------------------------------------------------------------
(* Follower reads: the leader's side *)

Supports(r, p) == p \in r.caps

\* A request joins the round that is running, or opens one. A round that
\* cannot be opened drops every grant that waits.
accept_follower_read_request(n, r, m) ==
    LET grant == [to |-> m.from, id |-> m.id, term |-> r.term]
        joined == [r EXCEPT !.grants = @ \cup {grant}]
    IN  CASE \/ ~Supports(r, m.from)
             \/ r.role # "Leader"
             \/ Cardinality(r.grants) >= MaxPendingPeer
             \/ \E g \in r.grants : g.to = m.from /\ g.id = m.id -> Done(r, {})
          [] OTHER ->
               IF r.active THEN Done(joined, {})
               ELSE IF CanRequestRead(r)
                    THEN request_read(n, [joined EXCEPT !.active = TRUE])
               ELSE Done([r EXCEPT !.grants = {}, !.active = FALSE], {})

FollowerReadRequest(n, r, m) ==
    IF m.term = r.term /\ r.role = "Leader"
    THEN accept_follower_read_request(n, r, m) ELSE Done(r, {})

finish_follower_read_round(n, r, i) ==
    IF ~r.active THEN Done(r, {})
    ELSE Done([r EXCEPT !.active = FALSE, !.grants = {}],
              {[kind |-> "Grant", from |-> n, to |-> g.to, term |-> r.term,
                id |-> g.id, index |-> i, since |-> r.opened] :
                 g \in {h \in r.grants : /\ r.role = "Leader"
                                        /\ h.term = r.term
                                        /\ Supports(r, h.to)}})

(* Follower reads: the follower's side *)

accept_follower_read_grant(n, r, m) ==
    LET mine == {p \in r.freads : p.leader = m.from /\ p.term = m.term /\ p.id = m.id}
    IN  IF Supports(r, m.from) /\ r.leader = {m.from} /\ r.term = m.term
        THEN Done([r EXCEPT !.freads =
                      {IF p \in mine THEN [p EXCEPT !.grant = {m.index}, !.since = m.since]
                                     ELSE p : p \in @}], {})
        ELSE Done(r, {})

\* Reads whose leader or term is gone are refused; the others are answered
\* once the state machine has reached the granted index.
Current(r, p) == r.leader = {p.leader} /\ r.term = p.term

\* The mutant that answers as soon as the grant is there
granted_at_once(r, p) == Current(r, p) /\ p.grant # {}

Granted(r, p) == Current(r, p) /\ \E i \in p.grant : r.kv >= i

drain_pending_follower_reads(r) ==
    [node |-> [r EXCEPT !.freads = {p \in @ : Current(r, p) /\ ~Granted(r, p)}],
     replies |-> {[kind |-> "follower", id |-> p.id, floor |-> p.floor, since |-> p.since,
                   asked |-> p.term, answered |-> r.term, value |-> r.kv] :
                    p \in {q \in r.freads : Granted(r, q)}}]

drain_pending_reads(r) ==
    LET served == {p \in r.reads : \E i \in r.ready : i >= p.index /\ r.kv >= p.index}
    IN  [node |-> [r EXCEPT !.reads = @ \ served],
         replies |-> {[kind |-> "leader", id |-> p.id, floor |-> p.floor, since |-> p.floor,
                       asked |-> p.asked, answered |-> r.term, value |-> r.kv] :
                        p \in served}]

-----------------------------------------------------------------------------
(* The Node around RaftNode *)

\* The mutant that leaves the round of a leader that steps down open
keeps_round(r) == IF r.role = "Leader" THEN r ELSE [r EXCEPT !.routes = {}]

\* What on_input drops when the node does not lead
Undistinguished(r) ==
    IF r.role = "Leader" THEN r
    ELSE [r EXCEPT !.routes = {}, !.grants = {}, !.active = FALSE]

\* The effects of a handler once nothing is left to apply: the barrier, the
\* messages, and the reads that can be answered now.
map_effects(n, e) ==
    LET r == IF e.barrier = {} THEN e.node ELSE [e.node EXCEPT !.ready = e.barrier]
        round == IF e.barrier = {} THEN Done(r, {})
                 ELSE finish_follower_read_round(n, r, Max(e.barrier))
        leads == drain_pending_reads(round.node)
        follows == drain_pending_follower_reads(leads.node)
    IN  [node |-> Undistinguished(follows.node),
         out |-> e.out \cup round.out,
         replies |-> leads.replies \cup follows.replies]

\* A handler that commits entries leaves its other effects behind the records
\* of the entries; until they are durable the node takes no other input. The
\* reads that can be answered are answered all the same.
Outcome(n, e) ==
    IF e.node.commit = e.node.kv THEN map_effects(n, e)
    ELSE map_effects(n, Done([e.node EXCEPT !.cont = {[barrier |-> e.barrier,
                                                        out |-> e.out]}], {}))

Idle(n) == node[n].cont = {}

Step(n, e, taken) ==
    LET o == Outcome(n, e)
    IN  /\ node' = [node EXCEPT ![n] = o.node]
        /\ msgs' = (msgs \ taken) \cup o.out
        /\ replies' = replies \cup o.replies

Spend(what) == left[what] > 0 /\ left' = [left EXCEPT ![what] = @ - 1]

-----------------------------------------------------------------------------
(* Inputs *)

Write(n) ==
    LET r == node[n]
        w == [r EXCEPT !.log = Append(@, r.term), !.routes = @ \cup {Len(r.log) + 1}]
        g == advance_commit(n, w)
    IN  /\ Idle(n)
        /\ r.role = "Leader"
        /\ Spend("writes")
        /\ Step(n, Done(g, broadcast_append(n, g)), {})
        /\ UNCHANGED acked

Read(n) ==
    LET r == node[n]
        read == [id |-> left.reads, index |-> r.commit, floor |-> acked, asked |-> r.term]
        e == request_read(n, r)
    IN  /\ Idle(n)
        /\ Cardinality(r.reads) < MaxPendingReads
        /\ CanRequestRead(r)
        /\ Spend("reads")
        /\ Step(n, [e EXCEPT !.node.ready = {}, !.node.reads = @ \cup {read}], {})
        /\ UNCHANGED acked

\* request_follower_read does not go through on_input, and drains nothing.
FollowerRead(n) ==
    LET r == node[n]
    IN  /\ Idle(n)
        /\ r.role # "Leader"
        /\ Cardinality(r.freads) < MaxPendingClient
        /\ Spend("follows")
        /\ \E l \in r.leader :
              /\ Supports(r, l)
              /\ node' = [node EXCEPT ![n].freads = @ \cup
                            {[id |-> left.follows, leader |-> l, term |-> r.term,
                              grant |-> {}, floor |-> acked, since |-> acked]}]
              /\ msgs' = msgs \cup {[kind |-> "ReadRequest", from |-> n, to |-> l,
                                     term |-> r.term, id |-> left.follows]}
        /\ UNCHANGED <<acked, replies>>

\* on_message_at: a higher term is adopted before the message is looked at.
Adopt(r, t) ==
    IF t > r.term THEN [r EXCEPT !.term = t, !.role = "Follower", !.leader = {}] ELSE r

on_message_at(n, r, m) ==
    CASE m.kind = "Append" -> append_request(n, r, m)
      [] m.kind = "AppendResp" -> append_response(n, r, m)
      [] m.kind = "ReadRequest" -> FollowerReadRequest(n, r, m)
      [] m.kind = "Grant" -> accept_follower_read_grant(n, r, m)

Deliver(m) ==
    /\ Idle(m.to)
    /\ Step(m.to, on_message_at(m.to, Adopt(node[m.to], m.term), m), {m})
    /\ UNCHANGED <<acked, left>>

\* The record of the next committed entry is durable: the state machine moves
\* on, and a client that still has a route is answered.
Persisted(n) ==
    LET r == [node[n] EXCEPT !.kv = @ + 1, !.routes = @ \ {node[n].kv + 1}]
    IN  /\ ~Idle(n)
        /\ acked' = IF r.kv \in node[n].routes THEN Max({acked, r.kv}) ELSE acked
        /\ IF r.kv < r.commit
           THEN node' = [node EXCEPT ![n] = r] /\ UNCHANGED <<msgs, replies>>
           ELSE \E c \in r.cont :
                  Step(n, [node |-> [r EXCEPT !.cont = {}],
                           barrier |-> c.barrier, out |-> c.out], {})
        /\ UNCHANGED left

Heartbeat(n) ==
    /\ Idle(n)
    /\ node[n].role = "Leader"
    /\ Spend("heartbeats")
    /\ Step(n, Done(node[n], broadcast_append(n, node[n])), {})
    /\ UNCHANGED acked

log_is_up_to_date(c, v) ==
    LET lastTerm(r) == IF r.log = <<>> THEN 0 ELSE r.log[Len(r.log)]
    IN  \/ lastTerm(c) > lastTerm(v)
        \/ lastTerm(c) = lastTerm(v) /\ Len(c.log) >= Len(v.log)

\* The candidate's log gains the entry of its term before next_index is set.
become_leader(n, r, t) ==
    LET log == Append(r.log, t)
    IN  advance_commit(n, [r EXCEPT !.term = t, !.role = "Leader", !.leader = {n},
                                    !.log = log,
                                    !.next = [p \in Others(n) |-> Len(log) + 1],
                                    !.match = [p \in Others(n) |-> 0]])

Elect(n, Q) ==
    LET t == Max({node[p].term : p \in Q}) + 1
        winner == become_leader(n, node[n], t)
        won == Outcome(n, Done(winner, broadcast_append(n, winner)))
        voted(p) == Outcome(p, Done(Adopt(node[p], t), {}))
    IN  /\ n \in Q /\ has_majority(Q)
        /\ node[n].role # "Leader"
        /\ \A p \in Q : Idle(p) /\ log_is_up_to_date(node[n], node[p])
        /\ Spend("elections")
        /\ node' = [p \in Node |-> CASE p = n -> won.node
                                     [] p \in Q \ {n} -> voted(p).node
                                     [] p \notin Q -> node[p]]
        /\ msgs' = msgs \cup won.out
        /\ UNCHANGED <<acked, replies>>

\* The connection to a peer closes, and is negotiated again.
forget_peer_capability(n, p) ==
    LET r == node[n]
        grants == {g \in r.grants : g.to # p}
    IN  /\ Supports(r, p)
        /\ Spend("forgets")
        /\ node' = [node EXCEPT ![n].caps = @ \ {p},
                                ![n].freads = {f \in @ : f.leader # p},
                                ![n].grants = grants,
                                ![n].active = @ /\ grants # {}]
        /\ UNCHANGED <<msgs, acked, replies>>

observe_peer_capability(n, p) ==
    /\ ~Supports(node[n], p)
    /\ node' = [node EXCEPT ![n].caps = @ \cup {p}]
    /\ UNCHANGED <<msgs, acked, replies, left>>

-----------------------------------------------------------------------------
Fresh(n) ==
    [term |-> 1, role |-> IF n = Leader THEN "Leader" ELSE "Follower",
     leader |-> {Leader}, log |-> <<1>>, commit |-> 1,
     next |-> [p \in Others(n) |-> 2], match |-> [p \in Others(n) |-> 1],
     round |-> 0, acks |-> {}, index |-> {}, opened |-> 0,
     kv |-> 1, cont |-> {}, ready |-> {}, routes |-> {}, reads |-> {},
     grants |-> {}, active |-> FALSE, freads |-> {}, caps |-> Others(n)]

\* A node of a cluster whose next leader, with the votes of all others, has
\* committed the entry of term 2, while the first one has heard nothing of it
Superseded(n, next) ==
    IF n = Leader THEN Fresh(n)
    ELSE [Fresh(n) EXCEPT
            !.term = 2, !.log = <<1, 2>>, !.leader = {next},
            !.role = IF n = next THEN "Leader" ELSE "Follower",
            !.commit = IF n = next THEN 2 ELSE 1, !.kv = IF n = next THEN 2 ELSE 1,
            !.next = [p \in Others(n) |-> 3],
            !.match = [p \in Others(n) |-> IF p = Leader THEN 0 ELSE 2]]

\* The answer to an earlier heartbeat of the first leader, still under way
OldAck(n) ==
    [kind |-> "AppendResp", from |-> n, to |-> Leader, term |-> 1, ok |-> TRUE,
     match |-> 1, conflict |-> 0, round |-> 0]

Init(budget, superseded) ==
    /\ \/ /\ node = [n \in Node |-> Fresh(n)]
          /\ msgs = {}
       \/ /\ superseded
          /\ \E next \in Others(Leader) :
                node = [n \in Node |-> Superseded(n, next)]
          /\ \E n \in Others(Leader) : msgs = {OldAck(n)}
    /\ acked = 1
    /\ replies = {}
    /\ left = budget

Next ==
    \/ \E n \in Node : Write(n) \/ Read(n) \/ FollowerRead(n)
    \/ \E n \in Node : Persisted(n) \/ Heartbeat(n)
    \/ \E m \in msgs : Deliver(m)
    \/ \E n \in Node, Q \in SUBSET Node : Elect(n, Q)
    \/ \E n \in Node : \E p \in Others(n) :
          forget_peer_capability(n, p) \/ observe_peer_capability(n, p)

-----------------------------------------------------------------------------
(* Properties *)

\* A read that its leader answers in the term it was asked in returns every
\* write acknowledged, by any leader, before the read was asked (ReadIndex:
\* request_read, append_response_from_peer, drain_pending_reads).
LeaderReadsFresh ==
    \A r \in replies : r.kind = "leader" /\ r.asked = r.answered => r.value >= r.floor

\* A follower read returns every write acknowledged before the ReadIndex round
\* that granted it was opened (accept_follower_read_request,
\* finish_follower_read_round, drain_pending_follower_reads).
FollowerReadsSinceRound ==
    \A r \in replies : r.kind = "follower" => r.value >= r.since

\* "the leader issues its grant after a fresh ReadIndex quorum": a follower
\* read returns every write acknowledged before it was asked.
FollowerReadsFresh ==
    \A r \in replies : r.kind = "follower" => r.value >= r.floor

\* When messages are delivered and writes complete, every read whose leader
\* still leads the term it was asked in is answered, and every round of
\* follower reads ends (drain_pending_reads; the end of on_input, which drops
\* the round of a leader that steps down).
ReadsAnswered ==
    <>[](\A n \in Node :
            /\ ~node[n].active
            /\ \A p \in node[n].reads :
                  node[n].role = "Leader" => p.asked # node[n].term)

=============================================================================
