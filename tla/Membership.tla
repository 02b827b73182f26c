------------------------------ MODULE Membership ------------------------------
(***************************************************************************)
(* Replicated membership, leadership transfer and the feature fence:       *)
(* configuration entries of RaftNode (crates/cc-raft/src/lib.rs), which    *)
(* count from the moment they are appended, and the committed half of      *)
(* their workflows (prepare_committed_entries and admin_request of         *)
(* crates/cc-cluster/src/lib.rs, the checkpoint of crates/cc-host).        *)
(*                                                                         *)
(* RaftCore is about delayed messages and barriers, with fixed voters.     *)
(* Here a request and its answer are one step, and a handler's barriers    *)
(* are behind it when the step ends; a follower may crash between the      *)
(* barrier of its entries and the barriers of what it applies.  Peer       *)
(* addresses are left out.                                                 *)
(*                                                                         *)
(* An Option is a set of at most one element.                              *)
(***************************************************************************)
EXTENDS Integers, Sequences, FiniteSets, FiniteSetsExt, SequencesExt

CONSTANTS
    Node,           \* every process that may become a member
    InitialVoters,  \* the voters of the durable genesis
    MinVoters,      \* MIN_VOTERS of admin_request
    Budgets         \* bounds: what a behaviour may have of each kind,
                    \*   requests:    operations of administrators, each under an
                    \*                AdminRequest identity of its own
                    \*   commands:    client commands, of "App" and "Batch"
                    \*   log:         leaders accept requests up to this index
                    \*   term:        elections go up to this term
                    \*   crashes, checkpoints: of all the nodes
                    \*   late:        acknowledgements in the network at once

ASSUME MembershipConstants ==
    /\ IsFiniteSet(Node) /\ InitialVoters \subseteq Node /\ InitialVoters # {}
    /\ MinVoters \in Nat \ {0}
    /\ \A b \in Budgets : /\ b.commands \subseteq {"App", "Batch"}
                          /\ {b.log, b.term, b.crashes, b.checkpoints, b.late} \subseteq Nat

VARIABLES
    raft,    \* RaftNode of each node, and what its disk holds of it
    acks,    \* acknowledgements of appends that are still in the network
    budget   \* what is left of the bounds

vars == <<raft, acks, budget>>

-----------------------------------------------------------------------------
(* Configuration operations *)

Noop == [kind |-> "Noop"]
Command(k) == [kind |-> k]
AddLearner(n) == [kind |-> "AddLearner", id |-> n]
RemoveLearner(n) == [kind |-> "RemoveLearner", id |-> n]
EnterJoint(S) == [kind |-> "EnterJoint", new |-> S]
LeaveJoint(i) == [kind |-> "LeaveJoint", enter |-> i]
BeginTransfer(n) == [kind |-> "Begin", target |-> n]
FinishTransfer(i, result) == [kind |-> "Finish", intent |-> i, result |-> result]
Activate == [kind |-> "Activate"]

(* MembershipState: the stable voters, or their union with the new ones in a *)
(* joint configuration; the removed voters the leader still has to reach.    *)
Projection(voters) == [voters |-> voters, learners |-> {}, joint |-> {}, retiring |-> {}]

(* RaftNode::new.  base, base_cfg, base_feature and base_transfer are the    *)
(* durable checkpoint; term, voted_for, log and kv survive a crash as well.  *)
Fresh(n) ==
    [up |-> TRUE, role |-> IF n \in InitialVoters THEN "Follower" ELSE "Learner",
     term |-> 0, voted_for |-> {}, leader |-> {}, votes |-> {}, log |-> <<>>,
     commit |-> 0, applied |-> 0,     \* raft.commit_index, raft.applied_index
     kv |-> 0, hole |-> FALSE,        \* kv.applied_index; a gap in the store WAL
     cfg |-> Projection(InitialVoters), feature |-> FALSE, transfer |-> {},
     match |-> [p \in Node |-> 0],
     base |-> 0, base_cfg |-> Projection(InitialVoters), base_feature |-> FALSE,
     base_transfer |-> {}]

last_index(r) == Len(r.log)
term_at(r, i) == IF i = 0 THEN 0 ELSE r.log[i].term
last_term(r) == term_at(r, last_index(r))

(* Entries up to base are compacted away: only the others can be looked up.  *)
Retained(r) == SubSeq(r.log, r.base + 1, last_index(r))
Holds(r, i, kind) == i > r.base /\ i <= last_index(r) /\ r.log[i].op.kind = kind

Majority(S, votes) == 2 * Cardinality(S \cap votes) > Cardinality(S)

(* Mutant: a joint configuration is decided by its new half. *)
new_majority(c, votes) ==
    IF c.joint = {} THEN Majority(c.voters, votes)
    ELSE \A j \in c.joint : Majority(j.new, votes)

(* has_majority, commit_quorum *)
has_majority(c, votes) ==
    IF c.joint = {} THEN Majority(c.voters, votes)
    ELSE \A j \in c.joint : Majority(j.old, votes) /\ Majority(j.new, votes)

-----------------------------------------------------------------------------
(* The projection of the log *)

entered(c, e) ==
    [c EXCEPT !.voters = @ \cup e.op.new, !.learners = @ \ e.op.new,
              !.joint = {[old |-> c.voters, new |-> e.op.new, enter |-> e.index]}]

left(c) == [c EXCEPT !.voters = UNION {j.new : j \in c.joint}, !.joint = {}]

Removed(n, c) == UNION {j.old \ j.new : j \in c.joint} \ {n}

Retire(n, c, i) ==
    [peer : Removed(n, c), terminal : {i}, farewell : {FALSE}]

Joins(c, e) == \E j \in c.joint : j.enter = e.op.enter

(* What an entry does to the members, accepted by whoever appends it. *)
projected(c, e) ==
    CASE e.op.kind = "AddLearner"    -> [c EXCEPT !.learners = @ \cup {e.op.id}]
      [] e.op.kind = "RemoveLearner" -> [c EXCEPT !.learners = @ \ {e.op.id}]
      [] e.op.kind = "EnterJoint"    -> entered(c, e)
      [] e.op.kind = "LeaveJoint" /\ Joins(c, e) -> left(c)
      [] OTHER                       -> c

(* One entry of rebuild_membership_from_log: any node remembers whom a       *)
(* LeaveJoint removed, as it may be the next leader.                         *)
replay(n, c, e) ==
    IF e.op.kind = "LeaveJoint" /\ Joins(c, e)
    THEN [left(c) EXCEPT !.retiring = @ \cup Retire(n, c, e.index)]
    ELSE projected(c, e)

(* resync_transfer_finishing: the terminal entry may have been truncated, or *)
(* the checkpoint may have forgotten it.                                     *)
resync_transfer_finishing(r) ==
    [r EXCEPT !.transfer =
        {[t EXCEPT !.finishing =
            \E i \in t.intent + 1 .. last_index(r) :
                Holds(r, i, "Finish") /\ r.log[i].op.intent = t.intent] : t \in @}]

Members(c) == c.voters \cup c.learners

rebuild_membership_from_log(n, r) ==
    LET c == FoldLeft(LAMBDA acc, e : replay(n, acc, e), r.base_cfg, Retained(r))
    IN  [resync_transfer_finishing(r) EXCEPT
           !.cfg = c, !.feature = r.base_feature,
           !.role = IF n \in Members(c) THEN @ ELSE "Follower"]

(* The workflow that is open after an entry: 0 for none, -1 once the        *)
(* retained entries make no sense.                                           *)
track(open, e) ==
    CASE open = -1            -> -1
      [] e.op.kind = "Begin"  -> IF open = 0 THEN e.index ELSE -1
      [] e.op.kind = "Finish" -> IF open = e.op.intent THEN 0 ELSE -1
      [] OTHER                -> open

(* Mutant: an open transfer is not looked for. *)
nothing_in_flight(r, i) == FALSE

config_transition_in_flight_before(r, i) ==
    FoldLeft(track, 0, SubSeq(r.log, r.base + 1, i - 1)) # 0

uncommitted_membership_change(r) ==
    \E i \in r.commit + 1 .. last_index(r) :
        r.log[i].op.kind \in {"AddLearner", "RemoveLearner", "EnterJoint"}

(* The checks of apply_config_on_append *)
valid_on_append(r, e) ==
    LET op == e.op
        c  == r.cfg
    IN  CASE op.kind = "AddLearner"    -> op.id \notin Members(c)
          [] op.kind = "RemoveLearner" -> op.id \in c.learners
          [] op.kind = "EnterJoint"    ->
                c.joint = {} /\ ~config_transition_in_flight_before(r, e.index)
          [] op.kind = "LeaveJoint"    -> Joins(c, e)
          [] op.kind = "Begin"         ->
                /\ op.target \in c.voters
                /\ c.joint = {} /\ ~config_transition_in_flight_before(r, e.index)
          [] op.kind = "Finish"        ->
                \/ \E t \in r.transfer : t.intent = op.intent
                \/ op.intent < e.index /\ Holds(r, op.intent, "Begin")
          [] op.kind = "Activate"      ->
                ~r.feature /\ \A i \in 1 .. last_index(r) : ~Holds(r, i, "Activate")
          [] OTHER -> TRUE

(* The entry is appended and projected. *)
push(n, r, e) ==
    LET c == projected(r.cfg, e)
    IN  [r EXCEPT !.log = Append(@, e), !.cfg = c,
                  !.role = IF e.op.kind = "LeaveJoint" /\ n \notin c.voters
                           THEN "Follower" ELSE @]

NextEntry(r, op) == [index |-> last_index(r) + 1, term |-> r.term, op |-> op]

(* append_config: Ok or nothing.  A removed voter is still sent the entry    *)
(* that removes it.                                                          *)
append_config(n, r, op) ==
    LET e == NextEntry(r, op)
        retire == IF op.kind = "LeaveJoint" THEN Retire(n, r.cfg, e.index) ELSE {}
        kept == {q \in r.cfg.retiring : \A s \in retire : s.peer # q.peer}
    IN  IF valid_on_append(r, e)
        THEN {[push(n, r, e) EXCEPT !.cfg.retiring = kept \cup retire]}
        ELSE {}

(* finish_leadership_transfer: the terminal entry of the open workflow *)
finish_leadership_transfer(n, r, result) ==
    UNION {append_config(n, [r EXCEPT !.transfer = {[t EXCEPT !.finishing = TRUE]}],
                         FinishTransfer(t.intent, result))
           : t \in {u \in r.transfer : ~u.finishing}}

-----------------------------------------------------------------------------
(* Committed entries *)

(* propose_admin_config of the LeaveJoint that follows a committed EnterJoint *)
propose_leave(n, r, enter) ==
    IF \E j \in r.cfg.joint : j.enter = enter /\ r.commit >= enter
    THEN append_config(n, r, LeaveJoint(enter)) ELSE {}

(* apply_committed_config: Ok or nothing *)
apply_committed_config(n, r, e) ==
    LET op == e.op
        begun == [r EXCEPT !.transfer =
                     {[intent |-> e.index, target |-> op.target, finishing |-> FALSE]}]
    IN  CASE op.kind = "Begin" ->
                IF r.transfer # {} \/ op.target \notin r.cfg.voters THEN {}
                ELSE IF r.role = "Leader" /\ op.target = n
                     THEN finish_leadership_transfer(n, begun, "Success")
                     ELSE {begun}
          [] op.kind = "Finish" ->
                IF \E t \in r.transfer : t.intent = op.intent
                THEN {[r EXCEPT !.transfer = {}]} ELSE {}
          [] op.kind = "Activate" -> IF r.feature THEN {} ELSE {[r EXCEPT !.feature = TRUE]}
          [] OTHER -> {r}

(* One entry of prepare_committed_entries: Ok or nothing.  The watermark     *)
(* moves to the entry whatever it was before.                                *)
apply_committed_entry(n, r, e) ==
    LET a  == [r EXCEPT !.kv = e.index, !.hole = @ \/ e.index # r.kv + 1]
        op == e.op
    IN  CASE op.kind = "Batch" -> IF r.feature THEN {a} ELSE {}
          [] op.kind = "EnterJoint" ->
                IF r.role = "Leader" THEN propose_leave(n, a, e.index) ELSE {a}
          [] op.kind = "LeaveJoint" -> IF Holds(r, op.enter, "EnterJoint") THEN {a} ELSE {}
          [] OTHER -> apply_committed_config(n, a, e)

apply_entries(n, r, es) ==
    FoldLeft(LAMBDA acc, e : UNION {apply_committed_entry(n, s, e) : s \in acc}, {r}, es)

Only(S) == CHOOSE x \in S : TRUE

OnlyOr(S, r) == IF S = {} THEN r ELSE Only(S)

(* A batch of which one entry cannot be applied stops the node: the error    *)
(* leaves the driver, and nothing of the batch reaches the store.            *)
commit_to(n, r, c) ==
    OnlyOr(apply_entries(n, [r EXCEPT !.commit = c, !.applied = c],
                         SubSeq(r.log, r.applied + 1, c)),
           [r EXCEPT !.up = FALSE])

Committable(n, r) ==
    {c \in r.commit + 1 .. last_index(r) :
        /\ term_at(r, c) = r.term
        /\ has_majority(r.cfg, {n} \cup {p \in Node : r.match[p] >= c})}

(* advance_commit, apply_committed *)
advance_commit(n, r) ==
    IF Committable(n, r) = {} THEN r ELSE commit_to(n, r, Max(Committable(n, r)))

-----------------------------------------------------------------------------
(* Elections *)

(* A message of a later term *)
adopt_term(n, r, term) ==
    IF term <= r.term THEN r
    ELSE [r EXCEPT !.term = term, !.voted_for = {}, !.leader = {}, !.votes = {},
                   !.role = IF n \in r.cfg.voters THEN "Follower" ELSE "Learner"]

log_is_up_to_date(r, index, term) ==
    term > last_term(r) \/ (term = last_term(r) /\ index >= last_index(r))

(* A leader whose predecessor committed a workflow and did not end it ends   *)
(* it in its own term: the second half of a joint change first.              *)
resume_transfer(n, r) ==
    OnlyOr(UNION {finish_leadership_transfer(n, r,
                     IF t.target = n THEN "Success" ELSE "Superseded") : t \in r.transfer}, r)

resume_workflows(n, r) ==
    OnlyOr(UNION {append_config(n, r, LeaveJoint(j.enter))
                  : j \in {k \in r.cfg.joint : /\ r.commit >= k.enter
                                               /\ Holds(r, k.enter, "EnterJoint")}},
           resume_transfer(n, resync_transfer_finishing(r)))

become_leader(n, r) ==
    LET s == push(n, [r EXCEPT !.role = "Leader", !.leader = {n}], NextEntry(r, Noop))
    IN  resume_workflows(n, advance_commit(n, [s EXCEPT
            !.match = [p \in Node |-> IF p \in Members(r.cfg) THEN 0 ELSE @[p]]]))

start_election(n, r) ==
    LET s == [r EXCEPT !.role = "Candidate", !.term = @ + 1, !.voted_for = {n}, !.votes = {n}]
    IN  IF n \notin r.cfg.voters THEN [r EXCEPT !.role = "Learner", !.votes = {}]
        ELSE IF has_majority(r.cfg, {n}) THEN become_leader(n, s)
        ELSE s

(* vote_request: the voter's new state, and whether it grants *)
vote_request(v, r, c, cand) ==
    LET s == adopt_term(v, r, cand.term)
        granted == /\ cand.term = s.term
                   /\ c \in s.cfg.voters
                   /\ s.voted_for \subseteq {c}
                   /\ s.role # "Learner"
                   /\ log_is_up_to_date(s, last_index(cand), last_term(cand))
    IN  [raft |-> [s EXCEPT !.voted_for = IF granted THEN {c} ELSE @], granted |-> granted]

PreVoters(n) ==
    {n} \cup {v \in raft[n].cfg.voters :
                 /\ raft[v].up /\ raft[v].term <= raft[n].term /\ raft[v].role # "Learner"
                 /\ log_is_up_to_date(raft[v], last_index(raft[n]), last_term(raft[n]))}

-----------------------------------------------------------------------------
(* Replication *)

Matching(r, s) ==
    Max({i \in 0 .. Min({last_index(r), last_index(s)}) : term_at(r, i) = term_at(s, i)})

(* The loop of append_request over the entries a follower lacks.  An entry   *)
(* whose configuration it finds invalid ends it, without an answer.          *)
append_entries(p, r, es) ==
    FoldLeft(LAMBDA acc, e :
                IF acc.ok /\ valid_on_append(acc.raft, e)
                THEN [acc EXCEPT !.raft = push(p, acc.raft, e)]
                ELSE [acc EXCEPT !.ok = FALSE],
             [raft |-> r, ok |-> TRUE], es)

(* append_request up to the barrier of the entries: p accepts what follows   *)
(* the last entry it has in common with l; the rejections that lead the      *)
(* leader there change nothing at p.                                         *)
append_request(p, r, l, lead) ==
    LET s == [adopt_term(p, r, lead.term) EXCEPT
                !.role = IF p \in r.cfg.voters THEN "Follower" ELSE "Learner",
                !.leader = {l}]
        m == Matching(r, lead)
        conflict == m < last_index(r) /\ m < last_index(lead)
        cut == rebuild_membership_from_log(p, [s EXCEPT !.log = SubSeq(@, 1, m)])
    IN  IF conflict /\ m < r.commit THEN [raft |-> s, ok |-> FALSE]
        ELSE append_entries(p, IF conflict THEN cut ELSE s,
                            SubSeq(lead.log, m + 1, last_index(lead)))

(* What follows the barrier: the leader's commit index *)
follow_commit(p, r, lead) ==
    LET c == Min({lead.commit, last_index(r)})
    IN  IF c > r.commit THEN commit_to(p, r, c) ELSE r

(* append_response.  While its removal is not committed, the acknowledgement *)
(* of a retiring peer moves the leader's indexes and the effects of that are *)
(* dropped; the route to it ends with the first acknowledgement after the    *)
(* farewell.                                                                 *)
append_response(l, r, p, index) ==
    LET acked == [r EXCEPT !.match[p] = index]
        done  == {q \in r.cfg.retiring : q.peer = p /\ index >= q.terminal}
        moved == Max(Committable(l, acked) \cup {r.commit})
    IN  IF p \notin Members(r.cfg) \cup {q.peer : q \in r.cfg.retiring} THEN r
        ELSE IF done = {} THEN advance_commit(l, acked)
        ELSE IF \E q \in done : r.commit < q.terminal
             THEN [acked EXCEPT !.commit = moved, !.applied = moved]
        ELSE IF \E q \in done : ~q.farewell
             THEN [r EXCEPT !.cfg.retiring = (@ \ done) \cup {[q EXCEPT !.farewell = TRUE] : q \in done}]
        ELSE [r EXCEPT !.cfg.retiring = @ \ done, !.match[p] = 0]

-----------------------------------------------------------------------------
(* Checkpoints and restarts *)

(* membership_state_at: the projection of a prefix, with the feature fence   *)
(* of the last checkpoint.                                                   *)
membership_state_at(n, r, i) ==
    [rebuild_membership_from_log(n, [r EXCEPT !.log = SubSeq(@, 1, i)]).cfg
        EXCEPT !.retiring = {}]

(* snapshot_leadership_transfer *)
snapshot_transfer(r) ==
    {[t EXCEPT !.finishing = FALSE] : t \in {u \in r.transfer : u.intent <= r.applied}}

(* Mutant: the checkpoint records the members at the end of the log. *)
checkpointed_now(n, r) ==
    [r EXCEPT !.base = r.kv, !.base_cfg = [r.cfg EXCEPT !.retiring = {}],
              !.base_transfer = snapshot_transfer(r), !.hole = FALSE]

(* A published checkpoint is adopted: install_snapshot_state,                *)
(* restore_membership_state, replay_retained_membership_suffix.              *)
checkpointed(n, r) ==
    rebuild_membership_from_log(n,
        [r EXCEPT !.base = r.kv, !.base_cfg = membership_state_at(n, r, r.kv),
                  !.base_transfer = snapshot_transfer(r), !.hole = FALSE])

(* install_decoded_ccsn_snapshot of the leader's checkpoint at a follower *)
installed(p, r, lead) ==
    LET b == lead.base
        s == [r EXCEPT !.base = b, !.base_cfg = lead.base_cfg,
                       !.base_feature = lead.base_feature,
                       !.base_transfer = lead.base_transfer, !.transfer = lead.base_transfer,
                       !.commit = Max({@, b}), !.applied = Max({@, b}), !.kv = b,
                       !.hole = FALSE,
                       !.log = SubSeq(lead.log, 1, b) \o SubSeq(@, b + 1, Len(@))]
    IN  rebuild_membership_from_log(p, s)

(* Node::restore, then recover_durable_applies: the projection is that of    *)
(* the whole log while the committed entries are applied once more.          *)
recovered(n, r) ==
    LET disk == [Fresh(n) EXCEPT
                   !.role = IF n \in r.base_cfg.voters THEN "Follower" ELSE "Learner",
                   !.term = r.term, !.voted_for = r.voted_for, !.log = r.log,
                   !.base = r.base, !.base_cfg = r.base_cfg, !.base_feature = r.base_feature,
                   !.base_transfer = r.base_transfer, !.transfer = r.base_transfer,
                   !.kv = r.base, !.commit = r.kv, !.applied = r.kv]
    IN  OnlyOr(IF r.hole THEN {}
               ELSE apply_entries(n, rebuild_membership_from_log(n, disk),
                                  SubSeq(r.log, r.base + 1, r.kv)),
               [r EXCEPT !.up = FALSE])

-----------------------------------------------------------------------------
(* Actions *)

Init ==
    /\ raft = [n \in Node |-> Fresh(n)]
    /\ acks = {}
    /\ budget \in Budgets

Leads(n) == raft[n].up /\ raft[n].role = "Leader"

Becomes(n, r) == raft' = [raft EXCEPT ![n] = r] /\ UNCHANGED <<acks, budget>>

(* An election timeout and its pre-vote round: start_pre_vote *)
Campaign(n) ==
    /\ raft[n].up /\ raft[n].role # "Leader" /\ raft[n].term < budget.term
    /\ n \in raft[n].cfg.voters /\ has_majority(raft[n].cfg, PreVoters(n))
    /\ Becomes(n, start_election(n, raft[n]))

(* VoteReq and VoteResp *)
Vote(c, v) ==
    LET cand == raft[c]
        reply == vote_request(v, raft[v], c, cand)
        votes == cand.votes \cup {v}
        elected == [cand EXCEPT !.votes = votes]
    IN  /\ cand.up /\ cand.role = "Candidate" /\ raft[v].up
        /\ v \in cand.cfg.voters \ (cand.votes \cup {c}) /\ raft[v].term <= cand.term
        /\ reply.raft # raft[v] \/ reply.granted
        /\ raft' = [raft EXCEPT
              ![v] = reply.raft,
              ![c] = IF ~reply.granted THEN cand
                     ELSE IF has_majority(cand.cfg, votes) THEN become_leader(c, elected)
                     ELSE elected]
        /\ UNCHANGED <<acks, budget>>

(* transfer_nudge: the intents of which the leader reminds their target *)
transfer_nudge(l, p) ==
    {t \in raft[l].transfer :
        /\ Leads(l) /\ ~t.finishing /\ t.target = p /\ p # l
        /\ raft[l].commit >= t.intent /\ raft[l].match[p] >= t.intent}

(* TimeoutNow: any heartbeat of the leader, an acknowledgement and the       *)
(* committed intent itself repeat it; the target campaigns at once.          *)
TimeoutNow(l, p) ==
    /\ raft[p].up /\ raft[p].term < budget.term
    /\ \E t \in transfer_nudge(l, p) :
          /\ raft[p].term = raft[l].term /\ raft[p].leader = {l}
          /\ p \in raft[p].cfg.voters /\ raft[p].applied >= t.intent
          /\ \E u \in raft[p].transfer : u.intent = t.intent /\ u.target = p
    /\ Becomes(p, start_election(p, raft[p]))

Routes(r) == Members(r.cfg) \cup {q.peer : q \in r.cfg.retiring}

Ack(p, l, r) == [from |-> p, to |-> l, term |-> r.term, match |-> last_index(r)]

(* AppendReq and AppendResp: the follower answers at once, its answer is     *)
(* late, it crashes between its two kinds of barriers and recovers, or the   *)
(* leader does, after the store has an entry it applies and before the log   *)
(* has what it appends next.  f is the follower after its barriers, and led  *)
(* the leader after the answer.                                              *)
Outcome(l, p, outcome, a, f, led) ==
    \/ /\ outcome = "answered"
       /\ raft' = [raft EXCEPT ![p] = f, ![l] = IF a.ok /\ f.up THEN led ELSE @]
       /\ UNCHANGED <<acks, budget>>
    \/ /\ outcome = "late" /\ a.ok /\ f.up /\ Cardinality(acks) < budget.late
       /\ raft' = [raft EXCEPT ![p] = f]
       /\ acks' = acks \cup {Ack(p, l, f)}
       /\ UNCHANGED budget
    \/ /\ outcome = "crashed" /\ budget.crashes > 0
       /\ raft' = [raft EXCEPT ![p] = recovered(p, a.raft)]
       /\ budget' = [budget EXCEPT !.crashes = @ - 1]
       /\ UNCHANGED acks
    \/ /\ outcome = "unfinished" /\ a.ok /\ f.up /\ budget.crashes > 0
       /\ led.up /\ last_index(led) > last_index(raft[l])
       /\ raft' = [raft EXCEPT
             ![p] = f,
             ![l] = recovered(l, [led EXCEPT !.log = SubSeq(@, 1, last_index(raft[l]))])]
       /\ budget' = [budget EXCEPT !.crashes = @ - 1]
       /\ UNCHANGED acks

Followed(l, p, outcome, a, f) ==
    Outcome(l, p, outcome, a, f, append_response(l, raft[l], p, Ack(p, l, f).match))

Requested(l, p, outcome, a) ==
    Followed(l, p, outcome, a, IF a.ok THEN follow_commit(p, a.raft, raft[l]) ELSE a.raft)

Replicate(l, p, outcome) ==
    /\ Leads(l) /\ raft[p].up /\ p \in Routes(raft[l]) \ {l}
    /\ raft[p].term <= raft[l].term
    /\ Matching(raft[p], raft[l]) >= raft[l].base
    /\ Requested(l, p, outcome, append_request(p, raft[p], l, raft[l]))

(* A late acknowledgement, which counts only in its term *)
LateAck(a) ==
    /\ a \in acks
    /\ acks' = acks \ {a}
    /\ raft' = [raft EXCEPT ![a.to] =
          IF Leads(a.to) /\ a.term = @.term THEN append_response(a.to, @, a.from, a.match) ELSE @]
    /\ UNCHANGED budget

(* A leader or a candidate hears of a later term. *)
Outdated(n, v) ==
    /\ raft[n].up /\ raft[n].role \in {"Leader", "Candidate"}
    /\ raft[v].up /\ raft[v].term > raft[n].term
    /\ Becomes(n, adopt_term(n, raft[n], raft[v].term))

(* The checkpoint reaches a follower whose next entry is compacted away. *)
Install(l, p) ==
    LET lead == raft[l]
        r == adopt_term(p, raft[p], lead.term)
    IN  /\ Leads(l) /\ raft[p].up /\ p \in Members(lead.cfg) \ {l}
        /\ raft[p].term <= lead.term
        /\ Matching(raft[p], lead) < lead.base
        /\ raft[p].applied <= lead.base
        /\ raft' = [raft EXCEPT ![p] = installed(p, r, lead), ![l].match[p] = lead.base]
        /\ UNCHANGED <<acks, budget>>

(* propose_with_kind of a client command *)
Propose(n, k) ==
    /\ Leads(n) /\ raft[n].transfer = {} /\ last_index(raft[n]) < budget.log
    /\ k = "Batch" => raft[n].feature
    /\ \A i \in 1 .. last_index(raft[n]) : raft[n].log[i].op # Command(k)
    /\ Becomes(n, advance_commit(n, push(n, raft[n], NextEntry(raft[n], Command(k)))))

(* Whether admin_request and propose_admin_config let an operation pass.     *)
(* How recently a peer was heard from is a matter of time: here, recently.   *)
admissible(n, r, op) ==
    LET quiet == /\ r.cfg.joint = {} /\ ~uncommitted_membership_change(r)
                 /\ ~config_transition_in_flight_before(r, last_index(r) + 1)
    IN  CASE op.kind = "AddLearner"    -> quiet /\ op.id \notin Members(r.cfg)
          [] op.kind = "RemoveLearner" -> quiet /\ op.id \in r.cfg.learners
          [] op.kind = "EnterJoint"    ->
                /\ quiet /\ op.new # r.cfg.voters
                /\ Cardinality(op.new) >= MinVoters /\ n \in op.new
                /\ \A p \in op.new \ r.cfg.voters :
                      p \in r.cfg.learners /\ r.match[p] >= r.commit
          [] op.kind = "Begin"         ->
                /\ r.cfg.joint = {} /\ r.transfer = {} /\ op.target \in r.cfg.voters
                /\ op.target = n \/ r.match[op.target] >= r.commit
          [] op.kind = "Activate"      ->
                /\ ~r.feature /\ r.cfg.joint = {}
                /\ ~config_transition_in_flight_before(r, last_index(r) + 1)

(* admin_request: a request that the log or the session table knows is       *)
(* answered from there.                                                      *)
Admin(n, op) ==
    /\ Leads(n) /\ last_index(raft[n]) < budget.log
    /\ \A i \in 1 .. last_index(raft[n]) : raft[n].log[i].op # op
    /\ admissible(n, raft[n], op)
    /\ \E r \in append_config(n, raft[n], op) : Becomes(n, r)

(* tick at the deadline of a transfer *)
TransferTimeout(n) ==
    /\ Leads(n)
    /\ \E r \in finish_leadership_transfer(n, resync_transfer_finishing(raft[n]), "Timeout") :
          Becomes(n, r)

(* maybe_begin_local_checkpoint and the publication of the checkpoint *)
Checkpoint(n) ==
    /\ raft[n].up /\ raft[n].kv > raft[n].base /\ budget.checkpoints > 0
    /\ membership_state_at(n, raft[n], raft[n].kv).joint = {}
    /\ raft[n].cfg.retiring = {}
    /\ raft' = [raft EXCEPT ![n] = checkpointed(n, @)]
    /\ budget' = [budget EXCEPT !.checkpoints = @ - 1]
    /\ UNCHANGED acks

(* A crash and the recovery, or the restart of a node that had to stop *)
Restart(n) ==
    /\ budget.crashes > 0
    /\ raft' = [raft EXCEPT ![n] = recovered(n, @)]
    /\ budget' = [budget EXCEPT !.crashes = @ - 1]
    /\ UNCHANGED acks

Next ==
    \/ \E n \in Node : \/ Campaign(n) \/ TransferTimeout(n) \/ Checkpoint(n) \/ Restart(n)
                       \/ \E k \in budget.commands : Propose(n, k)
                       \/ \E op \in budget.requests : Admin(n, op)
    \/ \E n, m \in Node : \/ Vote(n, m) \/ TimeoutNow(n, m) \/ Outdated(n, m) \/ Install(n, m)
                          \/ \E o \in {"answered", "late", "crashed", "unfinished"} : Replicate(n, m, o)
    \/ \E a \in acks : LateAck(a)

Spec == Init /\ [][Next]_vars

-----------------------------------------------------------------------------
(* Properties *)

(* Terms, logs, indexes and the projection are of their types, and no index  *)
(* is past the end of the log.                                               *)
TypeOK ==
    \A n \in Node :
        LET r == raft[n]
        IN  /\ r.role \in {"Follower", "Candidate", "Leader", "Learner"}
            /\ r.votes \cup r.leader \cup r.voted_for \subseteq Node
            /\ r.base <= r.kv /\ r.kv <= r.applied /\ r.applied <= r.commit
            /\ r.commit <= last_index(r)
            /\ Members(r.cfg) \subseteq Node /\ Cardinality(r.cfg.joint) <= 1
            /\ \A i \in 1 .. last_index(r) : r.log[i].index = i

(* At most one leader in a term, whatever configurations the candidates      *)
(* counted their votes in (has_majority, apply_config_on_append).            *)
ElectionSafety ==
    \A n, m \in Node :
        Leads(n) /\ Leads(m) /\ raft[n].term = raft[m].term => n = m

(* What a node has applied is in the log of every leader of a later term,    *)
(* across changes of the voters.                                             *)
LeaderCompleteness ==
    \A n, l \in Node :
        Leads(l) /\ raft[l].term > raft[n].term =>
            /\ raft[n].kv <= last_index(raft[l])
            /\ SubSeq(raft[n].log, 1, raft[n].kv) = SubSeq(raft[l].log, 1, raft[n].kv)

(* The members a node counts, which it changed one append at a time, are     *)
(* those a rebuild from its checkpoint and its log gives: what it answers    *)
(* before a crash is decided by the same voters after it.                    *)
ProjectionIsThatOfLog ==
    \A n \in Node : raft[n].up =>
        LET c == rebuild_membership_from_log(n, raft[n]).cfg
        IN  /\ raft[n].cfg.voters = c.voters /\ raft[n].cfg.learners = c.learners
            /\ raft[n].cfg.joint = c.joint

(* A joint configuration that is committed is always on its way out: the     *)
(* leader has the LeaveJoint in its log, whether it committed the EnterJoint *)
(* itself, applied it as a follower or recovered it (become_leader).         *)
JointHasOwner ==
    \A l \in Node : Leads(l) =>
        \A j \in raft[l].cfg.joint : raft[l].kv < j.enter

(* A leadership transfer and a change of the voters are never both open: a   *)
(* node that still has the entry the transfer began with is in no joint      *)
(* configuration before it has the entry that ends it.  And the change of    *)
(* the voters has an owner.                                                  *)
OneWorkflow ==
    /\ JointHasOwner
    /\ \A n \in Node : \A t \in raft[n].transfer :
         \/ t.intent <= raft[n].base \/ raft[n].cfg.joint = {}
         \/ \E i \in t.intent + 1 .. last_index(raft[n]) :
               Holds(raft[n], i, "Finish") /\ raft[n].log[i].op.intent = t.intent

(* Every committed entry reaches the state machine, in order: Raft's applied *)
(* index and the machine's move together, and no entry fails to apply.       *)
EveryEntryApplied ==
    \A n \in Node : raft[n].up /\ raft[n].kv = raft[n].applied
===============================================================================
