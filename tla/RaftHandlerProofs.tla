-------------------------- MODULE RaftHandlerProofs --------------------------
(***************************************************************************)
(* What the handlers of RaftCore return, for every number of voters and     *)
(* every bound: run from a well-typed node, each of them returns effects    *)
(* that are Sound (their barriers take the hard state forward, the votes    *)
(* they count are the node's own or are on the wire, the votes they give    *)
(* are in the new hard state).  RaftCoreProofs builds on OnMessageSound,    *)
(* StartElectionSound and StartPreVoteSound.                                *)
(***************************************************************************)
EXTENDS RaftCore, TLAPS, FiniteSetTheorems, SequenceTheorems,
        WellFoundedInduction

-----------------------------------------------------------------------------
(* Numbers and sequences *)

(* A non-empty set of naturals has a least element. *)
LEMMA MinNat ==
    ASSUME NEW T \in SUBSET Nat, T # {}
    PROVE  \E x \in T : \A y \in T : x <= y
<1>1. IsWellFoundedOn(OpToRel(<, Nat), Nat)
  BY NatLessThanWellFounded
<1>2. PICK x \in T : \A y \in T : ~ (<<y, x>> \in OpToRel(<, Nat))
  BY <1>1, WFMin
<1>3. \A y \in T : <<y, x>> \in OpToRel(<, Nat) <=> y < x
  BY DEF OpToRel
<1>4. ASSUME NEW y \in T PROVE x <= y
  <2>1. x \in Nat /\ y \in Nat /\ ~(y < x)
    BY <1>2, <1>3
  <2>2. QED BY <2>1
<1>5. QED BY <1>4

(* A non-empty bounded set of naturals has a greatest element. *)
LEMMA MaxNat ==
    ASSUME NEW T \in SUBSET Nat, T # {}, NEW b \in Nat, \A y \in T : y <= b
    PROVE  \E x \in T : \A y \in T : y <= x
<1> DEFINE D == {d \in Nat : \E y \in T : d = b - y}
<1>1. D \in SUBSET Nat
  OBVIOUS
<1>2. \A y \in T : b - y \in D
  OBVIOUS
<1> HIDE DEF D
<1>3. PICK d \in D : \A y \in D : d <= y
  BY <1>1, <1>2, MinNat
<1>4. PICK x \in T : d = b - x
  BY DEF D
<1>5. \A y \in T : b - x <= b - y
  BY <1>2, <1>3, <1>4
<1>6. QED BY <1>5

(* What a slice of a sequence inside its bounds is made of. *)
LEMMA SliceType ==
    ASSUME NEW S, NEW s \in Seq(S), NEW a \in Nat \ {0}, NEW b \in Int, b <= Len(s)
    PROVE  SubSeq(s, a, b) \in Seq(S)
<1>1. \A i \in a .. b : s[i] \in S
  BY ElementOfSeq
<1>2. a \in Int
  OBVIOUS
<1>3. QED BY <1>1, <1>2, SubSeqProperties

LEMMA PrefixType ==
    ASSUME NEW S, NEW s \in Seq(S), NEW i \in Int
    PROVE  Prefix(s, i) \in Seq(S)
<1>1. Len(s) \in Nat
  OBVIOUS
<1>2. Min2(i, Len(s)) \in Int /\ Min2(i, Len(s)) <= Len(s)
  BY <1>1 DEF Min2
<1>3. QED BY <1>2, SliceType DEF Prefix

-----------------------------------------------------------------------------
(* Hard states *)

LEMMA HardLeReflexive ==
    ASSUME NEW h \in HardState PROVE HardLe(h, h)
BY DEF HardLe, HardState

LEMMA HardLeTransitive ==
    ASSUME NEW f \in HardState, NEW g \in HardState, NEW h \in HardState,
           HardLe(f, g), HardLe(g, h)
    PROVE  HardLe(f, h)
BY DEF HardLe, HardState

LEMMA HardLeAntisymmetric ==
    ASSUME NEW g \in HardState, NEW h \in HardState, HardLe(g, h), HardLe(h, g)
    PROVE  g = h
BY DEF HardLe, HardState

(* Barriers of another kind may follow. *)
LEMMA ChainPlain ==
    ASSUME NEW h, NEW g, NEW ops \in Seq(Op), NEW more \in Seq(Op),
           HardChain(h, ops, g),
           \A i \in DOMAIN more : more[i].kind # "hard"
    PROVE  ops \o more \in Seq(Op) /\ HardChain(h, ops \o more, g)
<1> DEFINE all == ops \o more
<1>1. /\ all \in Seq(Op)
      /\ Len(all) = Len(ops) + Len(more)
      /\ Len(ops) \in Nat /\ Len(more) \in Nat
      /\ DOMAIN ops = 1 .. Len(ops) /\ DOMAIN more = 1 .. Len(more)
      /\ DOMAIN all = 1 .. Len(all)
      /\ \A i \in 1 .. Len(ops) + Len(more) :
            all[i] = IF i <= Len(ops) THEN ops[i] ELSE more[i - Len(ops)]
  BY ConcatProperties, LenProperties
<1> HIDE DEF all
<1>2. ASSUME NEW i \in DOMAIN all, all[i].kind = "hard"
      PROVE  i \in DOMAIN ops /\ all[i] = ops[i]
  <2>1. CASE i <= Len(ops)
    BY <1>1, <2>1
  <2>2. CASE ~(i <= Len(ops))
    <3>1. i - Len(ops) \in DOMAIN more /\ all[i] = more[i - Len(ops)]
      BY <1>1, <2>2
    <3>2. QED BY <1>2, <3>1
  <2>3. QED BY <2>1, <2>2
<1>3. \A i \in DOMAIN ops : i \in DOMAIN all /\ all[i] = ops[i]
  BY <1>1
<1>4. HardChain(h, all, g)
  BY <1>2, <1>3 DEF HardChain
<1>5. QED BY <1>1, <1>4 DEF all

(* A further hard state may be written at the end. *)
LEMMA ChainHard ==
    ASSUME NEW h \in HardState, NEW g \in HardState, NEW k \in HardState,
           NEW ops \in Seq(Op), HardChain(h, ops, g), HardLe(g, k)
    PROVE  ops \o <<HardOp(k)>> \in Seq(Op) /\ HardChain(h, ops \o <<HardOp(k)>>, k)
<1> DEFINE all == ops \o <<HardOp(k)>>
           end == Len(ops) + 1
<1>1. HardOp(k) \in Op
  BY DEF HardOp, Op
<1>2. /\ all \in Seq(Op)
      /\ Len(ops) \in Nat
      /\ DOMAIN ops = 1 .. Len(ops)
      /\ DOMAIN all = 1 .. end
      /\ all[end] = HardOp(k)
      /\ \A i \in 1 .. Len(ops) : all[i] = ops[i]
  BY <1>1
<1>3. \A i \in DOMAIN ops : ops[i].kind = "hard" => ops[i].hard \in HardState
  BY ElementOfSeq, <1>2 DEF Op
<1> HIDE DEF all
<1>4. HardLe(h, k)
  BY HardLeTransitive DEF HardChain
<1>5. \A i \in DOMAIN ops : ops[i].kind = "hard" => HardLe(ops[i].hard, k)
  BY <1>3, HardLeTransitive DEF HardChain
<1>6. HardLe(k, k)
  BY HardLeReflexive
<1>7. HardOp(k).kind = "hard" /\ HardOp(k).hard = k
  BY DEF HardOp
<1>8. ASSUME NEW i \in DOMAIN all, all[i].kind = "hard"
      PROVE  /\ HardLe(h, all[i].hard)
             /\ HardLe(all[i].hard, k)
             /\ \A j \in DOMAIN all : i < j /\ all[j].kind = "hard" =>
                  HardLe(all[i].hard, all[j].hard)
  <2>1. CASE i = end
    <3>1. \A j \in DOMAIN all : ~(i < j)
      BY <1>2, <2>1
    <3>2. QED BY <1>2, <1>4, <1>6, <1>7, <2>1, <3>1
  <2>2. CASE i \in DOMAIN ops
    BY <1>2, <1>5, <1>7, <1>8, <2>2 DEF HardChain
  <2>3. QED BY <1>2, <2>1, <2>2
<1>9. end \in DOMAIN all
  BY <1>2
<1>10. HardChain(h, all, k)
  BY <1>2, <1>4, <1>8, <1>9 DEF HardChain
<1>11. QED BY <1>2, <1>10 DEF all

LEMMA ChainEmpty ==
    ASSUME NEW h \in HardState PROVE HardChain(h, <<>>, h) /\ <<>> \in Seq(Op)
BY HardLeReflexive DEF HardChain

-----------------------------------------------------------------------------
(* What the handlers return *)

(* Each vote that r counts is n's own, was counted in this term before the   *)
(* input, or has just arrived.                                               *)
Counted(n, r0, r) ==
    \A v \in r.votes :
        \/ v = n /\ r.hard_state.voted_for = n
        \/ v \in r0.votes /\ r.hard_state.term = r0.hard_state.term
        \/ \E m \in msgs : IsVote(m, v, n) /\ m.term = r.hard_state.term

(* r and ops are what a handler has reached, in n, from state r0. *)
Prepared(n, r0, r, ops) ==
    /\ r \in RaftNode
    /\ ops \in Seq(Op)
    /\ HardChain(r0.hard_state, ops, r.hard_state)
    /\ Counted(n, r0, r)
    /\ r.role = "Leader" => has_majority(r.votes)

(* Messages of n; the votes among them are in n's hard state. *)
OutOK(n, r, out) ==
    /\ out \in SUBSET Message
    /\ \A m \in out : m.from = n
    /\ \A m \in out : \A c \in Node :
         IsVote(m, n, c) => r.hard_state = Vote(m.term, c)

Sound(n, r0, e) ==
    Prepared(n, r0, e.raft, e.ops) /\ OutOK(n, e.raft, e.out)

(* A state that differs from r in none of the fields an election reads. *)
LEMMA PreparedSame ==
    ASSUME NEW n \in Node, NEW r0, NEW r, NEW ops, Prepared(n, r0, r, ops),
           NEW q \in RaftNode,
           q.hard_state = r.hard_state, q.votes = r.votes, q.role = r.role
    PROVE  Prepared(n, r0, q, ops)
BY DEF Prepared, Counted

(* The barriers of an apply are store writes. *)
LEMMA StoreOps ==
    ASSUME NEW news \in Seq(Entry)
    PROVE  LET ops == [k \in DOMAIN news |-> StoreOp(news[k])]
           IN  /\ ops \in Seq(Op)
               /\ \A i \in DOMAIN ops : ops[i].kind # "hard"
<1> DEFINE ops == [k \in DOMAIN news |-> StoreOp(news[k])]
<1>1. DOMAIN news = 1 .. Len(news) /\ Len(news) \in Nat
  BY LenProperties
<1>2. \A k \in DOMAIN news : StoreOp(news[k]) \in Op /\ StoreOp(news[k]).kind = "store"
  BY <1>1, ElementOfSeq DEF StoreOp, Op
<1>3. ops \in [1 .. Len(news) -> Op]
  BY <1>1, <1>2
<1>4. ops \in Seq(Op)
  BY <1>1, <1>3, SeqDef
<1>5. \A i \in DOMAIN ops : ops[i].kind # "hard"
  BY <1>2
<1>6. QED BY <1>4, <1>5

LEMMA ApplyCommittedSound ==
    ASSUME NEW n \in Node, NEW r0, NEW r, NEW ops, Prepared(n, r0, r, ops),
           NEW c \in Nat, NEW out, OutOK(n, r, out)
    PROVE  Sound(n, r0, apply_committed(r, c, ops, out))
<1> DEFINE to   == Min2(c, Len(r.log))
           news == SubSeq(r.log, r.applied_index + 1, to)
           new  == [k \in DOMAIN news |-> StoreOp(news[k])]
           q    == [r EXCEPT !.commit_index = c, !.applied_index = @ + Len(news)]
<1>1. r \in RaftNode /\ ops \in Seq(Op)
  BY DEF Prepared
<1>2. r.log \in Seq(Entry) /\ r.applied_index \in Nat
  BY <1>1 DEF RaftNode
<1>3. to \in Int /\ to <= Len(r.log) /\ r.applied_index + 1 \in Nat \ {0}
  BY <1>2 DEF Min2
<1>4. news \in Seq(Entry)
  BY <1>2, <1>3, SliceType
<1>5. Len(news) \in Nat
  BY <1>4, LenProperties
<1>6. new \in Seq(Op) /\ \A i \in DOMAIN new : new[i].kind # "hard"
  BY <1>4, StoreOps
<1> HIDE DEF news, new
<1>7. q \in RaftNode /\ q.hard_state = r.hard_state /\ q.votes = r.votes /\ q.role = r.role
  <2>1. r.applied_index + Len(news) \in Nat
    BY <1>2, <1>5
  <2>2. q \in RaftNode
    BY <1>1, <2>1 DEF RaftNode
  <2>3. QED BY <1>1, <2>2 DEF RaftNode
<1> HIDE DEF q
<1>8. HardChain(r0.hard_state, ops, r.hard_state)
  BY DEF Prepared
<1>9. ops \o new \in Seq(Op) /\ HardChain(r0.hard_state, ops \o new, r.hard_state)
  BY <1>1, <1>6, <1>8, ChainPlain
<1>10. Prepared(n, r0, q, ops \o new)
  BY <1>7, <1>9 DEF Prepared, Counted
<1>11. OutOK(n, q, out)
  BY <1>7 DEF OutOK
<1>12. apply_committed(r, c, ops, out) = [raft |-> q, ops |-> ops \o new, out |-> out]
  BY DEF apply_committed, Effects, q, new, news
<1>13. QED BY <1>10, <1>11, <1>12 DEF Sound

(* advance_commit returns a commit index. *)
LEMMA AdvanceCommitType ==
    ASSUME NEW n \in Node, NEW r \in RaftNode
    PROVE  advance_commit(n, r) \in Nat
<1> DEFINE ready == {i \in r.commit_index + 1 .. Len(r.log) :
                       /\ commit_quorum(n, r, i)
                       /\ r.log[i].term = r.hard_state.term}
<1>1. r.commit_index \in Nat /\ Len(r.log) \in Nat
  BY DEF RaftNode
<1>2. ready \in SUBSET Nat /\ \A i \in ready : i <= Len(r.log)
  BY <1>1
<1>3. advance_commit(n, r) = IF ready = {} THEN r.commit_index
                             ELSE CHOOSE i \in ready : \A j \in ready : j <= i
  BY DEF advance_commit
<1> HIDE DEF ready
<1>4. ready # {} => \E i \in ready : \A j \in ready : j <= i
  BY <1>1, <1>2, MaxNat
<1>5. QED BY <1>1, <1>2, <1>3, <1>4

LEMMA TermAtType ==
    ASSUME NEW log \in Seq(Entry), NEW i \in Nat, i <= Len(log)
    PROVE  term_at(log, i) \in Nat
<1>1. CASE i = 0
  BY <1>1 DEF term_at
<1>2. CASE i # 0
  <2>1. i \in 1 .. Len(log)
    BY <1>2
  <2>2. log[i] \in Entry
    BY <2>1, ElementOfSeq
  <2>3. QED BY <1>2, <2>2 DEF term_at, Entry
<1>3. QED BY <1>1, <1>2

(* send_append builds an AppendReq of n. *)
LEMMA SendAppendType ==
    ASSUME NEW n \in Node, NEW r \in RaftNode, NEW p \in Node
    PROVE  send_append(n, r, p) \in AppendRequest /\ send_append(n, r, p).from = n
<1> DEFINE prev == r.next_index[p] - 1
           last == Min2(Len(r.log), prev + MaxEntries)
           es   == SubSeq(r.log, prev + 1, last)
           pt   == IF prev <= Len(r.log) THEN term_at(r.log, prev) ELSE 0
<1>1. /\ r.log \in Seq(Entry) /\ Len(r.log) \in Nat
      /\ r.next_index[p] \in Nat \ {0} /\ r.commit_index \in Nat
      /\ r.hard_state.term \in Nat
  BY DEF RaftNode, HardState
<1>2. prev \in Nat /\ prev + 1 \in Nat \ {0} /\ last \in Int /\ last <= Len(r.log)
  BY <1>1, ConstantsOK DEF Min2
<1> HIDE DEF prev, last
<1>3. es \in Seq(Entry)
  BY <1>1, <1>2, SliceType
<1>4. pt \in Nat
  BY <1>1, <1>2, TermAtType
<1> HIDE DEF es, pt
<1>5. send_append(n, r, p) =
        [kind |-> "AppendReq", from |-> n, to |-> {p}, term |-> r.hard_state.term,
         prev_index |-> prev, prev_term |-> pt, entries |-> es,
         leader_commit |-> r.commit_index]
  BY DEF send_append, prev, pt, es, last
<1>6. QED BY <1>1, <1>2, <1>3, <1>4, <1>5 DEF AppendRequest

(* Appends carry no votes. *)
LEMMA AppendOut ==
    ASSUME NEW n \in Node, NEW r, NEW out \in SUBSET AppendRequest,
           \A m \in out : m.from = n
    PROVE  OutOK(n, r, out)
BY DEF OutOK, IsVote, AppendRequest, Message

(* A request stays one whoever else it is addressed to. *)
LEMMA ReaddressedType ==
    ASSUME NEW m \in AppendRequest, NEW T \in SUBSET Node
    PROVE  [m EXCEPT !.to = T] \in AppendRequest /\ [m EXCEPT !.to = T].from = m.from
BY DEF AppendRequest

(* broadcast_append sends requests of n only. *)
LEMMA BroadcastOut ==
    ASSUME NEW n \in Node, NEW r, NEW q \in RaftNode
    PROVE  OutOK(n, r, broadcast_append(n, q))
<1> DEFINE Like(p) == {k \in Peers(n) : q.next_index[k] = q.next_index[p]}
           msg(p)  == [send_append(n, q, p) EXCEPT !.to = Like(p)]
<1>1. \A p \in Peers(n) : msg(p) \in AppendRequest /\ msg(p).from = n
  <2> TAKE p \in Peers(n)
  <2>1. send_append(n, q, p) \in AppendRequest /\ send_append(n, q, p).from = n
    BY SendAppendType DEF Peers
  <2>2. Like(p) \in SUBSET Node
    BY DEF Peers
  <2> HIDE DEF Like
  <2>3. QED BY <2>1, <2>2, ReaddressedType
<1>2. broadcast_append(n, q) = {msg(p) : p \in Peers(n)}
  BY DEF broadcast_append
<1> HIDE DEF msg
<1>3. QED BY <1>1, <1>2, AppendOut

LEMMA BecomeLeaderSound ==
    ASSUME NEW n \in Node, NEW r0, NEW r, NEW ops, Prepared(n, r0, r, ops),
           has_majority(r.votes)
    PROVE  Sound(n, r0, become_leader(n, r, ops))
<1> DEFINE noop == [term |-> r.hard_state.term, payload |-> Noop]
           log  == Append(r.log, noop)
           lead == [r EXCEPT !.role = "Leader",
                             !.log = log,
                             !.next_index = [p \in Node |-> Len(log) + 1],
                             !.match_index = [p \in Node |-> 0],
                             !.heard_quorum = {n}]
           c    == advance_commit(n, lead)
           sent == [lead EXCEPT !.commit_index = c]
           new  == <<EntriesOp(<<noop>>)>>
           out  == broadcast_append(n, sent)
<1>1. r \in RaftNode /\ ops \in Seq(Op) /\ HardChain(r0.hard_state, ops, r.hard_state)
  BY DEF Prepared
<1>2. noop \in Entry /\ r.log \in Seq(Entry)
  BY <1>1 DEF RaftNode, HardState, Entry
<1> HIDE DEF noop
<1>3. log \in Seq(Entry) /\ Len(log) \in Nat
  BY <1>2, AppendProperties, LenProperties
<1> HIDE DEF log
<1>4. lead \in RaftNode
  <2>1. [p \in Node |-> Len(log) + 1] \in [Node -> Nat \ {0}]
    BY <1>3
  <2>2. QED BY <1>1, <1>3, <2>1 DEF RaftNode
<1>5. lead.hard_state = r.hard_state /\ lead.votes = r.votes /\ lead.role = "Leader"
  BY <1>1 DEF RaftNode
<1> HIDE DEF lead
<1>6. c \in Nat
  BY <1>4, AdvanceCommitType
<1> HIDE DEF c
<1>7. sent \in RaftNode
  BY <1>4, <1>6 DEF RaftNode
<1> HIDE DEF sent
<1>8. new \in Seq(Op) /\ \A i \in DOMAIN new : new[i].kind # "hard"
  <2>1. EntriesOp(<<noop>>) \in Op /\ EntriesOp(<<noop>>).kind = "entries"
    BY <1>2 DEF EntriesOp, Op
  <2>2. QED BY <2>1
<1> HIDE DEF new
<1>9. Prepared(n, r0, lead, ops \o new)
  <2>1. ops \o new \in Seq(Op) /\ HardChain(r0.hard_state, ops \o new, r.hard_state)
    BY <1>1, <1>8, ChainPlain
  <2>2. QED BY <1>4, <1>5, <2>1 DEF Prepared, Counted
<1>10. OutOK(n, lead, out)
  BY <1>7, BroadcastOut
<1> HIDE DEF out
<1>11. become_leader(n, r, ops) = apply_committed(lead, c, ops \o new, out)
  BY DEF become_leader, noop, log, lead, c, sent, new, out
<1>12. QED BY <1>6, <1>9, <1>10, <1>11, ApplyCommittedSound

LEMMA StartElectionSound ==
    ASSUME NEW n \in Node, NEW r0 \in RaftNode, NEW r \in RaftNode,
           r.hard_state = r0.hard_state
    PROVE  Sound(n, r0, start_election(n, r))
<1> DEFINE hard == [term |-> r.hard_state.term + 1, voted_for |-> n]
           cand == [r EXCEPT !.role = "Candidate", !.hard_state = hard, !.votes = {n}]
           req  == [kind |-> "VoteReq", from |-> n, to |-> Peers(n), term |-> hard.term,
                    last_index |-> Len(r.log), last_term |-> last_term(r.log)]
<1>1. r.hard_state \in HardState /\ r.hard_state.term \in Nat /\ r.log \in Seq(Entry)
  BY DEF RaftNode, HardState
<1>2. hard \in HardState /\ HardLe(r.hard_state, hard)
  BY <1>1 DEF HardState, HardLe
<1>3. hard.voted_for = n /\ hard.term \in Nat
  BY <1>1
<1> HIDE DEF hard
<1>4. cand \in RaftNode
  BY <1>2 DEF RaftNode
<1>5. cand.hard_state = hard /\ cand.votes = {n} /\ cand.role = "Candidate"
  BY DEF RaftNode
<1> HIDE DEF cand
<1>6. <<HardOp(hard)>> \in Seq(Op) /\ HardChain(r0.hard_state, <<HardOp(hard)>>, hard)
  <2>1. HardChain(r0.hard_state, <<>>, r.hard_state) /\ <<>> \in Seq(Op)
    BY <1>1, ChainEmpty
  <2>2. /\ <<>> \o <<HardOp(hard)>> \in Seq(Op)
        /\ HardChain(r0.hard_state, <<>> \o <<HardOp(hard)>>, hard)
    BY <1>1, <1>2, <2>1, ChainHard
  <2>3. HardOp(hard) \in Op
    BY <1>2 DEF HardOp, Op
  <2>4. <<>> \o <<HardOp(hard)>> = <<HardOp(hard)>>
    BY <2>3
  <2>5. QED BY <2>2, <2>4
<1>7. Prepared(n, r0, cand, <<HardOp(hard)>>)
  BY <1>3, <1>4, <1>5, <1>6 DEF Prepared, Counted
<1>8. CASE has_majority({n})
  <2>1. Sound(n, r0, become_leader(n, cand, <<HardOp(hard)>>))
    BY <1>5, <1>7, <1>8, BecomeLeaderSound
  <2>2. start_election(n, r) = become_leader(n, cand, <<HardOp(hard)>>)
    BY <1>8 DEF start_election, cand, hard
  <2>3. QED BY <2>1, <2>2
<1>9. CASE ~has_majority({n})
  <2>1. req \in VoteRequest /\ req.from = n /\ req.kind = "VoteReq"
    <3>1. last_term(r.log) \in Nat /\ Len(r.log) \in Nat
      BY <1>1, TermAtType DEF last_term
    <3>2. QED BY <1>3, <3>1 DEF VoteRequest, Peers
  <2> HIDE DEF req
  <2>2. OutOK(n, cand, {req})
    BY <2>1 DEF OutOK, IsVote, Message
  <2>3. start_election(n, r) = [raft |-> cand, ops |-> <<HardOp(hard)>>, out |-> {req}]
    BY <1>9 DEF start_election, cand, hard, req, Effects
  <2>4. QED BY <1>7, <2>2, <2>3 DEF Sound
<1>10. QED BY <1>8, <1>9

LEMMA StartPreVoteSound ==
    ASSUME NEW n \in Node, NEW r \in RaftNode
    PROVE  Sound(n, r, start_pre_vote(n, r))
<1> DEFINE cand == [r EXCEPT !.role = "Candidate", !.pre_votes = {n}, !.votes = {}]
           req  == [kind |-> "PreVoteReq", from |-> n, to |-> Peers(n),
                    term |-> r.hard_state.term + 1,
                    last_index |-> Len(r.log), last_term |-> last_term(r.log)]
<1>1. r.hard_state \in HardState /\ r.hard_state.term \in Nat /\ r.log \in Seq(Entry)
  BY DEF RaftNode, HardState
<1>2. cand \in RaftNode
  BY DEF RaftNode
<1>3. cand.hard_state = r.hard_state /\ cand.votes = {} /\ cand.role = "Candidate"
  BY DEF RaftNode
<1> HIDE DEF cand
<1>4. CASE has_majority({n})
  <2>1. start_pre_vote(n, r) = start_election(n, cand)
    BY <1>4 DEF start_pre_vote, cand
  <2>2. QED BY <1>2, <1>3, <2>1, StartElectionSound
<1>5. CASE ~has_majority({n})
  <2>1. req \in VoteRequest /\ req.from = n /\ req.kind = "PreVoteReq"
    <3>1. last_term(r.log) \in Nat /\ Len(r.log) \in Nat
      BY <1>1, TermAtType DEF last_term
    <3>2. QED BY <1>1, <3>1 DEF VoteRequest, Peers
  <2> HIDE DEF req
  <2>2. OutOK(n, cand, {req})
    BY <2>1 DEF OutOK, IsVote, Message
  <2>3. Prepared(n, r, cand, <<>>)
    BY <1>1, <1>2, <1>3, ChainEmpty DEF Prepared, Counted
  <2>4. start_pre_vote(n, r) = [raft |-> cand, ops |-> <<>>, out |-> {req}]
    BY <1>5 DEF start_pre_vote, cand, req, Effects
  <2>5. QED BY <2>2, <2>3, <2>4 DEF Sound
<1>6. QED BY <1>4, <1>5

(* Before an input a node is Prepared, from itself. *)
LEMMA StartPrepared ==
    ASSUME NEW n \in Node, NEW r \in RaftNode,
           r.role = "Leader" => has_majority(r.votes)
    PROVE  Prepared(n, r, r, <<>>)
<1>1. r.hard_state \in HardState
  BY DEF RaftNode
<1>2. QED BY <1>1, ChainEmpty DEF Prepared, Counted

(* Effects that leave the fields of an election alone and send no vote. *)
LEMMA QuietSound ==
    ASSUME NEW n \in Node, NEW r0, NEW r, NEW ops, Prepared(n, r0, r, ops),
           NEW q \in RaftNode, q.hard_state = r.hard_state, q.votes = r.votes,
           q.role = "Leader" => r.role = "Leader",
           NEW out, OutOK(n, q, out)
    PROVE  Sound(n, r0, Effects(q, ops, out))
<1>1. Prepared(n, r0, q, ops)
  BY DEF Prepared, Counted
<1>2. QED BY <1>1 DEF Sound, Effects

LEMMA NoOut ==
    ASSUME NEW n \in Node, NEW r PROVE OutOK(n, r, {})
BY DEF OutOK

LEMMA PreVoteResponseSound ==
    ASSUME NEW n \in Node, NEW r, Prepared(n, r, r, <<>>), NEW m \in VoteRequest
    PROVE  Sound(n, r, pre_vote_response(n, r, m))
<1> DEFINE resp == [kind |-> "PreVoteResp", from |-> n, to |-> {m.from},
                    term |-> m.term, granted |-> TRUE]
<1>1. resp \in VoteResponse /\ resp.from = n /\ resp.kind = "PreVoteResp"
  BY DEF VoteRequest, VoteResponse
<1>2. r \in RaftNode
  BY DEF Prepared
<1> HIDE DEF resp
<1>3. OutOK(n, r, {resp}) /\ OutOK(n, r, {})
  BY <1>1 DEF OutOK, IsVote, Message
<1>4. \/ pre_vote_response(n, r, m) = Effects(r, <<>>, {resp})
      \/ pre_vote_response(n, r, m) = Effects(r, <<>>, {})
  BY DEF pre_vote_response, resp
<1>5. QED BY <1>2, <1>3, <1>4, QuietSound

LEMMA OnPreVoteRespSound ==
    ASSUME NEW n \in Node, NEW r, Prepared(n, r, r, <<>>), NEW m \in VoteResponse
    PROVE  Sound(n, r, on_pre_vote_resp(n, r, m))
<1> DEFINE counted == [r EXCEPT !.pre_votes = @ \cup {m.from}]
<1>1. r \in RaftNode /\ m.from \in Node
  BY DEF Prepared, VoteResponse
<1>2. /\ counted \in RaftNode
      /\ counted.hard_state = r.hard_state
      /\ counted.votes = r.votes
      /\ counted.role = r.role
  BY <1>1 DEF RaftNode
<1> HIDE DEF counted
<1>3. \/ on_pre_vote_resp(n, r, m) = start_election(n, counted)
      \/ on_pre_vote_resp(n, r, m) = Effects(counted, <<>>, {})
      \/ on_pre_vote_resp(n, r, m) = Effects(r, <<>>, {})
  BY DEF on_pre_vote_resp, counted
<1>4. Sound(n, r, start_election(n, counted))
  BY <1>1, <1>2, StartElectionSound
<1>5. Sound(n, r, Effects(counted, <<>>, {}))
  BY <1>2, NoOut, QuietSound
<1>6. Sound(n, r, Effects(r, <<>>, {}))
  BY <1>1, NoOut, QuietSound
<1>7. QED BY <1>3, <1>4, <1>5, <1>6

(* The one place where a vote is given: it is the new hard state, and the    *)
(* node had none, or this one, before.                                       *)
LEMMA VoteRequestSound ==
    ASSUME NEW n \in Node, NEW r0, NEW r, NEW ops, Prepared(n, r0, r, ops),
           r0.hard_state \in HardState, NEW m \in VoteRequest
    PROVE  Sound(n, r0, vote_request(n, r, m, ops))
<1> DEFINE granted == /\ m.term = r.hard_state.term
                      /\ r.hard_state.voted_for \in {None, m.from}
                      /\ log_is_up_to_date(r.log, m.last_index, m.last_term)
           hard == [r.hard_state EXCEPT !.voted_for = m.from]
           resp == [kind |-> "VoteResp", from |-> n, to |-> {m.from},
                    term |-> r.hard_state.term, granted |-> granted]
           q    == [r EXCEPT !.hard_state = hard]
<1>1. /\ r \in RaftNode /\ ops \in Seq(Op)
      /\ HardChain(r0.hard_state, ops, r.hard_state)
      /\ m.from \in Node
  BY DEF Prepared, VoteRequest
<1>2. r.hard_state \in HardState /\ r.hard_state.term \in Nat
  BY <1>1 DEF RaftNode, HardState
<1>3. granted \in BOOLEAN
  BY DEF log_is_up_to_date
<1>4. vote_request(n, r, m, ops) =
        IF granted THEN Effects(q, ops \o <<HardOp(hard)>>, {resp})
        ELSE Effects(r, ops, {resp})
  BY DEF vote_request
<1>5. /\ resp \in VoteResponse /\ resp.from = n /\ resp.to = {m.from}
      /\ resp.term = r.hard_state.term /\ resp.granted = granted
  BY <1>1, <1>2, <1>3 DEF VoteResponse
<1> HIDE DEF resp
<1>6. CASE granted
  <2>1. /\ hard \in HardState /\ hard.term = r.hard_state.term
        /\ hard = Vote(r.hard_state.term, m.from)
    BY <1>1, <1>2 DEF HardState, Vote
  <2>2. HardLe(r.hard_state, hard)
    BY <1>2, <1>6, <2>1 DEF HardLe, Vote
  <2>3. hard.voted_for # n => r.hard_state.voted_for # n
    BY <1>1, <1>6, <2>1, ConstantsOK DEF Vote
  <2> HIDE DEF hard
  <2>4. /\ q \in RaftNode /\ q.hard_state = hard
        /\ q.votes = r.votes /\ q.role = r.role
    BY <1>1, <2>1 DEF RaftNode
  <2> HIDE DEF q
  <2>5. /\ ops \o <<HardOp(hard)>> \in Seq(Op)
        /\ HardChain(r0.hard_state, ops \o <<HardOp(hard)>>, hard)
    BY <1>1, <1>2, <2>1, <2>2, ChainHard
  <2>6. Prepared(n, r0, q, ops \o <<HardOp(hard)>>)
    BY <2>1, <2>3, <2>4, <2>5 DEF Prepared, Counted
  <2>7. OutOK(n, q, {resp})
    BY <1>5, <2>1, <2>4 DEF OutOK, IsVote, Message
  <2>8. QED BY <1>4, <1>6, <2>6, <2>7 DEF Sound, Effects
<1>7. CASE ~granted
  <2>1. OutOK(n, r, {resp})
    BY <1>5, <1>7 DEF OutOK, IsVote, Message
  <2>2. QED BY <1>1, <1>4, <1>7, <2>1, QuietSound
<1>8. QED BY <1>6, <1>7

LEMMA OnVoteRespSound ==
    ASSUME NEW n \in Node, NEW r0, NEW r, NEW ops, Prepared(n, r0, r, ops),
           NEW m \in msgs, m \in VoteResponse, m.kind = "VoteResp", n \in m.to
    PROVE  Sound(n, r0, on_vote_resp(n, r, m, ops))
<1> DEFINE counted == [r EXCEPT !.votes = @ \cup {m.from}]
<1>1. r \in RaftNode /\ m.from \in Node
  BY DEF Prepared, VoteResponse
<1>2. /\ counted \in RaftNode
      /\ counted.hard_state = r.hard_state
      /\ counted.votes = r.votes \cup {m.from}
      /\ counted.role = r.role
  BY <1>1 DEF RaftNode
<1>3. CASE r.role = "Candidate" /\ m.term = r.hard_state.term /\ m.granted
  <2>1. on_vote_resp(n, r, m, ops) =
          IF has_majority(counted.votes) THEN become_leader(n, counted, ops)
          ELSE Effects(counted, ops, {})
    BY <1>3 DEF on_vote_resp
  <2> HIDE DEF counted
  <2>2. IsVote(m, m.from, n)
    BY <1>3 DEF IsVote
  <2>3. Counted(n, r0, counted)
    BY <1>2, <1>3, <2>2 DEF Prepared, Counted
  <2>4. Prepared(n, r0, counted, ops)
    BY <1>2, <1>3, <2>3 DEF Prepared
  <2>5. has_majority(counted.votes) => Sound(n, r0, become_leader(n, counted, ops))
    BY <2>4, BecomeLeaderSound
  <2>6. Sound(n, r0, Effects(counted, ops, {}))
    BY <1>2, <2>4, NoOut, QuietSound
  <2>7. QED BY <2>1, <2>5, <2>6
<1>4. CASE ~(r.role = "Candidate" /\ m.term = r.hard_state.term /\ m.granted)
  <2>1. on_vote_resp(n, r, m, ops) = Effects(r, ops, {})
    BY <1>4 DEF on_vote_resp
  <2>2. QED BY <1>1, <2>1, NoOut, QuietSound
<1>5. QED BY <1>3, <1>4

(* Append responses carry no votes. *)
LEMMA ResponseOut ==
    ASSUME NEW n \in Node, NEW r \in RaftNode, NEW m \in AppendRequest, NEW q,
           NEW c \in Nat
    PROVE  OutOK(n, q, reject(n, r, m, c)) /\ OutOK(n, q, accept(n, r, m))
<1>1. Len(r.log) \in Nat /\ r.hard_state.term \in Nat /\ m.from \in Node
  BY DEF RaftNode, HardState, AppendRequest
<1> DEFINE R(ok, k) == [kind |-> "AppendResp", from |-> n, to |-> {m.from},
                        term |-> r.hard_state.term, success |-> ok,
                        match_index |-> Len(r.log), conflict_index |-> k]
<1>2. \A x \in reject(n, r, m, c) \cup accept(n, r, m) :
        x \in AppendResponse /\ x.from = n
  <2>1. \A ok \in BOOLEAN, k \in Nat : R(ok, k) \in AppendResponse /\ R(ok, k).from = n
    BY <1>1 DEF AppendResponse
  <2>2. reject(n, r, m, c) = {R(FALSE, c)} /\ accept(n, r, m) = {R(TRUE, 0)}
    BY DEF reject, accept
  <2> HIDE DEF R
  <2>3. QED BY <2>1, <2>2
<1>3. \A x \in reject(n, r, m, c) \cup accept(n, r, m) :
        x.from = n /\ x \in Message /\ x.kind = "AppendResp"
  BY <1>2 DEF AppendResponse, Message
<1>4. QED BY <1>3 DEF OutOK, IsVote

LEMMA FinishAppendSound ==
    ASSUME NEW n \in Node, NEW r0, NEW r, NEW ops, Prepared(n, r0, r, ops),
           NEW m \in AppendRequest
    PROVE  Sound(n, r0, finish_append(n, r, m, ops))
<1>1. r \in RaftNode /\ m.leader_commit \in Nat
  BY DEF Prepared, AppendRequest
<1>2. Min2(m.leader_commit, Len(r.log)) \in Nat
  BY <1>1 DEF Min2, RaftNode
<1>3. OutOK(n, r, accept(n, r, m))
  BY <1>1, ResponseOut
<1>4. Sound(n, r0, apply_committed(r, Min2(m.leader_commit, Len(r.log)), ops, accept(n, r, m)))
  BY <1>2, <1>3, ApplyCommittedSound
<1>5. Sound(n, r0, Effects(r, ops, accept(n, r, m)))
  BY <1>1, <1>3, QuietSound
<1>6. QED BY <1>4, <1>5 DEF finish_append

LEMMA AppendEntriesSound ==
    ASSUME NEW n \in Node, NEW r0, NEW r, NEW ops, Prepared(n, r0, r, ops),
           NEW m \in AppendRequest
    PROVE  Sound(n, r0, append_entries(n, r, m, ops))
<1> DEFINE un    == Unmatched(r, m)
           first == CHOOSE k \in un : \A j \in un : k <= j
           at    == m.prev_index + first
           news  == SubSeq(m.entries, first, Len(m.entries))
           grown == [r EXCEPT !.log = Prefix(@, at - 1) \o news]
<1>1. /\ r \in RaftNode /\ ops \in Seq(Op)
      /\ HardChain(r0.hard_state, ops, r.hard_state)
      /\ r.log \in Seq(Entry)
  BY DEF Prepared, RaftNode
<1>2. m.entries \in Seq(Entry) /\ m.prev_index \in Nat /\ Len(m.entries) \in Nat
  BY DEF AppendRequest
<1>3. un \in SUBSET (1 .. Len(m.entries))
  BY <1>2, LenProperties DEF Unmatched
<1>4. append_entries(n, r, m, ops) =
        IF un = {} THEN finish_append(n, r, m, ops)
        ELSE IF at > Len(r.log)
        THEN finish_append(n, grown, m, ops \o <<EntriesOp(news)>>)
        ELSE IF at > r.commit_index
        THEN finish_append(n, grown, m, ops \o <<TruncateOp(at), EntriesOp(news)>>)
        ELSE Effects(r, ops, {})
  BY DEF append_entries
<1>5. CASE un = {}
  BY <1>4, <1>5, FinishAppendSound
<1>6. CASE un # {}
  <2>1. first \in 1 .. Len(m.entries)
    <3> HIDE DEF un
    <3>1. un \in SUBSET Nat
      BY <1>2, <1>3
    <3>2. \E k \in un : \A j \in un : k <= j
      BY <1>6, <3>1, MinNat
    <3>3. QED BY <1>3, <3>2
  <2> HIDE DEF un, first
  <2>2. at \in Nat /\ at - 1 \in Int
    BY <1>2, <2>1
  <2> HIDE DEF at
  <2>3. news \in Seq(Entry)
    BY <1>2, <2>1, SliceType
  <2> HIDE DEF news
  <2>4. Prefix(r.log, at - 1) \o news \in Seq(Entry)
    BY <1>1, <2>2, <2>3, PrefixType, ConcatProperties
  <2>5. /\ grown \in RaftNode /\ grown.hard_state = r.hard_state
        /\ grown.votes = r.votes /\ grown.role = r.role
    BY <1>1, <2>4 DEF RaftNode
  <2> HIDE DEF grown
  <2>6. /\ EntriesOp(news) \in Op /\ EntriesOp(news).kind # "hard"
        /\ TruncateOp(at) \in Op /\ TruncateOp(at).kind # "hard"
    BY <2>2, <2>3 DEF EntriesOp, TruncateOp, Op
  <2>7. Sound(n, r0, finish_append(n, grown, m, ops \o <<EntriesOp(news)>>))
    <3> DEFINE new == <<EntriesOp(news)>>
    <3>1. new \in Seq(Op) /\ \A i \in DOMAIN new : new[i].kind # "hard"
      BY <2>6
    <3> HIDE DEF new
    <3>2. ops \o new \in Seq(Op) /\ HardChain(r0.hard_state, ops \o new, r.hard_state)
      BY <1>1, <3>1, ChainPlain
    <3>3. Prepared(n, r0, grown, ops \o new)
      BY <2>5, <3>2 DEF Prepared, Counted
    <3>4. QED BY <3>3, FinishAppendSound DEF new
  <2>8. Sound(n, r0, finish_append(n, grown, m, ops \o <<TruncateOp(at), EntriesOp(news)>>))
    <3> DEFINE new == <<TruncateOp(at), EntriesOp(news)>>
    <3>1. new \in Seq(Op) /\ \A i \in DOMAIN new : new[i].kind # "hard"
      BY <2>6
    <3> HIDE DEF new
    <3>2. ops \o new \in Seq(Op) /\ HardChain(r0.hard_state, ops \o new, r.hard_state)
      BY <1>1, <3>1, ChainPlain
    <3>3. Prepared(n, r0, grown, ops \o new)
      BY <2>5, <3>2 DEF Prepared, Counted
    <3>4. QED BY <3>3, FinishAppendSound DEF new
  <2>9. Sound(n, r0, Effects(r, ops, {}))
    BY <1>1, NoOut, QuietSound
  <2>10. QED BY <1>4, <1>6, <2>7, <2>8, <2>9
<1>7. QED BY <1>5, <1>6

LEMMA AppendRequestSound ==
    ASSUME NEW n \in Node, NEW r0, NEW r, NEW ops, Prepared(n, r0, r, ops),
           NEW m \in AppendRequest
    PROVE  Sound(n, r0, append_request(n, r, m, ops))
<1> DEFINE follower == [r EXCEPT !.role = "Follower"]
<1>1. r \in RaftNode /\ m.prev_index \in Nat
  BY DEF Prepared, AppendRequest
<1>2. Len(r.log) \in Nat /\ conflict_index(r, m) \in Nat
  BY <1>1 DEF RaftNode, conflict_index, Max2
<1>3. /\ follower \in RaftNode /\ follower.hard_state = r.hard_state
      /\ follower.votes = r.votes /\ follower.role = "Follower"
  BY <1>1 DEF RaftNode
<1>4. \/ append_request(n, r, m, ops) = Effects(r, ops, reject(n, r, m, Len(r.log)))
      \/ append_request(n, r, m, ops) = append_entries(n, follower, m, ops)
      \/ append_request(n, r, m, ops)
           = Effects(follower, ops, reject(n, r, m, conflict_index(r, m)))
  BY DEF append_request
<1> HIDE DEF follower
<1>5. Sound(n, r0, Effects(r, ops, reject(n, r, m, Len(r.log))))
  BY <1>1, <1>2, ResponseOut, QuietSound
<1>6. Sound(n, r0, Effects(follower, ops, reject(n, r, m, conflict_index(r, m))))
  BY <1>1, <1>2, <1>3, ResponseOut, QuietSound
<1>7. Prepared(n, r0, follower, ops)
  BY <1>3 DEF Prepared, Counted
<1>8. Sound(n, r0, append_entries(n, follower, m, ops))
  BY <1>7, AppendEntriesSound
<1>9. QED BY <1>4, <1>5, <1>6, <1>8

LEMMA AppendResponseSound ==
    ASSUME NEW n \in Node, NEW r0, NEW r, NEW ops, Prepared(n, r0, r, ops),
           NEW m \in AppendResponse
    PROVE  Sound(n, r0, append_response(n, r, m, ops))
<1> DEFINE p    == m.from
           seen == [r EXCEPT !.match_index[p] = m.match_index,
                             !.next_index[p] = m.match_index + 1,
                             !.heard_quorum = @ \cup {p}]
           c    == advance_commit(n, seen)
           sent == [seen EXCEPT !.commit_index = c]
           out  == IF seen.next_index[p] <= Len(r.log)
                   THEN {send_append(n, sent, p)} ELSE {}
           back == [r EXCEPT !.next_index[p] = Max2(m.conflict_index, 1)]
<1>1. r \in RaftNode /\ p \in Node /\ m.match_index \in Nat /\ m.conflict_index \in Nat
  BY DEF Prepared, AppendResponse
<1>2. /\ append_response(n, r, m, ops) =
           IF r.role # "Leader" \/ m.term # r.hard_state.term
           THEN Effects(r, ops, {})
           ELSE IF m.success THEN apply_committed(seen, c, ops, out)
                ELSE Effects(back, ops, {send_append(n, back, p)})
  BY DEF append_response
<1>3. /\ seen \in RaftNode /\ seen.hard_state = r.hard_state
      /\ seen.votes = r.votes /\ seen.role = r.role
  <2>1. /\ [r.match_index EXCEPT ![p] = m.match_index] \in [Node -> Nat]
        /\ [r.next_index EXCEPT ![p] = m.match_index + 1] \in [Node -> Nat \ {0}]
    BY <1>1 DEF RaftNode
  <2>2. seen \in RaftNode
    BY <1>1, <2>1 DEF RaftNode
  <2>3. QED BY <1>1, <2>2 DEF RaftNode
<1>4. /\ back \in RaftNode /\ back.hard_state = r.hard_state
      /\ back.votes = r.votes /\ back.role = r.role
  <2>1. Max2(m.conflict_index, 1) \in Nat \ {0}
    BY <1>1 DEF Max2
  <2>2. [r.next_index EXCEPT ![p] = Max2(m.conflict_index, 1)] \in [Node -> Nat \ {0}]
    BY <1>1, <2>1 DEF RaftNode
  <2>3. back \in RaftNode
    BY <1>1, <2>2 DEF RaftNode
  <2>4. QED BY <1>1, <2>3 DEF RaftNode
<1> HIDE DEF seen, back
<1>5. c \in Nat
  BY <1>3, AdvanceCommitType
<1> HIDE DEF c
<1>6. sent \in RaftNode
  BY <1>3, <1>5 DEF RaftNode
<1> HIDE DEF sent, p
<1>7. OutOK(n, seen, out) /\ OutOK(n, back, {send_append(n, back, p)})
  BY <1>1, <1>4, <1>6, SendAppendType, AppendOut, NoOut
<1> HIDE DEF out
<1>8. Sound(n, r0, Effects(r, ops, {}))
  BY <1>1, NoOut, QuietSound
<1>9. Sound(n, r0, apply_committed(seen, c, ops, out))
  BY <1>3, <1>5, <1>7, PreparedSame, ApplyCommittedSound
<1>10. Sound(n, r0, Effects(back, ops, {send_append(n, back, p)}))
  BY <1>4, <1>7, QuietSound
<1>11. QED BY <1>2, <1>8, <1>9, <1>10

(* Every message handler is sound, a term it adopts first included. *)
LEMMA OnMessageSound ==
    ASSUME NEW n \in Node, NEW r0 \in RaftNode,
           r0.role = "Leader" => has_majority(r0.votes),
           NEW m \in msgs, m \in Message, n \in m.to
    PROVE  Sound(n, r0, on_message_at(n, r0, m))
<1> DEFINE newer == /\ m.term > r0.hard_state.term
                    /\ m.kind \notin {"PreVoteReq", "PreVoteResp"}
           r     == IF newer THEN adopt(r0, m) ELSE r0
           ops   == IF newer THEN <<HardOp(r.hard_state)>> ELSE <<>>
<1>1. Prepared(n, r0, r0, <<>>)
  BY StartPrepared
<1>2. r0.hard_state \in HardState /\ m.term \in Nat
  BY DEF RaftNode, Message, VoteRequest, VoteResponse, AppendRequest, AppendResponse
<1>3. Prepared(n, r0, r, ops)
  <2>1. CASE newer
    <3> DEFINE hard == [term |-> m.term, voted_for |-> None]
               q    == adopt(r0, m)
    <3>1. hard \in HardState /\ HardLe(r0.hard_state, hard)
      BY <1>2, <2>1 DEF HardState, HardLe
    <3> HIDE DEF hard
    <3>2. /\ q \in RaftNode /\ q.hard_state = hard
          /\ q.votes = {} /\ q.role = "Follower"
      BY <3>1 DEF RaftNode, adopt, hard
    <3>3. HardChain(r0.hard_state, <<>>, r0.hard_state) /\ <<>> \in Seq(Op)
      BY <1>2, ChainEmpty
    <3>4. /\ <<>> \o <<HardOp(hard)>> \in Seq(Op)
          /\ HardChain(r0.hard_state, <<>> \o <<HardOp(hard)>>, hard)
      BY <1>2, <3>1, <3>3, ChainHard
    <3>5. HardOp(hard) \in Op
      BY <3>1 DEF HardOp, Op
    <3>6. <<>> \o <<HardOp(hard)>> = <<HardOp(hard)>>
      BY <3>5
    <3> HIDE DEF q
    <3>7. Prepared(n, r0, q, <<HardOp(hard)>>)
      BY <3>2, <3>4, <3>6 DEF Prepared, Counted
    <3>8. r = q /\ ops = <<HardOp(hard)>>
      BY <2>1, <3>2 DEF q
    <3>9. QED BY <3>7, <3>8
  <2>2. CASE ~newer
    BY <1>1, <2>2
  <2>3. QED BY <2>1, <2>2
<1>4. on_message_at(n, r0, m) =
        CASE m.kind = "PreVoteReq"  -> pre_vote_response(n, r, m)
          [] m.kind = "PreVoteResp" -> on_pre_vote_resp(n, r, m)
          [] m.kind = "VoteReq"     -> vote_request(n, r, m, ops)
          [] m.kind = "VoteResp"    -> on_vote_resp(n, r, m, ops)
          [] m.kind = "AppendReq"   -> append_request(n, r, m, ops)
          [] m.kind = "AppendResp"  -> append_response(n, r, m, ops)
  BY DEF on_message_at
<1>5. m.kind \in {"PreVoteReq", "PreVoteResp"} => r = r0
  OBVIOUS
<1> HIDE DEF r, ops, newer
<1>6. /\ m.kind \in {"PreVoteReq", "VoteReq", "PreVoteResp", "VoteResp",
                     "AppendReq", "AppendResp"}
      /\ m.kind \in {"PreVoteReq", "VoteReq"} => m \in VoteRequest
      /\ m.kind \in {"PreVoteResp", "VoteResp"} => m \in VoteResponse
      /\ m.kind = "AppendReq" => m \in AppendRequest
      /\ m.kind = "AppendResp" => m \in AppendResponse
  BY DEF Message, VoteRequest, VoteResponse, AppendRequest, AppendResponse
<1>7. CASE m.kind = "PreVoteReq"
  <2>1. on_message_at(n, r0, m) = pre_vote_response(n, r0, m)
    BY <1>4, <1>5, <1>7
  <2>2. QED BY <1>1, <1>6, <1>7, <2>1, PreVoteResponseSound
<1>8. CASE m.kind = "PreVoteResp"
  <2>1. on_message_at(n, r0, m) = on_pre_vote_resp(n, r0, m)
    BY <1>4, <1>5, <1>8
  <2>2. QED BY <1>1, <1>6, <1>8, <2>1, OnPreVoteRespSound
<1>9. CASE m.kind = "VoteReq"
  <2>1. on_message_at(n, r0, m) = vote_request(n, r, m, ops)
    BY <1>4, <1>9
  <2>2. QED BY <1>2, <1>3, <1>6, <1>9, <2>1, VoteRequestSound
<1>10. CASE m.kind = "VoteResp"
  <2>1. on_message_at(n, r0, m) = on_vote_resp(n, r, m, ops)
    BY <1>4, <1>10
  <2>2. QED BY <1>3, <1>6, <1>10, <2>1, OnVoteRespSound
<1>11. CASE m.kind = "AppendReq"
  <2>1. on_message_at(n, r0, m) = append_request(n, r, m, ops)
    BY <1>4, <1>11
  <2>2. QED BY <1>3, <1>6, <1>11, <2>1, AppendRequestSound
<1>12. CASE m.kind = "AppendResp"
  <2>1. on_message_at(n, r0, m) = append_response(n, r, m, ops)
    BY <1>4, <1>12
  <2>2. QED BY <1>3, <1>6, <1>12, <2>1, AppendResponseSound
<1>13. QED BY <1>6, <1>7, <1>8, <1>9, <1>10, <1>11, <1>12

=============================================================================
