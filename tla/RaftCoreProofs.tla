--------------------------- MODULE RaftCoreProofs ---------------------------
(***************************************************************************)
(* Theorems about RaftCore, for every number of voters and every bound.     *)
(*                                                                         *)
(* The inductive invariant is TypeOK /\ VoteInv.  A handler touches the     *)
(* state of one node only, so the argument has two halves: every handler,   *)
(* run from a node's state, returns effects that are Sound (their barriers  *)
(* take the hard state forward, the votes they count are the node's own or  *)
(* are on the wire, the votes they give are in the new hard state); and an  *)
(* input whose effects are Sound preserves the invariant, whatever handler  *)
(* they come from.                                                         *)
(***************************************************************************)
EXTENDS RaftHandlerProofs

-----------------------------------------------------------------------------
(* The steps *)

(* v's consent to c in term t is on the wire, behind v's barriers, or        *)
(* counted by c.                                                             *)
Claim(v, t, c) ==
    \/ \E m \in msgs \cup pend[v].out : IsVote(m, v, c) /\ m.term = t
    \/ v \in raft[c].votes /\ raft[c].hard_state.term = t

LEMMA ClaimUnique ==
    ASSUME TypeOK, VotesUnique, NEW v \in Node, NEW c \in Node, NEW d \in Node,
           NEW t, Claim(v, t, c), Claim(v, t, d)
    PROVE  c = d
BY DEF VotesUnique, Claim

LEMMA ClaimRecorded ==
    ASSUME TypeOK, VotesRecorded, NEW v \in Node, NEW c \in Node, NEW t,
           Claim(v, t, c)
    PROVE  HardLe(Vote(t, c), raft[v].hard_state)
BY DEF VotesRecorded, Claim

LEMMA HardTypes ==
    ASSUME TypeOK, NEW n \in Node
    PROVE  raft[n].hard_state \in HardState /\ disk[n].hard \in HardState
BY DEF TypeOK, RaftNode, Disk

LEMMA MessageTerms ==
    ASSUME NEW m \in Message
    PROVE  m.term \in Nat /\ m.from \in Node /\ m.to \in SUBSET Node
BY DEF Message, VoteRequest, VoteResponse, AppendRequest, AppendResponse

LEMMA InputType ==
    ASSUME TypeOK, VoteInv, NEW n \in Node, NEW e, Sound(n, raft[n], e),
           on_input(n, e),
           bounds' \in [timeouts : Nat, heartbeats : Nat, crashes : Nat]
    PROVE  TypeOK'
<1>1. e.raft \in RaftNode /\ e.ops \in Seq(Op) /\ e.out \in SUBSET Message
  BY DEF Sound, Prepared, OutOK
<1>2. raft' \in [Node -> RaftNode]
  BY <1>1 DEF TypeOK, on_input
<1>3. pend' \in [Node -> [ops : Seq(Op), out : SUBSET Message]]
  <2>1. [ops |-> e.ops, out |-> e.out] \in [ops : Seq(Op), out : SUBSET Message]
    BY <1>1
  <2>2. QED BY <2>1 DEF TypeOK, on_input
<1>4. msgs' \in SUBSET Message
  BY <1>1 DEF TypeOK, on_input
<1>5. disk' \in [Node -> Disk]
  BY DEF TypeOK, on_input
<1>6. QED BY <1>2, <1>3, <1>4, <1>5 DEF TypeOK

LEMMA InputVotes ==
    ASSUME TypeOK, VoteInv, NEW n \in Node, NEW e, Sound(n, raft[n], e),
           on_input(n, e)
    PROVE  VoteInv'
<1> DEFINE h0 == raft[n].hard_state
           h1 == e.raft.hard_state
<1>1. /\ e.raft \in RaftNode /\ e.ops \in Seq(Op) /\ h1 \in HardState
      /\ HardChain(h0, e.ops, h1)
      /\ Counted(n, raft[n], e.raft)
      /\ e.raft.role = "Leader" => has_majority(e.raft.votes)
      /\ OutOK(n, e.raft, e.out)
  BY DEF Sound, Prepared, RaftNode
<1>2. /\ raft'[n] = e.raft
      /\ \A v \in Node \ {n} : raft'[v] = raft[v] /\ pend'[v] = pend[v]
      /\ \A v \in Node : disk'[v] = disk[v]
      /\ pend[n] = Idle
  BY DEF TypeOK, on_input
<1>3. disk[n].hard = h0
  <2>1. pend[n].ops = <<>>
    BY <1>2 DEF Idle
  <2>2. HardChain(disk[n].hard, pend[n].ops, h0)
    BY DEF VoteInv, HardPipeline
  <2>3. QED BY <2>1, <2>2 DEF HardChain
<1>4. \/ /\ e.ops = <<>> /\ h1 = h0
         /\ msgs' = msgs \cup e.out /\ pend'[n] = Idle
      \/ /\ e.ops # <<>> /\ msgs' = msgs
         /\ pend'[n].ops = e.ops /\ pend'[n].out = e.out
  <2>1. CASE e.ops = <<>>
    BY <1>1, <1>2, <2>1 DEF HardChain, on_input, TypeOK
  <2>2. CASE e.ops # <<>>
    BY <2>2 DEF on_input, TypeOK
  <2>3. QED BY <2>1, <2>2
<1>5. HardLe(h0, h1) /\ h0 \in HardState
  BY <1>1, HardTypes DEF HardChain
<1>6. \A v \in Node : HardLe(raft[v].hard_state, raft'[v].hard_state)
  BY <1>2, <1>5, HardTypes, HardLeReflexive
<1>7. \A v \in Node : raft'[v].hard_state \in HardState
  BY <1>1, <1>2, HardTypes
<1>8. HardPipeline'
  <2> SUFFICES ASSUME NEW v \in Node
               PROVE  /\ HardChain(disk'[v].hard, pend'[v].ops, raft'[v].hard_state)
                      /\ pend'[v].ops = <<>> => pend'[v].out = {}
                      /\ \A m \in pend'[v].out : m.from = v
    BY DEF HardPipeline
  <2>1. CASE v # n
    BY <1>2, <2>1 DEF VoteInv, HardPipeline
  <2>2. CASE v = n
    <3>1. CASE e.ops = <<>>
      BY <1>2, <1>3, <1>4, <1>5, <2>2, <3>1, ChainEmpty DEF Idle
    <3>2. CASE e.ops # <<>>
      BY <1>1, <1>2, <1>3, <1>4, <2>2, <3>2 DEF OutOK
    <3>3. QED BY <3>1, <3>2
  <2>3. QED BY <2>1, <2>2
(* A claim after the step is an old one, or is the vote of n's new hard      *)
(* state.                                                                    *)
<1>9. ASSUME NEW v \in Node, NEW c \in Node, NEW t, Claim(v, t, c)'
      PROVE  Claim(v, t, c) \/ (v = n /\ h1 = Vote(t, c))
  <2>1. CASE \E m \in msgs' \cup pend'[v].out : IsVote(m, v, c) /\ m.term = t
    <3>1. PICK m \in msgs' \cup pend'[v].out : IsVote(m, v, c) /\ m.term = t
      BY <2>1
    <3>2. CASE m \in msgs \cup pend[v].out
      BY <3>1, <3>2 DEF Claim
    <3>3. CASE m \notin msgs \cup pend[v].out
      <4>1. m \in e.out
        BY <1>2, <1>4, <3>1, <3>3 DEF Idle
      <4>2. m.from = n /\ m.from = v
        BY <1>1, <3>1, <4>1 DEF OutOK, IsVote
      <4>3. QED BY <1>1, <3>1, <4>1, <4>2 DEF OutOK
    <3>4. QED BY <3>2, <3>3
  <2>2. CASE v \in raft'[c].votes /\ raft'[c].hard_state.term = t
    <3>1. CASE c # n
      BY <1>2, <2>2, <3>1 DEF Claim
    <3>2. CASE c = n
      <4>1. v \in e.raft.votes /\ h1.term = t
        BY <1>2, <2>2, <3>2
      <4>2. CASE v = n /\ h1.voted_for = n
        BY <1>1, <3>2, <4>1, <4>2 DEF HardState, Vote
      <4>3. CASE v \in raft[n].votes /\ h1.term = h0.term
        BY <3>2, <4>1, <4>3 DEF Claim
      <4>4. CASE \E m \in msgs : IsVote(m, v, n) /\ m.term = h1.term
        BY <3>2, <4>1, <4>4 DEF Claim
      <4>5. QED BY <1>1, <4>1, <4>2, <4>3, <4>4 DEF Counted
    <3>3. QED BY <3>1, <3>2
  <2>3. QED BY <1>9, <2>1, <2>2 DEF Claim
<1>10. VotesUnique'
  <2>1. ASSUME NEW v \in Node, NEW c \in Node, NEW d \in Node, NEW t,
               t \in Nat, Claim(v, t, c)', Claim(v, t, d)'
        PROVE  c = d
    <3>1. ASSUME NEW x \in Node, NEW y \in Node, v = n,
                 Claim(v, t, x), h1 = Vote(t, y)
          PROVE  x = y
      <4>1. HardLe(Vote(t, x), h0)
        BY <3>1, ClaimRecorded DEF VoteInv
      <4>2. Vote(t, x) \in HardState
        BY <2>1 DEF HardState, Vote
      <4>3. HardLe(Vote(t, x), Vote(t, y))
        BY <1>1, <1>5, <3>1, <4>1, <4>2, HardLeTransitive
      <4>4. QED BY <2>1, <4>3, ConstantsOK DEF HardLe, Vote
    <3>2. Claim(v, t, c) \/ (v = n /\ h1 = Vote(t, c))
      BY <1>9, <2>1
    <3>3. Claim(v, t, d) \/ (v = n /\ h1 = Vote(t, d))
      BY <1>9, <2>1
    <3>4. CASE Claim(v, t, c) /\ Claim(v, t, d)
      BY <3>4, ClaimUnique DEF VoteInv
    <3>5. CASE v = n /\ h1 = Vote(t, c) /\ h1 = Vote(t, d)
      BY <3>5 DEF Vote
    <3>6. QED BY <3>1, <3>2, <3>3, <3>4, <3>5
  <2>2. ASSUME NEW v \in Node, NEW m \in msgs' \cup pend'[v].out
        PROVE  m.term \in Nat
    <3>1. m \in Message
      BY <1>1, <1>2, <1>4 DEF TypeOK, OutOK, Idle
    <3>2. QED BY <3>1, MessageTerms
  <2>3. \A c \in Node : raft'[c].hard_state.term \in Nat
    BY <1>7 DEF HardState
  <2>4. QED BY <2>1, <2>2, <2>3 DEF VotesUnique, Claim
<1>11. VotesRecorded'
  <2> SUFFICES ASSUME NEW v \in Node, NEW c \in Node
      PROVE  /\ \A m \in msgs' \cup pend'[v].out :
                  IsVote(m, v, c) => HardLe(Vote(m.term, c), raft'[v].hard_state)
             /\ \A m \in msgs' :
                  IsVote(m, v, c) => HardLe(Vote(m.term, c), disk'[v].hard)
             /\ v \in raft'[c].votes =>
                  /\ HardLe(Vote(raft'[c].hard_state.term, c), raft'[v].hard_state)
                  /\ v # c => HardLe(Vote(raft'[c].hard_state.term, c), disk'[v].hard)
    BY DEF VotesRecorded
  <2>1. ASSUME NEW t \in Nat, Claim(v, t, c)'
        PROVE  HardLe(Vote(t, c), raft'[v].hard_state)
    <3>1. Vote(t, c) \in HardState
      BY DEF Vote, HardState
    <3>2. CASE Claim(v, t, c)
      <4>1. HardLe(Vote(t, c), raft[v].hard_state)
        BY <3>2, ClaimRecorded DEF VoteInv
      <4>2. QED BY <1>6, <1>7, <3>1, <4>1, HardTypes, HardLeTransitive
    <3>3. CASE v = n /\ h1 = Vote(t, c)
      BY <1>2, <3>1, <3>3, HardLeReflexive
    <3>4. QED BY <1>9, <2>1, <3>2, <3>3
  <2>2. ASSUME NEW m \in msgs' \cup pend'[v].out
        PROVE  m \in Message /\ m.term \in Nat
    <3>1. m \in Message
      BY <1>1, <1>2, <1>4 DEF TypeOK, OutOK, Idle
    <3>2. QED BY <3>1, MessageTerms
  <2>3. ASSUME NEW m \in msgs' \cup pend'[v].out, IsVote(m, v, c)
        PROVE  HardLe(Vote(m.term, c), raft'[v].hard_state)
    BY <2>1, <2>2, <2>3 DEF Claim
  <2>4. ASSUME NEW m \in msgs', IsVote(m, v, c)
        PROVE  HardLe(Vote(m.term, c), disk'[v].hard)
    <3>1. CASE m \in msgs
      BY <1>2, <2>4, <3>1 DEF VoteInv, VotesRecorded
    <3>2. CASE m \notin msgs
      <4>1. m \in e.out /\ e.ops = <<>> /\ h1 = h0
        BY <1>4, <3>2
      <4>2. m.from = n /\ m.from = v
        BY <1>1, <2>4, <4>1 DEF OutOK, IsVote
      <4>3. h1 = Vote(m.term, c)
        BY <1>1, <2>4, <4>1, <4>2 DEF OutOK
      <4>4. QED BY <1>1, <1>2, <1>3, <4>1, <4>2, <4>3, HardLeReflexive
    <3>3. QED BY <3>1, <3>2
  <2>5. ASSUME v \in raft'[c].votes
        PROVE  /\ HardLe(Vote(raft'[c].hard_state.term, c), raft'[v].hard_state)
               /\ v # c => HardLe(Vote(raft'[c].hard_state.term, c), disk'[v].hard)
    <3>1. HardLe(Vote(raft'[c].hard_state.term, c), raft'[v].hard_state)
      BY <1>7, <2>1, <2>5 DEF Claim, HardState
    <3>2. ASSUME v # c
          PROVE  HardLe(Vote(raft'[c].hard_state.term, c), disk'[v].hard)
      <4>1. CASE c # n
        BY <1>2, <2>5, <3>2, <4>1 DEF VoteInv, VotesRecorded
      <4>2. CASE c = n
        <5>1. \/ v \in raft[n].votes /\ h1.term = h0.term
              \/ \E m \in msgs : IsVote(m, v, n) /\ m.term = h1.term
          BY <1>1, <1>2, <2>5, <3>2, <4>2 DEF Counted
        <5>2. QED BY <1>2, <3>2, <4>2, <5>1 DEF VoteInv, VotesRecorded
      <4>3. QED BY <4>1, <4>2
    <3>3. QED BY <3>1, <3>2
  <2>6. QED BY <2>3, <2>4, <2>5
<1>12. LeadersElected'
  BY <1>1, <1>2 DEF VoteInv, LeadersElected
<1>13. QED BY <1>8, <1>10, <1>11, <1>12 DEF VoteInv

(* A record that is written is a disk again, and only a hard barrier moves   *)
(* its hard state.                                                           *)
LEMMA WrittenType ==
    ASSUME NEW d \in Disk, NEW op \in Op, NEW k \in 0 .. Records(op)
    PROVE  /\ Written(d, op, k) \in Disk
           /\ \/ Written(d, op, k).hard = d.hard /\ (k = 0 \/ op.kind # "hard")
              \/ Written(d, op, k).hard = op.hard /\ op.kind = "hard"
<1>1. d.log \in Seq(Entry) /\ d.store \in Seq(Entry) /\ d.hard \in HardState
  BY DEF Disk
<1>2. CASE k = 0
  BY <1>2 DEF Written
<1>3. CASE k # 0 /\ op.kind = "hard"
  <2>1. op.hard \in HardState /\ Written(d, op, k) = [d EXCEPT !.hard = op.hard]
    BY <1>3 DEF Op, Written
  <2>2. QED BY <1>3, <2>1 DEF Disk
<1>4. CASE k # 0 /\ op.kind = "truncate"
  <2>1. /\ op.from \in Nat /\ op.from - 1 \in Int
        /\ Written(d, op, k) = [d EXCEPT !.log = Prefix(@, op.from - 1)]
    BY <1>4 DEF Op, Written
  <2>2. Prefix(d.log, op.from - 1) \in Seq(Entry)
    BY <1>1, <2>1, PrefixType
  <2>3. QED BY <1>4, <2>1, <2>2 DEF Disk
<1>5. CASE k # 0 /\ op.kind = "entries"
  <2>1. /\ op.entries \in Seq(Entry) /\ k \in Nat /\ k <= Len(op.entries)
        /\ Written(d, op, k) = [d EXCEPT !.log = @ \o SubSeq(op.entries, 1, k)]
    BY <1>5 DEF Op, Written, Records
  <2>2. SubSeq(op.entries, 1, k) \in Seq(Entry)
    BY <2>1, SliceType
  <2>3. d.log \o SubSeq(op.entries, 1, k) \in Seq(Entry)
    BY <1>1, <2>2, ConcatProperties
  <2>4. QED BY <1>5, <2>1, <2>3 DEF Disk
<1>6. CASE k # 0 /\ op.kind = "store"
  <2>1. op.entry \in Entry /\ Written(d, op, k) = [d EXCEPT !.store = Append(@, op.entry)]
    BY <1>6 DEF Op, Written
  <2>2. Append(d.store, op.entry) \in Seq(Entry)
    BY <1>1, <2>1, AppendProperties
  <2>3. QED BY <1>6, <2>1, <2>2 DEF Disk
<1>7. op.kind \in {"hard", "truncate", "entries", "store"}
  BY DEF Op
<1>8. QED BY <1>2, <1>3, <1>4, <1>5, <1>6, <1>7

LEMMA RecordsType ==
    ASSUME NEW op \in Op PROVE Records(op) \in Nat
BY DEF Op, Records

(* A node that waits has a barrier in front. *)
LEMMA BarrierInFront ==
    ASSUME TypeOK, VoteInv, NEW n \in Node, pend[n] # Idle
    PROVE  /\ pend[n].ops \in Seq(Op) /\ pend[n].ops # <<>>
           /\ Head(pend[n].ops) \in Op /\ Head(pend[n].ops) = pend[n].ops[1]
           /\ Tail(pend[n].ops) \in Seq(Op)
           /\ Len(Tail(pend[n].ops)) = Len(pend[n].ops) - 1
           /\ \A i \in 1 .. Len(Tail(pend[n].ops)) :
                Tail(pend[n].ops)[i] = pend[n].ops[i + 1]
<1>1. pend[n] \in [ops : Seq(Op), out : SUBSET Message]
  BY DEF TypeOK
<1>2. pend[n].ops # <<>>
  BY <1>1 DEF VoteInv, HardPipeline, Idle
<1>3. QED BY <1>1, <1>2, HeadTailProperties

(* The write in front takes the hard state of the disk forward, not past the *)
(* one in memory.                                                            *)
LEMMA FrontHard ==
    ASSUME TypeOK, VoteInv, NEW n \in Node, pend[n] # Idle,
           NEW k \in 0 .. Records(Head(pend[n].ops))
    PROVE  LET d == Written(disk[n], Head(pend[n].ops), k)
           IN  /\ d \in Disk
               /\ HardLe(disk[n].hard, d.hard)
               /\ HardLe(d.hard, raft[n].hard_state)
<1> DEFINE op == Head(pend[n].ops)
           d  == Written(disk[n], op, k)
<1>1. /\ pend[n].ops \in Seq(Op) /\ pend[n].ops # <<>>
      /\ op \in Op /\ op = pend[n].ops[1]
  BY BarrierInFront
<1>2. 1 \in DOMAIN pend[n].ops
  BY <1>1
<1>3. disk[n] \in Disk /\ disk[n].hard \in HardState
  BY DEF TypeOK, Disk
<1> HIDE DEF op
<1>4. d \in Disk /\ (d.hard = disk[n].hard \/ (op.kind = "hard" /\ d.hard = op.hard))
  BY <1>1, <1>3, WrittenType DEF op
<1> HIDE DEF d
<1>5. op.kind = "hard" => /\ HardLe(disk[n].hard, op.hard)
                          /\ HardLe(op.hard, raft[n].hard_state)
  BY <1>1, <1>2 DEF VoteInv, HardPipeline, HardChain
<1>6. HardLe(disk[n].hard, raft[n].hard_state)
  BY DEF VoteInv, HardPipeline, HardChain
<1>7. QED BY <1>3, <1>4, <1>5, <1>6, HardLeReflexive DEF d, op

LEMMA PersistedType ==
    ASSUME TypeOK, VoteInv, NEW n \in Node, Persisted(n)
    PROVE  TypeOK'
<1> DEFINE op == Head(pend[n].ops)
<1>1. pend[n] # Idle /\ op \in Op /\ Tail(pend[n].ops) \in Seq(Op)
  BY BarrierInFront DEF Persisted
<1>2. Records(op) \in 0 .. Records(op) /\ disk[n] \in Disk
  BY <1>1, RecordsType DEF TypeOK
<1>3. Written(disk[n], op, Records(op)) \in Disk
  BY <1>1, <1>2, WrittenType
<1>4. disk' \in [Node -> Disk]
  BY <1>3 DEF TypeOK, Persisted
<1>5. pend' \in [Node -> [ops : Seq(Op), out : SUBSET Message]]
  <2>1. Idle \in [ops : Seq(Op), out : SUBSET Message]
    BY DEF Idle
  <2>2. [pend[n] EXCEPT !.ops = Tail(pend[n].ops)] \in [ops : Seq(Op), out : SUBSET Message]
    BY <1>1 DEF TypeOK
  <2>3. QED BY <2>1, <2>2 DEF TypeOK, Persisted
<1>6. msgs' \in SUBSET Message
  BY DEF TypeOK, Persisted
<1>7. QED BY <1>4, <1>5, <1>6 DEF TypeOK, Persisted

LEMMA PersistedVotes ==
    ASSUME TypeOK, VoteInv, NEW n \in Node, Persisted(n)
    PROVE  VoteInv'
<1> DEFINE ops  == pend[n].ops
           op   == Head(ops)
           rest == Tail(ops)
           d    == Written(disk[n], op, Records(op))
           mem  == raft[n].hard_state
<1>1. /\ pend[n] # Idle
      /\ ops \in Seq(Op) /\ ops # <<>> /\ op \in Op /\ op = ops[1]
      /\ rest \in Seq(Op) /\ Len(rest) = Len(ops) - 1
      /\ \A i \in 1 .. Len(rest) : rest[i] = ops[i + 1]
  BY BarrierInFront DEF Persisted
<1>2. Records(op) \in 0 .. Records(op) /\ disk[n] \in Disk /\ disk[n].hard \in HardState
  BY <1>1, RecordsType DEF TypeOK, Disk
<1>3. /\ d \in Disk /\ d.hard \in HardState
      /\ HardLe(disk[n].hard, d.hard) /\ HardLe(d.hard, mem)
  BY <1>1, <1>2, FrontHard DEF Disk
<1>4. mem \in HardState
  BY HardTypes
<1>5. d.hard = IF op.kind = "hard" THEN op.hard ELSE disk[n].hard
  <2>1. Records(op) # 0 \/ op.kind # "hard"
    BY DEF Records
  <2>2. QED BY <1>1, <1>2, <2>1, WrittenType
<1>6. /\ raft' = raft
      /\ disk'[n] = d
      /\ \A v \in Node \ {n} : disk'[v] = disk[v] /\ pend'[v] = pend[v]
      /\ \/ rest = <<>> /\ pend'[n] = Idle /\ msgs' = msgs \cup pend[n].out
         \/ /\ rest # <<>> /\ pend'[n].ops = rest /\ pend'[n].out = pend[n].out
            /\ msgs' = msgs
  BY DEF TypeOK, Persisted
<1> HIDE DEF op, rest, d
<1>7. /\ DOMAIN ops = 1 .. Len(ops) /\ DOMAIN rest = 1 .. Len(rest)
      /\ Len(ops) \in Nat /\ Len(rest) \in Nat /\ 1 \in DOMAIN ops
  BY <1>1
<1>8. HardChain(disk[n].hard, ops, mem)
  BY DEF VoteInv, HardPipeline
(* What is left of the barriers leads from the disk's new hard state to the  *)
(* one in memory.                                                            *)
<1>9. HardChain(d.hard, rest, mem)
  <2>1. d.hard = mem \/ \E i \in DOMAIN rest : rest[i] = HardOp(mem)
    <3>1. CASE disk[n].hard = mem
      <4>1. HardLe(mem, d.hard)
        BY <1>3, <3>1
      <4>2. QED BY <1>3, <1>4, <4>1, HardLeAntisymmetric
    <3>2. CASE \E i \in DOMAIN ops : ops[i] = HardOp(mem)
      <4>1. PICK i \in DOMAIN ops : ops[i] = HardOp(mem)
        BY <3>2
      <4>2. CASE i = 1
        BY <1>1, <1>5, <4>1, <4>2 DEF HardOp
      <4>3. CASE i # 1
        <5>1. i - 1 \in DOMAIN rest /\ rest[i - 1] = ops[i]
          BY <1>1, <1>7, <4>3
        <5>2. QED BY <4>1, <5>1
      <4>4. QED BY <4>2, <4>3
    <3>3. QED BY <1>8, <3>1, <3>2 DEF HardChain
  <2>2. ASSUME NEW i \in DOMAIN rest
        PROVE  i + 1 \in DOMAIN ops /\ rest[i] = ops[i + 1] /\ 1 < i + 1
    BY <1>1, <1>7
  <2>3. ASSUME NEW i \in DOMAIN rest, rest[i].kind = "hard"
        PROVE  /\ HardLe(d.hard, rest[i].hard)
               /\ HardLe(rest[i].hard, mem)
               /\ \A j \in DOMAIN rest : i < j /\ rest[j].kind = "hard" =>
                    HardLe(rest[i].hard, rest[j].hard)
    <3>1. HardLe(disk[n].hard, rest[i].hard) /\ HardLe(rest[i].hard, mem)
      BY <1>8, <2>2, <2>3 DEF HardChain
    <3>2. op.kind = "hard" => HardLe(op.hard, rest[i].hard)
      BY <1>1, <1>7, <1>8, <2>2, <2>3 DEF HardChain
    <3>3. ASSUME NEW j \in DOMAIN rest, i < j, rest[j].kind = "hard"
          PROVE  HardLe(rest[i].hard, rest[j].hard)
      <4>1. i + 1 < j + 1
        BY <1>7, <3>3
      <4>2. QED BY <1>8, <2>2, <2>3, <3>3, <4>1 DEF HardChain
    <3>4. QED BY <1>5, <3>1, <3>2, <3>3
  <2>4. QED BY <1>3, <2>1, <2>3 DEF HardChain
<1>10. HardPipeline'
  <2> SUFFICES ASSUME NEW v \in Node
               PROVE  /\ HardChain(disk'[v].hard, pend'[v].ops, raft'[v].hard_state)
                      /\ pend'[v].ops = <<>> => pend'[v].out = {}
                      /\ \A m \in pend'[v].out : m.from = v
    BY DEF HardPipeline
  <2>1. CASE v # n
    BY <1>6, <2>1 DEF VoteInv, HardPipeline
  <2>2. CASE v = n
    <3>0. HardChain(disk'[v].hard, rest, raft'[v].hard_state)
      BY <1>6, <1>9, <2>2
    <3>1. CASE rest = <<>>
      <4>1. pend'[v].ops = <<>> /\ pend'[v].out = {}
        BY <1>6, <2>2, <3>1 DEF Idle
      <4>2. QED BY <3>0, <3>1, <4>1
    <3>2. CASE rest # <<>>
      <4>1. pend'[v].ops = rest /\ pend'[v].out = pend[n].out
        BY <1>6, <2>2, <3>2
      <4>2. QED BY <2>2, <3>0, <3>2, <4>1 DEF VoteInv, HardPipeline
    <3>3. QED BY <3>1, <3>2
  <2>3. QED BY <2>1, <2>2
<1>11. \A m \in pend[n].out : m.from = n
  BY DEF VoteInv, HardPipeline
(* The messages that are released were behind the barriers of their sender.  *)
<1>12. ASSUME NEW v \in Node, NEW c \in Node,
              NEW m \in msgs' \cup pend'[v].out, IsVote(m, v, c)
       PROVE  m \in msgs \cup pend[v].out
  <2>1. m.from = v
    BY <1>12 DEF IsVote
  <2>2. QED BY <1>6, <1>11, <1>12, <2>1 DEF Idle
<1>13. VotesUnique'
  BY <1>6, <1>12 DEF VoteInv, VotesUnique
<1>14. VotesRecorded'
  <2> SUFFICES ASSUME NEW v \in Node, NEW c \in Node
      PROVE  /\ \A m \in msgs' \cup pend'[v].out :
                  IsVote(m, v, c) => HardLe(Vote(m.term, c), raft[v].hard_state)
             /\ \A m \in msgs' :
                  IsVote(m, v, c) => HardLe(Vote(m.term, c), disk'[v].hard)
             /\ v \in raft[c].votes =>
                  /\ HardLe(Vote(raft[c].hard_state.term, c), raft[v].hard_state)
                  /\ v # c => HardLe(Vote(raft[c].hard_state.term, c), disk'[v].hard)
    BY <1>6 DEF VotesRecorded
  <2>1. \A m \in msgs' \cup pend'[v].out :
          IsVote(m, v, c) => HardLe(Vote(m.term, c), raft[v].hard_state)
    BY <1>12 DEF VoteInv, VotesRecorded
  <2>2. /\ disk[v].hard \in HardState /\ disk'[v].hard \in HardState
        /\ HardLe(disk[v].hard, disk'[v].hard)
    BY <1>3, <1>6, HardTypes, HardLeReflexive
  <2>3. ASSUME NEW m \in msgs', IsVote(m, v, c)
        PROVE  HardLe(Vote(m.term, c), disk'[v].hard)
    <3>1. m \in Message /\ m.term \in Nat
      <4>1. m \in Message
        BY <1>6 DEF TypeOK
      <4>2. QED BY <4>1, MessageTerms
    <3>2. Vote(m.term, c) \in HardState
      BY <3>1 DEF Vote, HardState
    <3>3. CASE m \in msgs
      <4>1. HardLe(Vote(m.term, c), disk[v].hard)
        BY <2>3, <3>3 DEF VoteInv, VotesRecorded
      <4>2. QED BY <2>2, <3>2, <4>1, HardLeTransitive
    <3>4. CASE m \notin msgs
      <4>1. m \in pend[n].out /\ rest = <<>>
        BY <1>6, <3>4
      <4>2. v = n
        BY <1>11, <2>3, <4>1 DEF IsVote
      <4>3. d.hard = mem
        BY <1>9, <4>1 DEF HardChain
      <4>4. QED BY <1>6, <2>1, <2>3, <4>2, <4>3
    <3>5. QED BY <3>3, <3>4
  <2>4. ASSUME v \in raft[c].votes
        PROVE  /\ HardLe(Vote(raft[c].hard_state.term, c), raft[v].hard_state)
               /\ v # c => HardLe(Vote(raft[c].hard_state.term, c), disk'[v].hard)
    <3>1. Vote(raft[c].hard_state.term, c) \in HardState
      BY HardTypes DEF Vote, HardState
    <3>2. QED BY <2>2, <2>4, <3>1, HardLeTransitive DEF VoteInv, VotesRecorded
  <2>5. QED BY <2>1, <2>3, <2>4
<1>15. LeadersElected'
  BY <1>6 DEF VoteInv, LeadersElected
<1>16. QED BY <1>10, <1>13, <1>14, <1>15 DEF VoteInv

(* Recovery starts from a typed state with no votes. *)
LEMMA RestoreType ==
    ASSUME NEW d \in Disk
    PROVE  /\ restore(d) \in RaftNode
           /\ restore(d).hard_state = d.hard
           /\ restore(d).votes = {}
           /\ restore(d).role = "Follower"
<1>1. d.hard \in HardState /\ d.log \in Seq(Entry) /\ d.store \in Seq(Entry)
  BY DEF Disk
<1>2. Len(d.store) \in Nat
  BY <1>1, LenProperties
<1>3. /\ [p \in Node |-> 1] \in [Node -> Nat \ {0}]
      /\ [p \in Node |-> 0] \in [Node -> Nat]
  OBVIOUS
<1>4. restore(d) \in RaftNode
  BY <1>1, <1>2, <1>3 DEF restore, RaftNode
<1>5. /\ restore(d).hard_state = d.hard
      /\ restore(d).votes = {}
      /\ restore(d).role = "Follower"
  BY DEF restore
<1>6. QED BY <1>4, <1>5

(* The disk a crash leaves. *)
LEMMA CrashDisk ==
    ASSUME TypeOK, VoteInv, NEW n \in Node, Crash(n)
    PROVE  \E d \in Disk :
             /\ disk' = [disk EXCEPT ![n] = d]
             /\ raft' = [raft EXCEPT ![n] = restore(d)]
             /\ HardLe(disk[n].hard, d.hard)
<1>1. PICK k \in 0 .. (IF pend[n] = Idle THEN 0 ELSE Records(Head(pend[n].ops))) :
        LET d == IF k = 0 THEN disk[n] ELSE Written(disk[n], Head(pend[n].ops), k)
        IN  /\ disk' = [disk EXCEPT ![n] = d]
            /\ raft' = [raft EXCEPT ![n] = restore(d)]
  BY DEF Crash
<1>2. disk[n] \in Disk /\ HardLe(disk[n].hard, disk[n].hard)
  BY HardTypes, HardLeReflexive DEF TypeOK
<1>3. CASE k = 0
  BY <1>1, <1>2, <1>3
<1>4. CASE k # 0
  <2>1. pend[n] # Idle /\ k \in 0 .. Records(Head(pend[n].ops))
    BY <1>1, <1>4
  <2>2. /\ Written(disk[n], Head(pend[n].ops), k) \in Disk
        /\ HardLe(disk[n].hard, Written(disk[n], Head(pend[n].ops), k).hard)
    BY <2>1, FrontHard
  <2>3. QED BY <1>1, <1>4, <2>2
<1>5. QED BY <1>3, <1>4

LEMMA CrashStep ==
    ASSUME TypeOK, VoteInv, NEW n \in Node, Crash(n)
    PROVE  TypeOK' /\ VoteInv'
<1>1. PICK d \in Disk : /\ disk' = [disk EXCEPT ![n] = d]
                        /\ raft' = [raft EXCEPT ![n] = restore(d)]
                        /\ HardLe(disk[n].hard, d.hard)
  BY CrashDisk
<1>2. /\ restore(d) \in RaftNode /\ restore(d).hard_state = d.hard
      /\ restore(d).votes = {} /\ restore(d).role = "Follower"
      /\ d.hard \in HardState
  BY RestoreType DEF Disk
<1>3. /\ pend' = [pend EXCEPT ![n] = Idle] /\ msgs' = msgs
      /\ bounds.crashes < MaxCrash
      /\ bounds' = [bounds EXCEPT !.crashes = @ + 1]
  BY DEF Crash
<1>4. TypeOK'
  <2>1. Idle \in [ops : Seq(Op), out : SUBSET Message]
    BY DEF Idle
  <2>2. bounds' \in [timeouts : Nat, heartbeats : Nat, crashes : Nat]
    BY <1>3 DEF TypeOK
  <2>3. QED BY <1>1, <1>2, <1>3, <2>1, <2>2 DEF TypeOK
<1>5. /\ raft'[n] = restore(d) /\ disk'[n] = d /\ pend'[n] = Idle
      /\ \A v \in Node \ {n} : raft'[v] = raft[v] /\ disk'[v] = disk[v] /\ pend'[v] = pend[v]
  BY <1>1, <1>3 DEF TypeOK
<1>6. \A v \in Node : /\ disk[v].hard \in HardState /\ disk'[v].hard \in HardState
                      /\ HardLe(disk[v].hard, disk'[v].hard)
  BY <1>1, <1>2, <1>5, HardTypes, HardLeReflexive
<1>7. HardPipeline'
  <2> SUFFICES ASSUME NEW v \in Node
               PROVE  /\ HardChain(disk'[v].hard, pend'[v].ops, raft'[v].hard_state)
                      /\ pend'[v].ops = <<>> => pend'[v].out = {}
                      /\ \A m \in pend'[v].out : m.from = v
    BY DEF HardPipeline
  <2>1. CASE v # n
    BY <1>5, <2>1 DEF VoteInv, HardPipeline
  <2>2. CASE v = n
    BY <1>2, <1>5, <2>2, ChainEmpty DEF Idle
  <2>3. QED BY <2>1, <2>2
<1>8. \A v \in Node : msgs' \cup pend'[v].out \subseteq msgs \cup pend[v].out
  BY <1>3, <1>5 DEF Idle
<1>9. \A c \in Node : raft'[c].votes # {} => c # n /\ raft'[c] = raft[c]
  BY <1>2, <1>5
<1>10. VotesUnique'
  BY <1>8, <1>9 DEF VoteInv, VotesUnique
<1>11. VotesRecorded'
  <2> SUFFICES ASSUME NEW v \in Node, NEW c \in Node
      PROVE  /\ \A m \in msgs' \cup pend'[v].out :
                  IsVote(m, v, c) => HardLe(Vote(m.term, c), raft'[v].hard_state)
             /\ \A m \in msgs' :
                  IsVote(m, v, c) => HardLe(Vote(m.term, c), disk'[v].hard)
             /\ v \in raft'[c].votes =>
                  /\ HardLe(Vote(raft'[c].hard_state.term, c), raft'[v].hard_state)
                  /\ v # c => HardLe(Vote(raft'[c].hard_state.term, c), disk'[v].hard)
    BY DEF VotesRecorded
  <2>1. ASSUME NEW m \in msgs', IsVote(m, v, c)
        PROVE  HardLe(Vote(m.term, c), disk'[v].hard)
    <3>1. m \in Message /\ m \in msgs
      BY <1>3 DEF TypeOK
    <3>2. Vote(m.term, c) \in HardState
      BY <3>1, MessageTerms DEF Vote, HardState
    <3>3. HardLe(Vote(m.term, c), disk[v].hard)
      BY <2>1, <3>1 DEF VoteInv, VotesRecorded
    <3>4. QED BY <1>6, <3>2, <3>3, HardLeTransitive
  <2>2. ASSUME NEW m \in msgs' \cup pend'[v].out, IsVote(m, v, c)
        PROVE  HardLe(Vote(m.term, c), raft'[v].hard_state)
    <3>1. CASE v = n
      BY <1>2, <1>5, <2>1, <2>2, <3>1 DEF Idle
    <3>2. CASE v # n
      BY <1>3, <1>5, <2>2, <3>2 DEF VoteInv, VotesRecorded
    <3>3. QED BY <3>1, <3>2
  <2>3. ASSUME v \in raft'[c].votes
        PROVE  /\ HardLe(Vote(raft'[c].hard_state.term, c), raft'[v].hard_state)
               /\ v # c => HardLe(Vote(raft'[c].hard_state.term, c), disk'[v].hard)
    <3>1. c # n /\ raft'[c] = raft[c] /\ v \in raft[c].votes
      BY <1>9, <2>3
    <3>2. Vote(raft[c].hard_state.term, c) \in HardState
      BY HardTypes DEF Vote, HardState
    <3>3. /\ HardLe(Vote(raft[c].hard_state.term, c), raft[v].hard_state)
          /\ v # c => HardLe(Vote(raft[c].hard_state.term, c), disk[v].hard)
      BY <3>1 DEF VoteInv, VotesRecorded
    <3>4. v # c => HardLe(Vote(raft[c].hard_state.term, c), disk'[v].hard)
      BY <1>6, <3>2, <3>3, HardLeTransitive
    <3>5. CASE v = n
      BY <1>2, <1>5, <3>1, <3>4, <3>5
    <3>6. CASE v # n
      BY <1>5, <3>1, <3>3, <3>4, <3>6
    <3>7. QED BY <3>5, <3>6
  <2>4. QED BY <2>1, <2>2, <2>3
<1>12. LeadersElected'
  BY <1>2, <1>5 DEF VoteInv, LeadersElected
<1>13. QED BY <1>4, <1>7, <1>10, <1>11, <1>12 DEF VoteInv

LEMMA LoseStep ==
    ASSUME TypeOK, VoteInv, Lose
    PROVE  TypeOK' /\ VoteInv'
<1>1. /\ msgs' \subseteq msgs
      /\ raft' = raft /\ pend' = pend /\ disk' = disk /\ bounds' = bounds
  BY DEF Lose
<1>2. TypeOK'
  BY <1>1 DEF TypeOK
<1>3. HardPipeline' /\ LeadersElected'
  BY <1>1 DEF VoteInv, HardPipeline, LeadersElected
<1>4. VotesRecorded'
  BY <1>1 DEF VoteInv, VotesRecorded
<1>5. VotesUnique'
  BY <1>1 DEF VoteInv, VotesUnique
<1>6. QED BY <1>2, <1>3, <1>4, <1>5 DEF VoteInv

-----------------------------------------------------------------------------
(* The theorems *)

LEMMA InitInv == ASSUME Init PROVE TypeOK /\ VoteInv
<1>1. FreshDisk \in Disk
  BY DEF FreshDisk, Disk, HardState
<1>2. /\ restore(FreshDisk) \in RaftNode
      /\ restore(FreshDisk).hard_state = FreshDisk.hard
      /\ restore(FreshDisk).votes = {} /\ restore(FreshDisk).role = "Follower"
  BY <1>1, RestoreType
<1>3. Idle \in [ops : Seq(Op), out : SUBSET Message]
  BY DEF Idle
<1>4. TypeOK
  BY <1>1, <1>2, <1>3 DEF Init, TypeOK
<1>5. FreshDisk.hard \in HardState
  BY <1>1 DEF Disk
<1>6. ASSUME NEW v \in Node
      PROVE  /\ HardChain(disk[v].hard, pend[v].ops, raft[v].hard_state)
             /\ pend[v].out = {} /\ raft[v].votes = {} /\ raft[v].role = "Follower"
  BY <1>2, <1>5, ChainEmpty DEF Init, Idle
<1>7. HardPipeline
  BY <1>6 DEF HardPipeline, HardChain
<1>8. VotesRecorded /\ VotesUnique /\ LeadersElected
  BY <1>6 DEF VotesRecorded, VotesUnique, LeadersElected, Init
<1>9. QED BY <1>4, <1>7, <1>8 DEF VoteInv

(* One input of a node, from the soundness of its effects. *)
LEMMA InputStep ==
    ASSUME TypeOK, VoteInv, NEW n \in Node, NEW e, Sound(n, raft[n], e),
           on_input(n, e),
           bounds' \in [timeouts : Nat, heartbeats : Nat, crashes : Nat]
    PROVE  TypeOK' /\ VoteInv'
BY InputType, InputVotes

LEMMA NextInv ==
    ASSUME TypeOK, VoteInv, [Next]_vars
    PROVE  TypeOK' /\ VoteInv'
<1>1. CASE UNCHANGED vars
  <2>1. TypeOK'
    BY <1>1 DEF TypeOK, vars
  <2>2. raft' = raft /\ pend' = pend /\ disk' = disk /\ msgs' = msgs
    BY <1>1 DEF vars
  <2>3. HardPipeline' /\ LeadersElected'
    BY <2>2 DEF VoteInv, HardPipeline, LeadersElected
  <2>4. VotesRecorded'
    BY <2>2 DEF VoteInv, VotesRecorded
  <2>5. VotesUnique'
    BY <2>2 DEF VoteInv, VotesUnique
  <2>6. QED BY <2>1, <2>3, <2>4, <2>5 DEF VoteInv
<1>2. CASE Lose
  BY <1>2, LoseStep
<1>3. ASSUME NEW n \in Node,
             \/ ElectionTimeout(n)
             \/ Heartbeat(n)
             \/ CheckQuorum(n)
             \/ \E v \in Value : Propose(n, v)
             \/ \E kind \in {"PreVoteReq", "PreVoteResp", "VoteReq", "VoteResp",
                             "AppendReq", "AppendResp"} : Receive(kind, n)
      PROVE  TypeOK' /\ VoteInv'
  <2>1. /\ raft[n] \in RaftNode
        /\ bounds \in [timeouts : Nat, heartbeats : Nat, crashes : Nat]
        /\ raft[n].role = "Leader" => has_majority(raft[n].votes)
    BY DEF TypeOK, VoteInv, LeadersElected
  <2>2. Prepared(n, raft[n], raft[n], <<>>)
    BY <2>1, StartPrepared
  <2>3. CASE ElectionTimeout(n)
    <3>1. PICK e : e = start_pre_vote(n, raft[n])
      OBVIOUS
    <3>2. Sound(n, raft[n], e)
      BY <2>1, <3>1, StartPreVoteSound
    <3>3. on_input(n, e)
      BY <2>3, <3>1 DEF ElectionTimeout
    <3>4. bounds' \in [timeouts : Nat, heartbeats : Nat, crashes : Nat]
      BY <2>1, <2>3 DEF ElectionTimeout, Timeout
    <3>5. QED BY <3>2, <3>3, <3>4, InputStep
  <2>4. CASE Heartbeat(n)
    <3>1. PICK e : e = Effects(raft[n], <<>>, broadcast_append(n, raft[n]))
      OBVIOUS
    <3>2. Sound(n, raft[n], e)
      BY <2>1, <2>2, <3>1, BroadcastOut, QuietSound
    <3>3. on_input(n, e)
      BY <2>4, <3>1 DEF Heartbeat
    <3>4. bounds' \in [timeouts : Nat, heartbeats : Nat, crashes : Nat]
      BY <2>1, <2>4 DEF Heartbeat
    <3>5. QED BY <3>2, <3>3, <3>4, InputStep
  <2>5. CASE CheckQuorum(n)
    <3> DEFINE q == [raft[n] EXCEPT
                       !.role = IF has_majority(raft[n].heard_quorum) THEN @ ELSE "Follower",
                       !.heard_quorum = {n}]
    <3>1. PICK e : e = Effects(q, <<>>, {})
      OBVIOUS
    <3>2. /\ q \in RaftNode /\ q.hard_state = raft[n].hard_state
          /\ q.votes = raft[n].votes /\ (q.role = "Leader" => raft[n].role = "Leader")
      BY <2>1 DEF RaftNode
    <3>3. on_input(n, e)
      BY <2>5, <3>1 DEF CheckQuorum
    <3> HIDE DEF q
    <3>4. Sound(n, raft[n], e)
      BY <2>2, <3>1, <3>2, NoOut, QuietSound
    <3>5. bounds' \in [timeouts : Nat, heartbeats : Nat, crashes : Nat]
      BY <2>1, <2>5 DEF CheckQuorum, Timeout
    <3>6. QED BY <3>3, <3>4, <3>5, InputStep
  <2>6. ASSUME NEW v \in Value, Propose(n, v)
        PROVE  TypeOK' /\ VoteInv'
    <3> DEFINE x == [term |-> raft[n].hard_state.term, payload |-> v]
               r == [raft[n] EXCEPT !.log = Append(@, x)]
               c == advance_commit(n, r)
               q == [r EXCEPT !.commit_index = c]
    <3>1. PICK e : e = apply_committed(r, c, <<EntriesOp(<<x>>)>>, broadcast_append(n, q))
      OBVIOUS
    <3>2. on_input(n, e) /\ bounds' = bounds
      BY <2>6, <3>1 DEF Propose
    <3>3. x \in Entry /\ raft[n].log \in Seq(Entry)
      BY <2>1 DEF Entry, RaftNode, HardState
    <3> HIDE DEF x
    <3>4. Append(raft[n].log, x) \in Seq(Entry)
      BY <3>3, AppendProperties
    <3>5. /\ r \in RaftNode /\ r.hard_state = raft[n].hard_state
          /\ r.votes = raft[n].votes /\ r.role = raft[n].role
      BY <2>1, <3>4 DEF RaftNode
    <3> HIDE DEF r
    <3>6. c \in Nat
      BY <3>5, AdvanceCommitType
    <3> HIDE DEF c
    <3>7. q \in RaftNode
      BY <3>5, <3>6 DEF RaftNode
    <3> HIDE DEF q
    <3>8. /\ <<EntriesOp(<<x>>)>> \in Seq(Op)
          /\ HardChain(raft[n].hard_state, <<EntriesOp(<<x>>)>>, raft[n].hard_state)
      <4>1. EntriesOp(<<x>>) \in Op /\ EntriesOp(<<x>>).kind = "entries"
        BY <3>3 DEF EntriesOp, Op
      <4> DEFINE new == <<EntriesOp(<<x>>)>>
      <4>2. new \in Seq(Op) /\ \A i \in DOMAIN new : new[i].kind # "hard"
        BY <4>1
      <4>3. <<>> \o new = new
        BY <4>2
      <4> HIDE DEF new
      <4>4. HardChain(raft[n].hard_state, <<>>, raft[n].hard_state) /\ <<>> \in Seq(Op)
        BY <2>2 DEF Prepared
      <4>5. /\ <<>> \o new \in Seq(Op)
            /\ HardChain(raft[n].hard_state, <<>> \o new, raft[n].hard_state)
        BY <4>2, <4>4, ChainPlain
      <4>6. QED BY <4>3, <4>5 DEF new
    <3>9. Prepared(n, raft[n], r, <<EntriesOp(<<x>>)>>)
      BY <2>1, <3>5, <3>8 DEF Prepared, Counted
    <3>10. Sound(n, raft[n], e)
      BY <3>1, <3>6, <3>7, <3>9, BroadcastOut, ApplyCommittedSound
    <3>11. QED BY <2>1, <3>2, <3>10, InputStep
  <2>7. ASSUME NEW kind, Receive(kind, n)
        PROVE  TypeOK' /\ VoteInv'
    <3>1. PICK m \in msgs : n \in m.to /\ bounds' = bounds /\
                            on_input(n, on_message_at(n, raft[n], m))
      BY <2>7 DEF Receive
    <3>2. PICK e : e = on_message_at(n, raft[n], m)
      OBVIOUS
    <3>3. m \in Message
      BY DEF TypeOK
    <3>4. Sound(n, raft[n], e)
      BY <2>1, <3>1, <3>2, <3>3, OnMessageSound
    <3>5. QED BY <2>1, <3>1, <3>2, <3>4, InputStep
  <2>8. QED BY <1>3, <2>3, <2>4, <2>5, <2>6, <2>7
<1>4. ASSUME NEW n \in Node, Persisted(n) PROVE TypeOK' /\ VoteInv'
  BY <1>4, PersistedType, PersistedVotes
<1>5. ASSUME NEW n \in Node, Crash(n) PROVE TypeOK' /\ VoteInv'
  BY <1>5, CrashStep
<1>6. QED BY <1>1, <1>2, <1>3, <1>4, <1>5 DEF Next

(* The state stays well typed, and the votes behind a leader stay durable    *)
(* and unique, through every handler, barrier, crash and lost message.       *)
THEOREM VotesDurableAndUnique == Spec => [](TypeOK /\ VoteInv)
<1>1. Init => TypeOK /\ VoteInv
  BY InitInv
<1>2. TypeOK /\ VoteInv /\ [Next]_vars => (TypeOK /\ VoteInv)'
  BY NextInv
<1>3. QED BY <1>1, <1>2, PTL DEF Spec

(* Every reachable state is well typed: no index of RaftNode leaves the      *)
(* naturals, next_index never reaches 0, and every slice of a log is inside  *)
(* the log (send_append, apply_committed, append_request).                   *)
THEOREM TypeCorrect == Spec => []TypeOK
BY VotesDurableAndUnique, PTL

(* Two majorities of votes in one term share a voter, and a voter gives one  *)
(* vote in a term.                                                           *)
LEMMA OneLeader == ASSUME TypeOK, VoteInv PROVE ElectionSafety
<1> SUFFICES ASSUME NEW a \in Node, NEW b \in Node,
                    raft[a].role = "Leader", raft[b].role = "Leader",
                    raft[a].hard_state.term = raft[b].hard_state.term
             PROVE  a = b
  BY DEF ElectionSafety
<1>1. raft[a].votes \subseteq Node /\ raft[b].votes \subseteq Node
  BY DEF TypeOK, RaftNode
<1>2. has_majority(raft[a].votes) /\ has_majority(raft[b].votes)
  BY DEF VoteInv, LeadersElected
<1>3. IsFiniteSet(Node) /\ IsFiniteSet(raft[a].votes) /\ IsFiniteSet(raft[b].votes)
  BY <1>1, ConstantsOK, FS_Subset
<1>4. /\ Cardinality(Node) \in Nat
      /\ Cardinality(raft[a].votes) \in Nat /\ Cardinality(raft[b].votes) \in Nat
  BY <1>3, FS_CardinalityType
<1>5. Cardinality(raft[a].votes) + Cardinality(raft[b].votes) > Cardinality(Node)
  BY <1>2, <1>4 DEF has_majority
<1>6. PICK v \in Node : v \in raft[a].votes /\ v \in raft[b].votes
  BY <1>1, <1>3, <1>5, FS_MajoritiesIntersect
<1>7. QED BY <1>6 DEF VoteInv, VotesUnique

(* Election safety for every cluster size, log, message order and crash.     *)
THEOREM ElectionSafe == Spec => []ElectionSafety
<1>1. TypeOK /\ VoteInv => ElectionSafety
  BY OneLeader
<1>2. QED BY <1>1, VotesDurableAndUnique, PTL

LEMMA HardForward ==
    ASSUME TypeOK, VoteInv, [Next]_vars, NEW n \in Node
    PROVE  HardLe(disk[n].hard, disk'[n].hard)
<1>1. CASE disk' = disk
  BY <1>1, HardTypes, HardLeReflexive
<1>2. ASSUME NEW v \in Node, Persisted(v)
      PROVE  HardLe(disk[n].hard, disk'[n].hard)
  <2> DEFINE op == Head(pend[v].ops)
  <2>1. pend[v] # Idle /\ op \in Op
    BY <1>2, BarrierInFront DEF Persisted
  <2>2. Records(op) \in 0 .. Records(op)
    BY <2>1, RecordsType
  <2>3. HardLe(disk[v].hard, Written(disk[v], op, Records(op)).hard)
    BY <2>1, <2>2, FrontHard
  <2>4. /\ disk'[v] = Written(disk[v], op, Records(op))
        /\ n # v => disk'[n] = disk[n]
    BY <1>2 DEF Persisted, TypeOK
  <2>5. CASE n = v
    BY <2>3, <2>4, <2>5
  <2>6. CASE n # v
    BY <2>4, <2>6, HardTypes, HardLeReflexive
  <2>7. QED BY <2>5, <2>6
<1>3. ASSUME NEW v \in Node, Crash(v)
      PROVE  HardLe(disk[n].hard, disk'[n].hard)
  <2>1. PICK d \in Disk : /\ disk' = [disk EXCEPT ![v] = d]
                          /\ HardLe(disk[v].hard, d.hard)
    BY <1>3, CrashDisk
  <2>2. disk'[n] = IF n = v THEN d ELSE disk[n]
    BY <2>1 DEF TypeOK
  <2>3. QED BY <2>1, <2>2, HardTypes, HardLeReflexive
<1>4. \/ disk' = disk
      \/ \E v \in Node : Persisted(v) \/ Crash(v)
  <2>1. \A v, e : on_input(v, e) => disk' = disk
    BY DEF on_input
  <2>2. \A v \in Node : ElectionTimeout(v) \/ Heartbeat(v) \/ CheckQuorum(v) => disk' = disk
    BY <2>1 DEF ElectionTimeout, Heartbeat, CheckQuorum
  <2>3. \A v \in Node, x \in Value : Propose(v, x) => disk' = disk
    BY <2>1 DEF Propose
  <2>4. \A v \in Node : \A kind : Receive(kind, v) => disk' = disk
    BY <2>1 DEF Receive
  <2>5. UNCHANGED vars \/ Lose => disk' = disk
    BY DEF vars, Lose
  <2>6. QED BY <2>2, <2>3, <2>4, <2>5 DEF Next
<1>5. QED BY <1>1, <1>2, <1>3, <1>4

(* A disk never goes back to an earlier term and never exchanges a vote, so  *)
(* the replay of Hard records at recovery always succeeds.                   *)
THEOREM HardStateNeverRegresses == Spec => HardStateMonotone
<1>1. TypeOK /\ VoteInv /\ [Next]_vars =>
        [\A n \in Node : HardLe(disk[n].hard, disk'[n].hard)]_vars
  BY HardForward
<1>2. QED BY <1>1, VotesDurableAndUnique, PTL DEF Spec, HardStateMonotone

=============================================================================
