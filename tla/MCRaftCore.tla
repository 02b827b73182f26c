----------------------------- MODULE MCRaftCore -----------------------------
(***************************************************************************)
(* RaftCore for TLC.                                                       *)
(***************************************************************************)
EXTENDS RaftCore, TLC

Symmetry == Permutations(Node)

(* A barrier of a node touches that node's disk only, and its messages may   *)
(* wait in the network as well as behind the barrier: once a node has        *)
(* started a chain, the chain runs to its end or to a crash before another   *)
(* node moves.  Every MCNext step is a Next step.                            *)
Waiting == {n \in Node : pend[n] # Idle}

MCNext == IF Waiting = {} THEN Next
          ELSE \E n \in Waiting : Persisted(n) \/ Crash(n)

(* A run that starts once the first leader is elected, by the least          *)
(* majority: its entry is on its own disk and on its way to the others, the  *)
(* votes are on the voters' disks, and the rest has heard nothing.           *)
Elected ==
    \E l \in Node, Q \in SUBSET Node :
        LET hard == Vote(1, l)
            cand == [restore(FreshDisk) EXCEPT !.role = "Candidate", !.votes = Q,
                                               !.hard_state = hard]
            e    == become_leader(l, cand, <<>>)
            lead == e.raft
        IN  /\ l \in Q /\ has_majority(Q) /\ ~has_majority(Q \ {l})
            /\ disk = [n \in Node |->
                  [FreshDisk EXCEPT !.hard = IF n \in Q THEN hard ELSE @,
                                    !.log = IF n = l THEN lead.log ELSE @]]
            /\ raft = [n \in Node |-> IF n = l THEN lead ELSE restore(disk[n])]
            /\ pend = [n \in Node |-> Idle]
            /\ msgs = e.out
            /\ bounds = [timeouts |-> 1, heartbeats |-> 0, crashes |-> 0]

MCSpecElected == Elected /\ [][MCNext]_vars

(* Fields that are assigned before they are next read do not tell states     *)
(* apart: the replication progress of a node that is not the leader, and the *)
(* pre-votes of a node that has no pre-vote round for its next term in the   *)
(* network.                                                                  *)
PreVoting(n) ==
    \E m \in msgs : /\ m.kind \in {"PreVoteReq", "PreVoteResp"}
                    /\ m.term = raft[n].hard_state.term + 1
                    /\ n \in m.to \cup {m.from}

Read(n) ==
    LET leads == raft[n].role = "Leader"
    IN  [raft[n] EXCEPT
           !.pre_votes    = IF PreVoting(n) THEN @ ELSE {},
           !.heard_quorum = IF leads THEN @ ELSE {},
           !.next_index   = IF leads THEN @ ELSE <<>>,
           !.match_index  = IF leads THEN @ ELSE <<>>]

(* The votes of a node that is not a candidate are not read by a handler.    *)
Voteless(n) == [Read(n) EXCEPT !.votes = IF raft[n].role = "Candidate" THEN @ ELSE {}]

LogView == <<[n \in Node |-> Voteless(n)], pend, disk, msgs, bounds>>
=============================================================================
