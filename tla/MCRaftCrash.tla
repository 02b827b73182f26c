---------------------------- MODULE MCRaftCrash ----------------------------
(* RaftCore with crashes, for TLC, in three scenes: "race", the elections   *)
(* of three voters (RaftCore itself), and, with variables of their own,     *)
(* "pair", two voters from the start with every interleaving of the fsyncs, *)
(* and "trio", three voters from the first election on (MCRaftCore). A      *)
(* behaviour plays one scene; the variables of the others keep their        *)
(* initial values.                                                          *)
EXTENDS RaftCore, TLC

CONSTANTS n1, n2, n3

VARIABLES scene, traft, tpend, tdisk, tmsgs, tbounds

tvars == <<traft, tpend, tdisk, tmsgs, tbounds>>

Pair == INSTANCE RaftCore WITH
          Node <- {n1, n2}, MaxInFlight <- 3, MaxLog <- 2,
          raft <- traft, pend <- tpend, disk <- tdisk, msgs <- tmsgs, bounds <- tbounds

Trio == INSTANCE MCRaftCore WITH
          MaxInFlight <- 2, MaxLog <- 3,
          raft <- traft, pend <- tpend, disk <- tdisk, msgs <- tmsgs, bounds <- tbounds

Race == INSTANCE MCRaftCore

MCInit ==
    /\ scene \in {"race", "pair", "trio"}
    /\ Init
    /\ CASE scene = "race" -> Trio!Init
         [] scene = "pair" -> Pair!Init
         [] scene = "trio" -> Trio!Elected

(* The steps of Next that elect.  No message is lost: one that is never      *)
(* delivered is as good as lost.                                             *)
RaceNext ==
    \E n \in Node :
        \/ ElectionTimeout(n)
        \/ \E kind \in {"PreVoteReq", "PreVoteResp", "VoteReq", "VoteResp"} : Receive(kind, n)
        \/ Persisted(n)
        \/ Crash(n)

MCNext ==
    \/ scene = "race" /\ RaceNext /\ UNCHANGED <<scene, tvars>>
    \/ scene = "pair" /\ Pair!Next /\ UNCHANGED <<scene, vars>>
    \/ scene = "trio" /\ Trio!MCNext /\ UNCHANGED <<scene, vars>>

MCSpec == MCInit /\ [][MCNext]_<<scene, vars, tvars>>

Symmetry == Permutations({n1, n2, n3})

View ==
    CASE scene = "race" -> <<scene, [n \in Node |-> Race!Read(n)], pend, disk, msgs, bounds>>
      [] scene = "pair" -> <<scene, tvars>>
      [] scene = "trio" -> <<scene, Trio!LogView>>

\* RaftCore.AppliedOnQuorumDisks, of two voters and of three: what a node has
\* applied is in the durable logs of a majority (map_effects, Persisted).
AppliedSurvives ==
    /\ scene = "pair" => Pair!AppliedOnQuorumDisks
    /\ scene = "trio" => Trio!AppliedOnQuorumDisks
=============================================================================
