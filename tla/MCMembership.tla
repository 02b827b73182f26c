----------------------------- MODULE MCMembership -----------------------------
(***************************************************************************)
(* Instances of Membership for TLC.                                        *)
(***************************************************************************)
EXTENDS Membership

Budget(requests, commands, log, term, crashes, checkpoints, late) ==
    [requests |-> requests, commands |-> commands, log |-> log, term |-> term,
     crashes |-> crashes, checkpoints |-> checkpoints, late |-> late]

\* A learner joins, is promoted, and takes the place of a voter.
Replace == {AddLearner(4), EnterJoint({1, 2, 4})}

\* Node 4 is a learner from the start.
Promote ==
    {Budget({EnterJoint({1, 2, 4})}, {}, 4, 2, 1, 0, 0),
     Budget({BeginTransfer(2), EnterJoint({1, 3, 4})}, {}, 4, 1, 0, 1, 0)}

Changes ==
    {Budget(Replace, {}, 3, 1, 0, 0, 1),
     Budget({AddLearner(4), RemoveLearner(4)}, {}, 3, 1, 1, 0, 0),
     Budget({BeginTransfer(2)}, {}, 3, 2, 0, 0, 0),
     Budget({Activate}, {"Batch"}, 3, 2, 0, 1, 0)} \cup Promote

\* A voter is replaced while a client writes; no node fails.
Writes == {Budget(Replace, {"App"}, 4, 1, 0, 0, 0)}

\* Node 1 leads the first term with the vote of node 2.
Elected ==
    LET cand == [Fresh(1) EXCEPT !.role = "Candidate", !.term = 1, !.voted_for = {1},
                                 !.votes = {1, 2}]
    IN  [n \in Node |-> CASE n = 1 -> become_leader(1, cand)
                          [] n = 2 -> [Fresh(2) EXCEPT !.term = 1, !.voted_for = {1}]
                          [] OTHER -> Fresh(n)]

\* It has added node 4 as a learner, and every node has the entry.
Grown ==
    LET lead == Only(append_config(1, Elected[1], AddLearner(4)))
        held(n) == append_request(n, Elected[n], 1, lead).raft
        led == FoldLeft(LAMBDA r, p : append_response(1, r, p, 2), lead, <<2, 3, 4>>)
    IN  [n \in Node |-> IF n = 1 THEN led ELSE follow_commit(n, held(n), led)]

MCInit ==
    /\ budget \in Budgets
    /\ raft = IF budget \in Promote THEN Grown ELSE Elected
    /\ acks = {}

MCSpec == MCInit /\ [][Next]_vars
===============================================================================
