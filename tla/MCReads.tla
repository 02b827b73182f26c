------------------------------- MODULE MCReads -------------------------------
(* Reads for TLC: three nodes, of which the first leads.                      *)
EXTENDS Reads

Budget(w, r, f, h, e, g) ==
    [writes |-> w, reads |-> r, follows |-> f, heartbeats |-> h,
     elections |-> e, forgets |-> g]

Nothing == Init(Budget(0, 0, 0, 0, 0, 0), FALSE)

\* writes, reads, follower reads, heartbeats, elections, forgotten peers; and
\* whether the first leader may already have a successor
MCInit ==
    \/ Init(Budget(1, 1, 0, 0, 0, 0), TRUE)
    \/ Init(Budget(1, 0, 1, 0, 0, 0), FALSE)
    \/ Init(Budget(0, 1, 1, 0, 0, 0), TRUE)
    \/ Init(Budget(0, 2, 0, 1, 0, 0), FALSE)
    \/ Init(Budget(0, 1, 0, 0, 1, 0), FALSE)
    \/ Init(Budget(0, 0, 1, 0, 1, 0), FALSE)
    \/ Init(Budget(0, 0, 2, 0, 0, 1), FALSE)

Progress == (\E m \in msgs : Deliver(m)) \/ (\E n \in Node : Persisted(n))

CanProgress == (\E m \in msgs : Idle(m.to)) \/ (\E n \in Node : ~Idle(n))

\* One write and two reads of the followers
FollowerSpec == Init(Budget(1, 0, 2, 0, 0, 0), FALSE) /\ [][Next]_vars
=============================================================================
