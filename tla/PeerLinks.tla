----------------------------- MODULE PeerLinks -----------------------------
(***************************************************************************)
(* The evidence a real host (crates/cc-node) keeps of what one peer can    *)
(* do. Every connection to the peer, accepted or opened, is a thread of    *)
(* its own: it publishes what CCHL negotiated before it serves, and        *)
(* withdraws it when it closes. The evidence lives in two places, each     *)
(* behind its own mutex: the capability in the Driver's node, and the      *)
(* number of links that prove it.                                          *)
(***************************************************************************)
EXTENDS Naturals, FiniteSets

CONSTANT Conn           \* connections to the peer

ASSUME ConnAssumption == IsFiniteSet(Conn)

VARIABLES
    pc,                 \* where each connection's thread is
    peer_links,         \* DriverHost.peer_links of the peer
    capable             \* the node has a capability for the peer

linkvars == <<pc, peer_links, capable>>

LinksInit ==
    /\ pc = [c \in Conn |-> "closed"]
    /\ peer_links = 0
    /\ capable = FALSE

Goto(c, where) == pc' = [pc EXCEPT ![c] = where]

\* observe_peer_capability: the Driver first, the count after it.
Observe(c) ==
    /\ pc[c] = "closed"
    /\ capable' = TRUE
    /\ Goto(c, "count")
    /\ UNCHANGED peer_links

Count(c) ==
    /\ pc[c] = "count"
    /\ peer_links' = peer_links + 1
    /\ Goto(c, "serving")
    /\ UNCHANGED capable

\* The connection fails, or its peer closes it.
Close(c) ==
    /\ pc[c] = "serving"
    /\ Goto(c, "release")
    /\ UNCHANGED <<peer_links, capable>>

\* The mutant that never withdraws the evidence of the last link
release_keeps_last(c) ==
    /\ pc[c] = "release"
    /\ peer_links' = IF peer_links >= 1 THEN peer_links - 1 ELSE 0
    /\ Goto(c, IF peer_links >= 1 THEN "closed" ELSE "withdraw")
    /\ UNCHANGED capable

\* forget_peer_capability: while another link remains, the count alone
Release(c) ==
    /\ pc[c] = "release"
    /\ peer_links' = IF peer_links > 0 THEN peer_links - 1 ELSE 0
    /\ Goto(c, IF peer_links > 1 THEN "closed" ELSE "withdraw")
    /\ UNCHANGED capable

Withdraw(c) ==
    /\ pc[c] = "withdraw"
    /\ capable' = FALSE
    /\ Goto(c, "closed")
    /\ UNCHANGED peer_links

LinksNext == \E c \in Conn : Observe(c) \/ Count(c) \/ Close(c) \/ Release(c) \/ Withdraw(c)

LinksSpec == LinksInit /\ [][LinksNext]_linkvars

Settled == \A c \in Conn : pc[c] \in {"closed", "serving"}

\* A closed connection never continues to authorize anything: when no
\* connection is left, the node has no capability for the peer, whatever the
\* order in which the threads opened and closed theirs (observe_ and
\* forget_peer_capability).
NoStaleCapability == Settled /\ capable => \E c \in Conn : pc[c] = "serving"

=============================================================================
