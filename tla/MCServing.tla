----------------------------- MODULE MCServing -----------------------------
(* How a node is served, for TLC, one scene for each component: the threads  *)
(* of the host (DriverHost: a ticker, a peer and two clients, with one place *)
(* in each queue), its connections to a peer (PeerLinks), a connection of a  *)
(* client (ClientConn), and linearizable reads (Reads, by MCReads). A        *)
(* behaviour plays one scene; the variables of the others keep their initial *)
(* values.                                                                   *)
EXTENDS DriverHost, PeerLinks, ClientConn, TLC

CONSTANTS tick, p1, c1, c2, n1, n2, n3

VARIABLES scene, node, msgs, acked, answers, asks

rvars == <<node, msgs, acked, answers, asks>>
all == <<scene, vars, linkvars, connvars, rvars>>

Serve == INSTANCE MCReads WITH
           Node <- {n1, n2, n3}, Leader <- n1, MaxBatch <- 1, MaxPendingReads <- 2,
           MaxPendingPeer <- 2, MaxPendingClient <- 2, replies <- answers, left <- asks

ASSUME Serve!ReadsAssumption

MCLimit == [Timer |-> 1, Peer |-> 1, Client |-> 1]

\* A message of a peer, a write, a read, a request the node refuses, and an
\* administrative one
Recv == <<"io", "send">>
Write == <<"io", "io", "reply">>
Read == <<"reply">>
Refused == <<"refused">>
Administer == <<"admin", "io", "reply">>

Inputs(ts, p, a, b) == (tick :> ts @@ p1 :> p @@ c1 :> a @@ c2 :> b)

\* Inputs of a host that records, and of one that does not
Recorded == {Inputs(<<<<>>>>, <<Recv>>, <<Refused>>, <<>>),
             Inputs(<<>>, <<Recv>>, <<Read>>, <<Write>>)}
Live == {Inputs(<<<<>>>>, <<Recv>>, <<a>>, <<Write>>) : a \in {Read, Refused, Administer}}

\* Two writes that fit a group together and, the larger one, not twice; a DEL
\* of two keys; and a batch under an identity
Plain(is) == [is |-> is, size |-> 0]
WriteOf(n) == [is |-> "Write", size |-> n]
DelOf(n) == [is |-> "Del", n |-> n, size |-> 1]
MCFrames ==
  {Plain(is) : is \in {"Multi", "Exec", "Discard", "Local", "Malformed", "Garbage"}}
    \cup {WriteOf(1), WriteOf(2), DelOf(2)}
    \cup {[is |-> "Request", size |-> 0, id |-> 1,
           of |-> <<[is |-> "Batch", size |-> 0, of |-> <<WriteOf(1), DelOf(1)>>]>>]}

\* Groups may be four frames long, anything else three.
InGroup(f) == f.is \in {"Multi", "Exec", "Write", "Malformed"}
Short == Len(served) + Len(inbox) > 3 =>
           /\ \A k \in 1 .. Len(served) : InGroup(served[k].frame)
           /\ \A k \in 1 .. Len(inbox) : InGroup(inbox[k])

MCInit ==
  /\ scene \in {"host", "links", "client", "reads"}
  /\ IF scene = "host"
     THEN (\E i \in Recorded : Init(i, "on")) \/ (\E i \in Live : Init(i, "none"))
     ELSE Init(Inputs(<<>>, <<>>, <<>>, <<>>), "none")
  /\ LinksInit
  /\ ConnInit /\ (scene # "client" => feature)
  /\ IF scene = "reads" THEN Serve!MCInit ELSE Serve!Nothing

MCNext ==
  \/ scene = "host" /\ Next /\ UNCHANGED <<scene, linkvars, connvars, rvars>>
  \/ scene = "links" /\ LinksNext /\ UNCHANGED <<scene, vars, connvars, rvars>>
  \/ scene = "client" /\ ConnNext /\ Short' /\ UNCHANGED <<scene, vars, linkvars, rvars>>
  \/ scene = "reads" /\ Serve!Next /\ UNCHANGED <<scene, vars, linkvars, connvars>>

Others == Thread \ {Ticker}

Step(t) == Transition(t) \/ Submit(t) \/ Execute(t) \/ Drain(t) \/ Receive(t)

Busy == \E t \in Others : thread[t].pc # "idle"

\* Messages of the read scene are delivered and its writes complete; a thread
\* of the host that has work goes on, and its ticker ticks until it stops.
CanGoOn == (scene = "reads" /\ Serve!CanProgress) \/ (scene = "host" /\ Busy)
GoesOn == (scene = "reads" /\ Serve!Progress) \/ (scene = "host" /\ \E t \in Others : Step(t))
TickerBusy == scene = "host" /\ (thread[Ticker].pc # "idle" \/ ~stopping)
Tick == scene = "host" /\ (Begin(Ticker) \/ Step(Ticker))
Fairness ==
  /\ []<>~CanGoOn \/ []<><<GoesOn>>_<<rvars, vars>>
  /\ <>[]~TickerBusy \/ []<><<Tick>>_vars

MCSpec == MCInit /\ [][MCNext]_all /\ Fairness

\* Reads.LeaderReadsFresh: a read its leader answers in the term it was asked in
\* returns every write acknowledged before (request_read, drain_pending_reads).
LeaderReadsFresh == Serve!LeaderReadsFresh

\* Reads.FollowerReadsSinceRound: a follower read returns every write
\* acknowledged before the round that granted it (finish_follower_read_round).
FollowerReadsSinceRound == Serve!FollowerReadsSinceRound

\* Reads.ReadsAnswered: reads of a leader that keeps leading are answered.
ReadsAnswered == Serve!ReadsAnswered
=============================================================================
