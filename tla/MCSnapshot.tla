------------------------------ MODULE MCSnapshot ------------------------------
(***************************************************************************)
(* Instances of SnapshotTransfer for TLC.                                  *)
(***************************************************************************)
EXTENDS SnapshotTransfer

\* The leader of term 2 has an entry of term 1 and one of its own
ShortLog == <<1, 2>>

\* A follower that has a prefix of it
Behind == {<<1>>}

\* A follower whose last entries lost the election: a leader of term 1 gave
\* them to it and to nobody else
Diverged == {<<1, 1, 1>>}

Budget(faults, crashes, leaders, early, transfers, applied) ==
    [faults |-> faults, crashes |-> crashes, leaders |-> leaders, early |-> early,
     transfers |-> transfers, applied |-> applied]

\* What may go wrong: a fault and a crash, a fault and an early heartbeat, a
\* change of the leader, and a crash alone
Pairs ==
    {Budget(1, 1, 0, 0, 2, 0), Budget(1, 0, 0, 1, 2, 0), Budget(0, 0, 1, 0, 2, 1),
     Budget(0, 1, 0, 0, 3, 1)}

\* What goes wrong when the follower's log diverges
Troubles == {Budget(1, 0, 0, 1, 2, 1), Budget(0, 1, 0, 0, 2, 1)}
===============================================================================
