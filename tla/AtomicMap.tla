----------------------------- MODULE AtomicMap -----------------------------
(* What the derived store promises to the node above it: a map that changes  *)
(* by whole batches, one at a time. A batch that was offered and not yet     *)
(* committed may be lost; nothing else ever changes what a reader sees.      *)
EXTENDS Naturals, Sequences

CONSTANTS Key, Mutations   \* as in Store

VARIABLES map,     \* the value of each key: a set of at most one number
          count,   \* mutations so far: the n-th one writes the value n
          offered  \* the batch in flight, at most one

vars == <<map, count, offered>>

Last(batch, k) == {i \in 1 .. Len(batch) :
                     /\ batch[i].key = k
                     /\ \A j \in i + 1 .. Len(batch) : batch[j].key # k}

Init == map = [k \in Key |-> {}] /\ count = 0 /\ offered = {}

Offer ==
  /\ offered = {}
  /\ \E batch \in Mutations : offered' = {batch}
  /\ UNCHANGED <<map, count>>

Commit ==
  \E batch \in offered :
    /\ map' = [k \in Key |-> IF Last(batch, k) = {} THEN map[k]
                             ELSE {count + i : i \in {j \in Last(batch, k) : batch[j].kind = "Put"}}]
    /\ count' = count + Len(batch)
    /\ offered' = {}

Lose == offered # {} /\ offered' = {} /\ UNCHANGED <<map, count>>

Next == Offer \/ Commit \/ Lose

Spec == Init /\ [][Next]_vars
=============================================================================
