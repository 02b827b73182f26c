----------------------------- MODULE MCMachine -----------------------------
(* The replicated state machine for TLC, in three scenes: the key/value      *)
(* machine ("kv", KvMachine itself), and the session table in front of it,   *)
(* once with retries of every kind ("retries") and once with tight limits    *)
(* ("limits"). A behaviour plays one scene; the variables of the others keep *)
(* their initial values.                                                     *)
EXTENDS KvMachine

CONSTANTS a, b

VARIABLES scene, table, log, clock, now, count, done, active, entry, bounds

svars == <<table, log, clock, now, count, done, active, entry, bounds>>

TwoData == {<<1>>, <<10>>}

\* A batch may write a number or something else, with or without a deadline,
\* read it, and fail to increment it.
InBatch ==
    {[op |-> "Set", key |-> 1, value |-> <<10>>, ttl |-> None],
     [op |-> "Set", key |-> 1, value |-> <<1>>, ttl |-> 1],
     [op |-> "Incr", key |-> 1, delta |-> 1],
     [op |-> "Get", key |-> 1]}

\* One user, one administrator, two commands, room for everything, a restore
Retries == INSTANCE SessionTable WITH
    User <- {1}, Admin <- {4}, Cmd <- {a, b}, ReplySizes <- {1}, MaxSeq <- 2, MaxTime <- 3,
    LastRequest <- 3, MaxEntries <- 3, MaxRestore <- 1, MaxLeaders <- 0, Idle <- 2,
    Grace <- 1, MaxSessions <- 3, MaxTombstones <- 3, MaxBytes <- 20, MaxReply <- 1,
    MaxSweep <- 2, MaxUncommitted <- 1, last <- entry

\* Three sessions, room for two, for one tombstone and for three bytes
Limits == INSTANCE SessionTable WITH
    User <- {1, 2}, Admin <- {4}, Cmd <- {a}, ReplySizes <- {0, 1}, MaxSeq <- 1, MaxTime <- 4,
    LastRequest <- 2, MaxEntries <- 3, MaxRestore <- 0, MaxLeaders <- 1, Idle <- 1,
    Grace <- 1, MaxSessions <- 2, MaxTombstones <- 1, MaxBytes <- 3, MaxReply <- 1,
    MaxSweep <- 1, MaxUncommitted <- 2, last <- entry

ASSUME Retries!SessionConstants /\ Limits!SessionConstants

MCInit ==
    /\ scene \in {"kv", "retries", "limits"}
    /\ Init
    /\ IF scene = "limits" THEN Limits!Init ELSE Retries!Init

MCNext ==
    \/ scene = "kv" /\ Next /\ UNCHANGED <<scene, svars>>
    \/ scene = "retries" /\ Retries!Next /\ UNCHANGED <<scene, vars>>
    \/ scene = "limits" /\ Limits!Next /\ UNCHANGED <<scene, vars>>

\* The host goes on: see SessionTable.FairSpec.
Fairness ==
    WF_svars(scene = "limits" /\ (Limits!Advance \/ Limits!ProposeSweep \/ Limits!Apply))

MCSpec == MCInit /\ [][MCNext]_<<scene, vars, svars>> /\ Fairness

\* No action reads reply, wrote and last, and entry only for Running: the rest of them
\* is there for the action properties, which TLC evaluates on every step.
View ==
    CASE scene = "kv"      -> <<scene, kv, peer>>
      [] scene = "retries" -> <<scene, table, log, clock, now, count, done, active, bounds,
                                Retries!Running>>
      [] scene = "limits"  -> <<scene, table, log, clock, now, bounds, Limits!Running>>

\* Exactly once, inside its window: whatever is retried, reordered, swept or
\* restored, no request is executed again (SessionTable.NotAgain), and one that
\* is answered without being executed gets the answer of the execution of that
\* very request (SessionTable.SameAnswer; apply_user).
ExactlyOnce == [][scene = "retries" => Retries!NotAgain /\ Retries!SameAnswer]_svars

\* SessionTable.SessionsForgotten: every session is forgotten in the end.
SessionsForgotten ==
    <>[](scene = "limits" /\ Limits!Running =>
           Limits!Recorded(table) = {} /\ Limits!Entombed(table) = {})
=============================================================================
