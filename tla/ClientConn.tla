----------------------------- MODULE ClientConn -----------------------------
(***************************************************************************)
(* One client connection of a real host (crates/cc-node, serve_client):    *)
(* RESP frames arrive and are taken in order, each is answered before the  *)
(* next is taken, and MULTI/EXEC groups are queued on the connection until *)
(* EXEC submits them to the Driver as one batch.                           *)
(*                                                                         *)
(* A frame is a record whose `is` says what parse and parse_command of     *)
(* crates/cc-resp make of it:                                              *)
(*   "Multi" "Exec" "Discard"                                              *)
(*   "Write" "Read"  a command that simple_kv or set_kv knows              *)
(*   "Query"         EXISTS and SCAN: submitted, but not batchable         *)
(*   "Del"           of n keys                                             *)
(*   "Batch"         a nested array of the frames `of`                     *)
(*   "Request"       CC.REQUEST with the identity `id` around the frame in *)
(*                   `of`; 0 is the identity that is not allowed           *)
(*   "Local"         what the host answers by itself, also what it refuses *)
(*   "Malformed"     an array that is no command                           *)
(*   "Garbage"       no RESP frame, or one over the limit                  *)
(* `size` is the length of the command's CCKV encoding.                    *)
(*                                                                         *)
(* `served` is history: every frame taken, its answer and what was         *)
(* submitted for it.                                                       *)
(***************************************************************************)
EXTENDS Naturals, Sequences

CONSTANTS Frames,              \* the frames a client may send
          MaxBatchCommands,    \* ClusterPolicy::max_batch_commands
          MaxBatchBytes,       \* ClusterPolicy::max_batch_bytes
          MaxPipeline,         \* bound: frames that wait at a time
          MaxFrames            \* bound: frames of a behaviour

ASSUME ClientAssumption ==
    /\ MaxBatchCommands \in Nat /\ MaxBatchBytes \in Nat
    /\ \A f \in Frames : f.size \in Nat

VARIABLES inbox,        \* frames that have arrived whole
          open,         \* the connection is open
          transaction,  \* Option<ClientTransaction>
          feature,      \* ATOMIC_BATCH has committed
          serves,       \* DriverHost::serves_clients
          served        \* history

connvars == <<inbox, open, transaction, feature, serves, served>>

NoTransaction == [state |-> "none", commands |-> <<>>, encoded_bytes |-> 0]
Dirty == [NoTransaction EXCEPT !.state = "dirty"]
Clean(commands, bytes) == [state |-> "clean", commands |-> commands, encoded_bytes |-> bytes]

ConnInit ==
    /\ inbox = <<>> /\ open = TRUE /\ served = <<>>
    /\ transaction = NoTransaction
    /\ feature \in BOOLEAN /\ serves = TRUE

\* simple_kv and set_kv: a frame that is one command of the state machine.
simple_kv(f) == f.is \in {"Write", "Read"}

\* queue_transaction_command
batchable(f) == simple_kv(f) \/ (f.is = "Del" /\ f.n = 1)

\* batch_kv: refused when it is empty or has a child that is not batchable.
batch_kv(f) == /\ f.of # <<>>
               /\ \A i \in 1 .. Len(f.of) : batchable(f.of[i])

\* explicit_write_kv: one state-changing command, or a batch.
explicit_write_kv(f) == \/ simple_kv(f) /\ f.is # "Read"
                        \/ f.is = "Del" /\ f.n = 1
                        \/ f.is = "Batch" /\ batch_kv(f)

Submission(session, commands) == [session |-> session, commands |-> commands]

\* execute_explicit_request: one submission, under the caller's identity.
execute_explicit_request(f) ==
    IF f.id # 0 /\ explicit_write_kv(f.of[1])
    THEN <<Submission({f.id}, IF f.of[1].is = "Batch" THEN f.of[1].of ELSE f.of)>>
    ELSE <<>>

\* What execute_client_immediate submits to the Driver, in order.
submissions(f) ==
    CASE simple_kv(f) \/ f.is = "Query" -> <<Submission({}, <<f>>)>>
      [] f.is = "Del" -> [i \in 1 .. f.n |-> Submission({}, <<f>>)]
      [] f.is = "Batch" /\ batch_kv(f) -> <<Submission({}, f.of)>>
      [] f.is = "Request" -> execute_explicit_request(f)
      [] OTHER -> <<>>

Consume(tx, answer, made) ==
    /\ inbox' = Tail(inbox)
    /\ transaction' = tx
    /\ served' = Append(served, [frame |-> Head(inbox), answer |-> answer, made |-> made])
    /\ UNCHANGED <<feature, serves>>

Answer(tx, answer, made) == Consume(tx, answer, made) /\ UNCHANGED open

Hangup(answer) == open' = FALSE /\ Consume(transaction, answer, <<>>)

-----------------------------------------------------------------------------
Multi ==
    \/ transaction.state # "none" /\ Answer(transaction, "error", <<>>)
    \/ transaction.state = "none" /\ ~feature /\ Answer(transaction, "error", <<>>)
    \/ transaction.state = "none" /\ feature /\ Answer(Clean(<<>>, 0), "OK", <<>>)

Discard ==
    Answer(NoTransaction, IF transaction.state = "none" THEN "error" ELSE "OK", <<>>)

\* An empty group submits nothing; a submission may fail.
execute_transaction(commands) ==
    IF commands = <<>> THEN Answer(NoTransaction, "reply", <<>>)
    ELSE \E answer \in {"reply", "error"} :
           Answer(NoTransaction, answer, <<Submission({}, commands)>>)

\* take_exec_plan: the queue is gone whatever comes of it.
Exec ==
    \/ transaction.state # "clean" /\ Answer(NoTransaction, "error", <<>>)
    \/ transaction.state = "clean" /\ execute_transaction(transaction.commands)

\* The mutant that leaves the group clean after a command it refused
queue_refused_stays_clean(f) ==
    LET bytes == transaction.encoded_bytes + f.size
        fits == Len(transaction.commands) < MaxBatchCommands /\ bytes <= MaxBatchBytes
    IN IF batchable(f) /\ transaction.state = "clean" /\ fits
       THEN Answer(Clean(Append(transaction.commands, f), bytes), "QUEUED", <<>>)
       ELSE Answer(transaction, "error", <<>>)

queue_client_transaction(f) ==
    LET bytes == transaction.encoded_bytes + f.size
        fits == Len(transaction.commands) < MaxBatchCommands /\ bytes <= MaxBatchBytes
    IN IF batchable(f) /\ transaction.state = "clean" /\ fits
       THEN Answer(Clean(Append(transaction.commands, f), bytes), "QUEUED", <<>>)
       ELSE Answer(Dirty, "error", <<>>)

\* execute_client_immediate: the first submission that fails ends it, and the
\* client cannot tell how many came before.
Immediate(f) ==
    LET made == submissions(f)
    IN \/ Answer(transaction, "reply", made)
       \/ \E n \in 1 .. Len(made) : Answer(transaction, "error", SubSeq(made, 1, n))
       \/ made = <<>> /\ Answer(transaction, "error", <<>>)

execute_client(f) ==
    CASE f.is = "Multi" -> Multi
      [] f.is = "Discard" -> Discard
      [] f.is = "Exec" -> Exec
      [] OTHER -> IF transaction.state = "none" THEN Immediate(f) ELSE queue_client_transaction(f)

\* One turn of its inner loop.
serve_client ==
    /\ open /\ inbox # <<>>
    /\ LET f == Head(inbox)
       IN CASE f.is = "Garbage" -> Hangup("error")
            [] f.is # "Garbage" /\ ~serves -> Hangup("error")
            [] f.is = "Malformed" /\ serves ->
                 Answer(IF transaction.state = "none" THEN transaction ELSE Dirty, "error", <<>>)
            [] OTHER -> execute_client(f)

\* Bytes arrive until a frame is whole; whoever reads takes all whole frames
\* before it reads again.
Arrive ==
    /\ open /\ Len(inbox) < MaxPipeline /\ Len(inbox) + Len(served) < MaxFrames
    /\ \E f \in Frames : inbox' = Append(inbox, f)
    /\ UNCHANGED <<open, transaction, feature, serves, served>>

\* The client goes away, or the host stops: the queue goes with the connection.
Disconnect ==
    /\ open /\ open' = FALSE
    /\ UNCHANGED <<inbox, transaction, feature, serves, served>>

\* Elsewhere: the feature is activated, the node is removed from the cluster.
Activated ==
    /\ ~feature /\ feature' = TRUE
    /\ UNCHANGED <<inbox, open, transaction, serves, served>>

Removed ==
    /\ serves /\ serves' = FALSE
    /\ UNCHANGED <<inbox, open, transaction, feature, served>>

ConnNext == serve_client \/ Arrive \/ Disconnect \/ Activated \/ Removed

ConnSpec == ConnInit /\ [][ConnNext]_connvars

-----------------------------------------------------------------------------
\* The frames from a to b that were queued, in order, are those of `commands`.
QueuedIn(a, b) == {k \in a .. b : served[k].answer = "QUEUED"}

Lists(commands, a, b) ==
    \E at \in [1 .. Len(commands) -> QueuedIn(a, b)] :
        /\ \A m, n \in 1 .. Len(commands) : m < n => at[m] < at[n]
        /\ \A k \in QueuedIn(a, b) : \E n \in 1 .. Len(commands) : at[n] = k
        /\ \A n \in 1 .. Len(commands) : commands[n] = served[at[n]].frame

\* A group was begun at i, and no frame up to j was refused or ended it; only
\* a nested MULTI is answered with an error and leaves the group as it was.
Undisturbed(i, j) ==
    /\ served[i].frame.is = "Multi" /\ served[i].answer = "OK"
    /\ \A k \in i + 1 .. j : \/ served[k].answer = "QUEUED"
                             \/ served[k].frame.is = "Multi" /\ served[k].answer = "error"

\* What EXEC submits is one batch without an identity, made of all the commands
\* that were answered QUEUED since the MULTI that began the group, in their
\* order, and nothing in the group was refused: a group with a command that
\* could not be queued never reaches Raft (take_exec_plan).
ExecIsTheGroup ==
    \A j \in 1 .. Len(served) :
        served[j].frame.is = "Exec" /\ served[j].made # <<>> =>
            \E i \in 1 .. j - 1 :
                /\ Undisturbed(i, j - 1)
                /\ Len(served[j].made) = 1
                /\ served[j].made[1].session = {}
                /\ Lists(served[j].made[1].commands, i + 1, j - 1)

\* Nothing is executed inside a group: between the MULTI that began it and the
\* EXEC or DISCARD that ends it, no frame submits anything, and what DISCARD or
\* a refused EXEC drops is never submitted (execute_client).
GroupsSubmitNothing ==
    \A j \in 1 .. Len(served) :
        served[j].made # <<>> /\ served[j].frame.is # "Exec" =>
            \A i \in 1 .. j - 1 :
                served[i].frame.is = "Multi" /\ served[i].answer = "OK" =>
                    \E k \in i + 1 .. j - 1 : served[k].frame.is \in {"Exec", "Discard"}

\* The commands of a group reach Raft together, at its EXEC, or not at all.
GroupWholeOrNothing == ExecIsTheGroup /\ GroupsSubmitNothing
=============================================================================
