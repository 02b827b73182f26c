----------------------------- MODULE DriverHost -----------------------------
(***************************************************************************)
(* The real host (crates/cc-node): a ticker, a thread for every peer and   *)
(* client connection and the main thread share one Driver behind a mutex,  *)
(* and record what it does in an input journal (CCIJ).                     *)
(*                                                                         *)
(* A thread that delivers an input makes one transition of the Driver      *)
(* under the mutex, executes the effects outside of it, and then drains    *)
(* the inputs the Driver queued behind a durability barrier. What an input *)
(* makes the Driver do is its script, a sequence of                        *)
(*   "io"       a disk operation, whose completion is the next transition  *)
(*   "send"     a message to a peer                                        *)
(*   "reply"    the answer to the client the input came from               *)
(*   "refused"  the node refuses it (NotLeader, FeatureDisabled, Busy)     *)
(* and a transition carries its effects up to the next disk operation.     *)
(*                                                                         *)
(* `made` is history: every transition of the Driver, in order.            *)
(***************************************************************************)
EXTENDS Naturals, Sequences, SequencesExt

CONSTANTS
    Ticker, Peers, Clients,     \* the threads, besides the main one
    Limit,                      \* the bound of each class's queue
    MaxInputs,                  \* max_driver_pending_inputs
    MaxRecords                  \* --record-max-bytes, in records

ASSUME HostAssumption ==
    /\ Ticker \notin Peers \cup Clients /\ Peers \cap Clients = {}
    /\ Limit \in [{"Timer", "Peer", "Client"} -> Nat]
    /\ {MaxInputs, MaxRecords} \subseteq Nat

VARIABLES
    script,         \* what is left of the input whose disk operation is pending
    queue,          \* the Driver's queues
    thread,         \* the threads
    replies,        \* the request whose reply each client has a route for, or 0
    journal,        \* the records of the journal
    recorder,       \* "on" until the recorder is given up
    footer,         \* the journal's footer
    made,           \* the transitions of the Driver
    stopping,       \* host admission is closed
    todo            \* the inputs each connection still has for the host

vars == <<script, queue, thread, replies, journal, recorder, footer, made,
          stopping, todo>>

Thread == {Ticker} \cup Peers \cup Clients

ClassOf(t) == IF t = Ticker THEN "Timer" ELSE IF t \in Peers THEN "Peer" ELSE "Client"

Idle == [pc |-> "idle", input |-> <<>>, req |-> 0, effects |-> <<>>]

NoIo == <<"none">>

-----------------------------------------------------------------------------
(* The Driver *)

\* The effects of one transition, and what waits for the disk
IoAt(s) == {k \in 1..Len(s) : s[k] = "io"}

Now(s) == IF IoAt(s) = {} THEN s ELSE SubSeq(s, 1, Min(IoAt(s)))

Later(s) == IF IoAt(s) = {} THEN NoIo ELSE SubSeq(s, Min(IoAt(s)) + 1, Len(s))

\* An effect and the request, a client and its number, that it is for
Effects(from, s) == [k \in 1..Len(Now(s)) |-> <<Now(s)[k], from>>]

pending_io == script # NoIo

Queued == {"Timer", "Peer", "Client"}

pending_input_count == Len(queue["Timer"]) + Len(queue["Peer"]) + Len(queue["Client"])

\* enqueue refuses when the class, or all of them together, are at their limit.
HasRoom(class) ==
    /\ pending_input_count < MaxInputs
    /\ Len(queue[class]) < Limit[class]

\* deliver_next takes timers before peers, and clients last.
NextClass == IF queue["Timer"] # <<>> THEN "Timer"
             ELSE IF queue["Peer"] # <<>> THEN "Peer" ELSE "Client"

-----------------------------------------------------------------------------
(* The journal *)

\* RecordWriter::append, under the Driver's mutex: a record, or the footer
\* that says the journal is full. Without --record there is no history either.
Record(what) ==
    /\ made' = IF recorder = "none" THEN made ELSE Append(made, what)
    /\ IF recorder # "on" THEN UNCHANGED <<journal, recorder, footer>>
       ELSE IF Len(journal) < MaxRecords
       THEN journal' = Append(journal, what) /\ UNCHANGED <<recorder, footer>>
       ELSE recorder' = "off" /\ footer' = "Capped" /\ UNCHANGED journal

finish_recording(termination) ==
    IF recorder # "on" THEN UNCHANGED <<recorder, footer>>
    ELSE recorder' = "off" /\ footer' = termination

-----------------------------------------------------------------------------
(* What a thread does *)

Become(t, pc, effects) ==
    thread' = [thread EXCEPT ![t] = [@ EXCEPT !.pc = pc, !.effects = effects]]

\* The thread gives up: a client forgets the route of its reply.
Fail(t) ==
    /\ thread' = [thread EXCEPT ![t] = Idle]
    /\ replies' = IF t \in Clients THEN [replies EXCEPT ![t] = 0] ELSE replies

\* A thread has its next input; a client first opens the route of its reply.
\* Where nothing is recorded the ticker goes on forever.
Begin(t) ==
    /\ thread[t].pc = "idle"
    /\ ~stopping
    /\ todo[t] # <<>>
    /\ thread' = [thread EXCEPT ![t] = [Idle EXCEPT !.pc = "deliver",
                                                    !.input = Head(todo[t]),
                                                    !.req = Len(todo[t])]]
    /\ todo' = IF t = Ticker /\ recorder = "none" THEN todo
               ELSE [todo EXCEPT ![t] = Tail(@)]
    /\ replies' = IF t \in Clients THEN [replies EXCEPT ![t] = Len(todo[t])] ELSE replies
    /\ UNCHANGED <<script, queue, journal, recorder, footer, made, stopping>>

\* The Driver takes an input; `from` is the thread it came from, and its number.
Take(t, from, s) ==
    /\ script' = Later(s)
    /\ Record(<<from, s>>)
    /\ Become(t, "execute", Effects(from, s))

Administrative(s) == s # <<>> /\ Head(s) = "admin"

\* transition: behind a disk operation the input is queued; an error of the
\* node ends the recording.
Transition(t) ==
    LET s == thread[t].input
        class == ClassOf(t)
    IN  /\ thread[t].pc = "deliver"
        /\ ~Administrative(s)
        /\ \/ /\ stopping
              /\ Become(t, "execute", <<>>)
              /\ UNCHANGED <<script, queue, replies, journal, recorder, footer, made>>
           \/ /\ ~stopping /\ pending_io /\ HasRoom(class)
              /\ queue' = [queue EXCEPT ![class] = Append(@, <<<<t, thread[t].req>>, s>>)]
              /\ Become(t, "execute", <<>>)
              /\ UNCHANGED <<script, replies, journal, recorder, footer, made>>
           \/ /\ ~stopping /\ pending_io /\ ~HasRoom(class)
              /\ Fail(t)
              /\ UNCHANGED <<script, queue, journal, recorder, footer, made>>
           \/ /\ ~stopping /\ ~pending_io /\ s = <<"refused">>
              /\ finish_recording("HostError")
              /\ Fail(t)
              /\ UNCHANGED <<script, queue, journal, made>>
           \/ /\ ~stopping /\ ~pending_io /\ s # <<"refused">>
              /\ Take(t, <<t, thread[t].req>>, s)
              /\ UNCHANGED <<queue, replies>>
        /\ UNCHANGED <<stopping, todo>>

\* admin_submit and follower_read call the Driver themselves.
Submit(t) ==
    LET s == thread[t].input
    IN  /\ thread[t].pc = "deliver"
        /\ Administrative(s)
        /\ \/ /\ pending_io
              /\ Fail(t)
              /\ UNCHANGED <<script, made>>
           \/ /\ ~pending_io
              /\ script' = Later(Tail(s))
              /\ made' = IF recorder = "none" THEN made
                         ELSE Append(made, <<<<t, thread[t].req>>, s>>)
              /\ Become(t, "execute", Effects(<<t, thread[t].req>>, Tail(s)))
              /\ UNCHANGED replies
        /\ UNCHANGED <<queue, journal, recorder, footer, stopping, todo>>

\* execute_effects, one effect at a time. The completion of a disk operation
\* is a transition of its own; a host that is stopping does not make it.
Execute(t) ==
    LET effects == thread[t].effects
        what == Head(effects)[1]
        from == Head(effects)[2]
    IN  /\ thread[t].pc = "execute"
        /\ \/ /\ effects = <<>>
              /\ Become(t, "drain", <<>>)
              /\ UNCHANGED <<script, replies, journal, recorder, footer, made>>
           \/ /\ effects # <<>> /\ what = "send"
              /\ Become(t, "execute", Tail(effects))
              /\ UNCHANGED <<script, replies, journal, recorder, footer, made>>
           \/ /\ effects # <<>> /\ what = "reply"
              /\ replies' = IF replies[from[1]] = from[2]
                            THEN [replies EXCEPT ![from[1]] = 0] ELSE replies
              /\ Become(t, "execute", Tail(effects))
              /\ UNCHANGED <<script, journal, recorder, footer, made>>
           \/ /\ effects # <<>> /\ what = "io" /\ stopping
              /\ Become(t, "execute", Tail(effects))
              /\ UNCHANGED <<script, replies, journal, recorder, footer, made>>
           \/ /\ effects # <<>> /\ what = "io" /\ ~stopping
              /\ script' = Later(script)
              /\ Record(<<from, "done">>)
              /\ Become(t, "execute", Tail(effects) \o Effects(from, script))
              /\ UNCHANGED replies
        /\ UNCHANGED <<queue, stopping, todo>>

\* The mutant that only looks for timers
drainable_timers == ~pending_io /\ queue["Timer"] # <<>>

Drainable == ~pending_io /\ pending_input_count > 0


RecordDrained(what) == Record(what)

\* drain_admitted takes queued inputs while there is no disk operation, until
\* one of them has no effects. A queued request that the node refuses is
\* answered Busy (deliver_admitted).
Drain(t) ==
    LET from == Head(queue[NextClass])[1]
        s == Head(queue[NextClass])[2]
        effects == IF s = <<"refused">> THEN <<"reply">> ELSE s
    IN  /\ thread[t].pc = "drain"
        /\ \/ /\ ~Drainable
              /\ Become(t, IF t \in Clients THEN "wait" ELSE "idle", <<>>)
              /\ UNCHANGED <<script, queue, journal, recorder, footer, made>>
           \/ /\ Drainable
              /\ queue' = [queue EXCEPT ![NextClass] = Tail(@)]
              /\ script' = Later(effects)
              /\ RecordDrained(<<from, s>>)
              /\ Become(t, IF effects # <<>> THEN "execute"
                           ELSE IF t \in Clients THEN "wait" ELSE "idle",
                        Effects(from, effects))
        /\ UNCHANGED <<replies, stopping, todo>>

\* recv_timeout: the answer, or the end of a client's patience
Receive(t) ==
    /\ thread[t].pc = "wait"
    /\ Fail(t)
    /\ UNCHANGED <<script, queue, journal, recorder, footer, made, stopping, todo>>

\* The main thread closes admission, and then takes the Driver's mutex to
\* write the footer (finish_complete_recording).
Stop ==
    /\ recorder # "none" /\ ~stopping
    /\ stopping' = TRUE
    /\ UNCHANGED <<script, queue, thread, replies, journal, recorder, footer, made, todo>>

Complete ==
    /\ stopping /\ recorder = "on"
    /\ finish_recording("Complete")
    /\ UNCHANGED <<script, queue, thread, replies, journal, made, stopping, todo>>

Init(inputs, record) ==
    /\ script = NoIo
    /\ queue = [class \in Queued |-> <<>>]
    /\ thread = [t \in Thread |-> Idle]
    /\ replies = [t \in Clients |-> 0]
    /\ journal = <<>> /\ made = <<>> /\ footer = "none"
    /\ recorder = record
    /\ stopping = FALSE
    /\ todo = inputs

Next ==
    \/ \E t \in Thread : \/ Begin(t) \/ Transition(t) \/ Submit(t)
                         \/ Execute(t) \/ Drain(t) \/ Receive(t)
    \/ Stop \/ Complete

-----------------------------------------------------------------------------
(* Properties *)


Waiting(t) == \E k \in 1..Len(queue[ClassOf(t)]) : queue[ClassOf(t)][k][1][1] = t

\* Every input that waits behind a disk operation is delivered in the end, if
\* the host does not stop, whichever thread drains the queue: no thread has an
\* input in the queues forever (enqueue, drain_admitted).
AdmittedDelivered ==
    \A t \in Peers \cup Clients : []<>(stopping \/ ~Waiting(t))

=============================================================================
