----------------------------- MODULE SessionTable -----------------------------
(***************************************************************************)
(* The replicated retry table of cc-cluster.  A request carries a session   *)
(* and a sequence number; the table remembers the last request of each      *)
(* session and its reply, so that a retry is answered and not executed      *)
(* again.  An idle session becomes a tombstone, which refuses the session   *)
(* for a grace period, and is then forgotten.                               *)
(*                                                                         *)
(* The leader admits a request against the table as it has applied it and   *)
(* the requests in its log; a later step applies the entry.  Retries,       *)
(* duplicates and requests that arrive late are requests like the others,   *)
(* in any order.  The state machine under the table is a counter: executing *)
(* a request increments it and answers the new count, so no two executions  *)
(* answer the same.                                                         *)
(***************************************************************************)
EXTENDS Integers, FiniteSets, FiniteSetsExt, SequencesExt

CONSTANTS
    User, Admin,    \* the sessions of the two namespaces, sets of naturals
    MaxSeq,         \* sequence numbers are 1..MaxSeq
    Cmd,            \* the commands a request may carry
    MaxTime,        \* bound: clock readings are 0..MaxTime
    LastRequest,    \* bound: the clock reading after which clients are silent
    MaxEntries,     \* bound: number of requests in the log, applied or not
    MaxRestore,     \* bound: number of restores from a backup
    MaxLeaders,     \* bound: number of new leaders, whose clocks may be behind or ahead
    ReplySizes,      \* the sizes a reply may have
    Idle,           \* session_idle_ns of the cluster policy
    Grace,          \* session_retry_grace_ns
    MaxSessions,    \* max_sessions
    MaxTombstones,  \* max_session_tombstones
    MaxBytes,       \* max_session_bytes
    MaxReply,       \* max_reply_bytes: what a reply is expected to need
    MaxSweep,       \* max_keys_per_expiry_sweep
    MaxUncommitted, \* max_uncommitted_entries of the host
    None            \* no record, no tombstone, no pinned session

VARIABLES
    table,          \* SessionTable: records and tombstones
    log,            \* the entries that are proposed and not applied
    clock,          \* the reading of the leader's clock
    now,            \* the log time: the greatest reading in an applied entry
    count,          \* the state machine
    done,           \* per session: its last execution (history)
    active,         \* per session: log time its record was last touched (history)
    last,           \* the last entry applied: request, reply, executed or not
    bounds          \* requests, restores and new leaders so far

vars == <<table, log, clock, now, count, done, active, last, bounds>>

SessionKey == User \cup Admin
Time == 0 .. MaxTime
Seqs == 1 .. MaxSeq

\* Every command has size 1; a reply has the size it is given.
Record == [max_seq : Seqs, cmd : Cmd, reply : Nat, size : Nat, last_active : Time]
Tombstone == [max_seq : Seqs, expires_at : Nat]

SessionConstants ==
    /\ User \subseteq Nat /\ Admin \subseteq Nat /\ User \cap Admin = {}
    /\ IsFiniteSet(SessionKey)
    /\ MaxSeq \in Nat /\ MaxTime \in Nat /\ LastRequest \in Nat /\ MaxEntries \in Nat
    /\ MaxRestore \in Nat
    /\ MaxLeaders \in Nat /\ ReplySizes \subseteq Nat
    /\ Idle \in Nat \ {0} /\ Grace \in Nat \ {0} /\ MaxSessions \in Nat \ {0}
    /\ MaxTombstones \in Nat \ {0} /\ MaxBytes \in Nat \ {0}
    /\ MaxReply \in Nat \ {0} /\ MaxSweep \in Nat \ {0} /\ MaxUncommitted \in Nat \ {0}
    /\ None \notin Nat

----------------------------------------------------------------------------
(* The table *)

Fresh == [records |-> [k \in SessionKey |-> None], tombstones |-> [k \in SessionKey |-> None]]

Recorded(T) == {k \in SessionKey : T.records[k] # None}
Entombed(T) == {k \in SessionKey : T.tombstones[k] # None}

Size(rec) == IF rec = None THEN 0 ELSE 1 + rec.size

encoded_bytes(T) == MapThenSumSet(LAMBDA k : Size(T.records[k]), SessionKey)

\* Tombstones whose grace is over at the time of an entry are dropped first.
lift_tombstones(T, at) ==
    [T EXCEPT !.tombstones =
        [k \in SessionKey |-> IF @[k] # None /\ @[k].expires_at <= at THEN None ELSE @[k]]]

\* A session that was idle for longer than the policy allows at time at.  The
\* code subtracts with saturation: a reading before last_active is not idle.
IdleAt(rec, at) == at - rec.last_active > Idle

idle_deadline(rec) == rec.last_active + Idle

\* The result of applying one entry.
Result(T, reply, executed) == [table |-> T, reply |-> reply, executed |-> executed]
Refuse(T, why) == Result(T, <<"Error", why>>, FALSE)

touch(T, k, at) == [T EXCEPT !.records[k].last_active = at]

remember(T, k, s, c, at, answer, size) ==
    [T EXCEPT !.records[k] = [max_seq |-> s, cmd |-> c, reply |-> answer,
                              size |-> size, last_active |-> at]]

entomb(T, k, until) ==
    [T EXCEPT !.records[k] = None,
              !.tombstones[k] = [max_seq |-> T.records[k].max_seq, expires_at |-> until]]

\* What the table holds without the record of k.
other_bytes(T, k) == encoded_bytes(T) - Size(T.records[k])

no_room_for(T, k) == T.records[k] = None /\ Cardinality(Recorded(T)) >= MaxSessions

\* A retry carries the command that was executed.
same_request(rec, c) == rec.cmd = c

\* What the leader sets aside for a request until it is applied: nothing for one
\* that the table answers.
Nothing == [bytes |-> 0, new |-> FALSE]

reservation_for(T, k, s) ==
    IF \/ T.tombstones[k] # None /\ s <= T.tombstones[k].max_seq
       \/ T.records[k] # None /\ s <= T.records[k].max_seq
    THEN Nothing
    ELSE [bytes |-> Max({0, 1 + MaxReply - Size(T.records[k])}), new |-> T.records[k] = None]

\* The session of the first configuration change in a part of the log.
pinned_admin_session(entries) ==
    LET changes == SelectSeq(entries, LAMBDA e : e.key \in Admin)
    IN IF changes = <<>> THEN None ELSE Head(changes).key

pending_internal_sweep(entries) == \E i \in DOMAIN entries : entries[i].key = None

\* A request of a user session.  A request that is new to its session needs room
\* for its reply before it is executed; the room is looked for again when the
\* reply is known, and the request is refused then though it was executed.
apply_user(T0, k, s, c, at, answer, size) ==
    LET T == lift_tombstones(T0, at)
        rec == T.records[k]
        others == other_bytes(T, k)
    IN IF T.tombstones[k] # None THEN Refuse(T, "SessionExpired")
       ELSE IF rec # None /\ IdleAt(rec, at)
            THEN IF Cardinality(Entombed(T)) >= MaxTombstones THEN Refuse(T, "TooLarge")
                 ELSE Refuse(entomb(T, k, at + Grace), "SessionExpired")
       ELSE IF rec # None /\ s < rec.max_seq THEN Refuse(T, "StaleSequence")
       ELSE IF rec # None /\ s = rec.max_seq
            THEN IF same_request(rec, c)
                 THEN Result(touch(T, k, at), <<"Done", rec.reply>>, FALSE)
                 ELSE Refuse(touch(T, k, at), "SequenceConflict")
       ELSE IF no_room_for(T, k) \/ others + 1 + MaxReply > MaxBytes
            THEN Refuse(T, "Busy")
       ELSE IF others + 1 + size > MaxBytes
            THEN Result(T, <<"Error", "Busy">>, TRUE)
       ELSE Result(remember(T, k, s, c, at, answer, size), <<"Done", answer>>, TRUE)

\* What the leader answers an administrative request from the table as it has
\* applied it, or None.
preview_admin(T, k, s, c, at) ==
    LET rec == T.records[k]
        tomb == T.tombstones[k]
    IN IF \/ tomb # None /\ s <= tomb.max_seq /\ tomb.expires_at > at
          \/ rec # None /\ IdleAt(rec, at)
       THEN <<"Error", "RequestExpired">>
       ELSE IF rec # None /\ s < rec.max_seq THEN <<"Error", "StaleSequence">>
       ELSE IF rec # None /\ s = rec.max_seq
            THEN IF same_request(rec, c) THEN <<"Done", rec.reply>>
                 ELSE <<"Error", "RequestConflict">>
       ELSE None

\* An administrative request.  An idle session is refused and not entombed; a
\* table without room, and a configuration change that fails when it is made
\* (mutate), are faults of the node, not answers.
apply_admin(T0, k, s, c, at, answer, size, fails) ==
    LET T == lift_tombstones(T0, at)
        rec == T.records[k]
    IN IF T.tombstones[k] # None \/ (rec # None /\ IdleAt(rec, at))
       THEN Refuse(T, "RequestExpired")
       ELSE IF rec # None /\ s < rec.max_seq THEN Refuse(T, "StaleSequence")
       ELSE IF rec # None /\ s = rec.max_seq
            THEN IF same_request(rec, c)
                 THEN Result(touch(T, k, at), <<"Done", rec.reply>>, FALSE)
                 ELSE Refuse(touch(T, k, at), "RequestConflict")
       ELSE IF no_room_for(T, k) \/ fails \/ other_bytes(T, k) + 1 + size > MaxBytes
            THEN Result(T0, <<"Fault", "Failed">>, FALSE)
       ELSE Result(remember(T, k, s, c, at, answer, size), <<"Done", answer>>, TRUE)

\* Mutant of deadlines: tombstones are not looked at.
record_deadlines(T, pinned) ==
    {<<idle_deadline(T.records[k]), k, FALSE>> : k \in Recorded(T) \ {pinned}}

\* Every record and tombstone with its deadline, as <<deadline, key, tombstone?>>.
deadlines(T, pinned) ==
    {<<idle_deadline(T.records[k]), k, FALSE>> : k \in Recorded(T) \ {pinned}}
    \cup {<<T.tombstones[k].expires_at, k, TRUE>> : k \in Entombed(T) \ {pinned}}

first_expiry(T, pinned) == Min({x[1] : x \in deadlines(T, pinned)})

Before(x, y) == x[1] < y[1] \/ (x[1] = y[1] /\ x[2] < y[2])

\* Mutant of expire_one: a session is forgotten as soon as it is idle.
expire_one_forgets(T, x, up_to) ==
    [T EXCEPT !.records[x[2]] = None, !.tombstones[x[2]] = None]

\* One item of a sweep.  A record leaves a tombstone for what is left of its
\* grace, if there is room for one.
expire_one(T, x, up_to) ==
    LET k == x[2]
        grace_end == x[1] + Grace
    IN IF x[3] THEN [T EXCEPT !.tombstones[k] = None]
       ELSE IF grace_end > up_to /\ Cardinality(Entombed(T)) < MaxTombstones
            THEN entomb(T, k, grace_end)
       ELSE [T EXCEPT !.records[k] = None]

\* The sweep: the earliest MaxSweep deadlines that have passed, in order.
expire_due(T, up_to, pinned) ==
    LET due == {x \in deadlines(T, pinned) : x[1] <= up_to}
        chosen == {x \in due : Cardinality({y \in due : Before(y, x)}) < MaxSweep}
    IN FoldLeft(LAMBDA t, x : expire_one(t, x, up_to), T, SetToSortSeq(chosen, Before))

\* The table a fresh cluster restores from a backup at time at: no
\* administrative session, idle sessions as tombstones.
for_fresh_cluster_restore(T, at) ==
    LET idle == {k \in User \cap Recorded(T) : at > idle_deadline(T.records[k])}
        grace_end(k) == idle_deadline(T.records[k]) + Grace
    IN [records |-> [k \in SessionKey |->
            IF k \in (User \cap Recorded(T)) \ idle THEN T.records[k] ELSE None],
        tombstones |-> [k \in SessionKey |->
            IF k \in idle /\ grace_end(k) > at
            THEN [max_seq |-> T.records[k].max_seq, expires_at |-> grace_end(k)]
            ELSE IF k \in User \cap Entombed(T) /\ T.tombstones[k].expires_at > at
            THEN T.tombstones[k]
            ELSE None]]

Within(T) == /\ Cardinality(Recorded(T)) <= MaxSessions
             /\ Cardinality(Entombed(T)) <= MaxTombstones
             /\ encoded_bytes(T) <= MaxBytes

----------------------------------------------------------------------------
(* Behaviour *)

Init ==
    /\ table = Fresh /\ log = <<>>
    /\ clock = 0 /\ now = 0 /\ count = 0
    /\ done = [k \in SessionKey |-> None] /\ active = [k \in SessionKey |-> 0]
    /\ last = [key |-> None, seq |-> 0, cmd |-> None, reply |-> <<"Start", 0>>,
               executed |-> FALSE]
    /\ bounds = [entries |-> 0, restores |-> 0, leaders |-> 0]

\* A node that could not apply an entry applies no other.
Running == last.reply[1] # "Fault"

Later(t, u) == IF t > u THEN t ELSE u
monotonic_time(at) == Later(at, now)

\* The leader appends a request with its reading of the clock.
Propose(k, s, c, reservation) ==
    /\ bounds.entries < MaxEntries
    /\ bounds' = [bounds EXCEPT !.entries = @ + 1]
    /\ log' = Append(log, [key |-> k, seq |-> s, cmd |-> c, at |-> clock,
                           reserved |-> reservation])
    /\ UNCHANGED <<table, clock, now, count, done, active, last>>

\* submit_client: a request is admitted if there is room for it beside what the
\* requests in the log have set aside.  The other refusals (size, feature,
\* routes, the charge of the key/value state) change nothing either.
Admitted(k, s) ==
    LET r == reservation_for(table, k, s)
        reserved == MapThenSumSet(LAMBDA i : log[i].reserved.bytes, DOMAIN log)
        opening == {i \in DOMAIN log : log[i].reserved.new}
    IN /\ Len(log) < MaxUncommitted
       /\ encoded_bytes(table) + reserved + r.bytes <= MaxBytes
       /\ r.new => Cardinality(Recorded(table)) + Cardinality(opening) < MaxSessions

Submit(k, s, c) ==
    /\ Running /\ clock <= LastRequest
    /\ Admitted(k, s)
    /\ Propose(k, s, c, reservation_for(table, k, s))

\* admin_request: answered from the table, or in progress when the log holds a
\* request of that identity, or appended.  It sets nothing aside.
AdminRequest(k, s, c) ==
    LET preview == preview_admin(table, k, s, c, clock)
    IN /\ Running /\ clock <= LastRequest
       /\ IF preview # None
          THEN /\ last' = [key |-> k, seq |-> s, cmd |-> c, reply |-> preview,
                           executed |-> FALSE]
               /\ UNCHANGED <<table, log, clock, now, count, done, active, bounds>>
          ELSE /\ \A i \in DOMAIN log : log[i].key # k \/ log[i].seq # s
               /\ Propose(k, s, c, Nothing)

\* Tick: the leader proposes a sweep when its clock has passed a deadline and no
\* sweep is in the log.  The session of a configuration change in the log is
\* pinned.  A purge of keys that is due goes first and puts the sweep off to a
\* later tick.
ProposeSweep ==
    LET pinned == pinned_admin_session(log)
    IN /\ Running /\ ~pending_internal_sweep(log)
       /\ deadlines(table, pinned) # {} /\ first_expiry(table, pinned) <= clock
       /\ log' = Append(log, [key |-> None, seq |-> 0, cmd |-> None, at |-> clock,
                              reserved |-> Nothing])
       /\ UNCHANGED <<table, clock, now, count, done, active, last, bounds>>

\* The outcome r of the entry e takes effect.
Outcome(e, r) ==
    /\ table' = r.table
    /\ count' = IF r.executed THEN count + 1 ELSE count
    /\ now' = monotonic_time(e.at)
    /\ done' = IF r.executed
               THEN [done EXCEPT ![e.key] = [seq |-> e.seq, cmd |-> e.cmd, reply |-> count + 1]]
               ELSE done
    /\ active' = IF r.executed \/ r.reply[1] = "Done"
                    \/ r.reply \in {<<"Error", "SequenceConflict">>, <<"Error", "RequestConflict">>}
                 THEN [active EXCEPT ![e.key] = monotonic_time(e.at)] ELSE active
    /\ last' = [key |-> e.key, seq |-> e.seq, cmd |-> e.cmd, reply |-> r.reply,
                executed |-> r.executed]

\* The first entry of the log is committed and applied, and its reservation goes.
\* For a sweep, a session is pinned by a configuration change that is not
\* committed with it.
Apply ==
    /\ Running /\ log # <<>>
    /\ LET e == Head(log)
       IN \/ /\ e.key \in User
             /\ \E size \in ReplySizes :
                  Outcome(e, apply_user(table, e.key, e.seq, e.cmd, e.at, count + 1, size))
          \/ /\ e.key \in Admin
             /\ \E size \in ReplySizes, fails \in BOOLEAN :
                  Outcome(e, apply_admin(table, e.key, e.seq, e.cmd, e.at, count + 1, size, fails))
          \/ /\ e.key = None
             /\ \E n \in 2 .. Len(log) + 1 :
                  LET pinned == pinned_admin_session(SubSeq(log, n, Len(log)))
                  IN Outcome(e, Result(expire_due(table, e.at, pinned), <<"Swept", 0>>, FALSE))
    /\ log' = Tail(log)
    /\ UNCHANGED <<clock, bounds>>

\* The leader's clock advances.
Advance ==
    /\ clock < MaxTime
    /\ clock' = clock + 1
    /\ UNCHANGED <<table, log, now, count, done, active, last, bounds>>

\* Another node leads, by its own clock.  It has some of the log, and has set
\* nothing aside.
NewLeader(t) ==
    /\ bounds.leaders < MaxLeaders /\ clock <= LastRequest /\ t <= LastRequest
    /\ \E n \in 0 .. Len(log) :
         log' = [i \in 1 .. n |-> [log[i] EXCEPT !.reserved = Nothing]]
    /\ clock' = t
    /\ bounds' = [bounds EXCEPT !.leaders = @ + 1]
    /\ UNCHANGED <<table, now, count, done, active, last>>

\* A fresh cluster is restored from a backup of this one, which ends.
Restore ==
    /\ Running /\ bounds.restores < MaxRestore
    /\ LET at == monotonic_time(clock)
           T == for_fresh_cluster_restore(table, at)
       IN /\ Within(T)
          /\ table' = T /\ log' = <<>>
          /\ now' = at
    /\ done' = [k \in SessionKey |-> IF k \in User THEN done[k] ELSE None]
    /\ last' = [last EXCEPT !.key = None, !.reply = <<"Restored", 0>>, !.executed = FALSE]
    /\ bounds' = [bounds EXCEPT !.restores = @ + 1]
    /\ UNCHANGED <<clock, count, active>>

Next ==
    \/ \E k \in User, s \in Seqs, c \in Cmd : Submit(k, s, c)
    \/ \E k \in Admin, s \in Seqs, c \in Cmd : AdminRequest(k, s, c)
    \/ ProposeSweep
    \/ Apply
    \/ Advance
    \/ \E t \in Time : NewLeader(t)
    \/ Restore

Spec == Init /\ [][Next]_vars

\* The host goes on: as long as it runs it delivers ticks, with which the clock
\* advances and which propose a sweep when a deadline is behind it, and commits
\* and applies what a leader that stays has proposed.
FairSpec == Spec /\ WF_vars(Advance \/ ProposeSweep \/ Apply)

----------------------------------------------------------------------------
(* Properties *)

\* The types of the table, the clocks and the history.
TypeOK ==
    /\ table.records \in [SessionKey -> Record \cup {None}]
    /\ table.tombstones \in [SessionKey -> Tombstone \cup {None}]
    /\ clock \in Time /\ now \in Time /\ count \in Nat
    /\ bounds \in [entries : 0 .. MaxEntries, restores : 0 .. MaxRestore,
                  leaders : 0 .. MaxLeaders]

\* For how long a session is protected: until the policy's idle time is over,
\* and its grace too when there is room for every tombstone.
Window == Idle + (IF MaxTombstones >= Cardinality(SessionKey) THEN Grace ELSE 0)

\* Exactly once.  Inside the window a request that was executed, or one before
\* it, is not executed again, whatever is retried, reordered, swept or restored.
NotAgain ==
    count' > count /\ done[last'.key] # None /\ last'.seq <= done[last'.key].seq =>
        now' - active[last'.key] >= Window

\* A request that is answered without being executed gets the answer of the
\* execution of that very request: same session, sequence and command.
SameAnswer ==
    last' # last /\ last'.reply[1] = "Done" /\ ~last'.executed =>
        /\ done[last'.key].seq = last'.seq
        /\ done[last'.key].cmd = last'.cmd
        /\ done[last'.key].reply = last'.reply[2]

\* A sweep makes progress: on a node that applies every entry, each session is
\* forgotten in the end.
SessionsForgotten == <>[](Running => Recorded(table) = {} /\ Entombed(table) = {})

=============================================================================
