------------------------------ MODULE KvMachine ------------------------------
(***************************************************************************)
(* The replicated key/value state machine of cc-kv: what one committed     *)
(* entry does to the values, to their deadlines and to the log clock.      *)
(*                                                                         *)
(* kv is the state of a replica that has applied the whole log.  peer is   *)
(* the state of a replica that was restored from a logical checkpoint of   *)
(* kv and has applied the entries committed since; None until then.  Both  *)
(* apply the same entries, which is what Raft gives them (RaftCore).       *)
(*                                                                         *)
(* Time is the leader's clock reading carried by the entry.  Two leaders   *)
(* read two clocks, so consecutive entries may carry any two readings.     *)
(***************************************************************************)
EXTENDS Integers, Sequences, FiniteSets, SequencesExt

CONSTANTS
    Key,            \* keys, a set of integers: scans return them in order
    Datum,          \* what a command may write: a set of sequences of digits
    Delta,          \* the increments of INCRBY
    Ttl,            \* the time to live a SET or an EXPIRE may carry
    Op,             \* the commands clients send, a subset of AllOps
    BatchCommand,   \* the commands a batch may hold
    MaxTime,        \* bound: clock readings are 0..MaxTime
    MaxEntries,     \* bound: number of entries applied
    MaxInt,         \* the greatest integer INCRBY can reach (i64::MAX)
    MaxLen,         \* bound: length of a stored value
    MaxBatch,       \* max_batch_commands of the cluster policy
    MaxReply,       \* max_batch_reply_bytes of the cluster policy
    MaxSweep,       \* max_keys_per_expiry_sweep of the cluster policy
    MaxScan,        \* the greatest page a SCAN returns
    Second,         \* clock ticks per second: TTL answers whole seconds
    None            \* no value, no deadline, no replica

VARIABLES
    kv,             \* the replica that applied every entry
    peer,           \* the replica restored from a checkpoint, or None
    reply,          \* what each of the two answered to the last command
    wrote,          \* what each of the two wrote to its store for the last entry
    last            \* the last command applied, with its clock reading

vars == <<kv, peer, reply, wrote, last>>

AllOps == {"Set", "SetIf", "Del", "Cas", "Incr", "Append", "GetSet", "GetDel",
           "Expire", "ExpireAt", "Ttl", "Persist", "Get", "Scan", "Batch"}

Time == 0 .. MaxTime
Deadline == 0 .. 2 * MaxTime

ASSUME KvConstants ==
    /\ Key \subseteq Nat /\ IsFiniteSet(Key)
    /\ \A w \in Datum : w \in Seq(Nat)
    /\ Delta \subseteq Nat /\ Op \subseteq AllOps
    /\ MaxTime \in Nat /\ MaxEntries \in Nat /\ MaxInt \in Nat /\ MaxLen \in Nat
    /\ MaxBatch \in Nat /\ MaxReply \in Nat /\ MaxSweep \in Nat /\ MaxScan \in Nat
    /\ Second \in Nat \ {0}
    /\ Ttl \subseteq Time
    /\ None \notin Nat /\ None \notin Seq(Nat)

----------------------------------------------------------------------------
(* Values.  A value is a sequence of digits; 10 stands for any byte that   *)
(* is not a digit.                                                         *)

Numeric(w) == w # <<>> /\ \A i \in DOMAIN w : w[i] \in 0 .. 9

ParseInt(w) == FoldLeft(LAMBDA n, d : 10 * n + d, 0, w)

\* The decimal text of n, without leading zeros.
ToText[n \in Nat] == IF n < 10 THEN <<n>> ELSE Append(ToText[n \div 10], n % 10)

----------------------------------------------------------------------------
(* The state and its accessors.                                            *)

Empty == [store |-> [k \in Key |-> None], ttl |-> [k \in Key |-> None],
          deadlines |-> {}, applied_index |-> 0, last_leader_time |-> 0]

Expired(s, k, now) == s.ttl[k] # None /\ s.ttl[k] <= now

\* A key whose deadline has passed is not there, swept or not.
visible_get(s, k, now) == IF Expired(s, k, now) THEN None ELSE s.store[k]

put(s, k, w) == [s EXCEPT !.store[k] = w]

delete(s, k) == [s EXCEPT !.store[k] = None]

\* Mutant of replace_deadline: the index keeps the deadline that was replaced.
replace_deadline_keeps_index(s, k, d) ==
    [s EXCEPT !.ttl[k] = d, !.deadlines = @ \cup (IF d = None THEN {} ELSE {<<d, k>>})]

\* The per-key deadline and the index ordered by deadline change together.
replace_deadline(s, k, d) ==
    [s EXCEPT !.ttl[k] = d,
              !.deadlines = (@ \ {<<s.ttl[k], k>>})
                              \cup (IF d = None THEN {} ELSE {<<d, k>>})]

monotonic_time(s, t) == [s EXCEPT !.last_leader_time = IF t < @ THEN @ ELSE t]

ttl_seconds(s, k, now) ==
    IF visible_get(s, k, now) = None THEN -2
    ELSE IF s.ttl[k] = None THEN -1
    ELSE (s.ttl[k] - now) \div Second

\* The store's page is cut to the limit before expired keys are dropped.
visible_scan(s, limit, now) ==
    LET stored == SetToSortSeq({k \in Key : s.store[k] # None}, <)
        page == SubSeq(stored, 1, IF limit < Len(stored) THEN limit ELSE Len(stored))
    IN SelectSeq(page, LAMBDA k : ~ Expired(s, k, now))

\* What a read answers at the clock reading at.
read(s, c, at) ==
    CASE c.op = "Get"  -> <<"Value", visible_get(s, c.key, at)>>
      [] c.op = "Ttl"  -> <<"Integer", ttl_seconds(s, c.key, at)>>
      [] c.op = "Scan" -> <<"Scan", visible_scan(s, c.limit, at)>>

\* The edits of values and of deadlines that turn s into next: the record of
\* an entry in the store WAL.
store_delta(s, next) ==
    [mutations |-> {<<k, next.store[k]>> : k \in {x \in Key : s.store[x] # next.store[x]}},
     metadata  |-> {<<k, next.ttl[k]>> : k \in {x \in Key : s.ttl[x] # next.ttl[x]}}]

----------------------------------------------------------------------------
(* Commands.                                                               *)

Simple(ops) ==
    {c \in
          [op : {"Set"}, key : Key, value : Datum, ttl : Ttl \cup {None}]
     \cup [op : {"SetIf"}, key : Key, value : Datum, ttl : Ttl \cup {None},
           exists : BOOLEAN]
     \cup [op : {"Del", "GetDel", "Ttl", "Persist", "Get"}, key : Key]
     \cup [op : {"Cas"}, key : Key, expected : Datum \cup {None},
           value : Datum \cup {None}]
     \cup [op : {"Incr"}, key : Key, delta : Delta]
     \cup [op : {"Append", "GetSet"}, key : Key, value : Datum]
     \cup [op : {"Expire"}, key : Key, ttl : Ttl]
     \cup [op : {"ExpireAt"}, key : Key, at : Time]
     \cup [op : {"Scan"}, limit : 1 .. MaxScan] : c.op \in ops}

Batches == [op : {"Batch"},
            commands : UNION {[1 .. n -> BatchCommand] : n \in 0 .. MaxBatch + 1}]

Command == Simple(Op) \cup (IF "Batch" \in Op THEN Batches ELSE {})

Done(s, r) == [kv |-> s, reply |-> r]

After(now, d) == IF d = None THEN None ELSE now + d

(* What each command does to the state at time now, and what it answers.   *)

Set(s, c, now) ==
    Done(replace_deadline(put(s, c.key, c.value), c.key, After(now, c.ttl)), <<"Ok">>)

ConditionalSet(s, c, now) ==
    IF (visible_get(s, c.key, now) # None) = c.exists
    THEN Done(Set(s, c, now).kv, <<"Conditional", TRUE>>)
    ELSE Done(s, <<"Conditional", FALSE>>)

Del(s, c) == Done(replace_deadline(delete(s, c.key), c.key, None), <<"Integer", 1>>)

Cas(s, c, now) ==
    IF visible_get(s, c.key, now) = c.expected
    THEN Done(replace_deadline(put(s, c.key, c.value), c.key, None), <<"Cas", TRUE>>)
    ELSE Done(s, <<"Cas", FALSE>>)

\* INCRBY and APPEND keep the deadline the key has.
Or(old, default) == IF old = None THEN default ELSE old

Incremented(s, k, text, sum) ==
    IF Numeric(text) /\ ParseInt(text) <= MaxInt /\ sum <= MaxInt
    THEN Done(put(s, k, ToText[sum]), <<"Integer", sum>>)
    ELSE Done(s, <<"Error", "NotNumeric">>)

Incr(s, c, now) ==
    LET text == Or(visible_get(s, c.key, now), <<0>>)
    IN Incremented(s, c.key, text, ParseInt(text) + c.delta)

Joined(s, k, w) == Done(put(s, k, w), <<"Integer", Len(w)>>)

AppendTo(s, c, now) == Joined(s, c.key, Or(visible_get(s, c.key, now), <<>>) \o c.value)

GetSet(s, c, now) ==
    Done(replace_deadline(put(s, c.key, c.value), c.key, None),
         <<"Value", visible_get(s, c.key, now)>>)

\* The value is deleted only when it is visible; the deadline goes either way.
GetDel(s, c, now) ==
    LET old == visible_get(s, c.key, now)
    IN Done(replace_deadline(IF old = None THEN s ELSE delete(s, c.key), c.key, None),
            <<"Value", old>>)

\* EXPIRE and EXPIREAT.
ExpireAt(s, k, d, now) ==
    IF visible_get(s, k, now) = None THEN Done(s, <<"Integer", 0>>)
    ELSE Done(replace_deadline(s, k, d), <<"Integer", 1>>)

\* Looks at the deadline only, not at whether it has passed.
Persist(s, c) ==
    Done(replace_deadline(s, c.key, None),
         <<"Integer", IF s.ttl[c.key] = None THEN 0 ELSE 1>>)

apply_simple(s, c, now) ==
    CASE c.op = "Set"      -> Set(s, c, now)
      [] c.op = "SetIf"    -> ConditionalSet(s, c, now)
      [] c.op = "Del"      -> Del(s, c)
      [] c.op = "Cas"      -> Cas(s, c, now)
      [] c.op = "Incr"     -> Incr(s, c, now)
      [] c.op = "Append"   -> AppendTo(s, c, now)
      [] c.op = "GetSet"   -> GetSet(s, c, now)
      [] c.op = "GetDel"   -> GetDel(s, c, now)
      [] c.op = "Expire"   -> ExpireAt(s, c.key, now + c.ttl, now)
      [] c.op = "ExpireAt" -> ExpireAt(s, c.key, c.at, now)
      [] c.op = "Persist"  -> Persist(s, c)
      [] c.op \in {"Get", "Ttl", "Scan"} -> Done(s, read(s, c, now))

ReplySize(r) == IF r[1] \in {"Value", "Scan"} /\ r[2] # None THEN 1 + Len(r[2]) ELSE 1

Started(s) == [kv |-> s, replies |-> <<>>, failed |-> None]

Answered(acc, one) ==
    IF one.reply[1] = "Error"
    THEN [acc EXCEPT !.failed = <<Len(acc.replies), one.reply[2]>>]
    ELSE [kv |-> one.kv, replies |-> Append(acc.replies, one.reply), failed |-> None]

\* The commands in order, up to the first that fails.
run_batch(s, commands, now) ==
    FoldLeft(LAMBDA acc, c : IF acc.failed # None THEN acc
                             ELSE Answered(acc, apply_simple(acc.kv, c, now)),
             Started(s), commands)

batch_size(replies) == FoldLeft(LAMBDA n, r : n + ReplySize(r), 0, replies)

\* Mutant of finish_batch: the commands worked on the state itself.
finish_in_place(s, run) ==
    IF run.failed # None THEN Done(run.kv, <<"BatchError", run.failed>>)
    ELSE Done(run.kv, <<"Batch", run.replies>>)

\* The copy replaces the state only when every command succeeded and the
\* answers fit.
finish_batch(s, run) ==
    IF run.failed # None THEN Done(s, <<"BatchError", run.failed>>)
    ELSE IF batch_size(run.replies) > MaxReply THEN Done(s, <<"BatchError", <<None, "TooLarge">>>>)
    ELSE Done(run.kv, <<"Batch", run.replies>>)

apply_batch(s, commands, now) ==
    CASE commands = <<>> -> Done(s, <<"Error", "InvalidInput">>)
      [] Len(commands) > MaxBatch -> Done(s, <<"Error", "TooLarge">>)
      [] OTHER -> finish_batch(s, run_batch(s, commands, now))

advance_applied(s) == [s EXCEPT !.applied_index = @ + 1]

\* One committed command entry stamped t.
apply_at(s, c, now) ==
    [IF c.op = "Batch" THEN apply_batch(s, c.commands, now) ELSE apply_simple(s, c, now)
       EXCEPT !.kv = advance_applied(@)]

apply_timed(s, c) == apply_at(s, c, s.last_leader_time)

apply_command_only(s, c, t) == apply_timed(monotonic_time(s, t), c)

mark_applied(s, t) == advance_applied(monotonic_time(s, t))

\* Mutant of purge: takes a deadline one tick ahead for one that has passed.
purge_early(s, up_to) ==
    LET keys == {x[2] : x \in {y \in s.deadlines : y[1] <= up_to + 1}}
    IN [s EXCEPT !.store = [k \in Key |-> IF k \in keys THEN None ELSE s.store[k]],
                 !.ttl = [k \in Key |-> IF k \in keys THEN None ELSE s.ttl[k]],
                 !.deadlines = {x \in @ : x[2] \notin keys}]

\* The sweep deletes the keys with the earliest deadlines, at most MaxSweep.
purge(s, up_to) ==
    LET due == {x \in s.deadlines : x[1] <= up_to}
        Before(x, y) == x[1] < y[1] \/ (x[1] = y[1] /\ x[2] < y[2])
        swept == {x \in due : Cardinality({y \in due : Before(y, x)}) < MaxSweep}
        keys == {x[2] : x \in swept}
    IN [s EXCEPT !.store = [k \in Key |-> IF k \in keys THEN None ELSE s.store[k]],
                 !.ttl = [k \in Key |-> IF k \in keys THEN None ELSE s.ttl[k]],
                 !.deadlines = s.deadlines \ {<<s.ttl[k], k>> : k \in keys}]

\* A checkpoint holds what is visible at the log time; restoring it yields a
\* replica that holds nothing else.
logical_snapshot(s) == {k \in Key : visible_get(s, k, s.last_leader_time) # None}

\* Mutant of restore_logical: the deadlines are not restored.
restore_undated(s) ==
    [s EXCEPT !.store = [k \in Key |-> IF k \in logical_snapshot(s) THEN s.store[k] ELSE None],
              !.ttl = [k \in Key |-> None],
              !.deadlines = {}]

restore_logical(s) ==
    LET kept == logical_snapshot(s)
        ttl == [k \in Key |-> IF k \in kept THEN s.ttl[k] ELSE None]
    IN [s EXCEPT !.store = [k \in Key |-> IF k \in kept THEN s.store[k] ELSE None],
                 !.ttl = ttl,
                 !.deadlines = {<<ttl[k], k>> : k \in {x \in kept : ttl[x] # None}}]
----------------------------------------------------------------------------
(* The replicas.  Every entry is applied by both.                          *)

Alone == peer = None

Answer(one, other, c) ==
    /\ kv' = one.kv
    /\ peer' = other.kv
    /\ reply' = <<one.reply, other.reply>>
    /\ last' = c

\* An entry is one record in the store WAL of each replica.
Written == wrote' = <<store_delta(kv, kv'), IF Alone THEN None ELSE store_delta(peer, peer')>>
Unwritten == wrote' = <<None, None>>

Init ==
    /\ kv = Empty
    /\ peer = None
    /\ reply = <<None, None>> /\ wrote = <<None, None>>
    /\ last = [op |-> "Start"]

Fits(s) == \A k \in Key : s.store[k] # None => Len(s.store[k]) <= MaxLen

\* A committed client command.
Apply(c, t) ==
    /\ kv.applied_index < MaxEntries
    /\ Answer(apply_command_only(kv, c, t),
              IF Alone THEN Done(None, None) ELSE apply_command_only(peer, c, t), c)
    /\ Fits(kv') /\ Written

\* The sweep of keys that a leader proposed on a tick, when a deadline had passed on
\* its clock: applied when it may find other deadlines than those it was for.
Purge(t) ==
    /\ kv.applied_index < MaxEntries
    /\ LET Sweep(s) == advance_applied(purge(monotonic_time(s, t), t))
       IN /\ kv' = Sweep(kv)
          /\ peer' = IF Alone THEN None ELSE Sweep(peer)
    /\ reply' = <<None, None>> /\ Written
    /\ last' = [op |-> "PurgeExpired"]

\* A no-op, a configuration entry, or a retry the session table answered.
Mark(t) ==
    /\ kv.applied_index < MaxEntries
    /\ kv' = mark_applied(kv, t)
    /\ peer' = IF Alone THEN None ELSE mark_applied(peer, t)
    /\ reply' = <<None, None>> /\ Written
    /\ last' = [op |-> "Mark"]

\* A replica restarts from, or is sent, a checkpoint of kv.
Restore ==
    /\ peer' = restore_logical(kv)
    /\ reply' = <<None, None>> /\ Unwritten
    /\ last' = [op |-> "Restore"]
    /\ UNCHANGED kv

\* A linearizable GET, TTL or SCAN, served at the reading of the clock of the
\* node that leads when it arrives.
Read(c, at) ==
    /\ reply' = <<read(kv, c, at), None>> /\ Unwritten
    /\ last' = [op |-> "Read"]
    /\ UNCHANGED <<kv, peer>>

Next ==
    \/ \E c \in Command, t \in Time : Apply(c, t)
    \/ \E t \in Time : Purge(t)
    \/ \E t \in Time : Mark(t)
    \/ Restore
    \/ \E c \in Simple({"Get", "Ttl", "Scan"}), at \in Time : Read(c, at)

Spec == Init /\ [][Next]_vars

----------------------------------------------------------------------------
(* Properties.                                                             *)

State == [store : [Key -> Seq(Nat) \cup {None}],
          ttl : [Key -> Nat \cup {None}],
          deadlines : SUBSET (Nat \X Key),
          applied_index : Nat,
          last_leader_time : Nat]

\* The type of the two replicas' states.
TypeOK == kv \in State /\ peer \in State \cup {None}

Replica == {kv} \cup ({peer} \ {None})

\* The index the sweeper walks holds exactly the deadlines the keys have, and
\* no deadline outlives its key, where it would expire the next value that
\* INCRBY or APPEND writes: replace_deadline, DEL, the sweep and the restore of a
\* checkpoint keep the maps of Kv (ttl, deadlines and the store) in step.
DeadlineIndex ==
    \A s \in Replica :
        /\ s.deadlines = {<<s.ttl[k], k>> : k \in {x \in Key : s.ttl[x] # None}}
        /\ \A k \in Key : s.ttl[k] # None => s.store[k] # None

\* Two replicas that look the same now will look the same at every later time.
SameFrom(s, r) ==
    \A k \in Key : \A t \in Deadline :
        t >= s.last_leader_time => visible_get(s, k, t) = visible_get(r, k, t)

\* A sweep frees space and nothing else: at no time from the log time on can a
\* read tell whether PurgeExpired has been applied.
SweepUnseen == [][last'.op = "PurgeExpired" => SameFrom(kv', kv)]_vars

\* A batch that answers an error has changed no key, though some of its
\* commands succeeded on the copy.
BatchAllOrNothing ==
    [][last'.op = "Batch" /\ reply'[1][1] # "Batch" =>
          kv' = mark_applied(kv, kv'.last_leader_time)]_vars

\* The two replicas are at one index and no read at the log time or later can
\* tell them apart.
Agree ==
    /\ SameFrom(kv, peer)
    /\ kv.applied_index = peer.applied_index
    /\ kv.last_leader_time = peer.last_leader_time

\* A key that is stored and has expired: what a checkpoint drops.
Unswept(s, k) == s.store[k] # None /\ Expired(s, k, s.last_leader_time)

\* The commands that look past visibility, at a key that has expired.
PastVisible(c) ==
    \E s \in Replica, k \in Key :
        /\ Unswept([s EXCEPT !.last_leader_time = kv'.last_leader_time], k)
        /\ \/ c.op = "Scan"
           \/ c.op \in {"Incr", "Append", "GetDel", "Persist"} /\ c.key = k

LooksPast(c) == IF c.op = "Batch" THEN \E i \in DOMAIN c.commands : PastVisible(c.commands[i])
                ELSE PastVisible(c)

\* A replica restored from a checkpoint holds what kv holds, and stays
\* indistinguishable from it: every entry leaves the two in agreement and gets
\* one answer, but for the commands that look past visibility at a key that
\* the checkpoint dropped.
RestoredKeepsUp ==
    [][\/ last'.op = "Restore"
       \/ peer # None /\ Agree /\ last'.op # "Read" /\ ~LooksPast(last')
       => Agree' /\ reply'[1] = reply'[2]]_vars

\* Recovery from a checkpoint reproduces what was written: a node that restarts
\* from its own checkpoint applies the entries since to what the checkpoint holds,
\* and must compute for each the record that its store WAL already has for it, and
\* the answer its clients were given (recover_durable_applies).
RecoveryReproduces ==
    peer # None /\ last.op # "Read" => reply[1] = reply[2] /\ wrote[1] = wrote[2]

============================================================================
