------------------------------ MODULE Checker ------------------------------
(***************************************************************************)
(* The history checker of crates/cc-checker: the linearizability search    *)
(* over recorded client operations, the minimizer of failing histories,    *)
(* the independent session checker and the labels of anomalies.            *)
(*                                                                         *)
(* A behaviour records one history, operation by operation, with whatever  *)
(* answers a correct or incorrect database might give. Beside it the ghost *)
(* `configs` follows an atomic key/value map: each element is a state the  *)
(* map may be in, with the answers of the operations that took effect but  *)
(* have not returned. The history is linearizable exactly while some       *)
(* element is left, which is what the search over the finished history has *)
(* to find out.                                                            *)
(***************************************************************************)
EXTENDS Integers, Sequences, FiniteSets, SequencesExt, FiniteSetsExt

CONSTANTS Keys,       \* a set of integers, ordered as the byte strings are
          MaxInt,     \* the largest integer INCR can store
          MaxStates,  \* CheckerConfig::max_states, the values to check with
          Budget,     \* CheckerConfig::witness_budget, the values to check with
          Workloads   \* bounds: what the clients of one behaviour may do

VARIABLES history,  \* History::operations, in the order of invocation
          now,      \* the time of the last event
          load,     \* the workload of this behaviour
          configs   \* ghost: the atomic maps the history allows

None == {}
Kind(op, key, value, expected, parts) ==
  [op |-> op, key |-> key, value |-> value, expected |-> expected, parts |-> parts]
Set(k, v) == Kind("Set", k, v, None, <<>>)
Get(k) == Kind("Get", k, 0, None, <<>>)
Del(k) == Kind("Del", k, 0, None, <<>>)
Incr(k) == Kind("Incr", k, 0, None, <<>>)
Cas(k, e, v) == Kind("Cas", k, v, e, <<>>)
Scan(limit) == Kind("Scan", 0, limit, None, <<>>)
Batch(parts) == Kind("Batch", 0, 0, None, parts)

Outcome(tag, val, parts) == [tag |-> tag, val |-> val, parts |-> parts]
Ok == Outcome("Ok", {}, <<>>)
Value(opt) == Outcome("Value", {<<v>> : v \in opt}, <<>>)
Integer(n) == Outcome("Integer", {<<n>>}, <<>>)
CasReply(b) == Outcome("Cas", IF b THEN {<<1>>} ELSE {<<0>>}, <<>>)
ScanReply(pairs) == Outcome("Scan", pairs, <<>>)
BatchReply(parts) == Outcome("Batch", {}, parts)
Error == Outcome("Error", {}, <<>>)
Timeout == Outcome("Timeout", {}, <<>>)

-----------------------------------------------------------------------------
(* The model of the search: a map from keys to at most one value and its deadline. *)

initial_model == [k \in Keys |-> None]
stored(value, deadline) == {[value |-> value, deadline |-> deadline]}
values(cell) == {c.value : c \in cell}
first_keys(m, limit) ==
  LET held == {k \in Keys : m[k] # None}
  IN {k \in held : Cardinality({j \in held : j < k}) < limit}

\* One command that is not a batch; no value when INCR would overflow.
apply_simple(m, kind, deadline) ==
  LET k == kind.key
      set(v, d) == [m EXCEPT ![k] = stored(v, d)]
      give(next, out) == {[model |-> next, out |-> out]}
      old == IF m[k] = None THEN 0 ELSE CHOOSE v \in values(m[k]) : TRUE
  IN CASE kind.op = "Set" -> give(set(kind.value, deadline), Ok)
       [] kind.op = "Get" -> give(m, Value(values(m[k])))
       [] kind.op = "Del" -> give([m EXCEPT ![k] = None], Ok)
       [] kind.op = "Incr" -> IF old = MaxInt THEN {} ELSE give(set(old + 1, None), Integer(old + 1))
       [] kind.op = "Cas" -> IF values(m[k]) = kind.expected
                             THEN give(set(kind.value, None), CasReply(TRUE)) ELSE give(m, CasReply(FALSE))
       [] kind.op = "Scan" ->
            give(m, ScanReply({<<j, CHOOSE v \in values(m[j]) : TRUE>> : j \in first_keys(m, kind.value)}))

\* A batch is applied command by command, or not at all.
RECURSIVE apply_parts(_, _, _, _)
apply_parts(m, parts, outs, deadline) ==
  IF parts = <<>> THEN {[model |-> m, out |-> BatchReply(outs)]}
  ELSE UNION {apply_parts(a.model, Tail(parts), Append(outs, a.out), deadline)
              : a \in apply_simple(m, Head(parts), deadline)}

apply_operation(m, kind, deadline) ==
  IF kind.op # "Batch" THEN apply_simple(m, kind, deadline)
  ELSE IF kind.parts = <<>> THEN {} ELSE apply_parts(m, kind.parts, <<>>, deadline)

apply_without_observation(m, o) == {a.model : a \in apply_operation(m, o.kind, o.deadline)}

\* The models after an answered operation: at most one, none when the answer
\* is impossible. A read may fall on either side of a deadline in its interval.
apply_observed(m, o) ==
  LET cell == m[o.kind.key]
      visible == \E c \in cell : \A d \in c.deadline : o.invoke < d
      absent == \A c \in cell : \E d \in c.deadline : \E t \in o.complete : t >= d
  IN IF o.outcome = Error THEN {m}
     ELSE IF o.kind.op = "Get"
     THEN IF \/ o.outcome = Value(values(cell)) /\ cell # None /\ visible
             \/ o.outcome = Value(None) /\ absent
          THEN {m} ELSE {}
     ELSE {a.model : a \in {b \in apply_operation(m, o.kind, o.deadline) : b.out = o.outcome}}

-----------------------------------------------------------------------------
(* The search. *)

happens_before(a, b) == \E t \in a.complete : t < b.invoke

\* Mutation: operations that touch at one instant are ordered.
eligible_touching(ops, i, remaining) ==
  \A j \in 1..Len(ops) : j # i /\ (\E t \in ops[j].complete : t <= ops[i].invoke) => j \notin remaining

eligible(ops, i, remaining) ==
  \A j \in 1..Len(ops) : j # i /\ happens_before(ops[j], ops[i]) => j \notin remaining

\* Where the search may go next, in the order it tries: an operation without
\* an answer may have had no effect, or its effect.
nexts(m, o) ==
  IF o.outcome = Timeout THEN <<m>> \o SetToSeq(apply_without_observation(m, o))
  ELSE SetToSeq(apply_observed(m, o))

steps(models, rest) == [n \in 1..Len(models) |-> [remaining |-> rest, model |-> models[n]]]

branches(ops, remaining, m) ==
  FlattenSeq([i \in 1..Len(ops) |->
                IF i \in remaining /\ eligible(ops, i, remaining)
                THEN steps(nexts(m, ops[i]), remaining \ {i}) ELSE <<>>])

RECURSIVE search(_, _, _, _, _), explore(_, _, _, _, _)

search(ops, remaining, m, st, limit) ==
  LET visited == st.visited + 1
      seen == [remaining |-> remaining, model |-> m]
  IN IF remaining = {} THEN [st EXCEPT !.result = "Found"]
     ELSE IF visited > limit THEN [st EXCEPT !.result = "Undecided", !.visited = visited]
     ELSE IF seen \in st.memo THEN [st EXCEPT !.result = "NotFound", !.visited = visited]
     ELSE explore(ops, branches(ops, remaining, m), FALSE,
                  [st EXCEPT !.visited = visited, !.memo = @ \cup {seen}], limit)

explore(ops, todo, undecided, st, limit) ==
  IF todo = <<>> THEN [st EXCEPT !.result = IF undecided THEN "Undecided" ELSE "NotFound"]
  ELSE LET after == search(ops, todo[1].remaining, todo[1].model, st, limit)
       IN IF after.result = "Found" THEN after
          ELSE explore(ops, Tail(todo), undecided \/ after.result = "Undecided", after, limit)

check_single(ops, limit) ==
  LET st == search(ops, 1..Len(ops), initial_model,
                   [visited |-> 0, memo |-> {}, result |-> "Found"], limit)
  IN CASE st.result = "Found" -> "Linearizable"
       [] st.result = "NotFound" -> "NotLinearizable"
       [] st.result = "Undecided" -> "Undecided"

\* Probes are not operations of the history. Keys are checked one by one
\* unless an operation spans several.
check_with_initial_raw(all, limit) ==
  LET ops == SelectSeq(all, LAMBDA o : ~o.probe)
      of(k) == SelectSeq(ops, LAMBDA o : o.kind.key = k)
      verdicts == {check_single(of(k), limit) : k \in {o.kind.key : o \in ToSet(ops)}}
  IN IF \E o \in ToSet(ops) : o.kind.op \in {"Scan", "Batch"} THEN check_single(ops, limit)
     ELSE IF "NotLinearizable" \in verdicts THEN "NotLinearizable"
     ELSE IF "Undecided" \in verdicts THEN "Undecided" ELSE "Linearizable"

-----------------------------------------------------------------------------
(* The minimizer: delete chunks, then single operations, while the rest fails. *)

without(ids, from, upto) == [i \in 1..(Len(ids) - (upto - from + 1)) |->
                               IF i < from THEN ids[i] ELSE ids[i + (upto - from + 1)]]

\* The sets of operations that fail on their own, for a search of this many states.
failing_sets(limit) ==
  {ids \in SUBSET (1..Len(history)) :
     LET chosen == SelectSeq([i \in 1..Len(history) |-> i], LAMBDA i : i \in ids)
     IN check_with_initial_raw([i \in 1..Len(chosen) |-> history[chosen[i]]], limit) = "NotLinearizable"}

\* Ask whether the operations with these ids still fail: from the cache, or
\* with a call, or not at all once the budget is spent.
witness_oracle(w, ids, budget, failing) ==
  LET key == ToSet(ids)
      known == {c \in w.cache : c.ids = key}
      fails == key \in failing
  IN IF known # {} THEN [w EXCEPT !.answer = {(CHOOSE c \in known : TRUE).fails}]
     ELSE IF w.calls >= budget THEN [w EXCEPT !.answer = None]
     ELSE [w EXCEPT !.answer = {fails}, !.calls = @ + 1, !.cache = @ \cup {[ids |-> key, fails |-> fails]}]

RECURSIVE chunks(_, _, _, _, _, _), reduce(_, _, _, _), deletions(_, _, _, _)

\* One round over the chunks of the candidate; stops at the first it can do without.
chunks(w, start, chunk, granularity, budget, failing) ==
  LET n == Len(w.candidate)
      upto == Min({start + chunk - 1, n})
      rest == without(w.candidate, start, upto)
      asked == witness_oracle(w, rest, budget, failing)
  IN IF start > n \/ w.calls >= budget
     THEN IF granularity >= n THEN w ELSE reduce(w, Min({2 * granularity, n}), budget, failing)
     ELSE IF rest = <<>> THEN chunks(w, start + chunk, chunk, granularity, budget, failing)
     ELSE IF asked.answer = {TRUE} THEN reduce([asked EXCEPT !.candidate = rest], 2, budget, failing)
     ELSE chunks(asked, start + chunk, chunk, granularity, budget, failing)

reduce(w, granularity, budget, failing) ==
  LET n == Len(w.candidate)
  IN IF n < 2 \/ w.calls >= budget THEN w
     ELSE chunks(w, 1, (n + granularity - 1) \div granularity, granularity, budget, failing)

deletions(w, index, budget, failing) ==
  IF index = 0 THEN [w EXCEPT !.one_minimal = TRUE]
  ELSE IF w.calls >= budget THEN w
  ELSE LET rest == without(w.candidate, index, index)
           asked == witness_oracle(w, rest, budget, failing)
       IN IF asked.answer = {TRUE}
          THEN deletions([asked EXCEPT !.candidate = rest], Len(rest), budget, failing)
          ELSE deletions(asked, index - 1, budget, failing)

\* The witness reported with a failing verdict.
minimize_witness(budget, failing) ==
  LET all == [i \in 1..Len(history) |-> i]
      none == [candidate |-> all, calls |-> 0, cache |-> {}, answer |-> None, one_minimal |-> FALSE]
      first == witness_oracle(none, all, budget, failing)
      reduced == reduce(first, 2, budget, failing)
  IN IF first.answer # {TRUE} THEN none
     ELSE deletions(reduced, Len(reduced.candidate), budget, failing)

-----------------------------------------------------------------------------
(* The session checker and the labels, which use no model of the map. *)

kind_outcome_is_mutation(kind, out) ==
  \/ kind.op \in {"Set", "Del"} /\ out.tag = "Ok"
  \/ kind.op = "Cas" /\ out = CasReply(TRUE)
  \/ kind.op = "Incr" /\ out.tag = "Integer"

is_successful_mutation(o) == kind_outcome_is_mutation(o.kind, o.outcome)

mutating_kind_touches_key(kind, key) ==
  \E part \in {kind} \cup ToSet(kind.parts) :
    part.op \in {"Set", "Del", "Incr", "Cas"} /\ part.key = key

mutates_key(o, key) ==
  IF o.kind.op = "Batch" /\ o.outcome.tag = "Batch"
  THEN \E i \in 1..Len(o.kind.parts) :
         o.kind.parts[i].key = key /\ kind_outcome_is_mutation(o.kind.parts[i], o.outcome.parts[i])
  ELSE o.kind.key = key /\ is_successful_mutation(o)

may_have_mutated_key(o, key) ==
  IF o.outcome = Timeout THEN mutating_kind_touches_key(o.kind, key) ELSE mutates_key(o, key)

has_intervening_mutation(key, from, to, excluded) ==
  \E i \in 1..Len(history) :
    LET o == history[i] IN
    /\ i # excluded /\ may_have_mutated_key(o, key)
    /\ o.invoke <= to /\ \A t \in o.complete : t >= from

\* What a later read must return if nothing else wrote; none for other operations.
expected_mutation_observation(o) ==
  CASE o.kind.op = "Set" /\ o.outcome = Ok -> {{o.kind.value}}
    [] o.kind.op = "Cas" /\ o.outcome = CasReply(TRUE) -> {{o.kind.value}}
    [] o.kind.op = "Del" /\ o.outcome = Ok -> {{}}
    [] o.kind.op = "Incr" /\ o.outcome.tag = "Integer" -> {{v[1] : v \in o.outcome.val}}
    [] OTHER -> {}

observation_matches(expected, out) == out = Value(expected)

end_of(o) == IF o.complete = None THEN o.invoke ELSE CHOOSE t \in o.complete : TRUE
persistence_interval_is_before_deadline(o, end) == \A d \in o.deadline : end < d

has_possible_expiry_between(a, b) ==
  \E i \in 1..Len(history) :
    /\ history[i].kind.key = a.kind.key
    /\ \E d \in history[i].deadline : d >= a.invoke /\ \E t \in b.complete : d <= t

of_client(c) == {i \in 1..Len(history) : history[i].client = c}

\* The clients whose operations the report makes claims about.
in_domain(c) ==
  /\ \A i \in of_client(c) :
       LET o == history[i] IN o.complete # None /\ ~o.probe /\ o.outcome \notin {Timeout, Error}
  /\ \A i, j \in of_client(c) : i < j => happens_before(history[i], history[j])

read_your_writes(c) ==
  {<<w, r>> \in of_client(c) \X of_client(c) :
     LET write == history[w]
         read == history[r]
     IN /\ read.kind.op = "Get" /\ read.kind.key = write.kind.key
        /\ happens_before(write, read)
        /\ persistence_interval_is_before_deadline(write, end_of(read))
        /\ ~has_intervening_mutation(write.kind.key, write.invoke, end_of(read), w)
        /\ \E e \in expected_mutation_observation(write) : ~observation_matches(e, read.outcome)}

monotonic_reads(c) ==
  LET reads == {i \in of_client(c) : history[i].kind.op = "Get"}
  IN {<<a, b>> \in reads \X reads :
        /\ a < b /\ ~\E i \in reads : a < i /\ i < b
        /\ history[a].kind.key = history[b].kind.key
        /\ history[a].outcome # history[b].outcome
        /\ ~has_possible_expiry_between(history[a], history[b])
        /\ ~has_intervening_mutation(history[a].kind.key, history[a].invoke, end_of(history[b]), a)}

check_session_guarantees ==
  UNION {read_your_writes(c) \cup monotonic_reads(c) : c \in {d \in {1} : in_domain(d)}}

\* Labels on reads: a value after an acknowledged delete; a value an
\* acknowledged write should have replaced; a value nobody acknowledged.
successful_write_value(o) ==
  IF o.outcome \in {Ok, CasReply(TRUE)} /\ o.kind.op \in {"Set", "Cas"} THEN {o.kind.value} ELSE {}

read_values(o) == {v[1] : v \in o.outcome.val}

classify_reads ==
  UNION {LET read == history[r]
             key == read.kind.key
             before(i) == happens_before(history[i], read)
             quiet(i) == ~has_intervening_mutation(key, history[i].invoke, end_of(read), i)
             wrote(i, v) == history[i].kind.key = key /\ v \in successful_write_value(history[i])
             ids == 1..Len(history)
         IN {"Resurrection" : i \in {j \in ids :
               /\ history[j].kind.op = "Del" /\ history[j].kind.key = key /\ history[j].outcome = Ok
               /\ before(j) /\ quiet(j) /\ read_values(read) # {}}}
            \cup {"StaleRead" : i \in {j \in ids : \E v \in read_values(read) :
               /\ successful_write_value(history[j]) \notin {{}, {v}} /\ history[j].kind.key = key
               /\ before(j) /\ quiet(j)
               /\ \E e \in ids : wrote(e, v) /\ before(e)
               /\ persistence_interval_is_before_deadline(history[j], end_of(read))}}
            \cup {"DirtyRead" : v \in {u \in read_values(read) :
               ~\E i \in ids : wrote(i, u) /\ history[i].invoke <= end_of(read)}}
         : r \in {i \in 1..Len(history) : history[i].kind.op = "Get" /\ history[i].outcome.tag = "Value"
                                         /\ history[i].complete # None /\ ~history[i].probe}}

has_intervening_reset(key, a, b) ==
  \E i \in 1..Len(history) :
    LET o == history[i] IN
    /\ i \notin {a, b} /\ o.kind.key = key /\ o.kind.op # "Incr" /\ is_successful_mutation(o)
    /\ o.invoke < history[b].invoke /\ \E t \in o.complete : t > end_of(history[a])

classify_non_monotonic_increments ==
  {"NonMonotonicIncr" : p \in {q \in (1..Len(history)) \X (1..Len(history)) :
     LET a == history[q[1]]
         b == history[q[2]]
     IN /\ a.kind.op = "Incr" /\ b.kind.op = "Incr" /\ a.kind.key = b.kind.key
        /\ a.outcome.tag = "Integer" /\ b.outcome.tag = "Integer"
        /\ happens_before(a, b)
        /\ \E x \in read_values(a), y \in read_values(b) : y < x
        /\ ~has_intervening_reset(a.kind.key, q[1], q[2])}}

classify_final_probe_failures ==
  {"AckedWriteLost" : q \in {p \in (1..Len(history)) \X (1..Len(history)) :
     LET o == history[p[1]]
         probe == history[p[2]]
     IN /\ probe.probe /\ probe.complete # None
        /\ o.kind.key = probe.kind.key /\ is_successful_mutation(o)
        /\ happens_before(o, probe)
        /\ persistence_interval_is_before_deadline(o, end_of(probe))
        /\ ~has_intervening_mutation(probe.kind.key, o.invoke, end_of(probe), p[1])
        /\ \E e \in expected_mutation_observation(o) : ~observation_matches(e, probe.outcome)}}

classify_lost_updates ==
  {"LostUpdate" : q \in {p \in (1..Len(history)) \X (1..Len(history)) \X (1..Len(history)) :
     LET a == history[p[1]]
         b == history[p[2]]
         probe == history[p[3]]
     IN /\ p[1] < p[2] /\ probe.probe
        /\ a.outcome = CasReply(TRUE) /\ b.outcome = CasReply(TRUE)
        /\ a.kind.key = b.kind.key /\ a.kind.expected = b.kind.expected /\ a.kind.value # b.kind.value
        /\ happens_before(a, b) \/ happens_before(b, a)
        /\ probe.kind.key = a.kind.key /\ happens_before(a, probe) /\ happens_before(b, probe)
        /\ read_values(probe) \cap {a.kind.value, b.kind.value} # {}}}

classify_anomalies ==
  classify_reads \cup classify_non_monotonic_increments
    \cup classify_final_probe_failures \cup classify_lost_updates

-----------------------------------------------------------------------------
(* The histories, and the atomic map that decides which are linearizable. *)

\* One operation taking effect in the map at an instant.
atomic(m, o, at) ==
  IF o.kind.op = "Get"
  THEN {[model |-> m, out |-> Value(values({c \in m[o.kind.key] : \A d \in c.deadline : at < d}))]}
  ELSE apply_operation(m, o.kind, o.deadline)

pending(ops, c) == {i \in 1..Len(ops) : ops[i].complete = None /\ ~\E g \in c.got : g[1] = i}

\* Every state reachable by letting operations in flight take effect at an instant.
RECURSIVE settle(_, _, _)
settle(cs, ops, at) ==
  LET more == cs \cup UNION {UNION {{[model |-> a.model, got |-> c.got \cup {<<i, a.out>>}]
                                     : a \in atomic(c.model, ops[i], at)} : i \in pending(ops, c)} : c \in cs}
  IN IF more = cs THEN cs ELSE settle(more, ops, at)

Init ==
  /\ history = <<>> /\ now = 0 /\ load \in Workloads
  /\ configs = {[model |-> initial_model, got |-> {}]}

\* Client 0 stands for operations outside any session.
busy(c) == c # 0 /\ \E i \in of_client(c) : history[i].complete = None

completed_now == \E i \in 1..Len(history) : history[i].complete = {now}

\* A client sends an operation. At one instant invocations come before answers:
\* operations that touch at an instant are concurrent.
Invoke ==
  /\ Len(history) < load.ops
  /\ Cardinality({i \in 1..Len(history) : history[i].complete = None}) < load.open
  /\ \E kind \in load.kinds, c \in load.clients, t \in {now, now + 1} :
     \E ttl \in IF kind.op = "Set" THEN load.ttls ELSE {None} :
       /\ ~busy(c)
       /\ t = now => ~completed_now
       /\ LET o == [client |-> c, invoke |-> t, complete |-> None, kind |-> kind, outcome |-> Timeout,
                    deadline |-> {t + n : n \in ttl}, probe |-> FALSE]
          IN history' = Append(history, o)
       /\ now' = t
       /\ configs' = settle(configs, history', t)
  /\ UNCHANGED load

\* A strong read after everything has come to rest.
Probe ==
  /\ Len(history) = load.ops /\ load.probe
  /\ \A i \in 1..Len(history) : ~history[i].probe /\ history[i].complete # None
  /\ \E k \in Keys :
       history' = Append(history, [client |-> 0, invoke |-> now + 1, complete |-> None, kind |-> Get(k),
                                   outcome |-> Timeout, deadline |-> None, probe |-> TRUE])
  /\ now' = now + 1
  /\ configs' = settle(configs, history', now')
  /\ UNCHANGED load

\* Answers worth recording: those of the map and wrong ones of the same form.
answers(kind) ==
  CASE kind.op \in {"Set", "Del"} -> {Ok, Error}
    [] kind.op = "Get" -> {Value(v) : v \in {{}} \cup {{n} : n \in load.values}}
    [] kind.op = "Incr" -> {Integer(n) : n \in 1..MaxInt} \cup {Error}
    [] kind.op = "Cas" -> {CasReply(TRUE), CasReply(FALSE)}
    [] kind.op = "Scan" -> {ScanReply({}), ScanReply({<<1, 1>>}), ScanReply({<<1, 1>>, <<2, 2>>})}
    [] kind.op = "Batch" -> UNION {{BatchReply(<<a, b>>) : a \in {Ok}, b \in {Ok, Value({1}), Value({})}}}

Complete ==
  /\ \E i \in 1..Len(history), t \in now..(now + load.pause) :
       /\ history[i].complete = None
       /\ \E out \in answers(history[i].kind) :
            /\ out = Error => load.errors
            /\ history' = [history EXCEPT ![i].complete = {t}, ![i].outcome = out]
            /\ configs' =
                 LET live == settle(configs, history, t)
                 IN IF out = Error THEN {c \in live : ~\E g \in c.got : g[1] = i}
                    ELSE {[c EXCEPT !.got = @ \ {<<i, out>>}] : c \in {d \in live : <<i, out>> \in d.got}}
       /\ now' = t
  /\ UNCHANGED load

Next == Invoke \/ Probe \/ Complete

-----------------------------------------------------------------------------
(* Properties. *)

judged == \A i \in 1..Len(history) : ~history[i].probe

\* The answer the search owes is that of the atomic map, and a search that
\* gives up for want of states says Undecided, never one of the verdicts.
\* Deadlines only widen what a read may return, so with them the search may
\* accept too much but still never rejects (check, check_single, search).
VerdictExact ==
  judged => \A limit \in MaxStates :
    LET verdict == check_with_initial_raw(history, limit)
    IN \/ verdict = "Undecided" /\ limit < Max(MaxStates)
       \/ verdict = "Linearizable" /\ (configs # {} \/ load.ttls # {None})
       \/ verdict = "NotLinearizable" /\ configs = {}

\* A witness is evidence: the operations it names fail on their own, it never
\* spends more than its budget, and if it claims to be one-minimal no
\* operation can be left out of it (minimize_witness_with_initial).
WitnessFails ==
  judged =>
    LET failing == failing_sets(Max(MaxStates))
    IN 1..Len(history) \in failing => \A budget \in Budget :
         LET w == minimize_witness(budget, failing)
             ids == ToSet(w.candidate)
         IN /\ w.calls <= budget
            /\ ids \in failing
            /\ w.one_minimal => \A i \in ids : ids \ {i} \notin failing

\* The two checkers do not contradict each other: a linearizable history has
\* no session violation (cross_check_linearizable_sessions).
SessionsAgree == configs # {} /\ judged => check_session_guarantees = {}

\* Resurrected and stale values and lost acknowledged writes are facts: a
\* linearizable history, its final probe included, never earns those labels
\* (classify_anomalies, classify_final_probe_failures).
LabelsAreFacts ==
  configs # {} => classify_anomalies \cap {"Resurrection", "StaleRead", "AckedWriteLost"} = {}
=============================================================================
