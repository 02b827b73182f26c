-------------------------------- MODULE Codec --------------------------------
(***************************************************************************)
(* What a format means: enc(f, v) is the set of cell sequences an encoder  *)
(* of format f emits for v (none when it refuses, otherwise one), and      *)
(* dec(f, s) is the set of pairs <<value, remaining cells>> a decoder      *)
(* reads from the front of s (none when it refuses, otherwise one).  They  *)
(* model Enc and Dec of cc-core and the field-by-field code above them.    *)
(***************************************************************************)
EXTENDS Wire

The(S) == CHOOSE x \in S : TRUE

(***************************************************************************)
(* A checksum of one cell that any change of one cell changes, and that    *)
(* can be carried on from piece to piece as Crc32c::update does: the value *)
(* of a polynomial in 31, taken by halves.                                 *)
(***************************************************************************)
Modulus == 10007
RECURSIVE power(_), polynomial(_, _, _)
power(n) == IF n = 0 THEN 1
            ELSE LET h == power(n \div 2)
                 IN (((h * h) % Modulus) * (IF n % 2 = 1 THEN 31 ELSE 1)) % Modulus
polynomial(s, lo, hi) ==
  IF hi < lo THEN 0
  ELSE IF lo = hi THEN s[lo] + 7
  ELSE LET mid == (lo + hi) \div 2
       IN (polynomial(s, lo, mid) * power(hi - mid) + polynomial(s, mid + 1, hi)) % Modulus
crc_update(c, s) == (c * power(Len(s)) + polynomial(s, 1, Len(s))) % Modulus
crc(s) == crc_update(1, s)

(***************************************************************************)
(* Enc::bytes stops the process on a string over MAX_CODEC_BYTES.          *)
(***************************************************************************)
Abort == -1
bytes(s) == IF Len(s) > Cap.codec THEN <<Abort>> ELSE <<Len(s)>> \o s

Concat(ss) ==
  LET f[i \in 0..Len(ss)] == IF i = 0 THEN <<>> ELSE f[i - 1] \o ss[i]
  IN f[Len(ss)]

Join(parts) == IF \E i \in DOMAIN parts : parts[i] = {} THEN {}
               ELSE {Concat([i \in DOMAIN parts |-> The(parts[i])])}

(***************************************************************************)
(* The elements of a finite set in ascending order of key.                 *)
(***************************************************************************)
Sorted(S, key(_)) ==
  [i \in 1..Cardinality(S) |->
     CHOOSE x \in S : Cardinality({y \in S : key(y) < key(x)}) = i - 1]

position(names, name) == CHOOSE i \in DOMAIN names : names[i] = name
case_of(cs, name)     == CHOOSE i \in DOMAIN cs : cs[i][1] = name

RECURSIVE enc(_, _)
enc(f, v) ==
  CASE f.k = "int"     -> {<<v>>}
    [] f.k = "lit"     -> {<<f.c>>}
    [] f.k = "in"      -> IF v \in f.of THEN {<<v>>} ELSE {}
    [] f.k = "pos"     -> IF v # 0 THEN {<<v>>} ELSE {}
    [] f.k = "flag"    -> {<<IF v THEN 1 ELSE 0>>}
    [] f.k = "enum"    -> {<<position(f.names, v)>>}
    [] f.k = "words"   -> IF v \in DOMAIN f.t THEN {f.t[v]} ELSE {}
    [] f.k = "bytes"   -> {bytes(v)}
    [] f.k = "summed"  -> {<<crc(v)>> \o bytes(v)}
    [] f.k = "rest"    -> {v}
    [] f.k = "absent"  -> {<<>>}
    [] f.k = "opt"     -> IF v = {} THEN {<<0>>} ELSE {<<1>> \o b : b \in enc(f.f, The(v))}
    [] f.k = "blank"   -> IF v = {} THEN {[i \in 1..f.n + 1 |-> 0]}
                          ELSE {<<1>> \o b : b \in enc(f.f, The(v))}
    [] f.k = "many"    -> IF Len(v) \notin f.of THEN {}
                          ELSE Join(<<{<<Len(v)>>}>> \o [i \in DOMAIN v |-> enc(f.f, v[i])])
    [] f.k = "times"   -> IF Len(v) # f.n THEN {}
                          ELSE Join([i \in DOMAIN v |-> enc(f.f, v[i])])
    [] f.k = "set"     -> IF Cardinality(v) \notin f.of \/ 0 \in v THEN {}
                          ELSE {<<Cardinality(v)>> \o Sorted(v, LAMBDA x : x)}
    [] f.k = "map"     -> IF Cardinality(v) \notin f.of THEN {}
                          ELSE LET s == Sorted(v, LAMBDA x : x[f.key])
                               IN Join(<<{<<Len(s)>>}>> \o [i \in DOMAIN s |-> enc(f.f, s[i])])
    [] f.k = "framed"  -> {bytes(b) : b \in enc(f.f, v)}
    [] f.k = "sumframed" -> {<<Len(b), crc(b)>> \o b :
                               b \in {b \in enc(f.f, v) : Len(b) \in f.of}}
    [] f.k = "sealed"  -> {Append(b, crc(b)) : b \in enc(f.f, v)}
    [] f.k = "limit"   -> {b \in enc(f.f, v) : Len(b) <= f.n}
    [] f.k = "where"   -> IF meets(f.p, v) THEN enc(f.f, v) ELSE {}
    [] f.k = "tagged"  -> LET i == case_of(f.cs, v.is)
                          IN {<<i>> \o b : b \in enc(f.cs[i][2], v.v)}
    [] f.k = "either"  -> enc(f.cs[case_of(f.cs, v.is)][2], v.v)
    [] f.k = "first"   -> enc(f.fs[1], v)
    [] f.k = "rec"     ->
         Join([i \in DOMAIN f.fs |->
                 LET n == f.fs[i][1]
                     g == f.fs[i][2]
                 IN CASE n = ""      -> enc(g, 0)
                      [] g.k = "dep" -> IF v[g.field] \notin DOMAIN g.table THEN {}
                                        ELSE enc(g.table[v[g.field]], v[n])
                      [] OTHER       -> enc(g, v[n])])

(***************************************************************************)
(* Reading: one cell that passes a test, n cells, and a length and cells.  *)
(***************************************************************************)
cell(s, ok(_)) == IF s = <<>> THEN {} ELSE IF ok(Head(s)) THEN {<<Head(s), Tail(s)>>} ELSE {}
take(s, n)     == IF n > Len(s) THEN {}
                  ELSE {<<SubSeq(s, 1, n), SubSeq(s, n + 1, Len(s))>>}
string(s)      == UNION {take(r[2], r[1]) : r \in cell(s, LAMBDA c : c \in 0..Cap.codec)}
AnyCell(c)     == TRUE

(***************************************************************************)
(* The value of a reading that leaves nothing.                             *)
(***************************************************************************)
whole(rs) == {r[1] : r \in {r \in rs : r[2] = <<>>}}

RECURSIVE dec(_, _), dec_fields(_, _, _), dec_items(_, _, _, _)
dec_fields(fs, acc, s) ==
  IF fs = <<>> THEN {<<acc, s>>}
  ELSE LET n == Head(fs)[1]
           g == Head(fs)[2]
           h == IF g.k # "dep" THEN g
                ELSE IF acc[g.field] \in DOMAIN g.table THEN g.table[acc[g.field]] ELSE Never
       IN UNION {dec_fields(Tail(fs), IF n = "" THEN acc ELSE acc @@ (n :> r[1]), r[2]) :
                   r \in dec(h, s)}
dec_items(f, n, acc, s) ==
  IF n = 0 THEN {<<acc, s>>}
  ELSE UNION {dec_items(f, n - 1, Append(acc, r[1]), r[2]) : r \in dec(f, s)}
dec(f, s) ==
  CASE f.k = "int"     -> cell(s, AnyCell)
    [] f.k = "lit"     -> cell(s, LAMBDA c : c = f.c)
    [] f.k = "in"      -> cell(s, LAMBDA c : c \in f.of)
    [] f.k = "pos"     -> cell(s, LAMBDA c : c # 0)
    [] f.k = "flag"    -> {<<r[1] = 1, r[2]>> : r \in cell(s, LAMBDA c : c \in {0, 1})}
    [] f.k = "enum"    -> {<<f.names[r[1]], r[2]>> :
                             r \in cell(s, LAMBDA c : c \in DOMAIN f.names)}
    [] f.k = "words"   -> {<<n, SubSeq(s, Len(f.t[n]) + 1, Len(s))>> :
                             n \in {n \in DOMAIN f.t : /\ Len(f.t[n]) <= Len(s)
                                                       /\ SubSeq(s, 1, Len(f.t[n])) = f.t[n]}}
    [] f.k = "bytes"   -> string(s)
    [] f.k = "summed"  -> UNION {{b \in string(r[2]) : crc(b[1]) = r[1]} : r \in cell(s, AnyCell)}
    [] f.k = "rest"    -> {<<s, <<>>>>}
    [] f.k = "absent"  -> {<<f.v, s>>}
    [] f.k = "opt"     -> UNION {IF r[1] = 0 THEN {<<{}, r[2]>>}
                                 ELSE {<<{b[1]}, b[2]>> : b \in dec(f.f, r[2])} :
                                   r \in cell(s, LAMBDA c : c \in {0, 1})}
    [] f.k = "blank"   -> UNION {IF r[1] = 0
                                 THEN {<<{}, b[2]>> : b \in {b \in take(r[2], f.n) :
                                                               \A i \in 1..f.n : b[1][i] = 0}}
                                 ELSE {<<{b[1]}, b[2]>> : b \in dec(f.f, r[2])} :
                                   r \in cell(s, LAMBDA c : c \in {0, 1})}
    [] f.k = "many"    -> UNION {dec_items(f.f, r[1], <<>>, r[2]) :
                                   r \in cell(s, LAMBDA c : c \in f.of)}
    [] f.k = "times"   -> dec_items(f.f, f.n, <<>>, s)
    [] f.k = "set"     -> UNION {{<<{b[1][i] : i \in 1..r[1]}, b[2]>> :
                                    b \in {b \in dec_items(Pos, r[1], <<>>, r[2]) :
                                             Distinct(b[1], LAMBDA x : x)}} :
                                   r \in cell(s, LAMBDA c : c \in f.of)}
    [] f.k = "map"     -> UNION {{<<{b[1][i] : i \in 1..r[1]}, b[2]>> :
                                    b \in {b \in dec_items(f.f, r[1], <<>>, r[2]) :
                                             Distinct(b[1], LAMBDA x : x[f.key])}} :
                                   r \in cell(s, LAMBDA c : c \in f.of)}
    [] f.k = "framed"  -> UNION {{<<v, r[2]>> : v \in whole(dec(f.f, r[1]))} : r \in string(s)}
    [] f.k = "sumframed" ->
         UNION {UNION {{<<v, b[2]>> : v \in whole(dec(f.f, b[1]))} :
                         b \in {b \in UNION {take(q[2], r[1]) : q \in cell(r[2], AnyCell)} :
                                  crc(b[1]) = r[2][1]}} :
                  r \in cell(s, LAMBDA c : c \in f.of)}
    [] f.k = "sealed"  -> UNION {{<<r[1], c[2]>> :
                                    c \in cell(r[2], LAMBDA c :
                                            c = crc(SubSeq(s, 1, Len(s) - Len(r[2]))))} :
                                   r \in dec(f.f, s)}
    [] f.k = "limit"   -> {r \in dec(f.f, s) : Len(s) - Len(r[2]) <= f.n}
    [] f.k = "where"   -> {r \in dec(f.f, s) : meets(f.p, r[1])}
    [] f.k = "tagged"  -> UNION {{<<[is |-> f.cs[r[1]][1], v |-> b[1]], b[2]>> :
                                    b \in dec(f.cs[r[1]][2], r[2])} :
                                   r \in cell(s, LAMBDA c : c \in DOMAIN f.cs)}
    [] f.k = "either"  -> UNION {{<<[is |-> f.cs[i][1], v |-> b[1]], b[2]>> :
                                    b \in dec(f.cs[i][2], s)} : i \in DOMAIN f.cs}
    [] f.k = "first"   -> LET ok == {i \in DOMAIN f.fs : dec(f.fs[i], s) # {}}
                          IN IF ok = {} THEN {}
                             ELSE dec(f.fs[CHOOSE i \in ok : \A j \in ok : i <= j], s)
    [] f.k = "rec"     -> dec_fields(f.fs, <<>>, s)

(***************************************************************************)
(* A value as an encoder writes it, and a whole record as a decoder that   *)
(* refuses trailing bytes reads it.                                        *)
(***************************************************************************)
encode(f, v) == enc(f, v)
decode(f, s) == whole(dec(f, s))
=============================================================================
