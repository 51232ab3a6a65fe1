-------------------------------- MODULE Xdr ---------------------------------
(***************************************************************************)
(* The XDR format: what the marshaling archives write and read for every   *)
(* kind of type, and how many bytes a value takes.                         *)
(*                                                                         *)
(* A buffer is a sequence of bytes.  The sizes are scaled down: a byte has *)
(* Base values (256 in the code) and a word two bytes (four).  A type is a *)
(* record that says what the compiler generates for it; a value is a       *)
(* number, a sequence of bytes, a sequence of values (vectors, structs and *)
(* tuples), or <<tag, value>> for a union.                                 *)
(***************************************************************************)
EXTENDS Integers, Sequences, SequencesExt

CONSTANT Base       \* the values of a byte

uint32          == [kind |-> "uint32"]
opaque_array(n) == [kind |-> "opaque_array", n |-> n]
opaque_vec(max) == [kind |-> "opaque_vec", max |-> max]
xvector(max, t) == [kind |-> "xvector", max |-> max, of |-> t]
struct(fields)  == [kind |-> "struct", fields |-> fields]
xdr_void        == struct(<< >>)
\* other is {} or, when there is a default arm, the set of its type.
union(arms, other) == [kind |-> "union", arms |-> arms, other |-> other]

WordBytes == 2
swap32le(v) == <<v \div Base, v % Base>>            \* a word in network byte order
Padding(n) == (WordBytes - (n % WordBytes)) % WordBytes

HasArm(t, tag) == tag \in DOMAIN t.arms \/ t.other # {}
arm(t, tag) == IF tag \in DOMAIN t.arms THEN t.arms[tag] ELSE CHOOSE type \in t.other : TRUE

-----------------------------------------------------------------------------
\* How many bytes xdr_to_msg allocates.

RECURSIVE serial_size(_, _), serial_sizes(_, _)

size_bytes(n) == n + Padding(n)

serial_sizes(ts, vs) ==
    IF ts = << >> THEN 0 ELSE serial_size(Head(ts), Head(vs)) + serial_sizes(Tail(ts), Tail(vs))

serial_size(t, v) ==
    CASE t.kind = "uint32"       -> WordBytes
      [] t.kind = "opaque_array" -> size_bytes(t.n)
      [] t.kind = "opaque_vec"   -> WordBytes + size_bytes(Len(v))
      [] t.kind = "xvector"      -> WordBytes + serial_sizes([i \in DOMAIN v |-> t.of], v)
      [] t.kind = "struct"       -> serial_sizes(t.fields, v)
      [] t.kind = "union"        -> WordBytes + serial_size(arm(t, v[1]), v[2])

-----------------------------------------------------------------------------
\* Writing.
RECURSIVE put(_, _), put_all(_, _)

put_bytes(bytes) == bytes \o [i \in 1 .. Padding(Len(bytes)) |-> 0]

put_all(ts, vs) ==
    IF ts = << >> THEN << >> ELSE put(Head(ts), Head(vs)) \o put_all(Tail(ts), Tail(vs))

put(t, v) ==
    CASE t.kind = "uint32"       -> swap32le(v)
      [] t.kind = "opaque_array" -> put_bytes(v)
      [] t.kind = "opaque_vec"   -> swap32le(Len(v)) \o put_bytes(v)
      [] t.kind = "xvector"      -> swap32le(Len(v)) \o put_all([i \in DOMAIN v |-> t.of], v)
      [] t.kind = "struct"       -> put_all(t.fields, v)
      [] t.kind = "union"        -> swap32le(v[1]) \o put(arm(t, v[1]), v[2])

\* A buffer of the computed size; the two must agree or an assertion fails.
xdr_to_msg(ts, vs) ==
    LET bytes == put_all(ts, vs) IN
    [ok |-> Len(bytes) = serial_sizes(ts, vs), bytes |-> bytes]

-----------------------------------------------------------------------------
\* Reading: the value found at p in the buffer b and where it ends, as a set that is
\* empty when an error is thrown.
RECURSIVE get(_, _, _), get_all(_, _, _)

Found(v, p) == [v |-> v, p |-> p]

check(b, p, n) == n <= Len(b) - p

get32(b, p) ==
    IF check(b, p, WordBytes) THEN {Found(b[p + 1] * Base + b[p + 2], p + WordBytes)} ELSE {}

get_bytes(b, p, n) ==
    IF check(b, p, n) /\ \A i \in 1 .. Padding(n) : b[p + n + i] = 0
    THEN {Found(SubSeq(b, p + 1, p + n), p + n + Padding(n))} ELSE {}

get_all(ts, b, p) ==
    IF ts = << >> THEN {Found(<< >>, p)} ELSE
    UNION {{Found(<<first.v>> \o rest.v, rest.p) : rest \in get_all(Tail(ts), b, first.p)} :
           first \in get(Head(ts), b, p)}

\* A vector that is longer than its type allows is an error.
get_vec(t, b, p) ==
    UNION {IF t.kind = "opaque_vec" THEN get_bytes(b, n.p, n.v)
           ELSE get_all([i \in 1 .. n.v |-> t.of], b, n.p) :
           n \in {size \in get32(b, p) : size.v <= t.max}}

get_union(t, b, p) ==
    UNION {{Found(<<tag.v, field.v>>, field.p) : field \in get(arm(t, tag.v), b, tag.p)} :
           tag \in {x \in get32(b, p) : HasArm(t, x.v)}}

get(t, b, p) ==
    CASE t.kind = "uint32"       -> get32(b, p)
      [] t.kind = "opaque_array" -> get_bytes(b, p, t.n)
      [] t.kind \in {"opaque_vec", "xvector"} -> get_vec(t, b, p)
      [] t.kind = "struct"       -> get_all(t.fields, b, p)
      [] t.kind = "union"        -> get_union(t, b, p)

\* The archive is set up on a buffer, which must have a whole number of words.
aligned(b) == Len(b) % WordBytes = 0

\* done(): the whole buffer must have been read.
get_done(t, b, p) == {all \in get(t, b, p) : all.p = Len(b)}
=============================================================================
