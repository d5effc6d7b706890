--------------------------------- MODULE Codec ---------------------------------
(***************************************************************************)
(* From C++ values to what the server reads, and from what it answers back *)
(* to C++ values: detail/serialization.hpp, size_of.hpp, oid_of.hpp,       *)
(* builtins.hpp and deserialization.hpp of include/psql, the accessors of  *)
(* result.hpp, row.hpp and field.hpp, and the SQLSTATE of an error.        *)
(*                                                                         *)
(* The bytes are kept: sizes, offsets, object identifiers and byte order   *)
(* are what can go wrong.  A type is a record of its kind k and the        *)
(* sequence of the types it is made of: none for a scalar, the items' type *)
(* for an array, the members' for a tuple or a user-defined type, which    *)
(* also has a name.  A text is its sequence of bytes, an array or a        *)
(* composite the sequence of its values.  An unsigned or floating-point    *)
(* value is its bits, read as a signed integer.  The type byte is a        *)
(* std::byte of the program, and any number of bytes at the server.        *)
(*                                                                         *)
(* What the templates do for a type is a function of what they do for the  *)
(* types it is made of: SizeWith(T, size) takes the sizes of the parts,    *)
(* and Sizes ties the knot.  The others are defined in the same way.       *)
(*                                                                         *)
(* The server is external.  It has its own, strict, reading and writing of *)
(* the wire format here, against which the library's is checked.           *)
(***************************************************************************)
EXTENDS Integers, SequencesExt, FiniteSetsExt

CONSTANTS
  Types,       \* the types of the program and the server, and those of their parts
  Depth,       \* how deep each of them nests, at most Nesting: no type contains
  Nesting,     \*   itself
  Catalog,     \* the types the server has
  UdtOids,     \* of each user-defined type, <<its oid, its array's oid>>
  Values,      \* of each type, the values a program has
  Data,        \* of each type, the values a server has: parts of them may be Null
  Samples,     \* values a program sends: a sequence of [t |-> type, v |-> value]
  Queries,     \* the parameters of its queries: sequences of indices of Samples
  Tables,      \* what the server may answer: [names, types, rows]
  Reads,       \* the types a program may ask a row for: sequences of types
  SqlStates,   \* SQLSTATEs of errors: five digits of base 36 each
  Null,        \* the SQL null
  TickRatio,   \* ticks of system_clock in a microsecond (1000)
  EpochShift,  \* microseconds from 1970 to 2000 (946684800000000)
  ClockBytes,  \* width of system_clock's count of ticks (8)
  MaxCalls     \* bound: queries started

Byte == 0 .. 255

VARIABLES
  oid_map,  \* names of the user-defined types whose oids are known
  buffer,   \* the connection's buffer_: its bytes, capacity and reallocations
  sent,     \* what PQsendQueryParams was given: [oid, pointer, length] each
  meant,    \* history variable: the query's parameters, indices of Samples
  answer,   \* the rows, or none
  code,     \* the error code of a failed query, 0 for none
  state,    \* history variable: the SQLSTATE the server gave
  got,      \* what the program read, and how
  stage, calls

vars == <<oid_map, buffer, sent, meant, answer, code, state, got, stage, calls>>

NoTable == [names |-> <<>>, types |-> <<>>, rows |-> <<>>]
NoRead  == [how |-> "none"]

Init ==
  /\ oid_map = {}
  /\ buffer = [bytes |-> <<>>, capacity |-> 0, reallocated |-> 0]
  /\ sent = <<>> /\ meant = <<>>
  /\ answer = NoTable /\ code = 0 /\ state = <<>> /\ got = NoRead
  /\ stage = "idle" /\ calls = 0

-----------------------------------------------------------------------------
(* Object identifiers and sizes.  Definitions named Wrong... are not part of    *)
(* Next: each is a slip this code could have had, kept to show that a property  *)
(* below notices it.                                                            *)

\* builtin<T>::oids
Builtin ==
  [bool  |-> <<16, 1000>>, byte   |-> <<17, 1001>>,  char   |-> <<18, 1002>>,
   int8  |-> <<20, 1016>>, int2   |-> <<21, 1005>>,  int4   |-> <<23, 1007>>,
   text  |-> <<25, 1009>>, oid    |-> <<26, 1028>>,  float4 |-> <<700, 1021>>,
   float8 |-> <<701, 1022>>, time |-> <<1114, 1115>>, tuple |-> <<2249, 2287>>]

\* sizeof
Width == [bool |-> 1, byte |-> 1, char |-> 1, int2 |-> 2, int4 |-> 4, int8 |-> 8,
          oid |-> 4, float4 |-> 4, float8 |-> 8]

IsComposite(T) == T.k \in {"tuple", "udt"}

\* oid_of<T>(omp), with the catalog's number for a type the map knows.
OidOf(T) ==
  CASE T.k = "udt" -> UdtOids[T.name][1]
    [] T.k = "array" -> IF T.of[1].k = "udt" THEN UdtOids[T.of[1].name][2] ELSE Builtin[T.of[1].k][2]
    [] OTHER -> Builtin[T.k][1]

\* oid_of<T>() of a reader: zero, which is not compared, for a user-defined type.
ExpectedOid(T) ==
  CASE T.k = "udt" -> 0
    [] T.k = "array" -> IF T.of[1].k = "udt" THEN 0 ELSE Builtin[T.of[1].k][2]
    [] OTHER -> Builtin[T.k][1]

SumOver(s) ==
  LET sum[i \in 0 .. Len(s)] == IF i = 0 THEN 0 ELSE sum[i - 1] + s[i]
  IN  IF s = <<>> THEN 0 ELSE sum[Len(s)]

\* The sequences of ss one after the other.
Concatenated(ss) == IF ss = <<>> THEN <<>> ELSE FlattenSeq(ss)

WrongSizeWith(T, size) == [v \in Values[T] |->
  CASE T.k = "text" -> Len(v)
    [] T.k = "time" -> 8
    [] T.k = "array" -> 20 + SumOver([i \in DOMAIN v |-> size[1][v[i]]])
    [] IsComposite(T) -> 4 + SumOver([i \in DOMAIN v |-> size[i][v[i]] + 8])
    [] OTHER -> Width[T.k]]

\* size_of_impl<T>::apply
SizeWith(T, size) == [v \in Values[T] |->
  CASE T.k = "text" -> Len(v)
    [] T.k = "time" -> 8
    [] T.k = "array" -> 20 + SumOver([i \in DOMAIN v |-> size[1][v[i]] + 4])
    [] IsComposite(T) -> 4 + SumOver([i \in DOMAIN v |-> size[i][v[i]] + 8])
    [] OTHER -> Width[T.k]]

Sizes[T \in Types] == SizeWith(T, [i \in DOMAIN T.of |-> Sizes[T.of[i]]])
SizeOf(T, v) == Sizes[T][v]

\* The user-defined types whose oid the serialization asks the map for.
OidNames(T) ==
  CASE T.k = "udt" -> {T.name}
    [] T.k = "array" -> IF T.of[1].k = "udt" THEN {T.of[1].name} ELSE {}
    [] OTHER -> {}

AskWith(T, ask) == [v \in Values[T] |->
  OidNames(T) \union
  CASE T.k = "array" -> UNION {ask[1][v[i]] : i \in DOMAIN v}
    [] IsComposite(T) -> UNION {ask[i][v[i]] : i \in DOMAIN v}
    [] OTHER -> {}]

Asks[T \in Types] == AskWith(T, [i \in DOMAIN T.of |-> Asks[T.of[i]]])
AsksFor(T, v) == Asks[T][v]

-----------------------------------------------------------------------------
(* Bytes *)

ShiftRight(v, bytes) ==
  LET shifted[i \in 0 .. bytes] == IF i = 0 THEN v ELSE shifted[i - 1] \div 256
  IN  shifted[bytes]

\* Two's complement, most significant byte first: what the wire carries.
BigEndian(v, w) == [i \in 1 .. w |-> ShiftRight(v, w - i) % 256]
FromBigEndian(b) ==
  LET n[i \in 0 .. Len(b)] ==
        IF i = 0 THEN IF b[1] >= 128 THEN -1 ELSE 0 ELSE n[i - 1] * 256 + b[i]
  IN  n[Len(b)]

\* v is a number of w bytes.
FitsIn(v, w) == v \in Int /\ ShiftRight(v, w - 1) \in -128 .. 127

\* endian_store and endian_load with order::big
EndianStore(v, w) == BigEndian(v, w)
EndianLoad(b, w) == FromBigEndian(SubSeq(b, 1, w))

WrongInt32(v) == Reverse(EndianStore(v, 4))

Int32(v) == EndianStore(v, 4)

\* Towards zero, as duration_cast and C++ division.
Quotient(a, b) == IF a >= 0 THEN a \div b ELSE -((-a) \div b)

-----------------------------------------------------------------------------
(* serialize_impl<T>::apply: what it appends to the buffer *)

WriteWith(T, write) == [v \in Values[T] |->
  CASE T.k = "text" -> v
    [] T.k = "time" -> EndianStore(Quotient(v, TickRatio) - EpochShift, 8)
    [] T.k = "array" ->
         Int32(1) \o Int32(0) \o Int32(OidOf(T.of[1])) \o Int32(Len(v)) \o Int32(0)
         \o Concatenated([i \in DOMAIN v |-> Int32(SizeOf(T.of[1], v[i])) \o write[1][v[i]]])
    [] IsComposite(T) ->
         Int32(Len(T.of))
         \o Concatenated([i \in DOMAIN v |->
              Int32(OidOf(T.of[i])) \o Int32(SizeOf(T.of[i], v[i])) \o write[i][v[i]]])
    [] OTHER -> EndianStore(v, Width[T.k])]

Writes[T \in Types] == WriteWith(T, [i \in DOMAIN T.of |-> Writes[T.of[i]]])
Serialized(T, v) == Writes[T][v]

\* An append past the capacity moves the string, and every pointer to it dangles.
Appended(b, bytes) ==
  LET n == Len(b.bytes) + Len(bytes)
  IN  [bytes |-> b.bytes \o bytes,
       capacity |-> Max({b.capacity, n}),
       reallocated |-> b.reallocated + IF n > b.capacity THEN 1 ELSE 0]

\* buffer.clear(); buffer.reserve(sum of the sizes)
WrongCleared(b, size) ==
  [b EXCEPT !.capacity = Max({@, size}),
            !.reallocated = @ + IF size > b.capacity THEN 1 ELSE 0]

Cleared(b, size) ==
  [bytes |-> <<>>,
   capacity |-> Max({b.capacity, size}),
   reallocated |-> b.reallocated + IF size > b.capacity THEN 1 ELSE 0]

\* What is passed of a parameter: the pointer is to where it will be put.
ParamAt(b, p) ==
  [oid |-> OidOf(p.t), length |-> SizeOf(p.t, p.v),
   pointer |-> [at |-> Len(b.bytes), in |-> b.reallocated]]

\* serialize(omp, buffer, v) of one parameter after the other.
Serialize(b, ps) ==
  LET size == SumOver([i \in DOMAIN ps |-> SizeOf(ps[i].t, ps[i].v)])
      after[i \in 0 .. Len(ps)] ==
        IF i = 0 THEN Cleared(b, size) ELSE Appended(after[i - 1], Serialized(ps[i].t, ps[i].v))
  IN  [buffer |-> after[Len(ps)], params |-> [i \in DOMAIN ps |-> ParamAt(after[i - 1], ps[i])]]

-----------------------------------------------------------------------------
(* deserialize_impl<T>::apply *)

Val(v) == [st |-> "value", val |-> v]
Throws == [st |-> "throw", val |-> <<>>]
\* It read bytes that are not there, or an addition or multiplication of signed
\* integers overflowed: the outcome can be anything.
Undefined == [st |-> "undefined", val |-> <<>>]

\* The values one after the other; the first that is none ends it.
AllOf(ds) ==
  IF ds = <<>> \/ \A i \in DOMAIN ds : ds[i].st = "value"
  THEN Val([i \in DOMAIN ds |-> ds[i].val])
  ELSE LET first == CHOOSE i \in DOMAIN ds :
                      /\ \A j \in 1 .. i - 1 : ds[j].st = "value"
                      /\ ds[i].st # "value"
       IN  [st |-> ds[first].st, val |-> <<>>]

\* The offsets of the parts of b, the first at from.  Each has a header of h bytes,
\* which ends with the number of bytes that follow.
Offsets(b, from, h, n) ==
  LET next == [p \in Int |->
        IF p \in 0 .. Len(b) - h THEN p + h + FromBigEndian(SubSeq(b, p + h - 3, p + h)) ELSE p]
      at[i \in 0 .. n] == IF i = 0 THEN from ELSE next[at[i - 1]]
  IN  at

\* deserialize_and_verify_oid
OidsAgree(expected, oid) == expected = 0 \/ expected = oid

\* A size of -1, the null's, is dynamic_extent to subspan.
PartRead(b, p, h, read) ==
  LET size == EndianLoad(SubSeq(b, p + h - 3, p + h), 4)
  IN  IF size < -1 \/ p + h + size > Len(b) THEN Undefined
      ELSE read[SubSeq(b, p + h + 1, IF size = -1 THEN Len(b) ELSE p + h + size)]

MemberRead(b, p, U, read) ==
  IF p \notin 0 .. Len(b) - 8 THEN Undefined
  ELSE IF ~OidsAgree(ExpectedOid(U), EndianLoad(SubSeq(b, p + 1, p + 4), 4)) THEN Throws
  ELSE PartRead(b, p, 8, read)

ItemRead(b, p, read) == IF p \notin 0 .. Len(b) - 4 THEN Undefined ELSE PartRead(b, p, 4, read)

\* The instant of a number of microseconds since 2000, in ticks.
Instant(m) == (m + EpochShift) * TickRatio

ReadWith(T, read) == [b \in Seq(Byte) |->
  CASE T.k = "text" -> Val(b)
    [] T.k = "time" ->
         IF Len(b) < 8 THEN Undefined
         ELSE LET t == Instant(EndianLoad(b, 8))
              IN  IF FitsIn(t, ClockBytes) THEN Val(t) ELSE Undefined
    [] IsComposite(T) ->
         IF Len(b) < 4 THEN Undefined
         ELSE IF EndianLoad(b, 4) # Len(T.of) THEN Throws
         ELSE LET at == Offsets(b, 4, 8, Len(T.of))
              IN  AllOf([i \in DOMAIN T.of |-> MemberRead(b, at[i - 1], T.of[i], read[i])])
    [] T.k = "array" ->
         IF Len(b) < 4 THEN Undefined
         ELSE IF EndianLoad(b, 4) # 1 THEN Throws
         ELSE IF Len(b) < 20 THEN Undefined
         ELSE IF ~OidsAgree(ExpectedOid(T.of[1]), EndianLoad(SubSeq(b, 9, 12), 4)) THEN Throws
         ELSE LET n  == EndianLoad(SubSeq(b, 13, 16), 4)
                  at == Offsets(b, 20, 4, n)
              IN  IF n < 0 THEN Throws  \* array.resize
                  ELSE IF n > Len(b) THEN Undefined
                  ELSE AllOf([i \in 1 .. n |-> ItemRead(b, at[i - 1], read[1])])
    [] OTHER -> IF Len(b) < Width[T.k] THEN Undefined ELSE Val(EndianLoad(b, Width[T.k]))]

Readers[T \in Types] == ReadWith(T, [i \in DOMAIN T.of |-> Readers[T.of[i]]])
Deserialized(T, b) == Readers[T][b]

-----------------------------------------------------------------------------
(* The server (external): a type's binary receive and send functions.  Its    *)
(* timestamps are microseconds since 2000.                                    *)

\* A part whose size is at p, exactly as long as it says.
PartReceived(b, p, receive) ==
  LET size == FromBigEndian(SubSeq(b, p + 1, p + 4))
  IN  IF p \notin 0 .. Len(b) - 4 THEN Throws
      ELSE IF size < 0 \/ p + 4 + size > Len(b) THEN Throws
      ELSE receive[SubSeq(b, p + 5, p + 4 + size)]

MemberReceived(b, p, U, receive) ==
  IF p \notin 0 .. Len(b) - 4 THEN Throws
  ELSE IF FromBigEndian(SubSeq(b, p + 1, p + 4)) # OidOf(U) THEN Throws
  ELSE PartReceived(b, p + 4, receive)

\* The parts, if they end where b does.
Exactly(b, rs, end) ==
  LET all == AllOf(rs) IN IF all.st = "value" /\ end = Len(b) THEN all ELSE Throws

ReceiveWith(S, receive) == [b \in Seq(Byte) |->
  LET IntAt(n) == FromBigEndian(SubSeq(b, n + 1, n + 4))
  IN  CASE S.k \in {"text", "byte"} -> Val(b)
        [] S.k = "tuple" -> Throws  \* no input of anonymous composite types
        [] S.k = "udt" ->
             IF Len(b) < 4 \/ IntAt(0) # Len(S.of) THEN Throws
             ELSE LET at == Offsets(b, 4, 8, Len(S.of))
                  IN  Exactly(b, [i \in DOMAIN S.of |->
                                    MemberReceived(b, at[i - 1], S.of[i], receive[i])],
                              at[Len(S.of)])
        [] S.k = "array" ->
             IF Len(b) >= 20 /\ IntAt(0) = 1 /\ IntAt(4) \in {0, 1} /\ IntAt(8) = OidOf(S.of[1])
                /\ IntAt(12) \in 0 .. Len(b)
             THEN LET at == Offsets(b, 20, 4, IntAt(12))
                  IN  Exactly(b, [i \in 1 .. IntAt(12) |-> PartReceived(b, at[i - 1], receive[1])],
                              at[IntAt(12)])
             ELSE Throws
        [] OTHER -> IF Len(b) = (IF S.k = "time" THEN 8 ELSE Width[S.k])
                    THEN Val(FromBigEndian(b)) ELSE Throws]

Receives[S \in Types] == ReceiveWith(S, [i \in DOMAIN S.of |-> Receives[S.of[i]]])
Received(S, b) == Receives[S][b]

Nulls(v) == IF \E i \in DOMAIN v : v[i] = Null THEN 1 ELSE 0
Sized(bytes) == BigEndian(Len(bytes), 4) \o bytes
SizedOrNull(v, send) == IF v = Null THEN BigEndian(-1, 4) ELSE Sized(send[v])

\* An empty array has no dimension.
SendWith(S, send) == [v \in Data[S] |->
  CASE S.k \in {"text", "byte"} -> v
    [] S.k = "time" -> BigEndian(v, 8)
    [] S.k = "array" ->
         IF v = <<>> THEN BigEndian(0, 4) \o BigEndian(0, 4) \o BigEndian(OidOf(S.of[1]), 4)
         ELSE BigEndian(1, 4) \o BigEndian(Nulls(v), 4) \o BigEndian(OidOf(S.of[1]), 4)
              \o BigEndian(Len(v), 4) \o BigEndian(1, 4)
              \o Concatenated([i \in DOMAIN v |-> SizedOrNull(v[i], send[1])])
    [] IsComposite(S) ->
         BigEndian(Len(S.of), 4)
         \o Concatenated([i \in DOMAIN v |->
              BigEndian(OidOf(S.of[i]), 4) \o SizedOrNull(v[i], send[i])])
    [] OTHER -> BigEndian(v, Width[S.k])]

Sent[S \in Types] == SendWith(S, [i \in DOMAIN S.of |-> Sent[S.of[i]]])
Sends(S, v) == Sent[S][v]

KnowsOid(oid) == \E T \in Catalog : OidOf(T) = oid
TypeOfOid(oid) == CHOOSE T \in Catalog : OidOf(T) = oid

\* The bytes a parameter's pointer and length denote, while they are there.
BytesOf(p) == SubSeq(buffer.bytes, p.pointer.at + 1, p.pointer.at + p.length)
ServerReads(p) == IF KnowsOid(p.oid) THEN Received(TypeOfOid(p.oid), BytesOf(p)) ELSE Throws

-----------------------------------------------------------------------------
(* result, row and field *)

SizeRange == 2^16
AsSize(i) == i % SizeRange  \* static_cast<size_t>, of fewer bits

\* The test of result::at and row::at.
Checked(i, n) == AsSize(i) < n

Ntuples == Len(answer.rows)
Nfields == Len(answer.types)

\* as<T>(field).  libpq has no type for a column beyond the result, whatever the
\* row, and no bytes for a field beyond it.
AsField(T, r, c) ==
  LET column == c \in 0 .. Nfields - 1
      S      == answer.types[c + 1]
      v      == answer.rows[r + 1][c + 1]
      oid    == IF column THEN OidOf(S) ELSE 0
      data   == IF ~column \/ r \notin 0 .. Ntuples - 1 THEN <<>>
                ELSE IF v = Null THEN <<>> ELSE Sends(S, v)
  IN  IF OidsAgree(ExpectedOid(T), oid) THEN Deserialized(T, data) ELSE Throws

WrongColumn(j) == IF j <= 2 THEN j - 1 ELSE j - 2

\* The column of the j-th type of as<T1, T2, Ts...>(row): 0, 1, Is + 2.
Column(j) == IF j <= 2 THEN j - 1 ELSE (j - 3) + 2

\* row.at(c) and as<T>(field).
AsRowAt(T, r, c) == IF Checked(c, Nfields) THEN AsField(T, r, c) ELSE Throws

\* as<Ts...>(row)
AsRow(Ts, r) == AllOf([j \in DOMAIN Ts |-> AsRowAt(Ts[j], r, Column(j))])

\* as<Ts...>(result)
AsResult(Ts) == IF Checked(0, Ntuples) THEN AsRow(Ts, 0) ELSE Throws

\* for (auto row : result), from begin() to end().
AsRows(Ts) ==
  LET upto[r \in 0 .. Ntuples] ==
        IF r = 0 THEN <<>> ELSE Append(upto[r - 1], AsRow(Ts, r - 1))
  IN  upto[Ntuples]

\* row.at(name): PQfnumber is the first column of that name.
AsNamed(T, r, name) ==
  IF \E c \in 1 .. Nfields : answer.names[c] = name
  THEN AsField(T, r, Min({c \in 1 .. Nfields : answer.names[c] = name}) - 1)
  ELSE Throws

-----------------------------------------------------------------------------
(* SQLSTATEs: strtol(e, nullptr, 36) and to_base36 *)

WrongStrtol36(s) ==
  LET n[i \in 0 .. Len(s)] ==
        CASE i = 0 -> 0
          [] i > 0 /\ s[i] < 10 -> n[i - 1] * 10 + s[i]
          [] OTHER -> n[i - 1]
  IN  n[Len(s)]

Strtol36(s) ==
  LET n[i \in 0 .. Len(s)] == IF i = 0 THEN 0 ELSE n[i - 1] * 36 + s[i]
  IN  n[Len(s)]

\* An int has at most six digits.
MaxDigits == 6

\* The loop over value, and the digits reversed.
ToBase36(n) ==
  LET value[i \in 0 .. MaxDigits] == IF i = 0 THEN n ELSE value[i - 1] \div 36
      turns == Min({i \in 0 .. MaxDigits : value[i] = 0})
  IN  [j \in 1 .. turns |-> value[turns - j] % 36]

-----------------------------------------------------------------------------
(* What the server has to make of a value. *)

\* The microsecond an instant of the system clock falls in, counted from 2000.
Microsecond(t) ==
  CHOOSE m \in {t \div TickRatio - EpochShift, t \div TickRatio + 1 - EpochShift} :
    LET back == (m + EpochShift) * TickRatio
    IN  IF t >= 0 THEN back \in t - TickRatio + 1 .. t ELSE back \in t .. t + TickRatio - 1

StoreWith(T, store) == [v \in Values[T] |->
  CASE T.k = "time" -> Microsecond(v)
    [] T.k = "array" -> [i \in DOMAIN v |-> store[1][v[i]]]
    [] IsComposite(T) -> [i \in DOMAIN v |-> store[i][v[i]]]
    [] T.k = "byte" -> <<v % 256>>
    [] OTHER -> v]

Stores[T \in Types] == StoreWith(T, [i \in DOMAIN T.of |-> Stores[T.of[i]]])
Stored(T, v) == Stores[T][v]

-----------------------------------------------------------------------------
(* What the constants are. *)

\* The server has no input of anonymous composites and their arrays.
Anonymous(T) == T.k = "tuple" \/ (T.k = "array" /\ T.of[1].k = "tuple")

\* An array of arrays has no Oid: builtin of it does not compile.
ASSUME TypesAssumption ==
  /\ Nesting \in Nat /\ Depth \in [Types -> 0 .. Nesting]
  /\ \A T \in Types :
       /\ T.k \in DOMAIN Width \union {"text", "time", "array", "tuple", "udt"}
       /\ T.of \in Seq(Types) /\ FitsIn(Len(T.of), 4)
       /\ \A i \in DOMAIN T.of : Depth[T.of[i]] < Depth[T]
       /\ T.k = "array" => Len(T.of) = 1 /\ T.of[1].k # "array"
       /\ T.k = "udt" => T.name \in DOMAIN UdtOids

FirstNormalObjectId == 16384

\* An Oid denotes one type, of a user's from FirstNormalObjectId on; a member of
\* a server's composite type is of a type of the server, and not anonymous.
ASSUME CatalogAssumption ==
  /\ \A n \in DOMAIN UdtOids : \A j \in {1, 2} :
       FitsIn(UdtOids[n][j], 4) /\ UdtOids[n][j] >= FirstNormalObjectId
  /\ Catalog \subseteq Types
  /\ \A S, T \in Catalog : OidOf(S) = OidOf(T) => S = T \/ Anonymous(S)
  /\ \A T \in Catalog : T.k \in {"array", "udt"} =>
       \A i \in DOMAIN T.of : T.of[i] \in Catalog /\ (T.k = "udt" => ~Anonymous(T.of[i]))

\* Values fit their types, and 2^31 bytes.
ASSUME ValuesAssumption ==
  /\ TickRatio \in Nat \ {0} /\ EpochShift \in Nat /\ ClockBytes \in Nat \ {0}
  /\ \A T \in Types : \A v \in Values[T] :
       /\ FitsIn(SizeOf(T, v), 4)
       /\ CASE T.k = "text" -> v \in Seq(Byte)
            [] T.k = "time" -> v \in Int /\ FitsIn(Quotient(v, TickRatio) - EpochShift, 8)
            [] T.k = "array" -> v \in Seq(Values[T.of[1]]) /\ FitsIn(Len(v), 4)
            [] IsComposite(T) -> /\ DOMAIN v = DOMAIN T.of
                                 /\ \A i \in DOMAIN v : v[i] \in Values[T.of[i]]
            [] OTHER -> FitsIn(v, Width[T.k])

\* So do the server's, which can have what a program sends.
ASSUME DataAssumption ==
  \A T \in Types :
    /\ Null \notin Data[T] /\ \A v \in Values[T] : Stored(T, v) \in Data[T]
    /\ T.k = "array" => <<>> \in Data[T]
    /\ \A v \in Data[T] :
         /\ FitsIn(Len(Sends(T, v)), 4)
         /\ CASE T.k \in {"text", "byte"} -> v \in Seq(Byte)
              [] T.k = "time" -> FitsIn(v, 8)
              [] T.k = "array" -> v \in Seq(Data[T.of[1]] \union {Null}) /\ FitsIn(Len(v), 4)
              [] IsComposite(T) -> /\ DOMAIN v = DOMAIN T.of
                                   /\ \A i \in DOMAIN v : v[i] \in Data[T.of[i]] \union {Null}
              [] OTHER -> FitsIn(v, Width[T.k])

\* Rows of as many columns as there are types; indices are below SizeRange, and no
\* column has the name of none.
IsAnswer(t) ==
  /\ t.types \in Seq(Types) /\ Len(t.types) < SizeRange
  /\ Len(t.rows) \in 0 .. SizeRange - 1 /\ DOMAIN t.rows = 1 .. Len(t.rows)
  /\ DOMAIN t.names = DOMAIN t.types /\ \A c \in DOMAIN t.names : t.names[c] # "nobody"
  /\ \A r \in DOMAIN t.rows :
       /\ DOMAIN t.rows[r] = DOMAIN t.types
       /\ \A c \in DOMAIN t.types : t.rows[r][c] \in Data[t.types[c]] \union {Null}

\* A program sends values of types the server has, but for anonymous ones.
ASSUME ProgramAssumption ==
  /\ MaxCalls \in Nat
  /\ \A i \in DOMAIN Samples :
       LET t == Samples[i].t
       IN  t \in Types /\ Samples[i].v \in Values[t] /\ (~Anonymous(t) => t \in Catalog)
  /\ \A is \in Queries : is \in Seq(DOMAIN Samples) /\ Len(is) < SizeRange
  /\ \A i \in DOMAIN Reads : Reads[i] \in Seq(Types) /\ Len(Reads[i]) < SizeRange
  /\ \A i \in DOMAIN Tables : IsAnswer(Tables[i])
  /\ \A s \in SqlStates : s \in [1 .. 5 -> 0 .. 35] /\ \E i \in 1 .. 5 : s[i] # 0

-----------------------------------------------------------------------------
(* Actions *)

\* async_query_oids has found the types.
LearnTypes ==
  /\ stage = "idle"
  /\ oid_map = {}
  /\ oid_map' = DOMAIN UdtOids
  /\ UNCHANGED <<buffer, sent, meant, answer, code, state, got, stage, calls>>

\* detail::serialize and PQsendQueryParams, which copies.  Asking for the oid of
\* a type that is not in the map throws; what that leaves in the buffer the next
\* call clears.
PushQuery(is) ==
  LET ps == [i \in DOMAIN is |-> Samples[is[i]]]
  IN  /\ stage \in {"idle", "read"}
      /\ calls < MaxCalls
      /\ calls' = calls + 1
      /\ answer' = NoTable /\ code' = 0 /\ state' = <<>> /\ got' = NoRead
      /\ UNCHANGED oid_map
      /\ IF \E i \in DOMAIN ps : ~(AsksFor(ps[i].t, ps[i].v) \subseteq oid_map)
         THEN /\ stage' = "idle"
              /\ sent' = <<>> /\ meant' = <<>>
              /\ UNCHANGED buffer
         ELSE LET s == Serialize(buffer, ps)
              IN  /\ stage' = "sent"
                  /\ buffer' = s.buffer
                  /\ sent' = s.params
                  /\ meant' = is

\* SELECT of its parameters.
ServerEchoes ==
  /\ stage = "sent" /\ sent # <<>>
  /\ \A i \in DOMAIN sent : ServerReads(sent[i]).st = "value"
  /\ answer' = [names |-> [i \in DOMAIN sent |-> "column"],
                types |-> [i \in DOMAIN sent |-> TypeOfOid(sent[i].oid)],
                rows  |-> <<[i \in DOMAIN sent |-> ServerReads(sent[i]).val]>>]
  /\ stage' = "answered"
  /\ UNCHANGED <<oid_map, buffer, sent, meant, code, state, got, calls>>

ServerAnswers ==
  /\ stage = "sent" /\ sent = <<>>
  /\ \E i \in DOMAIN Tables : answer' = Tables[i]
  /\ stage' = "answered"
  /\ UNCHANGED <<oid_map, buffer, sent, meant, code, state, got, calls>>

\* An error, and result_status_to_error_code of it.
ServerFails ==
  /\ stage = "sent"
  /\ sent = <<>> \/ \E i \in DOMAIN sent : ServerReads(sent[i]).st # "value"
  /\ \E s \in SqlStates : state' = s /\ code' = Strtol36(s)
  /\ stage' = "read"
  /\ UNCHANGED <<oid_map, buffer, sent, meant, answer, got, calls>>

Reading(how, ts, r, c, result) ==
  got' = [how |-> how, ts |-> ts, r |-> r, c |-> c, st |-> result.st, val |-> result.val]

\* The types are those of a client of the table, or others.
Read ==
  /\ stage = "answered"
  /\ \E ts \in DOMAIN Reads \union {0} :
       LET Ts == IF ts = 0 THEN answer.types ELSE Reads[ts]
       IN  \/ Reading("result", ts, 0, 0, AsResult(Ts))
           \/ Reading("rows", ts, 0, 0, AllOf(AsRows(Ts)))
           \/ /\ Len(Ts) = 1
              /\ \E r \in -1 .. Ntuples, c \in -1 .. Nfields :
                   \/ Reading("at", ts, r, c,
                        IF Checked(r, Ntuples) THEN AsRowAt(Ts[1], r, c) ELSE Throws)
                   \/ Reading("index", ts, r, c, AsField(Ts[1], r, c))
           \/ /\ Len(Ts) = 1 /\ Ntuples > 0
              /\ \E c \in 0 .. Nfields :
                   Reading("name", ts, 0, c,
                     AsNamed(Ts[1], 0, IF c = Nfields THEN "nobody" ELSE answer.names[c + 1]))
  /\ stage' = "read"
  /\ UNCHANGED <<oid_map, buffer, sent, meant, answer, code, state, calls>>

Next ==
  \/ LearnTypes
  \/ \E is \in Queries : PushQuery(is)
  \/ ServerEchoes \/ ServerAnswers \/ ServerFails
  \/ Read

Spec == Init /\ [][Next]_vars

-----------------------------------------------------------------------------
(* The size_of's add up to what was written. *)
TypeOK ==
  /\ stage \in {"idle", "sent", "answered", "read"}
  /\ oid_map \subseteq DOMAIN UdtOids
  /\ code \in Nat
  /\ Len(buffer.bytes) <= buffer.capacity
  /\ stage = "sent" =>
       Len(buffer.bytes) = SumOver([i \in DOMAIN sent |-> sent[i].length])

(* The pointers given to PQsendQueryParams are still those of the buffer: the
   space reserved from the sizes was enough, whatever the buffer had held. *)
PointersValid == \A i \in DOMAIN sent : sent[i].pointer.in = buffer.reallocated

(* What the server makes of a parameter, from its oid, pointer and length and
   reading strictly, is the value the program passed. *)
ServerUnderstands ==
  stage = "sent" =>
    \A i \in DOMAIN sent :
      LET p == Samples[meant[i]]
          d == ServerReads(sent[i])
      IN  ~Anonymous(p.t) => d.st = "value" /\ d.val = Stored(p.t, p.v)

\* What a value of the server's type S is to a reader of type T, with no bytes: the
\* value; an error where the types or the counts of members differ, and also, as
\* the library reads no array without a dimension, where an array is empty; or
\* "unspecified" for what the library does not check and no document settles: a
\* null, bytes that are not one where a std::byte is asked for, an instant the
\* clock does not reach.  A user-defined type asked for of another type should be
\* an error: that is MismatchThrows, not this.
MeanWith(T, mean) == [S \in Types |-> [v \in Data[S] \union {Null} |->
  LET Unknown == [Throws EXCEPT !.st = "unspecified"]
      Parts(ds) == IF \E i \in DOMAIN ds : ds[i].st = "unspecified" THEN Unknown
                   ELSE AllOf(ds)
  IN  CASE v = Null -> Unknown
        [] v # Null /\ T.k = "udt" ->
             IF S.k # "udt" THEN Unknown
             ELSE IF S.name # T.name THEN Unknown
             ELSE IF Len(T.of) # Len(S.of) THEN Throws
             ELSE Parts([i \in DOMAIN T.of |-> mean[i][S.of[i]][v[i]]])
        [] v # Null /\ T.k = "array" ->
             IF S.k # "array" THEN IF T.of[1].k = "udt" THEN Unknown ELSE Throws
             ELSE IF (T.of[1].k # "udt" /\ T.of[1].k # S.of[1].k) \/ v = <<>> THEN Throws
             ELSE Parts([i \in DOMAIN v |-> mean[1][S.of[1]][v[i]]])
        [] v # Null /\ T.k = "tuple" ->
             IF S.k # "tuple" \/ Len(T.of) # Len(S.of) THEN Throws
             ELSE Parts([i \in DOMAIN T.of |-> mean[i][S.of[i]][v[i]]])
        [] v # Null /\ T.k = "time" /\ S.k = "time" ->
             IF FitsIn(Instant(v), ClockBytes) THEN Val(Instant(v)) ELSE Unknown
        [] v # Null /\ T.k = "byte" /\ S.k = "byte" ->
             IF Len(v) = 1 THEN Val(FromBigEndian(v)) ELSE Unknown
        [] OTHER -> IF T.k # S.k THEN Throws ELSE Val(v)]]

Meanings[T \in Types] == MeanWith(T, [i \in DOMAIN T.of |-> Meanings[T.of[i]]])
Meaning(T, S, v) == Meanings[T][S][v]

(* What a program reads from an answer is the value at that row and column (in a
   row its first columns, in order; in a loop every row, in order), or an exception
   where there is no such row or column or a part has another type.  Excepted is
   what Meaning leaves unspecified, and an operator[] beyond the result. *)
ReadTruthful ==
  got.how # "none" =>
    LET Ts == IF got.ts = 0 THEN answer.types ELSE Reads[got.ts]
        Cell(T, r, c) ==
          IF r \in 1 .. Ntuples /\ c \in 1 .. Nfields
          THEN Meaning(T, answer.types[c], answer.rows[r][c]) ELSE Throws
        Row(r) == [j \in DOMAIN Ts |-> Cell(Ts[j], r, j)]
        \* whether what was read may be one of these cells, one after the other
        Fits(cells) ==
          \/ \E i \in DOMAIN cells : cells[i].st = "unspecified"
          \/ LET all == AllOf(cells) IN got.st = all.st /\ (all.st = "value" => got.val = all.val)
        FitsOne(cell) ==
          \/ cell.st = "unspecified"
          \/ got.st = cell.st /\ (cell.st = "value" => got.val = cell.val)
    IN  CASE got.how = "result" -> Fits(IF Ntuples = 0 THEN <<Throws>> ELSE Row(1))
          [] got.how = "rows" ->
               \/ \E r \in 1 .. Ntuples : \E i \in DOMAIN Row(r) : Row(r)[i].st = "unspecified"
               \/ Fits([r \in 1 .. Ntuples |-> AllOf(Row(r))])
          [] got.how = "at" -> FitsOne(Cell(Ts[1], got.r + 1, got.c + 1))
          [] got.how = "index" ->
               \/ ~(got.r \in 0 .. Ntuples - 1 /\ got.c \in 0 .. Nfields - 1)
               \/ FitsOne(Cell(Ts[1], got.r + 1, got.c + 1))
          [] got.how = "name" ->
               \/ got.c = Nfields /\ got.st = "throw"
               \/ \E c \in 1 .. Nfields :
                    /\ got.c < Nfields /\ answer.names[c] = answer.names[got.c + 1]
                    /\ FitsOne(Cell(Ts[1], 1, c))

(* "as throws an exception if the field types do not match the provided type or if
   the number of fields is fewer than expected" (README.md:56), of the first row of a
   result. *)
MismatchThrows ==
  got.how = "result" /\ Ntuples > 0 =>
    LET Ts == IF got.ts = 0 THEN answer.types ELSE Reads[got.ts]
    IN  (\E j \in DOMAIN Ts : j > Nfields \/ OidOf(Ts[j]) # OidOf(answer.types[j]))
          => got.st = "throw"

(* The error code of a failed query is never the one of success, and tells the
   SQLSTATE: no two have the same. *)
SqlStateKept ==
  state # <<>> =>
    /\ code # 0
    /\ LET digits == ToBase36(code)
       IN  [i \in 1 .. 5 - Len(digits) |-> 0] \o digits = state
=============================================================================
