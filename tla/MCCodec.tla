-------------------------------- MODULE MCCodec --------------------------------
(* The types of example/user_defined.cpp (a company has an array of employees) and a
   type that differs from an employee in nothing but its name, scalars of each
   width, arrays, a record, empty texts, bytes and arrays, nulls, instants at the
   ends of the clock and beyond, and answers of no row, of two rows and of two
   columns with one name. *)
EXTENDS Codec

Scalar(k) == [k |-> k, of |-> <<>>]
Int2 == Scalar("int2")
Int4 == Scalar("int4")
Int8 == Scalar("int8")
Text == Scalar("text")
Bytes == Scalar("byte")
Time == Scalar("time")
ArrayOf(T) == [k |-> "array", of |-> <<T>>]
Employee == [k |-> "udt", name |-> "employee", of |-> <<Text, Int4>>]
Company == [k |-> "udt", name |-> "company", of |-> <<Int4, ArrayOf(Employee)>>]
Manager == [k |-> "udt", name |-> "manager", of |-> <<Text, Int4>>]
Other == [k |-> "udt", name |-> "other", of |-> <<Text, Int2>>]
Pair == [k |-> "tuple", of |-> <<Int4, Text>>]

MCTypes == {Int2, Int4, Int8, Text, Bytes, Time, ArrayOf(Int4), ArrayOf(Text), ArrayOf(Bytes),
            Employee, ArrayOf(Employee), Company, ArrayOf(Company), Manager, Other,
            ArrayOf(Other), Pair, ArrayOf(Pair)}
MCDepth[T \in MCTypes] ==
  IF T.of = <<>> THEN 0 ELSE 1 + Max({MCDepth[T.of[i]] : i \in DOMAIN T.of})
MCUdtOids == [employee |-> <<16400, 16401>>, company |-> <<16410, 16411>>,
              other |-> <<16420, 16421>>, manager |-> <<16430, 16431>>]

Sample(T, v) == [t |-> T, v |-> v]
Jo == <<<<74, 111>>, 7>>
MCSamples ==
  <<Sample(Int4, -2), Sample(Text, <<>>), Sample(Text, <<65, 200>>), Sample(Int2, 300),
    Sample(Int8, -70000), Sample(Time, 37), Sample(Time, -33), Sample(ArrayOf(Int4), <<1, -1>>),
    Sample(ArrayOf(Int4), <<>>), Sample(ArrayOf(Text), <<<<65>>, <<>>>>), Sample(Employee, Jo),
    Sample(Company, <<1, <<Jo, <<<<>>, -1>>>>>>), Sample(Company, <<2, <<>>>>),
    Sample(ArrayOf(Company), <<<<3, <<Jo>>>>>>), Sample(Pair, <<1, <<65>>>>),
    Sample(ArrayOf(Pair), <<<<1, <<65>>>>>>),
    Sample(Bytes, -56), Sample(ArrayOf(Bytes), <<1, -1>>)>>
MCQueries == {<<>>} \cup {<<i>> : i \in {6, 7, 12, 13, 15, 16, 18}}
             \cup {<<1, 3, 5>>, <<3, 4, 8>>, <<2, 12, 1>>, <<10, 14>>, <<9, 11>>, <<17, 1, 15>>}

Table(names, types, rows) == [names |-> names, types |-> types, rows |-> rows]
MCTables ==
  <<Table(<<"a">>, <<Int4>>, <<>>),
    Table(<<"a", "b", "a">>, <<Int4, Text, Int4>>, <<<<1, <<66>>, 2>>, <<3, <<>>, 4>>>>),
    Table(<<"a">>, <<Int4>>, <<<<5>>, <<Null>>>>),
    Table(<<"a">>, <<Pair>>, <<<<<<1, <<67>>>>>>, <<<<2, Null>>>>>>),
    Table(<<"a">>, <<Employee>>, <<<<<<Null, 7>>>>, <<Jo>>>>),
    Table(<<"a", "b">>, <<ArrayOf(Int4), Other>>, <<<<<<1, Null, 3>>, <<<<65>>, 1>>>>>>),
    Table(<<"a">>, <<Bytes>>, <<<<<<200>>>>, <<<<>>>>, <<<<1, 2>>>>>>),
    Table(<<"a">>, <<ArrayOf(Bytes)>>, <<<<<<<<7>>>>>>, <<<<<<7>>, <<>>>>>>>>),
    Table(<<"a">>, <<Time>>, <<<<3273>>, <<-3279>>, <<3274>>, <<-3280>>>>)>>

\* The values of these, <<type, value>> each, and of their parts.
WithParts(tvs) ==
  tvs \cup UNION {CASE p[2] = Null -> {}
                   [] p[2] # Null /\ p[1].k = "array" -> {<<p[1].of[1], p[2][i]>> : i \in DOMAIN p[2]}
                   [] p[2] # Null /\ IsComposite(p[1]) -> {<<p[1].of[i], p[2][i]>> : i \in DOMAIN p[2]}
                   [] OTHER -> {} : p \in tvs}
AllParts(tvs) == WithParts(WithParts(WithParts(WithParts(tvs))))

SampleParts == AllParts({<<MCSamples[i].t, MCSamples[i].v>> : i \in DOMAIN MCSamples})
TableParts ==
  AllParts(UNION {{<<MCTables[i].types[c], MCTables[i].rows[r][c]>> :
                   c \in DOMAIN MCTables[i].types, r \in DOMAIN MCTables[i].rows}
                  : i \in DOMAIN MCTables})

\* TLC evaluates the functions once because of the @@.
MCValues == [T \in MCTypes |-> {p[2] : p \in {q \in SampleParts : q[1] = T}}] @@ <<>>
MCData == [T \in MCTypes |->
  (CASE T = Time -> {0, -6}
     [] T = Bytes -> {<<v % 256>> : v \in MCValues[T]}
     [] T = ArrayOf(Bytes) -> {<<<<1>>, <<255>>>>}
     [] OTHER -> MCValues[T]) \cup (IF T.k = "array" THEN {<<>>} ELSE {})
  \cup {p[2] : p \in {q \in TableParts : q[1] = T /\ q[2] # Null}}] @@ <<>>

MCReads == <<<<Int4>>, <<Text>>, <<Int2>>, <<Employee>>, <<Pair>>, <<ArrayOf(Int4)>>,
             <<ArrayOf(Employee)>>, <<Company>>, <<Int4, Text>>, <<Int4, Text, Int4>>,
             <<Int4, Int4>>, <<ArrayOf(Text)>>, <<Other>>,
             <<Manager>>, <<Bytes>>>>

MCSqlStates == {<<2, 2, 0, 1, 2>>, <<0, 10, 0, 0, 9>>} \cup
               {s \in [1 .. 5 -> {0, 35}] : \E i \in 1 .. 5 : s[i] # 0}
=============================================================================
