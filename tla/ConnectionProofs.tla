---------------------------- MODULE ConnectionProofs ----------------------------
(***************************************************************************)
(* Proofs about module Connection: what libpq's parsing keeps, by          *)
(* induction over the messages in its input buffer, and the invariant that *)
(* ties the state of a query operation to the part of its answer that is   *)
(* still on the way.                                                       *)
(***************************************************************************)
EXTENDS Connection, DataInduction

Msg == {"note", "result", "copy", "done"} \X (Nat \ {0})

Net == [out : Nat, to_server : Nat, to_client : Seq(Msg), inbuf : Seq(Msg),
        status : {"idle", "busy", "ready", "copy"}, result : Nat,
        notifies : Seq(Nat \ {0}), link : {"open", "closing", "broken"}]

-----------------------------------------------------------------------------
(* The notifications and the answers among the messages in line *)

\* The other messages: the answers of the server to queries.
AnswersIn(s) ==
  FlattenSeq([i \in DOMAIN s |-> IF s[i][1] = "note" THEN <<>> ELSE <<s[i]>>])

\* What NotesIn and AnswersIn concatenate.
NoteParts(s) == [i \in DOMAIN s |-> IF s[i][1] = "note" THEN <<s[i][2]>> ELSE <<>>]
AnswerParts(s) == [i \in DOMAIN s |-> IF s[i][1] = "note" THEN <<>> ELSE <<s[i]>>]

LEMMA PartsTyped ==
  ASSUME NEW s \in Seq(Msg)
  PROVE  /\ NoteParts(s) \in Seq(Seq(Nat \ {0}))
         /\ AnswerParts(s) \in Seq(Seq(Msg))
<1> DEFINE W == Seq(Nat \ {0})
           X == Seq(Msg)
<1>1. Len(s) \in Nat /\ DOMAIN s = 1 .. Len(s)
  OBVIOUS
<1>2. \A i \in 1 .. Len(s) : s[i] \in Msg
  OBVIOUS
<1>3. \A m \in Msg : m[2] \in Nat \ {0}
  BY DEF Msg
<1>4. \A i \in 1 .. Len(s) : (IF s[i][1] = "note" THEN <<s[i][2]>> ELSE <<>>) \in W
  <2>1. \A i \in 1 .. Len(s) : <<s[i][2]>> \in W
    BY <1>2, <1>3, OneTyped
  <2>2. <<>> \in W
    OBVIOUS
  <2> HIDE DEF W
  <2> QED
    BY <2>1, <2>2
<1>5. \A i \in 1 .. Len(s) : (IF s[i][1] = "note" THEN <<>> ELSE <<s[i]>>) \in X
  BY <1>2
<1> HIDE DEF W, X
<1>6. NoteParts(s) \in Seq(W)
  BY <1>1, <1>4 DEF NoteParts
<1>7. AnswerParts(s) \in Seq(X)
  BY <1>1, <1>5 DEF AnswerParts
<1> QED
  BY <1>6, <1>7 DEF W, X

LEMMA PartsConcat ==
  ASSUME NEW s \in Seq(Msg), NEW t \in Seq(Msg)
  PROVE  /\ NoteParts(s \o t) = NoteParts(s) \o NoteParts(t)
         /\ AnswerParts(s \o t) = AnswerParts(s) \o AnswerParts(t)
<1>1. /\ Len(s) \in Nat /\ Len(t) \in Nat
      /\ DOMAIN s = 1 .. Len(s) /\ DOMAIN t = 1 .. Len(t)
      /\ DOMAIN (s \o t) = 1 .. (Len(s) + Len(t))
  OBVIOUS
<1>2. \A i \in 1 .. (Len(s) + Len(t)) :
        (s \o t)[i] = IF i <= Len(s) THEN s[i] ELSE t[i - Len(s)]
  OBVIOUS
<1>3. NoteParts(s \o t) = NoteParts(s) \o NoteParts(t)
  BY <1>1, <1>2 DEF NoteParts
<1>4. AnswerParts(s \o t) = AnswerParts(s) \o AnswerParts(t)
  BY <1>1, <1>2 DEF AnswerParts
<1> QED
  BY <1>3, <1>4

LEMMA NotesTyped ==
  ASSUME NEW s \in Seq(Msg)
  PROVE  NotesIn(s) \in Seq(Nat \ {0})
<1>1. NotesIn(s) = FlattenSeq(NoteParts(s))
  BY DEF NotesIn, NoteParts
<1> QED
  BY <1>1, PartsTyped, Flattened

LEMMA AnswersTyped ==
  ASSUME NEW s \in Seq(Msg)
  PROVE  AnswersIn(s) \in Seq(Msg)
<1>1. AnswersIn(s) = FlattenSeq(AnswerParts(s))
  BY DEF AnswersIn, AnswerParts
<1> QED
  BY <1>1, PartsTyped, Flattened

LEMMA NotesConcat ==
  ASSUME NEW s \in Seq(Msg), NEW t \in Seq(Msg)
  PROVE  NotesIn(s \o t) = NotesIn(s) \o NotesIn(t)
<1> DEFINE a == NoteParts(s)
           b == NoteParts(t)
<1>1. NotesIn(s) = FlattenSeq(a) /\ NotesIn(t) = FlattenSeq(b)
  BY DEF NotesIn, NoteParts
<1>2. NotesIn(s \o t) = FlattenSeq(NoteParts(s \o t))
  BY DEF NotesIn, NoteParts
<1>3. NoteParts(s \o t) = a \o b
  BY PartsConcat
<1>4. a \in Seq(Seq(Nat \ {0})) /\ b \in Seq(Seq(Nat \ {0}))
  BY PartsTyped
<1> HIDE DEF a, b
<1>5. FlattenSeq(a \o b) = FlattenSeq(a) \o FlattenSeq(b)
  BY <1>4, FlattenConcat
<1> QED
  BY <1>1, <1>2, <1>3, <1>5

LEMMA AnswersConcat ==
  ASSUME NEW s \in Seq(Msg), NEW t \in Seq(Msg)
  PROVE  AnswersIn(s \o t) = AnswersIn(s) \o AnswersIn(t)
<1> DEFINE a == AnswerParts(s)
           b == AnswerParts(t)
<1>1. AnswersIn(s) = FlattenSeq(a) /\ AnswersIn(t) = FlattenSeq(b)
  BY DEF AnswersIn, AnswerParts
<1>2. AnswersIn(s \o t) = FlattenSeq(AnswerParts(s \o t))
  BY DEF AnswersIn, AnswerParts
<1>3. AnswerParts(s \o t) = a \o b
  BY PartsConcat
<1>4. a \in Seq(Seq(Msg)) /\ b \in Seq(Seq(Msg))
  BY PartsTyped
<1> HIDE DEF a, b
<1>5. FlattenSeq(a \o b) = FlattenSeq(a) \o FlattenSeq(b)
  BY <1>4, FlattenConcat
<1> QED
  BY <1>1, <1>2, <1>3, <1>5

LEMMA NoneInEmpty == NotesIn(<<>>) = <<>> /\ AnswersIn(<<>>) = <<>>
<1>1. NoteParts(<<>>) = <<>> /\ AnswerParts(<<>>) = <<>>
  BY DEF NoteParts, AnswerParts
<1>2. /\ NotesIn(<<>>) = FlattenSeq(NoteParts(<<>>))
      /\ AnswersIn(<<>>) = FlattenSeq(AnswerParts(<<>>))
  BY DEF NotesIn, NoteParts, AnswersIn, AnswerParts
<1> QED
  BY <1>1, <1>2, FlattenEmpty

LEMMA InOne ==
  ASSUME NEW m \in Msg
  PROVE  /\ m[1] = "note" => NotesIn(<<m>>) = <<m[2]>> /\ AnswersIn(<<m>>) = <<>>
         /\ m[1] # "note" => NotesIn(<<m>>) = <<>> /\ AnswersIn(<<m>>) = <<m>>
<1> DEFINE s == <<m>>
           a == IF m[1] = "note" THEN <<m[2]>> ELSE <<>>
           b == IF m[1] = "note" THEN <<>> ELSE <<m>>
<1>1. DOMAIN s = {1} /\ s[1] = m
  OBVIOUS
<1>2. NoteParts(s) = <<a>> /\ AnswerParts(s) = <<b>>
  BY <1>1 DEF NoteParts, AnswerParts
<1>3. NotesIn(s) = FlattenSeq(NoteParts(s)) /\ AnswersIn(s) = FlattenSeq(AnswerParts(s))
  BY DEF NotesIn, NoteParts, AnswersIn, AnswerParts
<1>4. a \in Seq(Nat \ {0}) /\ b \in Seq(Msg)
  <2>1. m[2] \in Nat \ {0}
    BY DEF Msg
  <2> DEFINE W == Seq(Nat \ {0})
             X == Seq(Msg)
  <2>2. <<m[2]>> \in W /\ <<m>> \in X
    BY <2>1, OneTyped
  <2>3. <<>> \in W /\ <<>> \in X
    OBVIOUS
  <2> HIDE DEF W, X
  <2>4. a \in W /\ b \in X
    BY <2>2, <2>3
  <2> QED
    BY <2>4 DEF W, X
<1> HIDE DEF a, b
<1>5. FlattenSeq(<<a>>) = a /\ FlattenSeq(<<b>>) = b
  BY <1>4, FlattenOne
<1>6. NotesIn(s) = a /\ AnswersIn(s) = b
  BY <1>2, <1>3, <1>5
<1> QED
  BY <1>6 DEF a, b

\* The first message of a sequence, and the rest.
LEMMA InFirst ==
  ASSUME NEW s \in Seq(Msg), s # <<>>
  PROVE  /\ Head(s) \in Msg /\ Tail(s) \in Seq(Msg) /\ Len(Tail(s)) = Len(s) - 1
         /\ Head(s)[1] = "note" => /\ NotesIn(s) = <<Head(s)[2]>> \o NotesIn(Tail(s))
                                   /\ AnswersIn(s) = AnswersIn(Tail(s))
         /\ Head(s)[1] # "note" => /\ NotesIn(s) = NotesIn(Tail(s))
                                   /\ AnswersIn(s) = <<Head(s)>> \o AnswersIn(Tail(s))
<1> DEFINE m == Head(s)
           h == <<m>>
           t == Tail(s)
<1>1. m \in Msg /\ t \in Seq(Msg) /\ Len(t) = Len(s) - 1 /\ s = h \o t
  OBVIOUS
<1>2. h \in Seq(Msg)
  BY <1>1
<1>3. /\ m[1] = "note" => NotesIn(h) = <<m[2]>> /\ AnswersIn(h) = <<>>
      /\ m[1] # "note" => NotesIn(h) = <<>> /\ AnswersIn(h) = <<m>>
  BY <1>1, InOne
<1> HIDE DEF m, h, t
<1>4. NotesIn(s) = NotesIn(h) \o NotesIn(t) /\ AnswersIn(s) = AnswersIn(h) \o AnswersIn(t)
  BY <1>1, <1>2, NotesConcat, AnswersConcat
<1>5. NotesIn(t) \in Seq(Nat \ {0}) /\ AnswersIn(t) \in Seq(Msg)
  BY <1>1, NotesTyped, AnswersTyped
<1>6. <<>> \o NotesIn(t) = NotesIn(t) /\ <<>> \o AnswersIn(t) = AnswersIn(t)
  BY <1>5
<1>7. /\ m[1] = "note" => NotesIn(s) = <<m[2]>> \o NotesIn(t) /\ AnswersIn(s) = AnswersIn(t)
      /\ m[1] # "note" => NotesIn(s) = NotesIn(t) /\ AnswersIn(s) = <<m>> \o AnswersIn(t)
  BY <1>3, <1>4, <1>6
<1> QED
  BY <1>1, <1>7 DEF m, t

-----------------------------------------------------------------------------
(* Parsing *)

\* Parsing only moves messages out of the input buffer.
SameSocket(n, m) ==
  /\ m.out = n.out /\ m.to_server = n.to_server
  /\ m.to_client = n.to_client /\ m.link = n.link

\* What the answer x makes of a PGconn that was busy.
Takes(m, x) ==
  \/ x[1] = "result" /\ m.status = "ready" /\ m.result = x[2]
  \/ x[1] = "copy" /\ m.status = "copy" /\ m.result = x[2]
  \/ x[1] = "done" /\ m.status = "idle"

\* At most one answer is taken, and only by a PGconn that is busy.
Answered(n, m) ==
  \/ /\ m.status = n.status /\ m.result = n.result
     /\ AnswersIn(m.inbuf) = AnswersIn(n.inbuf)
  \/ /\ n.status = "busy"
     /\ \E x \in Msg : /\ AnswersIn(n.inbuf) = <<x>> \o AnswersIn(m.inbuf)
                       /\ Takes(m, x)

NotesKept(n, m) ==
  m.notifies \o NotesIn(m.inbuf) = n.notifies \o NotesIn(n.inbuf)

\* Nothing that can be parsed is left.
Stuck(n) ==
  n.inbuf = <<>> \/ (Head(n.inbuf)[1] # "note" /\ n.status # "busy")

LEMMA ParseOneKeeps ==
  ASSUME NEW n \in Net
  PROVE  LET m == ParseOne(n)
         IN  /\ m \in Net
             /\ SameSocket(n, m)
             /\ NotesKept(n, m)
             /\ Answered(n, m)
             /\ Stuck(n) => m = n
             /\ ~Stuck(n) => Len(m.inbuf) = Len(n.inbuf) - 1
<1> DEFINE m == ParseOne(n)
           x == Head(n.inbuf)
           rest == [n EXCEPT !.inbuf = Tail(n.inbuf)]
<1>1. n.inbuf \in Seq(Msg) /\ n.notifies \in Seq(Nat \ {0}) /\ n.status \in {"idle", "busy", "ready", "copy"}
  BY DEF Net
<1>2. CASE Stuck(n)
  <2>1. m = n
    BY <1>1, <1>2 DEF ParseOne, Stuck
  <2> QED
    BY <1>2, <2>1 DEF SameSocket, NotesKept, Answered
<1>3. CASE ~Stuck(n)
  <2>1. n.inbuf # <<>> /\ (x[1] = "note" \/ n.status = "busy")
    BY <1>3 DEF Stuck
  <2>2. /\ x \in Msg /\ Tail(n.inbuf) \in Seq(Msg)
        /\ Len(Tail(n.inbuf)) = Len(n.inbuf) - 1
        /\ x[1] = "note" => /\ NotesIn(n.inbuf) = <<x[2]>> \o NotesIn(Tail(n.inbuf))
                            /\ AnswersIn(n.inbuf) = AnswersIn(Tail(n.inbuf))
        /\ x[1] # "note" => /\ NotesIn(n.inbuf) = NotesIn(Tail(n.inbuf))
                            /\ AnswersIn(n.inbuf) = <<x>> \o AnswersIn(Tail(n.inbuf))
    BY <1>1, <2>1, InFirst
  <2>3. x[1] \in {"note", "result", "copy", "done"} /\ x[2] \in Nat \ {0}
    BY <2>2 DEF Msg
  <2>4. rest \in Net /\ rest.inbuf = Tail(n.inbuf)
    BY <2>2 DEF Net
  <2> HIDE DEF x
  <2>5. CASE x[1] = "note"
    <3>1. m = [rest EXCEPT !.notifies = Append(n.notifies, x[2])]
      BY <2>1, <2>5 DEF ParseOne, x
    <3>2. Append(n.notifies, x[2]) \in Seq(Nat \ {0})
      BY <1>1, <2>3
    <3>3. m \in Net /\ SameSocket(n, m) /\ m.inbuf = Tail(n.inbuf)
          /\ m.notifies = Append(n.notifies, x[2])
          /\ m.status = n.status /\ m.result = n.result
      BY <2>2, <3>1, <3>2 DEF Net, SameSocket
    <3>4. NotesKept(n, m)
      <4> DEFINE a == n.notifies
                 b == NotesIn(Tail(n.inbuf))
      <4>1. a \in Seq(Nat \ {0}) /\ b \in Seq(Nat \ {0})
        BY <1>1, <2>2, NotesTyped
      <4>2. m.notifies \o NotesIn(m.inbuf) = Append(a, x[2]) \o b
        BY <3>3
      <4>3. n.notifies \o NotesIn(n.inbuf) = a \o (<<x[2]>> \o b)
        BY <2>2, <2>5
      <4> HIDE DEF a, b
      <4>4. Append(a, x[2]) \o b = a \o (<<x[2]>> \o b)
        BY <4>1, <2>3
      <4> QED
        BY <4>2, <4>3, <4>4 DEF NotesKept
    <3>5. Answered(n, m)
      BY <2>2, <2>5, <3>3 DEF Answered
    <3> QED
      BY <1>3, <2>2, <3>3, <3>4, <3>5
  <2>6. CASE x[1] # "note"
    <3>1. n.status = "busy"
      BY <2>1, <2>6
    <3>2. \/ /\ x[1] = "result"
             /\ m = [rest EXCEPT !.status = "ready", !.result = x[2]]
          \/ /\ x[1] = "copy"
             /\ m = [rest EXCEPT !.status = "copy", !.result = x[2]]
          \/ /\ x[1] = "done"
             /\ m = [rest EXCEPT !.status = "idle"]
      BY <2>1, <2>3, <2>6, <3>1 DEF ParseOne, x
    <3>3. /\ m \in Net /\ SameSocket(n, m) /\ m.inbuf = Tail(n.inbuf)
          /\ m.notifies = n.notifies /\ Takes(m, x)
      BY <2>2, <2>3, <3>2 DEF Net, SameSocket, Takes
    <3>4. NotesKept(n, m)
      BY <2>2, <2>6, <3>3 DEF NotesKept
    <3>5. Answered(n, m)
      BY <2>2, <2>6, <3>1, <3>3 DEF Answered
    <3> QED
      BY <1>3, <2>2, <3>3, <3>4, <3>5
  <2> QED
    BY <2>5, <2>6
<1> QED
  BY <1>2, <1>3

\* What one step keeps, any number of them keeps.
Reaches(n, m) == SameSocket(n, m) /\ NotesKept(n, m) /\ Answered(n, m)

LEMMA ReachesStep ==
  ASSUME NEW n \in Net, NEW m \in Net, Reaches(n, m)
  PROVE  Reaches(n, ParseOne(m))
<1> DEFINE p == ParseOne(m)
<1>1. p \in Net /\ SameSocket(m, p) /\ NotesKept(m, p) /\ Answered(m, p)
  BY ParseOneKeeps
<1> HIDE DEF p
<1>2. SameSocket(n, p) /\ NotesKept(n, p)
  BY <1>1 DEF Reaches, SameSocket, NotesKept
<1>3. Answered(n, p)
  <2>1. CASE m.status = n.status /\ m.result = n.result /\ AnswersIn(m.inbuf) = AnswersIn(n.inbuf)
    BY <1>1, <2>1 DEF Answered
  <2>2. CASE /\ n.status = "busy"
             /\ \E x \in Msg : AnswersIn(n.inbuf) = <<x>> \o AnswersIn(m.inbuf) /\ Takes(m, x)
    <3>1. m.status # "busy"
      BY <2>2 DEF Takes
    <3>2. p.status = m.status /\ p.result = m.result /\ AnswersIn(p.inbuf) = AnswersIn(m.inbuf)
      BY <1>1, <3>1 DEF Answered
    <3> QED
      BY <2>2, <3>2 DEF Answered, Takes
  <2> QED
    BY <2>1, <2>2 DEF Reaches, Answered
<1> QED
  BY <1>2, <1>3 DEF Reaches, p

\* Parsing takes all there is to take: it stops at the end of the buffer or
\* at an answer that has to wait.
LEMMA ParsedKeeps ==
  ASSUME NEW n \in Net
  PROVE  /\ Parsed(n) \in Net
         /\ Reaches(n, Parsed(n))
         /\ Stuck(Parsed(n))
         /\ n.inbuf = <<>> => Parsed(n) = n
<1> DEFINE len == Len(n.inbuf)
           advance == [m \in Net |-> ParseOne(m)]
           Body(f) == [i \in 0 .. len |-> IF i = 0 THEN n ELSE ParseOne(f[i - 1])]
           parse == CHOOSE f : f = Body(f)
<1>1. Parsed(n) = parse[len]
  BY DEF Parsed
<1>2. len \in Nat /\ advance \in [Net -> Net]
  <2>1. len \in Nat
    BY DEF Net
  <2> QED
    BY <2>1, ParseOneKeeps
<1>3. PICK g \in [0 .. len -> Net] : Iterates(g, len, n, advance)
  <2> HIDE DEF len, advance
  <2> QED
    BY <1>2, Iteration
<1>4. g = Body(g)
  <2>1. ASSUME NEW i \in 0 .. len
        PROVE  g[i] = IF i = 0 THEN n ELSE ParseOne(g[i - 1])
    <3>1. CASE i = 0
      BY <1>3, <3>1 DEF Iterates
    <3>2. CASE i # 0
      <4>1. i \in 1 .. len /\ i - 1 \in 0 .. len
        BY <1>2, <3>2
      <4>2. g[i] = advance[g[i - 1]] /\ g[i - 1] \in Net
        BY <1>3, <4>1 DEF Iterates
      <4> QED
        BY <3>2, <4>2
    <3> QED
      BY <3>1, <3>2
  <2>2. g = [i \in 0 .. len |-> g[i]]
    OBVIOUS
  <2> HIDE DEF len
  <2> QED
    BY <2>1, <2>2
<1>5. parse = Body(parse)
  <2> HIDE DEF len
  <2> QED
    BY <1>4
<1> HIDE DEF parse
<1>6. parse[0] = n /\ \A i \in 1 .. len : parse[i] = ParseOne(parse[i - 1])
  <2> HIDE DEF len
  <2>1. \A i \in 0 .. len : parse[i] = IF i = 0 THEN n ELSE ParseOne(parse[i - 1])
    BY <1>5
  <2> QED
    BY <1>2, <2>1
<1> HIDE DEF Body
<1> DEFINE Ok(k) == /\ parse[k] \in Net
                    /\ Reaches(n, parse[k])
                    /\ Stuck(parse[k]) \/ Len(parse[k].inbuf) = len - k
           S == {k \in Nat : k <= len => Ok(k)}
<1>7. 0 \in S
  <2>1. Reaches(n, n)
    BY DEF Reaches, SameSocket, NotesKept, Answered
  <2> QED
    BY <1>2, <1>6, <2>1
<1>8. ASSUME NEW k \in S PROVE k + 1 \in S
  <2> SUFFICES ASSUME k + 1 <= len PROVE Ok(k + 1)
    OBVIOUS
  <2> DEFINE m == parse[k]
             p == ParseOne(m)
  <2>1. m \in Net /\ Reaches(n, m) /\ (Stuck(m) \/ Len(m.inbuf) = len - k)
    BY <1>2
  <2>2. k + 1 \in 1 .. len /\ (k + 1) - 1 = k
    BY <1>2
  <2>3. parse[k + 1] = p
    BY <1>6, <2>2
  <2> HIDE DEF m
  <2>4. p \in Net /\ (Stuck(m) => p = m) /\ (~Stuck(m) => Len(p.inbuf) = Len(m.inbuf) - 1)
    BY <2>1, ParseOneKeeps
  <2>5. Reaches(n, p)
    BY <2>1, ReachesStep
  <2> HIDE DEF p, len
  <2>6. Stuck(p) \/ Len(p.inbuf) = len - (k + 1)
    BY <1>2, <2>1, <2>4
  <2> QED
    BY <2>3, <2>4, <2>5, <2>6
<1>9. len \in S
  <2>1. S \in SUBSET Nat
    OBVIOUS
  <2> HIDE DEF S
  <2> QED
    BY <1>2, <1>7, <1>8, <2>1, SetInduction
<1>10. Ok(len)
  BY <1>9, <1>2
<1>11. Stuck(parse[len])
  <2>1. Len(parse[len].inbuf) = 0 => parse[len].inbuf = <<>>
    <3>1. parse[len].inbuf \in Seq(Msg)
      BY <1>10 DEF Net
    <3> QED
      BY <3>1
  <2>2. len - len = 0
    BY <1>2
  <2> HIDE DEF len
  <2> QED
    BY <1>10, <2>1, <2>2 DEF Stuck
<1>12. n.inbuf = <<>> => parse[len] = n
  BY <1>6
<1> HIDE DEF len
<1> QED
  BY <1>1, <1>10, <1>11, <1>12

-----------------------------------------------------------------------------
(* Sending and reading *)

LEMMA NetSent ==
  ASSUME NEW n \in Net, NEW o \in Nat, NEW t \in Nat
  PROVE  [n EXCEPT !.out = o, !.to_server = t] \in Net
<1> DEFINE Q == Seq(Msg)
           N == Seq(Nat \ {0})
           R == [out : Nat, to_server : Nat, to_client : Q, inbuf : Q,
                 status : {"idle", "busy", "ready", "copy"}, result : Nat,
                 notifies : N, link : {"open", "closing", "broken"}]
<1>1. Net = R
  BY DEF Net
<1> HIDE DEF Q, N
<1> QED
  BY <1>1

LEMMA NetDropped ==
  ASSUME NEW n \in Net
  PROVE  [n EXCEPT !.out = 0] \in Net
<1> DEFINE Q == Seq(Msg)
           N == Seq(Nat \ {0})
           R == [out : Nat, to_server : Nat, to_client : Q, inbuf : Q,
                 status : {"idle", "busy", "ready", "copy"}, result : Nat,
                 notifies : N, link : {"open", "closing", "broken"}]
<1>1. Net = R
  BY DEF Net
<1> HIDE DEF Q, N
<1> QED
  BY <1>1

LEMMA NetLink ==
  ASSUME NEW n \in Net, NEW k \in {"open", "closing", "broken"}
  PROVE  [n EXCEPT !.link = k] \in Net
<1> DEFINE Q == Seq(Msg)
           N == Seq(Nat \ {0})
           R == [out : Nat, to_server : Nat, to_client : Q, inbuf : Q,
                 status : {"idle", "busy", "ready", "copy"}, result : Nat,
                 notifies : N, link : {"open", "closing", "broken"}]
<1>1. Net = R
  BY DEF Net
<1> HIDE DEF Q, N
<1> QED
  BY <1>1

LEMMA NetRead ==
  ASSUME NEW n \in Net, NEW s \in Seq(Msg), NEW u \in Seq(Msg)
  PROVE  [n EXCEPT !.inbuf = s, !.to_client = u] \in Net
<1> DEFINE Q == Seq(Msg)
           N == Seq(Nat \ {0})
           R == [out : Nat, to_server : Nat, to_client : Q, inbuf : Q,
                 status : {"idle", "busy", "ready", "copy"}, result : Nat,
                 notifies : N, link : {"open", "closing", "broken"}]
<1>1. Net = R
  BY DEF Net
<1>2. s \in Q /\ u \in Q
  OBVIOUS
<1> HIDE DEF Q, N
<1> QED
  BY <1>1, <1>2

\* The messages between the server's buffers and libpq's parser.
InLine(n) == n.inbuf \o n.to_client

\* What libpq does to a PGconn besides parsing.
Moves(n, m) ==
  /\ m \in Net
  /\ m.status = n.status /\ m.result = n.result /\ m.notifies = n.notifies
  /\ InLine(m) = InLine(n)
  /\ Len(m.to_client) <= Len(n.to_client)
  /\ m.out <= n.out /\ m.to_server <= OutCap
  /\ m.link = "open" <=> n.link = "open"
  /\ n.link = "open" => m.out + m.to_server = n.out + n.to_server

LEMMA MovesTransitive ==
  ASSUME NEW n \in Net, NEW m, NEW p, Moves(n, m), Moves(m, p)
  PROVE  Moves(n, p)
<1>1. /\ n.out \in Nat /\ m.out \in Nat /\ p.out \in Nat
      /\ n.to_client \in Seq(Msg) /\ m.to_client \in Seq(Msg) /\ p.to_client \in Seq(Msg)
  BY DEF Moves, Net
<1>2. Len(n.to_client) \in Nat /\ Len(m.to_client) \in Nat /\ Len(p.to_client) \in Nat
  BY <1>1
<1> QED
  BY <1>1, <1>2 DEF Moves

LEMMA SentMoves ==
  ASSUME NEW n \in Net, n.to_server <= OutCap
  PROVE  /\ Moves(n, Sent(n))
         /\ Sent(n).link = n.link /\ Sent(n).inbuf = n.inbuf /\ Sent(n).to_client = n.to_client
<1>1. n.out \in Nat /\ n.to_server \in Nat /\ OutCap \in Nat
  BY ConnectionAssumption DEF Net
<1>2. CASE n.link = "closing"
  <2>1. Sent(n) = [n EXCEPT !.out = 0]
    BY <1>2 DEF Sent
  <2>2. Sent(n) \in Net
    BY <2>1, NetDropped
  <2> QED
    BY <1>1, <1>2, <2>1, <2>2 DEF Moves, InLine, Net
<1>3. CASE n.link # "closing"
  <2> DEFINE ks == {n.out, OutCap - n.to_server}
             k == Min(ks)
  <2>1. ks \in SUBSET Nat /\ ks # {}
    BY <1>1
  <2>2. k \in ks /\ \A y \in ks : k <= y
    <3> HIDE DEF ks
    <3> QED
      BY <2>1, MinOfNaturals
  <2>3. k \in Nat /\ k <= n.out /\ k <= OutCap - n.to_server
    BY <2>1, <2>2
  <2>4. Sent(n) = [n EXCEPT !.out = n.out - k, !.to_server = n.to_server + k]
    BY <1>3 DEF Sent
  <2> HIDE DEF k
  <2>5. Sent(n) \in Net
    <3>1. n.out - k \in Nat /\ n.to_server + k \in Nat
      BY <1>1, <2>3
    <3> QED
      BY <2>4, <3>1, NetSent
  <2> QED
    <3> DEFINE p == Sent(n)
    <3>1. /\ p.out = n.out - k /\ p.to_server = n.to_server + k
          /\ p.status = n.status /\ p.result = n.result /\ p.notifies = n.notifies
          /\ p.inbuf = n.inbuf /\ p.to_client = n.to_client /\ p.link = n.link
      BY <2>4 DEF Net
    <3>2. p \in Net /\ Len(n.to_client) \in Nat
      BY <2>5 DEF Net
    <3> HIDE DEF p
    <3>3. /\ p.out <= n.out /\ p.to_server <= OutCap
          /\ p.out + p.to_server = n.out + n.to_server
      BY <1>1, <2>3, <3>1
    <3>4. Moves(n, p)
      BY <3>1, <3>2, <3>3 DEF Moves, InLine
    <3> QED
      BY <3>1, <3>4 DEF p
<1> QED
  BY <1>2, <1>3

LEMMA ReadMoves ==
  ASSUME NEW n \in Net, n.to_server <= OutCap, NEW k \in 0 .. Len(n.to_client)
  PROVE  Moves(n, Read(n, k)) /\ Read(n, k).link = n.link
<1> DEFINE s == n.inbuf
           t == n.to_client
           a == SubSeq(t, 1, k)
           b == SubSeq(t, k + 1, Len(t))
<1>1. s \in Seq(Msg) /\ t \in Seq(Msg) /\ k \in 0 .. Len(t)
  BY DEF Net
<1> HIDE DEF s, t
<1>2. /\ a \in Seq(Msg) /\ b \in Seq(Msg) /\ Len(b) = Len(t) - k
      /\ (s \o a) \o b = s \o t
  <2>1. a \in Seq(Msg) /\ b \in Seq(Msg) /\ Len(b) = Len(t) - k /\ t = a \o b
    BY ONLY <1>1, SplitSeq
  <2> HIDE DEF a, b
  <2>2. (s \o a) \o b = s \o t
    BY ONLY <1>1, <2>1, Join
  <2> QED
    BY <2>1, <2>2
<1>3. Read(n, k) = [n EXCEPT !.inbuf = s \o a, !.to_client = b]
  BY DEF Read, s, t, a, b
<1>4. Len(b) <= Len(t) /\ s \o a \in Seq(Msg)
  <2> HIDE DEF a, b
  <2>1. Len(t) \in Nat
    BY <1>1
  <2> QED
    BY <1>1, <1>2, <2>1
<1> HIDE DEF a, b
<1>5. Read(n, k) \in Net /\ Read(n, k).inbuf = s \o a /\ Read(n, k).to_client = b
  <2> DEFINE u == s \o a
  <2>1. n \in Net /\ u \in Seq(Msg) /\ b \in Seq(Msg)
    BY <1>2, <1>4
  <2> HIDE DEF u
  <2>2. [n EXCEPT !.inbuf = u, !.to_client = b] \in Net
    BY ONLY <2>1, NetRead
  <2>3. Read(n, k) \in Net
    BY <1>3, <2>2 DEF u
  <2> QED
    BY <1>3, <2>3 DEF Net
<1>6. InLine(Read(n, k)) = InLine(n)
  BY <1>2, <1>5 DEF InLine, s, t
<1> QED
  BY <1>3, <1>4, <1>5, <1>6 DEF Moves, Net, t

LEMMA BrokenMoves ==
  ASSUME NEW n \in Net, n.to_server <= OutCap, n.link # "open"
  PROVE  Moves(n, Broken(n))
<1>1. Broken(n) \in Net
  BY NetLink DEF Broken
<1>2. Len(n.to_client) \in Nat /\ n.out \in Nat
  BY DEF Net
<1> QED
  BY <1>1, <1>2 DEF Moves, Broken, InLine, Net

LEMMA PQconsumeInputMoves ==
  ASSUME NEW n \in Net, n.to_server <= OutCap, NEW m \in PQconsumeInput(n)
  PROVE  Moves(n, m)
<1>1. Moves(n, n)
  BY DEF Moves, Net
<1>2. CASE n.link = "broken"
  BY <1>1, <1>2 DEF PQconsumeInput
<1> DEFINE p == Sent(n)
<1>3. Moves(n, p) /\ p.link = n.link /\ p.to_client = n.to_client /\ p \in Net
      /\ p.to_server <= OutCap
  BY SentMoves DEF Moves
<1> HIDE DEF p
<1>4. CASE n.link # "broken" /\ AtEnd(n)
  <2>1. m = Broken(p)
    BY <1>4 DEF PQconsumeInput, p
  <2>2. p.link # "open"
    BY <1>3, <1>4 DEF AtEnd
  <2>3. Moves(p, m)
    BY <1>3, <2>1, <2>2, BrokenMoves
  <2> QED
    BY <1>3, <2>3, MovesTransitive
<1>5. CASE n.link # "broken" /\ ~AtEnd(n)
  <2>1. PICK k \in (IF n.to_client = <<>> THEN {0} ELSE 1 .. Len(n.to_client)) : m = Read(p, k)
    BY <1>5 DEF PQconsumeInput, p
  <2>2. k \in 0 .. Len(p.to_client)
    BY <1>3, <2>1 DEF Net
  <2>3. Moves(p, m)
    BY <1>3, <2>1, <2>2, ReadMoves
  <2> QED
    BY <1>3, <2>3, MovesTransitive
<1> QED
  BY <1>2, <1>4, <1>5

LEMMA PQflushMoves ==
  ASSUME NEW n \in Net, n.to_server <= OutCap, NEW m \in PQflush(n)
  PROVE  Moves(n, m)
<1> DEFINE p == Sent(n)
<1>1. Moves(n, p) /\ p.link = n.link /\ p.to_client = n.to_client /\ p \in Net
      /\ p.to_server <= OutCap
  BY SentMoves DEF Moves
<1>2. Len(n.to_client) \in Nat
  BY DEF Net
<1> HIDE DEF p
<1>3. CASE n.out = 0 \/ (n.link = "open" /\ Sent(n).out = 0)
  <2>1. m = p
    BY <1>3 DEF PQflush, p
  <2> QED
    BY <1>1, <2>1
<1>4. CASE ~(n.out = 0 \/ (n.link = "open" /\ Sent(n).out = 0)) /\ n.link = "closing"
  <2>1. m = p \/ m = Broken(n) \/ m = Read(n, Len(n.to_client))
    BY <1>4 DEF PQflush, p
  <2>2. Len(n.to_client) \in 0 .. Len(n.to_client)
    BY <1>2
  <2> QED
    BY <1>1, <1>4, <2>1, <2>2, BrokenMoves, ReadMoves
<1>5. CASE ~(n.out = 0 \/ (n.link = "open" /\ Sent(n).out = 0)) /\ n.link # "closing"
  <2>1. PICK k \in 0 .. Len(n.to_client) : m = Read(p, k)
    BY <1>5 DEF PQflush, p
  <2>2. Moves(p, m)
    BY <1>1, <2>1, ReadMoves
  <2> QED
    BY <1>1, <2>2, MovesTransitive
<1> QED
  BY <1>3, <1>4, <1>5

-----------------------------------------------------------------------------
(* The answer to a query, on its way *)

\* The answers between the server and libpq's parser, s being what the server
\* is blocked on writing.
Ahead(n, s) == AnswersIn(InLine(n)) \o AnswersIn(s)

Result(q) == <<"result", q>>
Done(q) == <<"done", q>>
Copy(q) == <<"copy", q>>

\* All of the query has left libpq, and with the link open the server has
\* answered it.
Flushed(n, g) == n.out = 0 /\ (n.link = "open" => n.to_server = 0 /\ g = 0)

\* The query is on its way to the server, which has read g chunks of it; over
\* a link that is not open there is no knowing how much of it got there.
Waiting(n, L, g) ==
  /\ n.status = "busy" /\ L = <<>>
  /\ n.link = "open" => n.out + n.to_server + g = Size

\* What the status of the PGconn says about the answers L still ahead of the
\* parser.  A server that closed the connection may have lost the last ones.
Answering(n, L, q) ==
  \/ n.status \in {"idle", "copy"} /\ L = <<>>
  \/ n.status = "ready" /\ (L = <<Done(q)>> \/ (L = <<>> /\ n.link # "open"))
  \/ n.status = "busy" /\ \/ L = <<Result(q), Done(q)>>
                          \/ L = <<Done(q)>>
                          \/ L = <<Copy(q)>>
                          \/ L = <<Result(q)>> /\ n.link # "open"

\* The PGconn and the server are somewhere between query q and its answer.
Phase(n, s, g, q) ==
  /\ Waiting(n, Ahead(n, s), g) \/ (Flushed(n, g) /\ Answering(n, Ahead(n, s), q))
  /\ n.status \in {"ready", "copy"} => n.result = q

\* Where the two async_receive_result of one operation are in that answer.
First(n, s, q) == n.status # "idle" /\ (n.status = "busy" => Ahead(n, s) # <<Done(q)>>)
Second(n, s, q) ==
  /\ n.status # "ready"
  /\ n.status = "busy" =>
       Ahead(n, s) = <<Done(q)>> \/ (Ahead(n, s) = <<>> /\ n.link # "open")

\* What libpq does to the PGconn on its own keeps the operation where it is.
Carries(n, m, s, g, q) ==
  /\ Phase(m, s, g, q)
  /\ First(n, s, q) => First(m, s, q)
  /\ Second(n, s, q) => Second(m, s, q)

NetOK(n) ==
  n \in Net /\ n.out <= Size /\ n.to_server <= OutCap /\ Len(n.to_client) <= InCap

LEMMA InLineTyped ==
  ASSUME NEW n \in Net
  PROVE  InLine(n) \in Seq(Msg) /\ n.inbuf \in Seq(Msg) /\ n.to_client \in Seq(Msg)
BY DEF InLine, Net

LEMMA AheadTyped ==
  ASSUME NEW n \in Net, NEW s \in Seq(Msg)
  PROVE  Ahead(n, s) \in Seq(Msg)
<1> DEFINE a == AnswersIn(InLine(n))
           b == AnswersIn(s)
<1>1. a \in Seq(Msg) /\ b \in Seq(Msg)
  BY InLineTyped, AnswersTyped
<1> HIDE DEF a, b
<1>2. a \o b \in Seq(Msg)
  BY <1>1
<1> QED
  BY <1>2 DEF Ahead, a, b

LEMMA MovesCarries ==
  ASSUME NEW n \in Net, NEW m, Moves(n, m),
         NEW s \in Seq(Msg), NEW g \in Nat, NEW q \in Nat \ {0}, Phase(n, s, g, q)
  PROVE  Carries(n, m, s, g, q)
<1>1. Ahead(m, s) = Ahead(n, s)
  BY DEF Moves, Ahead
<1>2. /\ m.status = n.status /\ m.result = n.result
      /\ m.link = "open" <=> n.link = "open"
      /\ m.out <= n.out
      /\ n.link = "open" => m.out + m.to_server = n.out + n.to_server
  BY DEF Moves
<1>3. n.out \in Nat /\ n.to_server \in Nat /\ m.out \in Nat /\ m.to_server \in Nat
  BY DEF Moves, Net
<1>4. Waiting(n, Ahead(n, s), g) => Waiting(m, Ahead(m, s), g)
  BY <1>1, <1>2, <1>3, ConnectionAssumption DEF Waiting
<1>5. Flushed(n, g) => Flushed(m, g)
  BY <1>2, <1>3 DEF Flushed
<1>6. Answering(n, Ahead(n, s), q) => Answering(m, Ahead(m, s), q)
  BY <1>1, <1>2 DEF Answering
<1>7. Phase(m, s, g, q)
  BY <1>2, <1>4, <1>5, <1>6 DEF Phase
<1>8. (First(n, s, q) => First(m, s, q)) /\ (Second(n, s, q) => Second(m, s, q))
  BY <1>1, <1>2 DEF First, Second
<1> QED
  BY <1>7, <1>8 DEF Carries

\* How parsing shortens what is ahead.
LEMMA ParsedAhead ==
  ASSUME NEW n \in Net, NEW m \in Net, Reaches(n, m), NEW s \in Seq(Msg)
  PROVE  \/ m.status = n.status /\ m.result = n.result /\ Ahead(m, s) = Ahead(n, s)
         \/ /\ n.status = "busy"
            /\ \E x \in Msg : Ahead(n, s) = <<x>> \o Ahead(m, s) /\ Takes(m, x)
<1> DEFINE a == AnswersIn(n.inbuf)
           b == AnswersIn(m.inbuf)
           c == AnswersIn(n.to_client)
           d == AnswersIn(s)
<1>1. m.to_client = n.to_client
  BY DEF Reaches, SameSocket
<1>2. Ahead(n, s) = (a \o c) \o d /\ Ahead(m, s) = (b \o c) \o d
  <2>1. /\ n.inbuf \in Seq(Msg) /\ n.to_client \in Seq(Msg)
        /\ m.inbuf \in Seq(Msg) /\ m.to_client \in Seq(Msg)
    BY InLineTyped
  <2>2. AnswersIn(n.inbuf \o n.to_client) = a \o c
    BY <2>1, AnswersConcat
  <2>3. AnswersIn(m.inbuf \o m.to_client) = b \o c
    BY <1>1, <2>1, AnswersConcat
  <2> QED
    BY <2>2, <2>3 DEF Ahead, InLine
<1>3. a \in Seq(Msg) /\ b \in Seq(Msg) /\ c \in Seq(Msg) /\ d \in Seq(Msg)
  BY InLineTyped, AnswersTyped
<1>4. \/ m.status = n.status /\ m.result = n.result /\ b = a
      \/ n.status = "busy" /\ \E x \in Msg : a = <<x>> \o b /\ Takes(m, x)
  BY DEF Reaches, Answered
<1> HIDE DEF a, b, c, d
<1>5. CASE m.status = n.status /\ m.result = n.result /\ b = a
  BY <1>2, <1>5
<1>6. CASE n.status = "busy" /\ \E x \in Msg : a = <<x>> \o b /\ Takes(m, x)
  <2>1. PICK x \in Msg : a = <<x>> \o b /\ Takes(m, x)
    BY <1>6
  <2> DEFINE h == <<x>>
  <2>2. h \in Seq(Msg)
    BY <2>1
  <2>3. a = h \o b
    BY <2>1
  <2> HIDE DEF h
  <2>4. a \o c = h \o (b \o c)
    BY ONLY <1>3, <2>2, <2>3, Join
  <2>5. b \o c \in Seq(Msg)
    BY <1>3
  <2> DEFINE e == b \o c
             f == a \o c
  <2>6. f = h \o e /\ e \in Seq(Msg)
    BY <2>4, <2>5
  <2> HIDE DEF e, f
  <2>7. f \o d = h \o (e \o d)
    BY ONLY <1>3, <2>2, <2>6, Join
  <2>8. Ahead(n, s) = <<x>> \o Ahead(m, s)
    BY <1>2, <2>7 DEF e, f, h
  <2>9. \E y \in Msg : Ahead(n, s) = <<y>> \o Ahead(m, s) /\ Takes(m, y)
    BY <2>1, <2>8, Zenon
  <2> QED
    BY <1>6, <2>9, Zenon
<1> QED
  BY <1>4, <1>5, <1>6, Zenon

LEMMA FirstThenRest ==
  ASSUME NEW x \in Msg, NEW L \in Seq(Msg), NEW c, c = <<x>> \o L
  PROVE  c # <<>> /\ Len(c) = 1 + Len(L) /\ c[1] = x /\ \A i \in 1 .. Len(L) : c[1 + i] = L[i]
OBVIOUS

LEMMA TakeOnly ==
  ASSUME NEW x \in Msg, NEW L \in Seq(Msg), NEW y, <<y>> = <<x>> \o L
  PROVE  x = y /\ L = <<>>
<1> DEFINE c == <<y>>
<1>0. Len(L) \in Nat
  OBVIOUS
<1>1. Len(c) = 1 + Len(L) /\ c[1] = x
  BY FirstThenRest
<1>2. Len(c) = 1 /\ c[1] = y
  OBVIOUS
<1> HIDE DEF c
<1>3. Len(L) = 0
  BY <1>0, <1>1, <1>2
<1> QED
  BY <1>1, <1>2, <1>3

LEMMA TakeFirst ==
  ASSUME NEW x \in Msg, NEW L \in Seq(Msg), NEW y, NEW z, <<y, z>> = <<x>> \o L
  PROVE  x = y /\ L = <<z>>
<1> DEFINE c == <<y, z>>
           d == <<z>>
<1>0. Len(L) \in Nat
  OBVIOUS
<1>1. Len(c) = 1 + Len(L) /\ c[1] = x /\ \A i \in 1 .. Len(L) : c[1 + i] = L[i]
  BY FirstThenRest
<1>2. Len(c) = 2 /\ c[1] = y /\ c[2] = z
  OBVIOUS
<1>3. d \in Seq({z}) /\ Len(d) = 1 /\ d[1] = z
  OBVIOUS
<1> HIDE DEF c, d
<1>4. Len(L) = 1
  BY <1>0, <1>1, <1>2
<1>5. L[1] = z
  <2>1. c[1 + 1] = L[1]
    BY <1>1, <1>4
  <2> QED
    BY <1>2, <2>1
<1>6. L = d
  <2> DEFINE k == 1
  <2>1. DOMAIN L = 1 .. 1 /\ DOMAIN d = 1 .. 1
    BY <1>3, <1>4
  <2> QED
    BY <1>3, <1>4, <1>5, <2>1
<1> QED
  BY <1>1, <1>2, <1>6 DEF d

LEMMA ParsedCarries ==
  ASSUME NEW n \in Net, NEW m \in Net, Reaches(n, m),
         NEW s \in Seq(Msg), NEW g \in Nat, NEW q \in Nat \ {0}, Phase(n, s, g, q)
  PROVE  Carries(n, m, s, g, q)
<1> DEFINE L == Ahead(n, s)
           M == Ahead(m, s)
<1>1. m.out = n.out /\ m.to_server = n.to_server /\ m.link = n.link
  BY DEF Reaches, SameSocket
<1>2. L \in Seq(Msg) /\ M \in Seq(Msg)
  BY AheadTyped
<1>3. \/ m.status = n.status /\ m.result = n.result /\ M = L
      \/ n.status = "busy" /\ \E x \in Msg : L = <<x>> \o M /\ Takes(m, x)
  BY ParsedAhead
<1>4. CASE m.status = n.status /\ m.result = n.result /\ M = L
  BY <1>1, <1>4 DEF Carries, Phase, Waiting, Flushed, Answering, First, Second
<1>5. CASE n.status = "busy" /\ \E x \in Msg : L = <<x>> \o M /\ Takes(m, x)
  <2>1. PICK x \in Msg : L = <<x>> \o M /\ Takes(m, x)
    BY <1>5
  <2> HIDE DEF L, M
  <2>2. L # <<>>
    BY <1>2, <2>1, FirstThenRest
  <2>3. Flushed(n, g) /\ Answering(n, L, q)
    BY <2>2 DEF Phase, Waiting, L
  <2>4. Flushed(m, g)
    BY <1>1, <2>3 DEF Flushed
  <2>5. \/ x = Result(q) /\ M = <<Done(q)>> /\ L = <<Result(q), Done(q)>>
        \/ x = Done(q) /\ M = <<>> /\ L = <<Done(q)>>
        \/ x = Copy(q) /\ M = <<>> /\ L = <<Copy(q)>>
        \/ x = Result(q) /\ M = <<>> /\ L = <<Result(q)>> /\ n.link # "open"
    <3>1. L = <<Result(q), Done(q)>> => x = Result(q) /\ M = <<Done(q)>>
      <4> SUFFICES ASSUME L = <<Result(q), Done(q)>> PROVE x = Result(q) /\ M = <<Done(q)>>
        OBVIOUS
      <4>1. <<Result(q), Done(q)>> = <<x>> \o M
        BY <2>1
      <4> QED
        BY <1>2, <2>1, <4>1, TakeFirst
    <3>2. L = <<Done(q)>> => x = Done(q) /\ M = <<>>
      BY <1>2, <2>1, TakeOnly
    <3>3. L = <<Copy(q)>> => x = Copy(q) /\ M = <<>>
      BY <1>2, <2>1, TakeOnly
    <3>4. L = <<Result(q)>> => x = Result(q) /\ M = <<>>
      BY <1>2, <2>1, TakeOnly
    <3> QED
      BY <1>5, <2>3, <3>1, <3>2, <3>3, <3>4 DEF Answering
  <2>6. \/ m.status = "ready" /\ m.result = q /\ x = Result(q)
        \/ m.status = "idle" /\ x = Done(q)
        \/ m.status = "copy" /\ m.result = q /\ x = Copy(q)
    BY <2>1, <2>5 DEF Takes, Result, Done, Copy
  <2>7. Result(q) # Done(q) /\ Result(q) # Copy(q) /\ Copy(q) # Done(q)
    BY DEF Result, Done, Copy
  <2>8. Answering(m, M, q)
    BY <1>1, <2>5, <2>6, <2>7 DEF Answering
  <2>9. Phase(m, s, g, q)
    BY <2>4, <2>6, <2>8 DEF Phase, M
  <2>10. First(n, s, q) => First(m, s, q)
    BY <1>5, <2>5, <2>6, <2>7 DEF First, L
  <2>11. Second(n, s, q) => Second(m, s, q)
    <3>1. L = <<Done(q)>> => m.status = "idle"
      BY <2>5, <2>6, <2>7
    <3> QED
      BY <1>5, <2>2, <3>1 DEF Second, L
  <2> QED
    BY <2>9, <2>10, <2>11 DEF Carries
<1> QED
  BY <1>3, <1>4, <1>5

-----------------------------------------------------------------------------
(* The notifications, on their way *)

\* Those libpq has in its queue, and those still in line.
Coming(n) == n.notifies \o NotesIn(InLine(n))

\* What libpq does to the PGconn loses no notification.
Quiet(n, m) ==
  /\ NetOK(m)
  /\ Coming(m) = Coming(n)
  /\ m.link = "open" <=> n.link = "open"

LEMMA ComingTyped ==
  ASSUME NEW n \in Net
  PROVE  /\ Coming(n) \in Seq(Nat \ {0})
         /\ n.notifies \in Seq(Nat \ {0})
         /\ NotesIn(InLine(n)) \in Seq(Nat \ {0})
         /\ Coming(n) = (n.notifies \o NotesIn(n.inbuf)) \o NotesIn(n.to_client)
<1> DEFINE N == Nat \ {0}
           a == n.notifies
           b == NotesIn(n.inbuf)
           c == NotesIn(n.to_client)
           d == NotesIn(InLine(n))
<1>1. a \in Seq(N) /\ b \in Seq(N) /\ c \in Seq(N) /\ d \in Seq(N)
  <2>1. a \in Seq(N)
    BY DEF Net
  <2> QED
    BY <2>1, InLineTyped, NotesTyped
<1>2. d = b \o c
  BY InLineTyped, NotesConcat DEF InLine
<1>3. Coming(n) = a \o d
  BY DEF Coming
<1> HIDE DEF N, a, b, c, d
<1>4. (a \o b) \o c = a \o d
  BY ONLY <1>1, <1>2, Join
<1>5. a \o d \in Seq(N)
  BY <1>1
<1> QED
  BY <1>1, <1>3, <1>4, <1>5 DEF N, a, b, c, d

LEMMA QuietTransitive ==
  ASSUME NEW n, NEW m, NEW p, Quiet(n, m), Quiet(m, p)
  PROVE  Quiet(n, p)
BY DEF Quiet

LEMMA MovesQuiet ==
  ASSUME NEW n, NetOK(n), NEW m, Moves(n, m)
  PROVE  Quiet(n, m)
<1>1. /\ n.out \in Nat /\ m.out \in Nat /\ Size \in Nat /\ InCap \in Nat
      /\ Len(n.to_client) \in Nat /\ Len(m.to_client) \in Nat
  BY ConnectionAssumption DEF Moves, NetOK, Net
<1>2. NetOK(m)
  BY <1>1 DEF Moves, NetOK
<1>3. Coming(m) = Coming(n)
  BY DEF Moves, Coming
<1> QED
  BY <1>2, <1>3 DEF Moves, Quiet

LEMMA ParsedQuiet ==
  ASSUME NEW n, NetOK(n)
  PROVE  Quiet(n, Parsed(n)) /\ Parsed(n) \in Net
<1> DEFINE m == Parsed(n)
<1>1. n \in Net
  BY DEF NetOK
<1>2. m \in Net /\ Reaches(n, m)
  BY <1>1, ParsedKeeps
<1> HIDE DEF m
<1>3. NetOK(m)
  BY <1>2 DEF Reaches, SameSocket, NetOK
<1>4. Coming(m) = Coming(n)
  BY <1>1, <1>2, ComingTyped DEF Reaches, SameSocket, NotesKept
<1> QED
  BY <1>2, <1>3, <1>4 DEF Quiet, Reaches, SameSocket, m

LEMMA NetStatus ==
  ASSUME NEW n \in Net, NEW k \in {"idle", "busy", "ready", "copy"}
  PROVE  [n EXCEPT !.status = k] \in Net
<1> DEFINE Q == Seq(Msg)
           N == Seq(Nat \ {0})
           R == [out : Nat, to_server : Nat, to_client : Q, inbuf : Q,
                 status : {"idle", "busy", "ready", "copy"}, result : Nat,
                 notifies : N, link : {"open", "closing", "broken"}]
<1>1. Net = R
  BY DEF Net
<1> HIDE DEF Q, N
<1> QED
  BY <1>1

LEMMA NetStarted ==
  ASSUME NEW n \in Net, NEW k \in Nat
  PROVE  [n EXCEPT !.out = k, !.status = "busy"] \in Net
<1> DEFINE Q == Seq(Msg)
           N == Seq(Nat \ {0})
           R == [out : Nat, to_server : Nat, to_client : Q, inbuf : Q,
                 status : {"idle", "busy", "ready", "copy"}, result : Nat,
                 notifies : N, link : {"open", "closing", "broken"}]
<1>1. Net = R
  BY DEF Net
<1> HIDE DEF Q, N
<1> QED
  BY <1>1

LEMMA NetNotifies ==
  ASSUME NEW n \in Net, NEW s \in Seq(Nat \ {0})
  PROVE  [n EXCEPT !.notifies = s] \in Net
<1> DEFINE Q == Seq(Msg)
           N == Seq(Nat \ {0})
           R == [out : Nat, to_server : Nat, to_client : Q, inbuf : Q,
                 status : {"idle", "busy", "ready", "copy"}, result : Nat,
                 notifies : N, link : {"open", "closing", "broken"}]
<1>1. Net = R
  BY DEF Net
<1>2. s \in N
  OBVIOUS
<1> HIDE DEF Q, N
<1> QED
  BY <1>1, <1>2

LEMMA NetToClient ==
  ASSUME NEW n \in Net, NEW s \in Seq(Msg)
  PROVE  [n EXCEPT !.to_client = s] \in Net
<1> DEFINE Q == Seq(Msg)
           N == Seq(Nat \ {0})
           R == [out : Nat, to_server : Nat, to_client : Q, inbuf : Q,
                 status : {"idle", "busy", "ready", "copy"}, result : Nat,
                 notifies : N, link : {"open", "closing", "broken"}]
<1>1. Net = R
  BY DEF Net
<1>2. s \in Q
  OBVIOUS
<1> HIDE DEF Q, N
<1> QED
  BY <1>1, <1>2

-----------------------------------------------------------------------------
(* The steps of a query operation *)

LEMMA ReceiveResultKeeps ==
  ASSUME NEW n, NetOK(n), NEW s \in Seq(Msg), NEW g \in Nat, NEW q \in Nat \ {0},
         Phase(n, s, g, q), ReceiveResult(n)
  PROVE  /\ Quiet(n, net') /\ Carries(n, net', s, g, q)
         /\ op' \in {"read", "posted"}
         /\ op' = "posted" => net'.status # "busy"
<1>1. n \in Net /\ net' = Parsed(n)
  BY DEF NetOK, ReceiveResult
<1>2. net' \in Net /\ Reaches(n, net') /\ Quiet(n, net')
  BY <1>1, ParsedKeeps, ParsedQuiet
<1>3. Carries(n, net', s, g, q)
  BY <1>1, <1>2, ParsedCarries
<1>4. op' = IF net'.status = "busy" THEN "read" ELSE "posted"
  BY DEF ReceiveResult
<1> QED
  BY <1>2, <1>3, <1>4

\* What a step of the operation leaves: it goes on, or it has failed.
GoesOn ==
  \/ op' = "none" /\ failed' = TRUE
  \/ op' \in {"flush", "read", "posted"} /\ failed' = failed
     /\ (op' = "posted" => net'.status # "busy")

LEMMA FlushStepKeeps ==
  ASSUME NEW n, NetOK(n), NEW s \in Seq(Msg), NEW g \in Nat, NEW q \in Nat \ {0},
         Phase(n, s, g, q), FlushStep(n)
  PROVE  Quiet(n, net') /\ Carries(n, net', s, g, q) /\ GoesOn
<1>1. n \in Net /\ n.to_server <= OutCap
  BY DEF NetOK
<1>2. PICK m \in IF n.link = "broken" THEN {n} ELSE PQflush(n) :
        \/ m.link = "broken" /\ net' = m /\ FailQuery
        \/ m.link # "broken" /\ m.out = 0 /\ ReceiveResult(m) /\ UNCHANGED failed
        \/ m.link # "broken" /\ m.out # 0 /\ net' = m /\ op' = "flush" /\ UNCHANGED failed
  BY DEF FlushStep
<1>3. Moves(n, m)
  <2>1. CASE n.link = "broken"
    BY <1>1, <1>2, <2>1 DEF Moves, Net
  <2>2. CASE n.link # "broken"
    BY <1>1, <1>2, <2>2, PQflushMoves
  <2> QED
    BY <2>1, <2>2
<1>4. Quiet(n, m) /\ Carries(n, m, s, g, q) /\ m \in Net
  BY <1>1, <1>3, MovesQuiet, MovesCarries DEF Moves
<1>5. CASE net' = m /\ (FailQuery \/ (op' = "flush" /\ UNCHANGED failed))
  BY <1>4, <1>5 DEF GoesOn, FailQuery
<1>6. CASE ReceiveResult(m) /\ UNCHANGED failed
  <2>1. NetOK(m) /\ Phase(m, s, g, q)
    BY <1>4 DEF Quiet, Carries
  <2>2. /\ Quiet(m, net') /\ Carries(m, net', s, g, q)
        /\ op' \in {"read", "posted"} /\ (op' = "posted" => net'.status # "busy")
    BY <1>6, <2>1, ReceiveResultKeeps
  <2>3. Quiet(n, net')
    BY <1>4, <2>2, QuietTransitive
  <2>4. Carries(n, net', s, g, q)
    BY <1>4, <2>2 DEF Carries
  <2> QED
    BY <1>6, <2>2, <2>3, <2>4 DEF GoesOn
<1> QED
  BY <1>2, <1>5, <1>6

\* PQgetResult leaves a PGconn that had a result ready in need of the next one.
Fetched(p) == IF p.status = "ready" THEN [p EXCEPT !.status = "busy"] ELSE p

LEMMA FetchedKeeps ==
  ASSUME NEW p, NetOK(p), NEW s \in Seq(Msg), NEW g \in Nat, NEW q \in Nat \ {0},
         Phase(p, s, g, q), p.status # "busy"
  PROVE  /\ Quiet(p, Fetched(p)) /\ Phase(Fetched(p), s, g, q)
         /\ Fetched(p).status # "ready" /\ Fetched(p).result = p.result
         /\ First(p, s, q) => Second(Fetched(p), s, q) /\ p.status \in {"ready", "copy"}
<1> DEFINE m == Fetched(p)
<1>1. p \in Net
  BY DEF NetOK
<1>2. CASE p.status = "ready"
  <2>1. m = [p EXCEPT !.status = "busy"]
    BY <1>2 DEF Fetched
  <2>2. m \in Net
    BY <1>1, <2>1, NetStatus
  <2>3. /\ m.out = p.out /\ m.to_server = p.to_server /\ m.to_client = p.to_client
        /\ m.inbuf = p.inbuf /\ m.status = "busy" /\ m.result = p.result
        /\ m.notifies = p.notifies /\ m.link = p.link
    BY <1>1, <2>1 DEF Net
  <2> HIDE DEF m
  <2>4. Quiet(p, m)
    BY <2>2, <2>3 DEF Quiet, NetOK, Coming, InLine
  <2>5. Ahead(m, s) = Ahead(p, s)
    BY <2>3 DEF Ahead, InLine
  <2>6. Flushed(p, g) /\ (Ahead(p, s) = <<Done(q)>> \/ (Ahead(p, s) = <<>> /\ p.link # "open"))
    BY <1>2 DEF Phase, Waiting, Answering
  <2>7. Phase(m, s, g, q)
    BY <2>3, <2>5, <2>6 DEF Phase, Waiting, Answering, Flushed
  <2>8. Second(m, s, q)
    BY <2>3, <2>5, <2>6 DEF Second
  <2> QED
    BY <1>2, <2>3, <2>4, <2>7, <2>8 DEF m
<1>3. CASE p.status # "ready"
  <2>1. m = p
    BY <1>3 DEF Fetched
  <2>2. Quiet(p, p)
    BY DEF Quiet
  <2>3. First(p, s, q) => p.status = "copy"
    BY <1>1, <1>3 DEF First, Net
  <2>4. Second(p, s, q)
    BY <1>3 DEF Second
  <2> QED
    BY <1>3, <2>1, <2>2, <2>3, <2>4
<1> QED
  BY <1>2, <1>3

\* The three ways PQgetResult takes the operation on, with the PGconn m it
\* leaves: to its second result, to an error and to its end.
Continues ==
  /\ op' \in {"read", "posted"}
  /\ op' = "posted" => net'.status # "busy"
  /\ step' = 2 /\ stored' = asked
  /\ Second(net', srv_out, asked)
  /\ UNCHANGED <<done, failed, receiver>>

Ends ==
  /\ op' = "none" /\ failed' = TRUE
  /\ UNCHANGED <<step, stored, done, receiver>>

Completes ==
  /\ op' = "none" /\ net'.status = "idle"
  /\ done' = Append(done, <<asked, asked>>)
  /\ Emit
  /\ UNCHANGED <<step, stored, failed>>

LEMMA GotResultKeeps ==
  ASSUME NEW n, NetOK(n), srv_out \in Seq(Msg), srv_got \in Nat, asked \in Nat \ {0},
         Phase(n, srv_out, srv_got, asked),
         step = 1 => First(n, srv_out, asked),
         step = 2 => Second(n, srv_out, asked) /\ stored = asked,
         Parsed(n).status # "busy",
         GotResult(n)
  PROVE  /\ Quiet(n, net') /\ Phase(net', srv_out, srv_got, asked)
         /\ Continues \/ Ends \/ Completes
<1> DEFINE p == Parsed(n)
           m == Fetched(p)
           res == IF p.status \in {"ready", "copy"} THEN p.result ELSE Null
<1>1. n \in Net
  BY DEF NetOK
<1>2. p \in Net /\ Quiet(n, p) /\ Carries(n, p, srv_out, srv_got, asked)
  BY <1>1, ParsedKeeps, ParsedQuiet, ParsedCarries
<1>3. NetOK(p) /\ Phase(p, srv_out, srv_got, asked) /\ p.status # "busy"
  BY <1>2 DEF Quiet, Carries
<1>4. \/ /\ step = 1 /\ stored' = res /\ step' = 2
         /\ ReceiveResult(m)
         /\ UNCHANGED <<done, failed, receiver>>
      \/ /\ step = 2 /\ res # Null /\ net' = m /\ FailQuery
         /\ UNCHANGED <<step, stored, done, receiver>>
      \/ /\ step = 2 /\ res = Null /\ net' = m /\ op' = "none"
         /\ done' = Append(done, <<asked, stored>>)
         /\ Emit
         /\ UNCHANGED <<step, stored, failed>>
  BY DEF GotResult, Fetched
<1> HIDE DEF p
<1>5. /\ Quiet(p, m) /\ Phase(m, srv_out, srv_got, asked)
      /\ First(p, srv_out, asked) => Second(m, srv_out, asked) /\ p.status \in {"ready", "copy"}
  BY <1>3, FetchedKeeps
<1>6. p.status \in {"ready", "copy"} => p.result = asked
  BY <1>3 DEF Phase
<1> HIDE DEF m
<1>7. Quiet(n, m) /\ NetOK(m)
  BY <1>2, <1>5, QuietTransitive DEF Quiet
<1>8. CASE step = 1
  <2>1. First(p, srv_out, asked)
    BY <1>2, <1>8 DEF Carries
  <2>2. stored' = asked /\ step' = 2 /\ ReceiveResult(m) /\ UNCHANGED <<done, failed, receiver>>
    BY <1>4, <1>5, <1>6, <1>8, <2>1
  <2>3. /\ Quiet(m, net') /\ Carries(m, net', srv_out, srv_got, asked)
        /\ op' \in {"read", "posted"} /\ (op' = "posted" => net'.status # "busy")
    BY <1>5, <1>7, <2>2, ReceiveResultKeeps
  <2>4. Quiet(n, net')
    BY <1>7, <2>3, QuietTransitive
  <2>5. Phase(net', srv_out, srv_got, asked) /\ Second(net', srv_out, asked)
    BY <1>5, <2>1, <2>3 DEF Carries
  <2> QED
    BY <2>2, <2>3, <2>4, <2>5 DEF Continues
<1>9. CASE step = 2
  <2>1. Second(p, srv_out, asked) /\ stored = asked
    BY <1>2, <1>9 DEF Carries
  <2>2. p.status \in {"idle", "copy"}
    BY <1>2, <1>3, <2>1 DEF Second, Net
  <2>3. m = p
    BY <2>2 DEF m, Fetched
  <2>4. CASE res # Null
    <3>1. net' = m /\ FailQuery /\ UNCHANGED <<step, stored, done, receiver>>
      BY <1>4, <1>9, <2>4
    <3> QED
      BY <1>5, <1>7, <3>1 DEF Ends, FailQuery
  <2>5. CASE res = Null
    <3>1. /\ net' = m /\ op' = "none" /\ done' = Append(done, <<asked, stored>>) /\ Emit
          /\ UNCHANGED <<step, stored, failed>>
      BY <1>4, <1>9, <2>5
    <3>2. p.status = "idle"
      BY <1>6, <2>2, <2>5 DEF Null
    <3> QED
      BY <1>5, <1>7, <2>1, <2>3, <3>1, <3>2 DEF Completes
  <2> QED
    BY <2>4, <2>5
<1> QED
  BY <1>4, <1>8, <1>9

-----------------------------------------------------------------------------
(* The invariant *)

\* All notifications from the caller back to the server.
Delivered(r, x) == r \o (IF x = Null THEN <<>> ELSE <<x>>)
AllNotes(r, x, n, s) == (Delivered(r, x) \o Coming(n)) \o NotesIn(s)

\* They are the first of those sent, all of them while the link is open.
Conserved(all, k, link) ==
  /\ all = [i \in DOMAIN all |-> i]
  /\ Len(all) <= k
  /\ link = "open" => Len(all) = k

Msgs == Seq(Msg)
Notes == Seq(Nat \ {0})
Results == Seq(Nat \X Nat)

Types ==
  /\ NetOK(net) /\ srv_out \in Msgs /\ srv_got \in 0 .. Size /\ notes \in Nat
  /\ op \in {"none", "flush", "flush_readable", "flush_writable",
             "read", "read_readable", "posted"}
  /\ step \in {1, 2} /\ stored \in Nat /\ asked \in Nat
  /\ done \in Results
  /\ rcv \in {"none", "waiting", "woken", "aborted", "posted"}
  /\ rcv_note \in Nat /\ (rcv_note # Null <=> rcv = "posted")
  /\ received \in Notes

\* The operation under way is about the query whose answer is on its way.
Following(q) ==
  /\ q = asked
  /\ step = 1 => First(net, srv_out, q)
  /\ step = 2 => Second(net, srv_out, q) /\ stored = asked

Progress ==
  \E q \in Nat \ {0} : /\ Phase(net, srv_out, srv_got, q)
                       /\ op # "none" => Following(q)

States ==
  /\ asked = 0 => net.status = "idle" /\ op = "none"
  /\ op \in {"flush", "flush_readable", "flush_writable"} => step = 1
  /\ op = "posted" => net.status # "busy"
  /\ op = "none" /\ ~failed => net.status = "idle"

\* A receiver that sleeps with no query to wake it has left nothing unread.
Drained ==
  rcv = "waiting" /\ op = "none" /\ ~failed => net.notifies = <<>> /\ net.inbuf = <<>>

OwnResults == \A i \in DOMAIN done : done[i][1] = done[i][2]

AllConserved == Conserved(AllNotes(received, rcv_note, net, srv_out), notes, net.link)

Ind == Types /\ Progress /\ States /\ Drained /\ OwnResults /\ AllConserved

\* The notifications, as property NotificationsConserved lists them.
LEMMA AllNotesForm ==
  ASSUME NEW n \in Net, NEW r \in Seq(Nat \ {0}), NEW x \in Nat, NEW s \in Seq(Msg)
  PROVE  /\ AllNotes(r, x, n, s) =
              r \o (IF x = Null THEN <<>> ELSE <<x>>) \o n.notifies
                \o NotesIn(n.inbuf) \o NotesIn(n.to_client) \o NotesIn(s)
         /\ Delivered(r, x) \in Seq(Nat \ {0})
         /\ AllNotes(r, x, n, s) \in Seq(Nat \ {0})
<1> DEFINE N == Nat \ {0}
           y == IF x = Null THEN <<>> ELSE <<x>>
           d == r \o y
           a == n.notifies
           b == NotesIn(n.inbuf)
           c == NotesIn(n.to_client)
           e == NotesIn(s)
           ab == a \o b
           co == Coming(n)
<1>1. a \in Seq(N) /\ b \in Seq(N) /\ c \in Seq(N) /\ e \in Seq(N) /\ co = ab \o c /\ co \in Seq(N)
  BY ComingTyped, InLineTyped, NotesTyped
<1>2. y \in Seq(N)
  <2> DEFINE W == Seq(N)
             z == <<x>>
  <2>1. x # Null => z \in W
    BY OneTyped DEF Null
  <2>2. <<>> \in W
    OBVIOUS
  <2> HIDE DEF W, z
  <2>3. y \in W
    BY <2>1, <2>2 DEF z
  <2> QED
    BY <2>3 DEF W
<1>3. r \in Seq(N)
  OBVIOUS
<1>4. Delivered(r, x) = d
  BY DEF Delivered
<1>5. AllNotes(r, x, n, s) = (d \o co) \o e
  BY <1>4 DEF AllNotes
<1> HIDE DEF N, y, a, b, c, e, co
<1>6. d \in Seq(N) /\ ab \in Seq(N)
  BY <1>1, <1>2, <1>3
<1> HIDE DEF d
<1>7. (d \o a) \o b = d \o ab
  <2>1. d \in Seq(N) /\ a \in Seq(N) /\ b \in Seq(N)
    BY <1>1, <1>6
  <2> QED
    BY ONLY <2>1, Join
<1> HIDE DEF ab
<1>8. (d \o ab) \o c = d \o co
  <2>1. d \in Seq(N) /\ ab \in Seq(N) /\ c \in Seq(N) /\ co = ab \o c
    BY <1>1, <1>6
  <2> QED
    BY ONLY <2>1, Join
<1>9. (d \o co) \o e \in Seq(N)
  <2> DEFINE dc == d \o co
  <2>1. dc \in Seq(N)
    BY <1>1, <1>6
  <2> HIDE DEF dc
  <2>2. dc \o e \in Seq(N)
    BY <1>1, <2>1
  <2> QED
    BY <2>2 DEF dc
<1> QED
  BY <1>4, <1>5, <1>6, <1>7, <1>8, <1>9 DEF d, y, a, b, c, e, N

LEMMA InitInd == Init => Ind
<1> SUFFICES ASSUME Init PROVE Ind
  OBVIOUS
<1>1. Size \in Nat \ {0} /\ OutCap \in Nat \ {0} /\ InCap \in Nat \ {0}
  BY ConnectionAssumption
<1>2. /\ net.out = 0 /\ net.to_server = 0 /\ net.to_client = <<>> /\ net.inbuf = <<>>
      /\ net.status = "idle" /\ net.result = 0 /\ net.notifies = <<>> /\ net.link = "open"
  BY DEF Init, Null
<1>3. /\ srv_out = <<>> /\ srv_got = 0 /\ notes = 0
      /\ op = "none" /\ step = 1 /\ stored = 0 /\ asked = 0 /\ done = <<>> /\ failed = FALSE
      /\ rcv = "none" /\ rcv_note = 0 /\ received = <<>>
  BY DEF Init, Null
<1>4. net \in Net
  BY DEF Init, Net, Null
<1>5. NetOK(net)
  BY <1>1, <1>2, <1>4 DEF NetOK
<1>6. Types
  <2>1. srv_out \in Msgs /\ done \in Results /\ received \in Notes
    BY <1>3 DEF Msgs, Results, Notes
  <2> QED
    BY <1>1, <1>5, <1>3, <2>1 DEF Types, Null
<1>7. InLine(net) = <<>>
  BY <1>2 DEF InLine
<1>8. Ahead(net, srv_out) = <<>>
  BY <1>7, <1>3, NoneInEmpty DEF Ahead
<1>9. Progress
  BY <1>2, <1>8, <1>3 DEF Progress, Phase, Flushed, Answering
<1>10. Coming(net) = <<>>
  BY <1>2, <1>7, NoneInEmpty DEF Coming
<1>11. AllNotes(received, rcv_note, net, srv_out) = <<>>
  BY <1>10, <1>3, NoneInEmpty DEF AllNotes, Delivered, Null
<1>12. AllConserved
  BY <1>11, <1>3 DEF AllConserved, Conserved
<1> QED
  BY <1>2, <1>6, <1>9, <1>12, <1>3 DEF Ind, States, Drained, OwnResults

-----------------------------------------------------------------------------
(* The steps of the query operation keep it *)

LEMMA QuietConserves ==
  ASSUME AllConserved, Quiet(net, net'), UNCHANGED <<srv_out, notes, received, rcv_note>>
  PROVE  AllConserved'
<1>1. Coming(net') = Coming(net) /\ (net'.link = "open" <=> net.link = "open")
  BY DEF Quiet
<1>2. AllNotes(received', rcv_note', net', srv_out') = AllNotes(received, rcv_note, net, srv_out)
  BY <1>1 DEF AllNotes
<1> QED
  BY <1>1, <1>2 DEF AllConserved, Conserved

\* A PGconn that is not busy stays as it is until its result is fetched.
Settled(n, m) == n.status # "busy" => m.status = n.status

LEMMA MovesSettled ==
  ASSUME NEW n \in Net, NEW m, Moves(n, m)
  PROVE  /\ Settled(n, m) /\ Settled(n, Parsed(m))
<1>1. m \in Net /\ m.status = n.status
  BY DEF Moves
<1>2. Answered(m, Parsed(m))
  BY <1>1, ParsedKeeps DEF Reaches
<1> QED
  BY <1>1, <1>2 DEF Settled, Answered

\* The operation goes on about the same query, or fails.
LEMMA GoesOnInd ==
  ASSUME Ind, op # "none", GoesOn, op' = "flush" => step = 1,
         Quiet(net, net'), Carries(net, net', srv_out, srv_got, asked),
         UNCHANGED <<step, stored, asked, done, server, receiver>>
  PROVE  Ind'
<1>1. NetOK(net')
  BY DEF Quiet
<1>2. Types'
  BY <1>1 DEF Ind, Types, GoesOn, server, receiver
<1>3. asked # 0 /\ asked \in Nat
  BY DEF Ind, States, Types
<1>4. Progress'
  <2>1. /\ step = 1 => First(net, srv_out, asked)
        /\ step = 2 => Second(net, srv_out, asked) /\ stored = asked
    BY DEF Ind, Progress, Following
  <2>2. Phase(net', srv_out', srv_got', asked)
    BY DEF Carries, server
  <2>3. Following(asked)'
    BY <2>1 DEF Carries, Following, server
  <2> QED
    BY <1>3, <2>2, <2>3 DEF Progress
<1>5. States'
  BY <1>3 DEF Ind, States, GoesOn
<1>6. Drained'
  BY DEF Drained, GoesOn
<1>7. OwnResults'
  BY DEF Ind, OwnResults
<1>8. AllConserved'
  BY QuietConserves DEF Ind, server, receiver
<1> QED
  BY <1>2, <1>4, <1>5, <1>6, <1>7, <1>8 DEF Ind

LEMMA UnderWay ==
  ASSUME Ind, op # "none"
  PROVE  /\ asked \in Nat \ {0} /\ Phase(net, srv_out, srv_got, asked)
         /\ step = 1 => First(net, srv_out, asked)
         /\ step = 2 => Second(net, srv_out, asked) /\ stored = asked
         /\ net \in Net /\ NetOK(net) /\ net.to_server <= OutCap
         /\ srv_out \in Seq(Msg) /\ srv_got \in Nat
<1>1. asked \in Nat \ {0}
  BY DEF Ind, States, Types
<1>2. net \in Net /\ NetOK(net) /\ net.to_server <= OutCap
  BY DEF Ind, Types, NetOK
<1>3. srv_out \in Seq(Msg) /\ srv_got \in Nat
  <2>1. srv_out \in Msgs /\ srv_got \in Nat
    BY ConnectionAssumption DEF Ind, Types
  <2> QED
    BY <2>1 DEF Msgs
<1> QED
  BY <1>1, <1>2, <1>3 DEF Ind, Progress, Following

LEMMA MovesUnderWay ==
  ASSUME Ind, op # "none", NEW m, Moves(net, m)
  PROVE  /\ NetOK(m) /\ m \in Net /\ Quiet(net, m)
         /\ Carries(net, m, srv_out, srv_got, asked)
<1>1. Quiet(net, m)
  BY UnderWay, MovesQuiet
<1>2. Carries(net, m, srv_out, srv_got, asked)
  BY UnderWay, MovesCarries
<1> QED
  BY <1>1, <1>2 DEF Quiet, NetOK

LEMMA FlushWritableInd ==
  ASSUME Ind, FlushWritable
  PROVE  Ind'
<1>1. op # "none" /\ step = 1
  BY DEF FlushWritable, Ind, States
<1>2. Quiet(net, net') /\ Carries(net, net', srv_out, srv_got, asked) /\ GoesOn
  BY <1>1, UnderWay, FlushStepKeeps DEF FlushWritable
<1> QED
  BY <1>1, <1>2, GoesOnInd DEF FlushWritable

LEMMA FlushReadableInd ==
  ASSUME Ind, FlushReadable
  PROVE  Ind'
<1>1. op # "none" /\ step = 1
  BY DEF FlushReadable, Ind, States
<1>2. Moves(net, net')
  BY <1>1, UnderWay, PQconsumeInputMoves DEF FlushReadable
<1>3. Quiet(net, net') /\ Carries(net, net', srv_out, srv_got, asked)
  BY <1>1, <1>2, MovesUnderWay
<1>4. GoesOn
  BY DEF FlushReadable, GoesOn, FailQuery
<1> QED
  BY <1>1, <1>3, <1>4, GoesOnInd DEF FlushReadable

LEMMA CancelQueryInd ==
  ASSUME Ind, CancelQuery
  PROVE  Ind'
<1>1. op # "none"
  BY DEF CancelQuery
<1>2. Quiet(net, net)
  BY <1>1, UnderWay DEF Quiet
<1>3. Carries(net, net, srv_out, srv_got, asked)
  BY <1>1, UnderWay DEF Carries
<1>4. GoesOn /\ op' = "none"
  BY DEF CancelQuery, GoesOn, FailQuery
<1> QED
  BY <1>1, <1>2, <1>3, <1>4, GoesOnInd DEF CancelQuery

\* PQgetResult, after what the wait has read.
LEMMA GotResultInd ==
  ASSUME Ind, op # "none", NEW n, Moves(net, n), Parsed(n).status # "busy",
         GotResult(n), UNCHANGED <<asked, server>>
  PROVE  Ind'
<1>1. NetOK(n) /\ Quiet(net, n) /\ Carries(net, n, srv_out, srv_got, asked)
  BY MovesUnderWay
<1>2. /\ Quiet(n, net') /\ Phase(net', srv_out, srv_got, asked)
      /\ Continues \/ Ends \/ Completes
  BY <1>1, UnderWay, GotResultKeeps DEF Carries
<1>3. Quiet(net, net') /\ NetOK(net')
  BY <1>1, <1>2, QuietTransitive DEF Quiet
<1>4. asked \in Nat \ {0}
  BY UnderWay
<1>5. UNCHANGED <<received, rcv_note>>
  BY <1>2 DEF Continues, Ends, Completes, Emit, receiver
<1>6. AllConserved'
  BY <1>3, <1>5, QuietConserves DEF Ind, server
<1>7. UNCHANGED <<srv_out, srv_got, notes>>
  BY DEF server
<1>8. CASE Continues
  <2>1. Types'
    BY <1>3, <1>4, <1>7, <1>8 DEF Ind, Types, Continues, receiver
  <2>2. Following(asked)'
    BY <1>7, <1>8 DEF Continues, Following
  <2>3. Progress'
    BY <1>2, <1>4, <1>7, <2>2 DEF Progress
  <2>4. States' /\ Drained' /\ OwnResults'
    BY <1>4, <1>8 DEF Ind, States, Drained, OwnResults, Continues
  <2> QED
    BY <1>6, <2>1, <2>3, <2>4 DEF Ind
<1>9. CASE Ends
  <2>1. Types'
    BY <1>3, <1>7, <1>9 DEF Ind, Types, Ends, receiver
  <2>2. Progress'
    BY <1>2, <1>4, <1>7, <1>9 DEF Progress, Ends
  <2>3. States' /\ Drained' /\ OwnResults'
    BY <1>4, <1>9 DEF Ind, States, Drained, OwnResults, Ends
  <2> QED
    BY <1>6, <2>1, <2>2, <2>3 DEF Ind
<1>10. CASE Completes
  <2> DEFINE R == Nat \X Nat
  <2>1. done \in Seq(R) /\ <<asked, asked>> \in R
    BY <1>4 DEF Ind, Types, Results
  <2> HIDE DEF R
  <2>2. done' \in Seq(R) /\ OwnResults'
    <3>1. done' = Append(done, <<asked, asked>>)
      BY <1>10 DEF Completes
    <3>2. done' \in Seq(R) /\ Len(done') = Len(done) + 1 /\ done'[Len(done) + 1] = <<asked, asked>>
          /\ \A i \in 1 .. Len(done) : done'[i] = done[i]
      BY <2>1, <3>1
    <3>3. \A i \in DOMAIN done' : i \in DOMAIN done \/ i = Len(done) + 1
      BY <2>1, <3>2
    <3> QED
      BY <2>1, <3>2, <3>3 DEF Ind, OwnResults
  <2>3. done' \in Results
    BY <2>2 DEF Results, R
  <2>4. /\ rcv' \in {"none", "aborted", "woken", "posted"}
        /\ rcv' = "posted" <=> rcv = "posted"
    BY <1>10 DEF Completes, Emit, Ind, Types
  <2>5. Types'
    BY <1>3, <1>5, <1>7, <1>10, <2>3, <2>4 DEF Ind, Types, Completes
  <2>6. Progress'
    BY <1>2, <1>4, <1>7, <1>10 DEF Progress, Completes
  <2>7. States' /\ Drained'
    BY <1>4, <1>10, <2>4 DEF States, Drained, Completes
  <2> QED
    BY <1>6, <2>2, <2>5, <2>6, <2>7 DEF Ind
<1> QED
  BY <1>2, <1>8, <1>9, <1>10

LEMMA ResultPostedInd ==
  ASSUME Ind, ResultPosted
  PROVE  Ind'
<1>1. op # "none" /\ net.status # "busy"
  BY DEF ResultPosted, Ind, States
<1>2. Moves(net, net)
  BY <1>1, UnderWay DEF Moves, Net
<1>3. Parsed(net).status # "busy"
  BY <1>1, <1>2, UnderWay, MovesSettled DEF Settled
<1> QED
  BY <1>1, <1>2, <1>3, GotResultInd DEF ResultPosted

LEMMA ReadReadableInd ==
  ASSUME Ind, ReadReadable
  PROVE  Ind'
<1>1. op # "none" /\ op = "read_readable"
  BY DEF ReadReadable
<1>2. PICK m \in PQconsumeInput(net) :
        \/ /\ m.link = "broken" /\ net' = m /\ FailQuery
           /\ UNCHANGED <<step, stored, done, receiver>>
        \/ /\ m.link # "broken" /\ Parsed(m).status = "busy"
           /\ net' = Parsed(m) /\ op' = "read"
           /\ UNCHANGED <<step, stored, done, failed, receiver>>
        \/ m.link # "broken" /\ Parsed(m).status # "busy" /\ GotResult(m)
  BY DEF ReadReadable
<1>3. Moves(net, m)
  BY <1>1, <1>2, UnderWay, PQconsumeInputMoves
<1>4. NetOK(m) /\ m \in Net /\ Quiet(net, m) /\ Carries(net, m, srv_out, srv_got, asked)
  BY <1>1, <1>3, MovesUnderWay
<1>5. UNCHANGED <<asked, server>>
  BY DEF ReadReadable
<1>6. CASE net' = m /\ FailQuery /\ UNCHANGED <<step, stored, done, receiver>>
  <2>1. GoesOn /\ op' = "none"
    BY <1>6 DEF GoesOn, FailQuery
  <2> QED
    BY <1>1, <1>4, <1>5, <1>6, <2>1, GoesOnInd
<1>7. CASE net' = Parsed(m) /\ op' = "read" /\ UNCHANGED <<step, stored, done, failed, receiver>>
  <2>1. GoesOn
    BY <1>7 DEF GoesOn
  <2>2. Quiet(net, net')
    BY <1>4, <1>7, ParsedQuiet, QuietTransitive
  <2>3. Carries(net, net', srv_out, srv_got, asked)
    <3>1. Phase(m, srv_out, srv_got, asked)
      BY <1>4 DEF Carries
    <3>2. Parsed(m) \in Net /\ Reaches(m, Parsed(m))
      BY <1>4, ParsedKeeps
    <3>3. Carries(m, Parsed(m), srv_out, srv_got, asked)
      BY <1>1, <1>4, <3>1, <3>2, UnderWay, ParsedCarries
    <3> QED
      BY <1>4, <1>7, <3>3 DEF Carries
  <2> QED
    BY <1>1, <1>5, <1>7, <2>1, <2>2, <2>3, GoesOnInd
<1>8. CASE Parsed(m).status # "busy" /\ GotResult(m)
  BY <1>1, <1>3, <1>5, <1>8, GotResultInd
<1> QED
  BY <1>2, <1>6, <1>7, <1>8

LEMMA StartOperationInd ==
  ASSUME Ind, StartOperation
  PROVE  Ind'
<1>1. /\ op = "none" /\ asked' = asked + 1 /\ asked \in Nat
      /\ UNCHANGED <<done, server, receiver>>
  BY DEF StartOperation, Ind, Types
<1>2. PICK q \in Nat \ {0} : Phase(net, srv_out, srv_got, q)
  BY DEF Ind, Progress
<1>3. net \in Net /\ NetOK(net) /\ srv_out \in Seq(Msg) /\ srv_got \in Nat
  BY ConnectionAssumption DEF Ind, Types, NetOK, Msgs
<1>4. CASE FailQuery /\ UNCHANGED <<net, step, stored>>
  <2>1. Types'
    BY <1>1, <1>4 DEF Ind, Types, FailQuery, server, receiver
  <2>2. Progress'
    BY <1>1, <1>2, <1>4 DEF Progress, FailQuery, server
  <2>3. States' /\ Drained' /\ OwnResults'
    BY <1>1, <1>4 DEF Ind, States, Drained, OwnResults, FailQuery
  <2>4. Quiet(net, net')
    BY <1>3, <1>4 DEF Quiet
  <2>5. AllConserved'
    BY <1>1, <2>4, QuietConserves DEF Ind, server, receiver
  <2> QED
    BY <2>1, <2>2, <2>3, <2>5 DEF Ind
<1>5. CASE /\ net.status = "idle" /\ net.link # "broken"
           /\ step' = 1 /\ stored' = Null
           /\ FlushStep([net EXCEPT !.out = Size, !.status = "busy"])
  <2> DEFINE n == [net EXCEPT !.out = Size, !.status = "busy"]
             a == asked + 1
  <2>1. n \in Net
    BY <1>3, ConnectionAssumption, NetStarted
  <2>2. /\ n.out = Size /\ n.status = "busy" /\ n.to_server = net.to_server
        /\ n.to_client = net.to_client /\ n.inbuf = net.inbuf
        /\ n.notifies = net.notifies /\ n.link = net.link
    BY <1>3 DEF Net
  <2> HIDE DEF n
  <2>3. Quiet(net, n)
    <3>1. NetOK(n)
      BY <1>3, <2>1, <2>2, ConnectionAssumption DEF NetOK
    <3> QED
      BY <2>2, <3>1 DEF Quiet, Coming, InLine
  <2>4. Ahead(n, srv_out) = Ahead(net, srv_out)
    BY <2>2 DEF Ahead, InLine
  <2>5. Flushed(net, srv_got) /\ Ahead(net, srv_out) = <<>>
    BY <1>2, <1>5 DEF Phase, Waiting, Answering
  <2>6. Phase(n, srv_out, srv_got, a)
    BY <2>2, <2>4, <2>5, ConnectionAssumption DEF Phase, Waiting, Flushed
  <2>7. First(n, srv_out, a)
    BY <2>2, <2>4, <2>5 DEF First
  <2>8. a \in Nat \ {0}
    BY <1>1
  <2>9. FlushStep(n) /\ NetOK(n)
    BY <1>5, <2>3 DEF n, Quiet
  <2>10. Quiet(n, net') /\ Carries(n, net', srv_out, srv_got, a) /\ GoesOn
    BY <1>3, <2>6, <2>8, <2>9, FlushStepKeeps
  <2>11. Quiet(net, net') /\ NetOK(net')
    BY <2>3, <2>10, QuietTransitive DEF Quiet
  <2>12. Types'
    BY <1>1, <1>5, <2>11, <2>10 DEF Ind, Types, GoesOn, Null, server, receiver
  <2>13. Progress'
    <3>1. Phase(net', srv_out', srv_got', a)
      BY <1>1, <2>10 DEF Carries, server
    <3>2. Following(asked)'
      BY <1>1, <1>5, <2>7, <2>10 DEF Following, Carries, server
    <3> QED
      BY <1>1, <2>8, <3>1, <3>2 DEF Progress
  <2>14. States' /\ Drained' /\ OwnResults'
    BY <1>1, <1>5, <2>8, <2>10 DEF Ind, States, Drained, OwnResults, GoesOn
  <2>15. AllConserved'
    BY <1>1, <2>11, QuietConserves DEF Ind, server, receiver
  <2> QED
    BY <2>12, <2>13, <2>14, <2>15 DEF Ind
<1> QED
  BY <1>4, <1>5 DEF StartOperation

-----------------------------------------------------------------------------
(* The steps of the receiver keep it *)

\* The same but for the queue of notifications.
SameButQueue(p, m) ==
  /\ m.status = p.status /\ m.result = p.result /\ m.link = p.link
  /\ m.out = p.out /\ m.to_server = p.to_server
  /\ m.to_client = p.to_client /\ m.inbuf = p.inbuf

LEMMA SameButQueueCarries ==
  ASSUME NEW p, NEW m, SameButQueue(p, m), NEW s, NEW g, NEW q, Phase(p, s, g, q)
  PROVE  Carries(p, m, s, g, q)
<1>1. Ahead(m, s) = Ahead(p, s)
  BY DEF SameButQueue, Ahead, InLine
<1> QED
  BY <1>1 DEF SameButQueue, Carries, Phase, Waiting, Flushed, Answering, First, Second

\* Taking a notification out of libpq's queue.
LEMMA TakeNotification ==
  ASSUME NEW p, NetOK(p), p.notifies # <<>>, NEW m, m = [p EXCEPT !.notifies = Tail(@)],
         NEW r \in Seq(Nat \ {0})
  PROVE  /\ NetOK(m) /\ Head(p.notifies) \in Nat \ {0}
         /\ SameButQueue(p, m)
         /\ Delivered(r, Head(p.notifies)) \o Coming(m) = Delivered(r, Null) \o Coming(p)
<1> DEFINE N == Nat \ {0}
           k == p.notifies
           h == Head(k)
           t == Tail(k)
           z == NotesIn(InLine(p))
<1>1. p \in Net /\ k \in Seq(N) /\ z \in Seq(N) /\ r \in Seq(N)
  BY ComingTyped DEF NetOK
<1>2. h \in N /\ t \in Seq(N) /\ k = <<h>> \o t
  BY <1>1
<1>3. m \in Net
  BY <1>1, <1>2, NetNotifies
<1>4. /\ m.notifies = t /\ m.status = p.status /\ m.link = p.link
      /\ m.out = p.out /\ m.to_server = p.to_server /\ m.to_client = p.to_client
      /\ m.inbuf = p.inbuf /\ m.result = p.result
  BY <1>1 DEF Net
<1>5. NetOK(m)
  BY <1>3, <1>4 DEF NetOK
<1>6. InLine(m) = InLine(p) /\ Coming(m) = t \o z /\ Coming(p) = k \o z
  BY <1>4 DEF InLine, Coming
<1>7. Delivered(r, h) = r \o <<h>> /\ Delivered(r, Null) = r
  BY <1>1, <1>2 DEF Delivered, Null
<1>8. (r \o <<h>>) \o (t \o z) = r \o (k \o z)
  <2> DEFINE H == <<h>>
             tz == t \o z
             kz == k \o z
  <2>1. H \in Seq(N)
    BY <1>2
  <2>2. k = H \o t
    BY <1>2
  <2> HIDE DEF N, H, k, h, t, z
  <2>3. kz = H \o tz
    <3>1. (H \o t) \o z = H \o tz
      BY ONLY <1>1, <1>2, <2>1, Join
    <3> QED
      BY <2>2, <3>1
  <2>4. tz \in Seq(N)
    BY <1>1, <1>2
  <2> HIDE DEF tz, kz
  <2>5. (r \o H) \o tz = r \o kz
    <3>1. r \in Seq(N) /\ H \in Seq(N) /\ tz \in Seq(N) /\ kz = H \o tz
      BY <1>1, <2>1, <2>3, <2>4
    <3> QED
      BY ONLY <3>1, Join
  <2> QED
    BY <2>5 DEF H, tz, kz
<1> QED
  BY <1>2, <1>4, <1>5, <1>6, <1>7, <1>8 DEF SameButQueue

\* What a step of the receiver leaves of the operation's part.
LEMMA BesideReceiver ==
  ASSUME Ind, UNCHANGED <<server, query>>, Settled(net, net'),
         \A q \in Nat \ {0} : Phase(net, srv_out, srv_got, q) =>
                                Carries(net, net', srv_out, srv_got, q)
  PROVE  Progress' /\ States' /\ OwnResults'
<1>1. UNCHANGED <<srv_out, srv_got, op, step, stored, asked, done, failed>>
  BY DEF server, query
<1>2. PICK q \in Nat \ {0} : /\ Phase(net, srv_out, srv_got, q)
                             /\ op # "none" => Following(q)
  BY DEF Ind, Progress
<1>3. Carries(net, net', srv_out, srv_got, q)
  BY <1>2
<1>4. Phase(net', srv_out', srv_got', q) /\ (op' # "none" => Following(q)')
  BY <1>1, <1>2, <1>3 DEF Carries, Following
<1>5. Progress'
  BY <1>4 DEF Progress
<1>6. States'
  BY <1>1 DEF Ind, States, Settled
<1>7. OwnResults'
  BY <1>1 DEF Ind, OwnResults
<1> QED
  BY <1>5, <1>6, <1>7

\* With no answer ahead, parsing leaves nothing in the buffer.
LEMMA NothingLeft ==
  ASSUME NEW p \in Net, Stuck(p), NEW s \in Seq(Msg), Ahead(p, s) = <<>>
  PROVE  p.inbuf = <<>>
<1> SUFFICES ASSUME p.inbuf # <<>> PROVE FALSE
  OBVIOUS
<1> DEFINE a == AnswersIn(p.inbuf)
           b == AnswersIn(Tail(p.inbuf))
           c == AnswersIn(p.to_client)
           d == AnswersIn(s)
           x == Head(p.inbuf)
<1>1. p.inbuf \in Seq(Msg)
  BY InLineTyped
<1>2. x \in Msg /\ a = <<x>> \o b /\ Tail(p.inbuf) \in Seq(Msg)
  BY <1>1, InFirst DEF Stuck
<1>3. a \in Seq(Msg) /\ b \in Seq(Msg) /\ c \in Seq(Msg) /\ d \in Seq(Msg)
  BY <1>2, InLineTyped, AnswersTyped
<1>4. Ahead(p, s) = (a \o c) \o d
  BY InLineTyped, AnswersConcat DEF Ahead, InLine
<1> HIDE DEF a, b, c, d, x
<1>5. Len(a) = 1 + Len(b)
  BY <1>2, <1>3, FirstThenRest
<1>6. Len((a \o c) \o d) = Len(a) + Len(c) + Len(d)
  BY <1>3
<1>7. Len(a) \in Nat /\ Len(b) \in Nat /\ Len(c) \in Nat /\ Len(d) \in Nat
  BY <1>3
<1>8. Len((a \o c) \o d) = 0
  BY <1>4
<1> QED
  BY <1>5, <1>6, <1>7, <1>8

LEMMA ReceiveLoopInd ==
  ASSUME Ind, rcv # "posted", NEW n, Moves(net, n), ReceiveLoop(n),
         UNCHANGED <<received, server, query>>
  PROVE  Ind'
<1> DEFINE p == Parsed(n)
<1>1. /\ net \in Net /\ NetOK(net) /\ net.to_server <= OutCap /\ srv_out \in Seq(Msg)
      /\ srv_got \in Nat /\ received \in Seq(Nat \ {0}) /\ rcv_note = Null
  BY ConnectionAssumption DEF Ind, Types, NetOK, Msgs, Notes, Null
<1>2. UNCHANGED <<srv_out, srv_got, notes, op, step, stored, asked, done, failed, received>>
  BY DEF server, query
<1>3. n \in Net /\ Quiet(net, n) /\ NetOK(n)
  BY <1>1, MovesQuiet DEF Moves, Quiet
<1>4. p \in Net /\ Stuck(p) /\ Reaches(n, p) /\ Quiet(net, p) /\ NetOK(p) /\ Settled(net, p)
  <2>1. p \in Net /\ Stuck(p) /\ Reaches(n, p) /\ Quiet(n, p)
    BY <1>3, ParsedKeeps, ParsedQuiet
  <2>2. Settled(net, p)
    BY <1>1, MovesSettled
  <2>3. Quiet(net, p)
    BY <1>3, <2>1, QuietTransitive
  <2> QED
    BY <2>1, <2>2, <2>3 DEF Quiet
<1>5. ASSUME NEW q \in Nat \ {0}, Phase(net, srv_out, srv_got, q)
      PROVE  Carries(net, p, srv_out, srv_got, q)
  <2>1. Carries(net, n, srv_out, srv_got, q)
    BY <1>1, <1>5, MovesCarries
  <2>2. Phase(n, srv_out, srv_got, q)
    BY <2>1 DEF Carries
  <2>3. Carries(n, p, srv_out, srv_got, q)
    BY <1>1, <1>3, <1>4, <2>2, ParsedCarries
  <2> QED
    BY <2>1, <2>3 DEF Carries
<1>6. \/ /\ p.notifies # <<>> /\ rcv_note' = Head(p.notifies)
         /\ net' = [p EXCEPT !.notifies = Tail(@)] /\ rcv' = "posted"
      \/ p.notifies = <<>> /\ net' = p /\ rcv' = "waiting" /\ rcv_note' = rcv_note
  BY DEF ReceiveLoop
<1> HIDE DEF p
<1>7. CASE /\ p.notifies # <<>> /\ rcv_note' = Head(p.notifies)
           /\ net' = [p EXCEPT !.notifies = Tail(@)] /\ rcv' = "posted"
  <2> DEFINE m == [p EXCEPT !.notifies = Tail(@)]
             h == Head(p.notifies)
  <2>1. /\ NetOK(m) /\ h \in Nat \ {0} /\ SameButQueue(p, m)
        /\ Delivered(received, h) \o Coming(m) = Delivered(received, Null) \o Coming(p)
    BY <1>1, <1>4, <1>7, TakeNotification
  <2>2. net' = m /\ rcv_note' = h
    BY <1>7
  <2> HIDE DEF m, h
  <2>3. \A q \in Nat \ {0} : Phase(net, srv_out, srv_got, q) =>
                               Carries(net, net', srv_out, srv_got, q)
    <3> SUFFICES ASSUME NEW q \in Nat \ {0}, Phase(net, srv_out, srv_got, q)
                 PROVE  Carries(net, m, srv_out, srv_got, q)
      BY <2>2
    <3>1. Carries(net, p, srv_out, srv_got, q)
      BY <1>5
    <3>2. Carries(p, m, srv_out, srv_got, q)
      BY <2>1, <3>1, SameButQueueCarries DEF Carries
    <3> QED
      BY <3>1, <3>2 DEF Carries
  <2>4. Settled(net, net')
    BY <1>4, <2>1, <2>2 DEF Settled, SameButQueue
  <2>5. Progress' /\ States' /\ OwnResults'
    BY <2>3, <2>4, BesideReceiver
  <2>6. Types'
    BY <1>2, <1>7, <2>1, <2>2 DEF Ind, Types, Null
  <2>7. Drained'
    BY <1>7 DEF Drained
  <2>8. AllConserved'
    <3>1. Coming(p) = Coming(net) /\ (p.link = "open" <=> net.link = "open")
      BY <1>4 DEF Quiet
    <3>2. AllNotes(received', rcv_note', net', srv_out') = AllNotes(received, rcv_note, net, srv_out)
      BY <1>1, <1>2, <2>1, <2>2, <3>1 DEF AllNotes
    <3> QED
      BY <1>2, <2>1, <2>2, <3>1, <3>2 DEF Ind, AllConserved, Conserved, SameButQueue
  <2> QED
    BY <2>5, <2>6, <2>7, <2>8 DEF Ind
<1>8. CASE p.notifies = <<>> /\ net' = p /\ rcv' = "waiting" /\ rcv_note' = rcv_note
  <2>1. Progress' /\ States' /\ OwnResults'
    BY <1>4, <1>5, <1>8, BesideReceiver
  <2>2. Types'
    BY <1>1, <1>2, <1>4, <1>8 DEF Ind, Types, Null
  <2>3. Drained'
    <3> SUFFICES ASSUME op = "none", ~failed PROVE p.inbuf = <<>>
      BY <1>2, <1>8 DEF Drained
    <3>1. net.status = "idle"
      BY DEF Ind, States
    <3>2. p.status = "idle"
      BY <1>4, <3>1 DEF Settled
    <3>3. PICK q \in Nat \ {0} : Phase(net, srv_out, srv_got, q)
      BY DEF Ind, Progress
    <3>4. Phase(p, srv_out, srv_got, q)
      BY <1>5, <3>3 DEF Carries
    <3>5. Ahead(p, srv_out) = <<>>
      BY <3>2, <3>4 DEF Phase, Waiting, Answering
    <3> QED
      BY <1>1, <1>4, <3>5, NothingLeft
  <2>4. AllConserved'
    BY <1>2, <1>4, <1>8, QuietConserves DEF Ind
  <2> QED
    BY <2>1, <2>2, <2>3, <2>4 DEF Ind
<1> QED
  BY <1>6, <1>7, <1>8

\* A receiver that only changes its own state.
LEMMA ReceiverAloneInd ==
  ASSUME Ind, net' = net, rcv_note' = rcv_note, rcv' \in {"none", "woken", "aborted"},
         rcv # "posted", UNCHANGED <<received, server, query>>
  PROVE  Ind'
<1>1. NetOK(net)
  BY DEF Ind, Types
<1>2. Quiet(net, net') /\ Settled(net, net')
  BY <1>1 DEF Quiet, Settled
<1>3. UNCHANGED <<srv_out, srv_got, notes, op, step, stored, asked, done, failed, received>>
  BY DEF server, query
<1>4. Progress' /\ States' /\ OwnResults'
  BY <1>2, BesideReceiver DEF Carries
<1>5. Types'
  BY <1>3 DEF Ind, Types
<1>6. Drained'
  BY DEF Drained
<1>7. AllConserved'
  BY <1>2, <1>3, QuietConserves DEF Ind
<1> QED
  BY <1>4, <1>5, <1>6, <1>7 DEF Ind

LEMMA ConsumeAndLoopInd ==
  ASSUME Ind, rcv # "posted", ConsumeAndLoop, UNCHANGED <<received, server, query>>
  PROVE  Ind'
<1>1. net \in Net /\ NetOK(net) /\ net.to_server <= OutCap /\ srv_out \in Seq(Msg) /\ srv_got \in Nat
  BY ConnectionAssumption DEF Ind, Types, NetOK, Msgs
<1>2. PICK m \in PQconsumeInput(net) :
        IF m.link = "broken"
        THEN net' = m /\ rcv' = "none" /\ UNCHANGED rcv_note
        ELSE ReceiveLoop(m)
  BY DEF ConsumeAndLoop
<1>3. Moves(net, m)
  BY <1>1, <1>2, PQconsumeInputMoves
<1>4. CASE ReceiveLoop(m)
  BY <1>3, <1>4, ReceiveLoopInd
<1>5. CASE net' = m /\ rcv' = "none" /\ UNCHANGED rcv_note
  <2>1. Quiet(net, net') /\ NetOK(net')
    BY <1>1, <1>3, <1>5, MovesQuiet DEF Quiet
  <2>2. Settled(net, net')
    BY <1>1, <1>3, <1>5, MovesSettled
  <2>3. UNCHANGED <<srv_out, srv_got, notes, op, step, stored, asked, done, failed, received>>
    BY DEF server, query
  <2>4. \A q \in Nat \ {0} : Phase(net, srv_out, srv_got, q) =>
                               Carries(net, net', srv_out, srv_got, q)
    BY <1>1, <1>3, <1>5, MovesCarries
  <2>5. Progress' /\ States' /\ OwnResults'
    BY <2>2, <2>4, BesideReceiver
  <2>6. Types'
    BY <1>5, <2>1, <2>3 DEF Ind, Types
  <2>7. Drained'
    BY <1>5 DEF Drained
  <2>8. AllConserved'
    BY <1>5, <2>1, <2>3, QuietConserves DEF Ind
  <2> QED
    BY <2>5, <2>6, <2>7, <2>8 DEF Ind
<1> QED
  BY <1>2, <1>4, <1>5

LEMMA StartReceiveInd ==
  ASSUME Ind, StartReceive
  PROVE  Ind'
<1>1. Moves(net, net)
  BY DEF Ind, Types, NetOK, Moves, Net
<1> QED
  BY <1>1, ReceiveLoopInd DEF StartReceive

LEMMA ReceiverWokenInd ==
  ASSUME Ind, ReceiverWoken
  PROVE  Ind'
BY ConsumeAndLoopInd DEF ReceiverWoken

LEMMA ReceiverAbortedInd ==
  ASSUME Ind, ReceiverAborted
  PROVE  Ind'
<1>1. CASE cancelled
  BY <1>1, ReceiverAloneInd DEF ReceiverAborted
<1>2. CASE ~cancelled
  BY <1>2, ConsumeAndLoopInd DEF ReceiverAborted
<1> QED
  BY <1>1, <1>2

LEMMA ReceiverPostedInd ==
  ASSUME Ind, ReceiverPosted
  PROVE  Ind'
<1>1. /\ rcv = "posted" /\ received' = Append(received, rcv_note) /\ rcv' = "none"
      /\ rcv_note' = Null /\ net' = net /\ UNCHANGED <<server, query>>
  BY DEF ReceiverPosted
<1>2. UNCHANGED <<srv_out, srv_got, notes, op, step, stored, asked, done, failed>>
  BY <1>1 DEF server, query
<1> DEFINE N == Nat \ {0}
<1>3. rcv_note \in N /\ received \in Seq(N) /\ NetOK(net)
  BY <1>1 DEF Ind, Types, Null, Notes
<1>4. Settled(net, net')
  BY <1>1 DEF Settled
<1>5. Progress' /\ States' /\ OwnResults'
  BY <1>1, <1>4, BesideReceiver DEF Carries
<1>6. received' \in Notes /\ received' = received \o <<rcv_note>>
  <2> HIDE DEF N
  <2>1. received' \in Seq(N) /\ received' = received \o <<rcv_note>>
    BY <1>1, <1>3
  <2> QED
    BY <2>1 DEF N, Notes
<1>7. Types'
  BY <1>1, <1>2, <1>6 DEF Ind, Types, Null
<1>8. Drained'
  BY <1>1 DEF Drained
<1>9. Delivered(received', rcv_note') = Delivered(received, rcv_note)
  <2>1. received' \o <<>> = received'
    BY <1>6 DEF Notes
  <2>2. rcv_note # Null
    BY <1>3 DEF Null
  <2> QED
    BY <1>1, <1>6, <2>1, <2>2 DEF Delivered
<1>10. AllConserved'
  BY <1>1, <1>2, <1>9 DEF Ind, AllConserved, AllNotes
<1> QED
  BY <1>5, <1>7, <1>8, <1>10 DEF Ind

LEMMA CancelReceiveInd ==
  ASSUME Ind, CancelReceive
  PROVE  Ind'
<1>1. UNCHANGED <<net, rcv_note, received, server, query>>
      /\ rcv' = IF rcv = "waiting" THEN "aborted" ELSE rcv
  BY DEF CancelReceive
<1>2. UNCHANGED <<srv_out, srv_got, notes, op, step, stored, asked, done, failed, received>>
  BY <1>1 DEF server, query
<1>3. NetOK(net)
  BY DEF Ind, Types
<1>4. Quiet(net, net') /\ Settled(net, net')
  BY <1>1, <1>3 DEF Quiet, Settled
<1>5. Progress' /\ States' /\ OwnResults'
  BY <1>1, <1>4, BesideReceiver DEF Carries
<1>6. Types'
  BY <1>1, <1>2 DEF Ind, Types
<1>7. Drained'
  BY <1>1, <1>2 DEF Ind, Types, Drained
<1>8. AllConserved'
  BY <1>1, <1>2, <1>4, QuietConserves DEF Ind
<1> QED
  BY <1>5, <1>6, <1>7, <1>8 DEF Ind

-----------------------------------------------------------------------------
(* The steps of the reactor and the server keep it *)

LEMMA ReadableInd ==
  ASSUME Ind, Readable
  PROVE  Ind'
<1>1. /\ op' = CASE op = "flush" -> "flush_readable"
                 [] op = "read"  -> "read_readable"
                 [] OTHER        -> op
      /\ rcv' = IF rcv = "waiting" THEN "woken" ELSE rcv
      /\ net' = net /\ rcv_note' = rcv_note
      /\ UNCHANGED <<srv_out, srv_got, notes, step, stored, asked, done, failed, received>>
  BY DEF Readable, server
<1>2. /\ op' = "none" <=> op = "none"
      /\ op' = "posted" <=> op = "posted"
      /\ op' = "flush_readable" => op \in {"flush", "flush_readable"}
      /\ op' = "flush_writable" => op = "flush_writable"
      /\ op' # "flush" /\ rcv' # "waiting"
  BY <1>1 DEF Ind, Types
<1>3. Types'
  BY <1>1 DEF Ind, Types
<1>4. Progress'
  BY <1>1, <1>2 DEF Ind, Progress, Following
<1>5. States' /\ Drained' /\ OwnResults' /\ AllConserved'
  BY <1>1, <1>2 DEF Ind, States, Drained, OwnResults, AllConserved
<1> QED
  BY <1>3, <1>4, <1>5 DEF Ind

LEMMA WritableInd ==
  ASSUME Ind, Writable
  PROVE  Ind'
<1>1. /\ op = "flush" /\ op' = "flush_writable" /\ net' = net
      /\ UNCHANGED <<srv_out, srv_got, notes, step, stored, asked, done, failed>>
      /\ UNCHANGED <<rcv, rcv_note, received>>
  BY DEF Writable, server, receiver
<1>2. Types'
  BY <1>1 DEF Ind, Types
<1>3. Progress'
  BY <1>1 DEF Ind, Progress, Following
<1>4. States' /\ Drained' /\ OwnResults' /\ AllConserved'
  BY <1>1 DEF Ind, States, Drained, OwnResults, AllConserved
<1> QED
  BY <1>2, <1>3, <1>4 DEF Ind

\* A step of the server, given what becomes of the answers and notifications.
LEMMA ServerInd ==
  ASSUME Ind, UNCHANGED <<query, receiver>>, NetOK(net'), srv_out' \in Seq(Msg),
         srv_got' \in 0 .. Size, notes' \in Nat,
         net'.status = net.status, net'.notifies = net.notifies, net'.inbuf = net.inbuf,
         Progress', AllConserved'
  PROVE  Ind'
<1>1. UNCHANGED <<op, step, stored, asked, done, failed, rcv, rcv_note, received>>
  BY DEF query, receiver
<1>2. srv_out' \in Msgs
  BY DEF Msgs
<1>3. Types'
  BY <1>1, <1>2 DEF Ind, Types
<1>4. States' /\ Drained' /\ OwnResults'
  BY <1>1 DEF Ind, States, Drained, OwnResults
<1> QED
  BY <1>3, <1>4 DEF Ind

LEMMA ServerTypes ==
  ASSUME Ind
  PROVE  /\ net \in Net /\ NetOK(net) /\ srv_out \in Seq(Msg) /\ srv_got \in 0 .. Size
         /\ srv_got \in Nat /\ notes \in Nat /\ asked \in Nat
         /\ received \in Seq(Nat \ {0}) /\ rcv_note \in Nat
         /\ net.out \in Nat /\ net.to_server \in Nat
         /\ Size \in Nat \ {0} /\ OutCap \in Nat \ {0} /\ InCap \in Nat \ {0}
         /\ net.status = "busy" => asked \in Nat \ {0}
<1>1. /\ net \in Net /\ NetOK(net) /\ srv_out \in Msgs /\ srv_got \in 0 .. Size
      /\ notes \in Nat /\ asked \in Nat /\ received \in Notes /\ rcv_note \in Nat
  BY DEF Ind, Types, NetOK
<1>2. net.out \in Nat /\ net.to_server \in Nat
  BY <1>1 DEF Net
<1>3. Size \in Nat \ {0} /\ OutCap \in Nat \ {0} /\ InCap \in Nat \ {0}
  BY ConnectionAssumption
<1>4. srv_out \in Seq(Msg) /\ received \in Seq(Nat \ {0})
  BY <1>1 DEF Msgs, Notes
<1>5. net.status = "busy" => asked # 0
  BY DEF Ind, States
<1> QED
  BY <1>1, <1>2, <1>3, <1>4, <1>5

\* The server has all of an open line to itself while it has not answered.
LEMMA ServerWaiting ==
  ASSUME Ind, net.link = "open", net.to_server > 0 \/ srv_got > 0
  PROVE  Waiting(net, Ahead(net, srv_out), srv_got)
<1>1. PICK q \in Nat \ {0} : Phase(net, srv_out, srv_got, q)
  BY DEF Ind, Progress
<1>2. ~ Flushed(net, srv_got)
  BY ServerTypes DEF Flushed
<1> QED
  BY <1>1, <1>2 DEF Phase

LEMMA ServerReadsInd ==
  ASSUME Ind, ServerReads
  PROVE  Ind'
<1> DEFINE m == [net EXCEPT !.to_server = @ - 1]
<1>1. /\ net.link = "open" /\ net.to_server > 0 /\ net' = m /\ srv_got' = srv_got + 1
      /\ UNCHANGED <<srv_out, notes, query, receiver>>
  BY DEF ServerReads
<1>2. Waiting(net, Ahead(net, srv_out), srv_got)
  BY <1>1, ServerWaiting
<1>3. m \in Net
  <2>1. net.out \in Nat /\ net.to_server - 1 \in Nat
    BY <1>1, ServerTypes
  <2>2. [net EXCEPT !.out = net.out, !.to_server = net.to_server - 1] \in Net
    BY <2>1, ServerTypes, NetSent
  <2>3. m = [net EXCEPT !.out = net.out, !.to_server = net.to_server - 1]
    BY ServerTypes DEF Net
  <2> QED
    BY <2>2, <2>3
<1>4. /\ m.to_server = net.to_server - 1 /\ m.out = net.out /\ m.to_client = net.to_client
      /\ m.inbuf = net.inbuf /\ m.status = net.status /\ m.result = net.result
      /\ m.notifies = net.notifies /\ m.link = net.link
  BY ServerTypes DEF Net
<1> HIDE DEF m
<1>5. NetOK(m) /\ srv_got + 1 \in 0 .. Size
  <2>1. net.out + net.to_server + srv_got = Size
    BY <1>1, <1>2 DEF Waiting
  <2>2. srv_got + 1 \in 0 .. Size
    BY <1>1, <2>1, ServerTypes
  <2>3. m.to_server <= OutCap
    BY <1>4, ServerTypes DEF NetOK
  <2> QED
    BY <1>3, <1>4, <2>2, <2>3, ServerTypes DEF NetOK
<1>6. Ahead(m, srv_out) = Ahead(net, srv_out) /\ Coming(m) = Coming(net)
  BY <1>4 DEF Ahead, Coming, InLine
<1>7. Waiting(m, Ahead(m, srv_out), srv_got + 1)
  <2> DEFINE o == net.out
             t == net.to_server
  <2>1. o \in Nat /\ t \in Nat /\ srv_got \in Nat /\ o + t + srv_got = Size
    BY <1>1, <1>2, ServerTypes DEF Waiting
  <2>2. m.out = o /\ m.to_server = t - 1
    BY <1>4
  <2> HIDE DEF o, t
  <2>3. m.out + m.to_server + (srv_got + 1) = Size
    BY <2>1, <2>2
  <2> QED
    BY <1>2, <1>4, <1>6, <2>3 DEF Waiting
<1>8. Progress'
  <2>1. PICK q \in Nat \ {0} : op # "none" => Following(q)
    BY DEF Ind, Progress
  <2>2. Phase(m, srv_out, srv_got + 1, q)
    BY <1>2, <1>4, <1>7 DEF Phase, Waiting
  <2>3. /\ First(net, srv_out, q) => First(m, srv_out, q)
        /\ Second(net, srv_out, q) => Second(m, srv_out, q)
    BY <1>4, <1>6 DEF First, Second
  <2> QED
    BY <1>1, <2>1, <2>2, <2>3 DEF Progress, Following, query
<1>9. AllConserved'
  BY <1>1, <1>4, <1>6 DEF Ind, AllConserved, AllNotes, receiver
<1> QED
  BY <1>1, <1>4, <1>5, <1>8, <1>9, ServerTypes, ServerInd

\* One more at the end of the line is the next one.
LEMMA OneMore ==
  ASSUME NEW a \in Seq(Nat \ {0}), NEW k \in Nat, Conserved(a, k, "open")
  PROVE  /\ Conserved(a \o <<k + 1>>, k + 1, "open")
         /\ a \o <<>> = a
<1> DEFINE c == a \o <<k + 1>>
<1>1. Len(a) = k /\ \A i \in 1 .. k : a[i] = i
  BY DEF Conserved
<1>2. Len(c) = k + 1 /\ DOMAIN c = 1 .. (k + 1) /\ c[k + 1] = k + 1 /\ \A i \in 1 .. k : c[i] = a[i]
  BY <1>1
<1>3. \A i \in 1 .. (k + 1) : i \in 1 .. k \/ i = k + 1
  OBVIOUS
<1>4. c = [i \in DOMAIN c |-> c[i]]
  OBVIOUS
<1> HIDE DEF c
<1>5. \A i \in 1 .. (k + 1) : c[i] = i
  BY <1>1, <1>2, <1>3
<1>6. c = [i \in DOMAIN c |-> i]
  BY <1>2, <1>4, <1>5
<1>7. a \o <<>> = a
  OBVIOUS
<1> QED
  BY <1>2, <1>6, <1>7 DEF Conserved, c

\* The server sends the next notification.
LEMMA NotesSent ==
  ASSUME Ind, net.link = "open", srv_out = <<>>, net' = net, UNCHANGED receiver,
         \/ NotesIn(srv_out') = <<>> /\ notes' = notes
         \/ NotesIn(srv_out') = <<notes'>> /\ notes' = notes + 1
  PROVE  AllConserved'
<1> DEFINE a == AllNotes(received, rcv_note, net, srv_out)
           d == Delivered(received, rcv_note) \o Coming(net)
<1>1. a \in Seq(Nat \ {0}) /\ a = d \o <<>> /\ d \in Seq(Nat \ {0})
  <2>1. a \in Seq(Nat \ {0}) /\ Delivered(received, rcv_note) \in Seq(Nat \ {0})
    BY ServerTypes, AllNotesForm
  <2>2. Coming(net) \in Seq(Nat \ {0})
    BY ServerTypes, ComingTyped
  <2>3. d \in Seq(Nat \ {0})
    BY <2>1, <2>2
  <2> QED
    BY <2>1, <2>3, NoneInEmpty DEF AllNotes
<1>2. Conserved(a, notes, "open") /\ notes \in Nat
  BY ServerTypes DEF Ind, AllConserved
<1>3. UNCHANGED <<received, rcv_note>>
  BY DEF receiver
<1>4. AllNotes(received', rcv_note', net', srv_out') = d \o NotesIn(srv_out')
  BY <1>3 DEF AllNotes
<1> HIDE DEF a, d
<1>5. d \o <<>> = d /\ a = d
  BY <1>1
<1>6. Conserved(d \o <<notes + 1>>, notes + 1, "open")
  BY <1>1, <1>2, <1>5, OneMore
<1> QED
  BY <1>2, <1>4, <1>5, <1>6 DEF AllConserved

LEMMA ServerNotifiesInd ==
  ASSUME Ind, ServerNotifies
  PROVE  Ind'
<1> DEFINE m == <<"note", notes'>>
<1>1. /\ net.link = "open" /\ srv_out = <<>> /\ notes' = notes + 1 /\ srv_out' = <<m>>
      /\ UNCHANGED <<net, srv_got, query, receiver>>
  BY DEF ServerNotifies
<1>2. m \in Msg /\ m[1] = "note" /\ m[2] = notes'
  BY <1>1, ServerTypes DEF Msg
<1> HIDE DEF m
<1>3. NotesIn(srv_out') = <<notes'>> /\ AnswersIn(srv_out') = <<>>
  BY <1>1, <1>2, InOne
<1>4. AllConserved'
  BY <1>1, <1>3, NotesSent
<1>5. Ahead(net', srv_out') = Ahead(net, srv_out)
  BY <1>1, <1>3, NoneInEmpty DEF Ahead
<1>6. Progress'
  BY <1>1, <1>5 DEF Ind, Progress, Following, Phase, First, Second, query
<1>7. srv_out' \in Seq(Msg)
  BY <1>1, <1>2
<1> QED
  BY <1>1, <1>4, <1>6, <1>7, ServerTypes, ServerInd

LEMMA ServerAnswersInd ==
  ASSUME Ind, ServerAnswers
  PROVE  Ind'
<1> DEFINE r == Result(asked)
           d == Done(asked)
           k == Copy(asked)
           m == <<"note", notes + 1>>
<1>1. /\ net.link = "open" /\ srv_out = <<>> /\ srv_got = Size /\ srv_got' = 0
      /\ UNCHANGED <<net, query, receiver>>
  BY DEF ServerAnswers
<1>2. \/ srv_out' = <<r, d>> /\ notes' = notes
      \/ srv_out' = <<r, m, d>> /\ notes' = notes + 1
      \/ srv_out' = <<k>> /\ notes' = notes
  BY DEF ServerAnswers, Result, Done, Copy
<1>3. Waiting(net, Ahead(net, srv_out), srv_got)
  BY <1>1, ServerTypes, ServerWaiting
<1>4. net.status = "busy" /\ asked \in Nat \ {0} /\ Ahead(net, srv_out) = <<>>
  BY <1>3, ServerTypes DEF Waiting
<1>5. Flushed(net, 0)
  BY <1>1, <1>3, ServerTypes DEF Waiting, Flushed
<1>6. /\ r \in Msg /\ d \in Msg /\ k \in Msg /\ m \in Msg
      /\ r[1] # "note" /\ d[1] # "note" /\ k[1] # "note" /\ m[1] = "note" /\ m[2] = notes + 1
      /\ d # r /\ d # k
  BY <1>4, ServerTypes DEF Result, Done, Copy, Msg
<1> HIDE DEF r, d, k, m
<1>7. /\ AnswersIn(<<d>>) = <<d>> /\ NotesIn(<<d>>) = <<>>
      /\ AnswersIn(<<k>>) = <<k>> /\ NotesIn(<<k>>) = <<>>
      /\ AnswersIn(<<r>>) = <<r>> /\ NotesIn(<<r>>) = <<>>
      /\ AnswersIn(<<m>>) = <<>> /\ NotesIn(<<m>>) = <<notes + 1>>
  BY <1>6, InOne
<1>8. AnswersIn(<<r, d>>) = <<r, d>> /\ NotesIn(<<r, d>>) = <<>>
  <2>1. <<r>> \in Seq(Msg) /\ <<d>> \in Seq(Msg) /\ <<r, d>> = <<r>> \o <<d>>
    <3>1. <<r>> \o <<d>> = <<r, d>>
      BY <1>6, Pair
    <3>2. <<r>> \in Seq(Msg) /\ <<d>> \in Seq(Msg)
      BY <1>6
    <3> QED
      BY ONLY <3>1, <3>2
  <2>2. /\ AnswersIn(<<r>> \o <<d>>) = AnswersIn(<<r>>) \o AnswersIn(<<d>>)
        /\ NotesIn(<<r>> \o <<d>>) = NotesIn(<<r>>) \o NotesIn(<<d>>)
    BY <2>1, AnswersConcat, NotesConcat
  <2>3. <<>> \o <<>> = <<>>
    OBVIOUS
  <2> QED
    BY <1>7, <2>1, <2>2, <2>3
<1>9. AnswersIn(<<r, m, d>>) = <<r, d>> /\ NotesIn(<<r, m, d>>) = <<notes + 1>>
  <2> DEFINE e == <<r, m>>
  <2>1. <<r>> \in Seq(Msg) /\ <<m>> \in Seq(Msg) /\ e = <<r>> \o <<m>> /\ e \in Seq(Msg)
    BY <1>6
  <2>2. /\ AnswersIn(<<r>> \o <<m>>) = AnswersIn(<<r>>) \o AnswersIn(<<m>>)
        /\ NotesIn(<<r>> \o <<m>>) = NotesIn(<<r>>) \o NotesIn(<<m>>)
    BY <2>1, AnswersConcat, NotesConcat
  <2>3. <<r>> \o <<>> = <<r>> /\ <<>> \o <<notes + 1>> = <<notes + 1>>
    BY <1>6, ServerTypes
  <2>4. AnswersIn(e) = <<r>> /\ NotesIn(e) = <<notes + 1>>
    BY <1>7, <2>1, <2>2, <2>3
  <2>5. <<d>> \in Seq(Msg) /\ <<r, m, d>> = e \o <<d>>
    BY <1>6
  <2> HIDE DEF e
  <2>6. /\ AnswersIn(e \o <<d>>) = AnswersIn(e) \o AnswersIn(<<d>>)
        /\ NotesIn(e \o <<d>>) = NotesIn(e) \o NotesIn(<<d>>)
    BY <2>1, <2>5, AnswersConcat, NotesConcat
  <2>7. <<r>> \o <<d>> = <<r, d>> /\ <<notes + 1>> \o <<>> = <<notes + 1>>
    BY <1>6, ServerTypes, Pair
  <2> QED
    BY <1>7, <2>4, <2>5, <2>6, <2>7
<1>10. /\ AnswersIn(srv_out') = <<r, d>> \/ AnswersIn(srv_out') = <<k>>
       /\ \/ NotesIn(srv_out') = <<>> /\ notes' = notes
          \/ NotesIn(srv_out') = <<notes'>> /\ notes' = notes + 1
       /\ srv_out' \in Seq(Msg) /\ notes' \in Nat
  <2>1. srv_out' \in Seq(Msg)
    <3>1. <<r, d>> \in Seq(Msg) /\ <<r, m, d>> \in Seq(Msg) /\ <<k>> \in Seq(Msg)
      BY <1>6
    <3> QED
      BY <1>2, <3>1
  <2> QED
    <3>1. CASE srv_out' = <<r, d>> /\ notes' = notes
      BY <1>8, <2>1, <3>1, ServerTypes
    <3>2. CASE srv_out' = <<r, m, d>> /\ notes' = notes + 1
      BY <1>9, <2>1, <3>2, ServerTypes
    <3>3. CASE srv_out' = <<k>> /\ notes' = notes
      BY <1>7, <2>1, <3>3, ServerTypes
    <3> QED
      BY <1>2, <3>1, <3>2, <3>3
<1>11. AllConserved'
  BY <1>1, <1>10, NotesSent
<1>12. Ahead(net', srv_out') = AnswersIn(srv_out')
  <2> DEFINE a == AnswersIn(InLine(net))
             b == AnswersIn(srv_out')
  <2>1. a \in Seq(Msg) /\ b \in Seq(Msg)
    BY <1>10, ServerTypes, InLineTyped, AnswersTyped
  <2>2. a \o <<>> = <<>>
    BY <1>1, <1>4, NoneInEmpty DEF Ahead
  <2> HIDE DEF a, b
  <2>3. a = <<>>
    BY <2>1, <2>2
  <2>4. a \o b = b
    BY <2>1, <2>3
  <2> QED
    BY <1>1, <2>4 DEF Ahead, a, b
<1>13. Answering(net', Ahead(net', srv_out'), asked)
  BY <1>1, <1>4, <1>10, <1>12 DEF Answering, r, d, k
<1>14. Phase(net', srv_out', srv_got', asked)
  BY <1>1, <1>4, <1>5, <1>13 DEF Phase
<1>15. First(net', srv_out', asked)
  <2>1. <<r, d>> # <<d>> /\ <<k>> # <<d>>
    BY <1>6
  <2> QED
    BY <1>1, <1>4, <1>10, <1>12, <2>1 DEF First, d
<1>16. op # "none" => step # 2
  <2>1. Second(net, srv_out, asked) => FALSE
    BY <1>1, <1>4 DEF Second
  <2> QED
    BY <2>1, UnderWay
<1>17. Progress'
  BY <1>1, <1>4, <1>14, <1>15, <1>16 DEF Progress, Following, query
<1> QED
  BY <1>1, <1>10, <1>11, <1>17, ServerTypes, ServerInd

LEMMA ServerWritesInd ==
  ASSUME Ind, ServerWrites
  PROVE  Ind'
<1> DEFINE h == Head(srv_out)
           x == <<h>>
           t == Tail(srv_out)
           m == [net EXCEPT !.to_client = Append(@, h)]
           L == InLine(net)
<1>1. /\ net.link = "open" /\ srv_out # <<>> /\ Len(net.to_client) < InCap
      /\ net' = m /\ srv_out' = t
      /\ UNCHANGED <<srv_got, notes, query, receiver>>
  BY DEF ServerWrites
<1>2. h \in Msg /\ x \in Seq(Msg) /\ t \in Seq(Msg) /\ srv_out = x \o t
  BY <1>1, ServerTypes
<1>3. net.to_client \in Seq(Msg) /\ net.inbuf \in Seq(Msg) /\ L \in Seq(Msg)
  BY ServerTypes, InLineTyped
<1>4. Append(net.to_client, h) \in Seq(Msg) /\ Len(Append(net.to_client, h)) = Len(net.to_client) + 1
      /\ Append(net.to_client, h) = net.to_client \o x
  BY <1>2, <1>3
<1>5. m \in Net
  BY <1>4, ServerTypes, NetToClient
<1>6. /\ m.to_client = net.to_client \o x /\ m.to_server = net.to_server /\ m.out = net.out
      /\ m.inbuf = net.inbuf /\ m.status = net.status /\ m.result = net.result
      /\ m.notifies = net.notifies /\ m.link = net.link
  BY <1>4, ServerTypes DEF Net
<1>7. Len(m.to_client) <= InCap
  BY <1>1, <1>3, <1>4, <1>6, ServerTypes
<1> HIDE DEF h, x, t, m
<1>8. NetOK(m)
  BY <1>5, <1>6, <1>7, ServerTypes DEF NetOK
<1>9. InLine(m) = L \o x
  <2> DEFINE a == net.inbuf
             b == net.to_client
             bx == b \o x
  <2>1. a \in Seq(Msg) /\ b \in Seq(Msg)
    BY <1>3
  <2>2. L = a \o b /\ InLine(m) = a \o bx
    BY <1>6 DEF InLine
  <2> HIDE DEF a, b, L
  <2>3. (a \o b) \o x = a \o bx
    BY ONLY <1>2, <2>1, Join
  <2> QED
    BY <2>2, <2>3
<1> HIDE DEF L
<1>10. Ahead(m, t) = Ahead(net, srv_out)
  <2> DEFINE a == AnswersIn(L)
             b == AnswersIn(x)
             c == AnswersIn(t)
             bc == b \o c
  <2>1. a \in Seq(Msg) /\ b \in Seq(Msg) /\ c \in Seq(Msg)
    BY <1>2, <1>3, AnswersTyped
  <2>2. AnswersIn(L \o x) = a \o b /\ AnswersIn(x \o t) = bc
    BY <1>2, <1>3, AnswersConcat
  <2>3. Ahead(m, t) = (a \o b) \o c /\ Ahead(net, srv_out) = a \o bc
    BY <1>2, <1>9, <2>2 DEF Ahead, L
  <2> HIDE DEF a, b, c
  <2>4. (a \o b) \o c = a \o bc
    BY ONLY <2>1, Join
  <2> QED
    BY <2>3, <2>4
<1>11. AllNotes(received, rcv_note, m, t) = AllNotes(received, rcv_note, net, srv_out)
  <2> DEFINE N == Nat \ {0}
             e == Delivered(received, rcv_note)
             f == net.notifies
             a == NotesIn(L)
             b == NotesIn(x)
             c == NotesIn(t)
             ab == a \o b
             bc == b \o c
             co == Coming(net)
             cb == co \o b
             ec == e \o co
  <2>1. /\ a \in Seq(N) /\ b \in Seq(N) /\ c \in Seq(N) /\ e \in Seq(N) /\ f \in Seq(N)
        /\ co \in Seq(N) /\ co = f \o a
    BY <1>2, <1>3, ServerTypes, NotesTyped, AllNotesForm, ComingTyped DEF Coming, L
  <2>2. NotesIn(L \o x) = ab /\ NotesIn(x \o t) = bc
    BY <1>2, <1>3, NotesConcat
  <2>3. Coming(m) = f \o ab
    BY <1>6, <1>9, <2>2 DEF Coming
  <2>4. AllNotes(received, rcv_note, m, t) = (e \o Coming(m)) \o c
    BY DEF AllNotes
  <2>5. AllNotes(received, rcv_note, net, srv_out) = ec \o bc
    BY <1>2, <2>2 DEF AllNotes
  <2> HIDE DEF a, b, c, e, f, co, N
  <2>6. (f \o a) \o b = f \o ab
    BY ONLY <2>1, Join
  <2>7. Coming(m) = cb
    BY <2>1, <2>3, <2>6
  <2>8. ec \o b = e \o cb
    <3>1. e \in Seq(N) /\ co \in Seq(N) /\ b \in Seq(N)
      BY <2>1
    <3> QED
      BY ONLY <3>1, Join
  <2>9. ec \in Seq(N)
    BY <2>1
  <2> HIDE DEF ec, cb
  <2>10. (ec \o b) \o c = ec \o bc
    <3>1. ec \in Seq(N) /\ b \in Seq(N) /\ c \in Seq(N)
      BY <2>1, <2>9
    <3> QED
      BY ONLY <3>1, Join
  <2> QED
    BY <2>4, <2>5, <2>7, <2>8, <2>10
<1>12. Progress'
  <2>1. PICK q \in Nat \ {0} : /\ Phase(net, srv_out, srv_got, q)
                               /\ op # "none" => Following(q)
    BY DEF Ind, Progress
  <2>2. Phase(m, t, srv_got, q)
    BY <1>6, <1>10, <2>1 DEF Phase, Waiting, Flushed, Answering
  <2>3. /\ First(net, srv_out, q) => First(m, t, q)
        /\ Second(net, srv_out, q) => Second(m, t, q)
    BY <1>6, <1>10 DEF First, Second
  <2> QED
    BY <1>1, <2>1, <2>2, <2>3 DEF Progress, Following, query
<1>13. AllConserved'
  BY <1>1, <1>6, <1>11 DEF Ind, AllConserved, receiver
<1> QED
  BY <1>1, <1>2, <1>6, <1>8, <1>12, <1>13, ServerTypes, ServerInd

\* What is left of a line that was cut.
LEMMA FirstOfOne ==
  ASSUME NEW a \in Seq(Msg), NEW b \in Seq(Msg), NEW x, a \o b = <<x>>
  PROVE  a = <<>> \/ a = <<x>>
<1> SUFFICES ASSUME a # <<>> PROVE a = <<x>>
  OBVIOUS
<1> DEFINE h == <<Head(a)>>
           t == Tail(a)
           tb == t \o b
<1>1. Head(a) \in Msg /\ h \in Seq(Msg) /\ t \in Seq(Msg) /\ a = h \o t
  OBVIOUS
<1>2. tb \in Seq(Msg)
  BY <1>1
<1>3. (h \o t) \o b = h \o tb
  <2> HIDE DEF h, t
  <2> QED
    BY ONLY <1>1, b \in Seq(Msg), Join
<1>4. <<x>> = h \o tb
  BY <1>1, <1>3
<1>5. Head(a) = x /\ tb = <<>>
  <2> HIDE DEF tb
  <2> QED
    BY <1>1, <1>2, <1>4, TakeOnly
<1>6. t = <<>>
  <2>1. Len(t) + Len(b) = 0 /\ Len(t) \in Nat /\ Len(b) \in Nat
    BY <1>1, <1>5
  <2> QED
    BY <1>1, <2>1
<1>7. h \o <<>> = h
  BY <1>1
<1> QED
  BY <1>1, <1>5, <1>6, <1>7

LEMMA FirstOfTwo ==
  ASSUME NEW a \in Seq(Msg), NEW b \in Seq(Msg), NEW x \in Msg, NEW y \in Msg, a \o b = <<x, y>>
  PROVE  a = <<>> \/ a = <<x>> \/ a = <<x, y>>
<1> SUFFICES ASSUME a # <<>> PROVE a = <<x>> \/ a = <<x, y>>
  OBVIOUS
<1> DEFINE h == <<Head(a)>>
           t == Tail(a)
           tb == t \o b
<1>1. Head(a) \in Msg /\ h \in Seq(Msg) /\ t \in Seq(Msg) /\ a = h \o t
  OBVIOUS
<1>2. tb \in Seq(Msg)
  BY <1>1
<1>3. (h \o t) \o b = h \o tb
  <2> HIDE DEF h, t
  <2> QED
    BY ONLY <1>1, b \in Seq(Msg), Join
<1>4. <<x, y>> = h \o tb
  BY <1>1, <1>3
<1>5. Head(a) = x /\ tb = <<y>>
  <2> HIDE DEF tb
  <2> QED
    BY <1>1, <1>2, <1>4, TakeFirst
<1>6. t = <<>> \/ t = <<y>>
  BY <1>1, <1>5, FirstOfOne
<1>7. h \o <<>> = h
  BY <1>1
<1>8. <<x>> \o <<y>> = <<x, y>>
  BY Pair
<1> QED
  BY <1>1, <1>5, <1>6, <1>7, <1>8

LEMMA NothingOfNone ==
  ASSUME NEW a \in Seq(Msg), NEW b \in Seq(Msg), a \o b = <<>>
  PROVE  a = <<>>
OBVIOUS

LEMMA ConservedFirst ==
  ASSUME NEW d \in Seq(Nat \ {0}), NEW e \in Seq(Nat \ {0}), NEW k \in Nat, NEW link,
         Conserved(d \o e, k, link)
  PROVE  Conserved(d, k, "closing")
<1> DEFINE c == d \o e
<1>1. /\ Len(d) \in Nat /\ Len(e) \in Nat /\ Len(c) = Len(d) + Len(e)
      /\ DOMAIN c = 1 .. Len(c) /\ DOMAIN d = 1 .. Len(d)
      /\ \A i \in 1 .. Len(d) : c[i] = d[i]
  OBVIOUS
<1>2. d = [i \in DOMAIN d |-> d[i]]
  OBVIOUS
<1>3. Len(c) <= k /\ \A i \in 1 .. Len(c) : c[i] = i
  <2>1. Conserved(c, k, link)
    OBVIOUS
  <2> HIDE DEF c
  <2> QED
    BY <1>1, <2>1 DEF Conserved
<1> HIDE DEF c
<1>4. \A i \in 1 .. Len(d) : d[i] = i
  BY <1>1, <1>3
<1>5. Len(d) <= k
  BY <1>1, <1>3
<1>6. d = [i \in DOMAIN d |-> i]
  BY <1>1, <1>2, <1>4
<1> QED
  BY <1>5, <1>6 DEF Conserved

LEMMA ServerClosesInd ==
  ASSUME Ind, ServerCloses
  PROVE  Ind'
<1> DEFINE m == [net EXCEPT !.link = "closing"]
           a == AnswersIn(InLine(net))
           b == AnswersIn(srv_out)
           L == Ahead(net, srv_out)
<1>1. /\ net.link = "open" /\ net' = m /\ srv_out' = <<>>
      /\ UNCHANGED <<srv_got, notes, query, receiver>>
  BY DEF ServerCloses
<1>2. m \in Net
  BY ServerTypes, NetLink
<1>3. /\ m.to_client = net.to_client /\ m.to_server = net.to_server /\ m.out = net.out
      /\ m.inbuf = net.inbuf /\ m.status = net.status /\ m.result = net.result
      /\ m.notifies = net.notifies /\ m.link = "closing"
  BY ServerTypes DEF Net
<1> HIDE DEF m
<1>4. NetOK(m) /\ InLine(m) = InLine(net)
  BY <1>2, <1>3, ServerTypes DEF NetOK, InLine
<1>5. a \in Seq(Msg) /\ b \in Seq(Msg) /\ L = a \o b
  BY ServerTypes, InLineTyped, AnswersTyped DEF Ahead
<1>6. Ahead(m, <<>>) = a
  <2>1. a \o <<>> = a
    BY <1>5
  <2> QED
    BY <1>4, <2>1, NoneInEmpty DEF Ahead
<1> HIDE DEF a, b, L
<1>7. ASSUME NEW q \in Nat \ {0}
      PROVE  /\ L = <<>> => a = <<>>
             /\ L = <<Result(q)>> => a = <<>> \/ a = <<Result(q)>>
             /\ L = <<Done(q)>> => a = <<>> \/ a = <<Done(q)>>
             /\ L = <<Copy(q)>> => a = <<>> \/ a = <<Copy(q)>>
             /\ L = <<Result(q), Done(q)>> =>
                  a = <<>> \/ a = <<Result(q)>> \/ a = <<Result(q), Done(q)>>
  <2>1. Result(q) \in Msg /\ Done(q) \in Msg /\ Copy(q) \in Msg
    BY DEF Result, Done, Copy, Msg
  <2>2. L = <<>> => a = <<>>
    BY <1>5, NothingOfNone
  <2>3. L = <<Result(q)>> => a = <<>> \/ a = <<Result(q)>>
    BY <1>5, FirstOfOne
  <2>4. L = <<Done(q)>> => a = <<>> \/ a = <<Done(q)>>
    BY <1>5, FirstOfOne
  <2>5. L = <<Copy(q)>> => a = <<>> \/ a = <<Copy(q)>>
    BY <1>5, FirstOfOne
  <2>6. L = <<Result(q), Done(q)>> =>
          a = <<>> \/ a = <<Result(q)>> \/ a = <<Result(q), Done(q)>>
    <3> DEFINE x == Result(q)
               y == Done(q)
    <3> SUFFICES ASSUME L = <<x, y>> PROVE a = <<>> \/ a = <<x>> \/ a = <<x, y>>
      OBVIOUS
    <3>1. x \in Msg /\ y \in Msg /\ a \o b = <<x, y>>
      BY <1>5, <2>1
    <3> HIDE DEF x, y
    <3> QED
      BY <1>5, <3>1, FirstOfTwo
  <2> QED
    BY <2>2, <2>3, <2>4, <2>5, <2>6
<1>8. Progress'
  <2>1. PICK q \in Nat \ {0} : /\ Phase(net, srv_out, srv_got, q)
                               /\ op # "none" => Following(q)
    BY DEF Ind, Progress
  <2> DEFINE R == <<Result(q)>>
             D == <<Done(q)>>
             C == <<Copy(q)>>
             RD == <<Result(q), Done(q)>>
  <2>2. /\ L = <<>> => a = <<>>
        /\ L = R => a = <<>> \/ a = R
        /\ L = D => a = <<>> \/ a = D
        /\ L = C => a = <<>> \/ a = C
        /\ L = RD => a = <<>> \/ a = R \/ a = RD
    BY <1>7
  <2>3. R # D /\ RD # D /\ D # <<>> /\ R # <<>> /\ C # <<>> /\ RD # <<>> /\ C # D
    BY DEF Result, Done, Copy
  <2> HIDE DEF R, D, C, RD
  <2>4. \/ net.status = "busy" /\ L = <<>>
        \/ /\ Flushed(net, srv_got)
           /\ \/ net.status \in {"idle", "copy"} /\ L = <<>>
              \/ net.status = "ready" /\ L = D
              \/ net.status = "busy" /\ (L = RD \/ L = D \/ L = C)
    BY <1>1, <2>1 DEF Phase, Waiting, Answering, L, R, D, C, RD
  <2>5. Flushed(net, srv_got) => Flushed(m, srv_got)
    BY <1>1, <1>3 DEF Flushed
  <2>6. \/ Waiting(m, a, srv_got)
        \/ Flushed(m, srv_got) /\ Answering(m, a, q)
    BY <1>3, <2>2, <2>4, <2>5 DEF Waiting, Answering, R, D, C, RD
  <2>7. Phase(m, <<>>, srv_got, q)
    BY <1>3, <1>6, <2>1, <2>6 DEF Phase
  <2>8. First(net, srv_out, q) => First(m, <<>>, q)
    BY <1>3, <1>6, <2>2, <2>3, <2>4 DEF First, L, D
  <2>9. Second(net, srv_out, q) => Second(m, <<>>, q)
    BY <1>1, <1>3, <1>6, <2>2 DEF Second, L, D
  <2> QED
    BY <1>1, <2>1, <2>7, <2>8, <2>9 DEF Progress, Following, query
<1>9. AllConserved'
  <2> DEFINE d == Delivered(received, rcv_note) \o Coming(net)
             e == NotesIn(srv_out)
  <2>1. d \in Seq(Nat \ {0}) /\ e \in Seq(Nat \ {0})
    <3>1. Delivered(received, rcv_note) \in Seq(Nat \ {0}) /\ Coming(net) \in Seq(Nat \ {0})
      BY ServerTypes, AllNotesForm, ComingTyped
    <3> QED
      BY <3>1, ServerTypes, NotesTyped
  <2>2. AllNotes(received, rcv_note, net, srv_out) = d \o e
    BY DEF AllNotes
  <2>3. Coming(m) = Coming(net)
    BY <1>3, <1>4 DEF Coming
  <2>4. AllNotes(received, rcv_note, m, <<>>) = d
    <3>1. d \o <<>> = d
      BY <2>1
    <3> QED
      BY <2>3, <3>1, NoneInEmpty DEF AllNotes
  <2> HIDE DEF d, e
  <2>5. Conserved(d \o e, notes, net.link)
    BY <2>2 DEF Ind, AllConserved
  <2>6. Conserved(d, notes, "closing")
    BY <2>1, <2>5, ServerTypes, ConservedFirst
  <2> QED
    BY <1>1, <1>3, <2>4, <2>6 DEF AllConserved, receiver
<1>10. srv_out' \in Seq(Msg)
  BY <1>1
<1> QED
  BY <1>1, <1>3, <1>4, <1>8, <1>9, <1>10, ServerTypes, ServerInd

-----------------------------------------------------------------------------
(* The theorems *)

LEMMA StepInd ==
  ASSUME Ind, [Next]_vars
  PROVE  Ind'
<1>1. CASE UNCHANGED vars
  <2>1. UNCHANGED <<net, srv_out, srv_got, notes, op, step, stored, asked, done, failed,
                    rcv, rcv_note, received>>
    BY <1>1 DEF vars, server, query, receiver
  <2>2. Types'
    BY <2>1 DEF Ind, Types
  <2>3. Progress'
    BY <2>1 DEF Ind, Progress, Following
  <2>4. States' /\ Drained' /\ OwnResults' /\ AllConserved'
    BY <2>1 DEF Ind, States, Drained, OwnResults, AllConserved
  <2> QED
    BY <2>2, <2>3, <2>4 DEF Ind
<1>2. CASE Next
  <2>1. CASE StartOperation
    BY <2>1, StartOperationInd
  <2>2. CASE FlushWritable
    BY <2>2, FlushWritableInd
  <2>3. CASE FlushReadable
    BY <2>3, FlushReadableInd
  <2>4. CASE ReadReadable
    BY <2>4, ReadReadableInd
  <2>5. CASE ResultPosted
    BY <2>5, ResultPostedInd
  <2>6. CASE CancelQuery
    BY <2>6, CancelQueryInd
  <2>7. CASE StartReceive
    BY <2>7, StartReceiveInd
  <2>8. CASE ReceiverWoken
    BY <2>8, ReceiverWokenInd
  <2>9. CASE ReceiverAborted
    BY <2>9, ReceiverAbortedInd
  <2>10. CASE ReceiverPosted
    BY <2>10, ReceiverPostedInd
  <2>11. CASE CancelReceive
    BY <2>11, CancelReceiveInd
  <2>12. CASE Readable
    BY <2>12, ReadableInd
  <2>13. CASE Writable
    BY <2>13, WritableInd
  <2>14. CASE ServerReads
    BY <2>14, ServerReadsInd
  <2>15. CASE ServerAnswers
    BY <2>15, ServerAnswersInd
  <2>16. CASE ServerNotifies
    BY <2>16, ServerNotifiesInd
  <2>17. CASE ServerWrites
    BY <2>17, ServerWritesInd
  <2>18. CASE ServerCloses
    BY <2>18, ServerClosesInd
  <2> QED
    BY <1>2, <2>1, <2>2, <2>3, <2>4, <2>5, <2>6, <2>7, <2>8, <2>9, <2>10, <2>11, <2>12,
       <2>13, <2>14, <2>15, <2>16, <2>17, <2>18 DEF Next
<1> QED
  BY <1>1, <1>2

(* The inductive invariant: the query operation is where its answer, on its
   way through the socket and libpq, lets it be, and all notifications are
   somewhere between the server and the caller. *)
THEOREM Invariance == Spec => []Ind
<1>1. Init => Ind
  BY InitInd
<1>2. Ind /\ [Next]_vars => Ind'
  BY StepInd
<1> QED
  BY <1>1, <1>2, PTL DEF Spec

(* Type correctness, and the bounds of the socket's buffers: what libpq and the
   server put in them never exceeds what they take. *)
THEOREM TypeCorrect == Spec => []TypeOK
<1>1. Ind => TypeOK
  <2> SUFFICES ASSUME Ind PROVE TypeOK
    OBVIOUS
  <2>1. Types /\ NetOK(net) /\ net \in Net
    BY DEF Ind, Types, NetOK
  <2>2. /\ net.out \in Nat /\ net.to_server \in Nat
        /\ net.status \in {"idle", "busy", "ready", "copy"}
        /\ net.link \in {"open", "closing", "broken"}
    BY <2>1 DEF Net
  <2>3. net.out \in 0 .. Size /\ net.to_server \in 0 .. OutCap /\ Len(net.to_client) <= InCap
    BY <2>1, <2>2, ConnectionAssumption DEF NetOK
  <2> QED
    BY <2>1, <2>2, <2>3 DEF Types, TypeOK
<1> QED
  BY <1>1, Invariance, PTL

(* PQgetResult in the posted handler of async_receive_result never blocks the
   thread, whatever the receiver read and parsed since PQisBusy. *)
THEOREM ResultsAreReady == Spec => []GetResultNeverBlocks
<1>1. Ind => GetResultNeverBlocks
  <2> SUFFICES ASSUME Ind, op = "posted" PROVE Parsed(net).status # "busy"
    BY DEF GetResultNeverBlocks
  <2>1. net \in Net /\ Moves(net, net)
    BY DEF Ind, Types, NetOK, Moves, Net
  <2>2. net.status # "busy"
    BY DEF Ind, States
  <2> QED
    BY <2>1, <2>2, MovesSettled DEF Settled
<1> QED
  BY <1>1, Invariance, PTL

(* A query operation that completes has the result of its own query, and
   leaves the connection ready for the next one. *)
THEOREM ResultsAreOwn == Spec => []ReadyAfterSuccess
<1>1. Ind => ReadyAfterSuccess
  <2> SUFFICES ASSUME Ind PROVE ReadyAfterSuccess
    OBVIOUS
  <2>1. PICK q \in Nat \ {0} : Phase(net, srv_out, srv_got, q)
    BY DEF Ind, Progress
  <2>2. net.status = "idle" => net.out = 0
    BY <2>1 DEF Phase, Waiting, Flushed
  <2> QED
    BY <2>2 DEF Ind, OwnResults, States, ReadyAfterSuccess
<1> QED
  BY <1>1, Invariance, PTL

(* Notifications are neither lost, repeated nor reordered between the server
   and the caller, whoever reads them and whatever is cancelled. *)
THEOREM NotificationsAreKept == Spec => []NotificationsConserved
<1>1. Ind => NotificationsConserved
  <2> SUFFICES ASSUME Ind PROVE NotificationsConserved
    OBVIOUS
  <2>1. AllNotes(received, rcv_note, net, srv_out) =
          received \o (IF rcv_note = Null THEN <<>> ELSE <<rcv_note>>) \o net.notifies
            \o NotesIn(net.inbuf) \o NotesIn(net.to_client) \o NotesIn(srv_out)
    <3>1. /\ net \in Net /\ received \in Seq(Nat \ {0}) /\ rcv_note \in Nat
          /\ srv_out \in Seq(Msg)
      BY ServerTypes
    <3> QED
      BY ONLY <3>1, AllNotesForm
  <2>2. Conserved(AllNotes(received, rcv_note, net, srv_out), notes, net.link)
    BY DEF Ind, AllConserved
  <2> QED
    BY <2>1, <2>2 DEF Conserved, NotificationsConserved
<1> QED
  BY <1>1, Invariance, PTL

(* While no query is under way, and none has ended early, a receiver that
   waits has not left a notification in libpq's buffers. *)
THEOREM ReceiverSleepsOnNothing == Spec => []NoStrandedNotification
<1>1. Ind => NoStrandedNotification
  <2> SUFFICES ASSUME Ind, rcv = "waiting", op = "none", ~failed
               PROVE  Parsed(net).notifies = <<>>
    BY DEF NoStrandedNotification
  <2>1. net \in Net /\ net.inbuf = <<>> /\ net.notifies = <<>>
    BY DEF Ind, Types, NetOK, Drained
  <2>2. Parsed(net) = net
    BY <2>1, ParsedKeeps
  <2> QED
    BY <2>1, <2>2
<1> QED
  BY <1>1, Invariance, PTL
=============================================================================
