----------------------------- MODULE PipelineProofs -----------------------------
(***************************************************************************)
(* Proofs about module Pipeline.  Everything is a function of the log of   *)
(* the commands pushed on a session and of two positions in it: how many   *)
(* the server has served and the results of how many libpq has taken.      *)
(* First what follows from the log alone, then that libpq and the server   *)
(* keep to it, then the operations.                                        *)
(***************************************************************************)
EXTENDS Pipeline, DataInduction

Cmd  == {"ok", "fail", "copy", "rollback", "sync"} \X Nat \X Nat
Msg  == {"ok", "error", "copy", "sync", "note"} \X Nat \X Nat
Res  == {"ok", "error", "copy", "sync", "note", "aborted", "null"} \X Nat \X Nat
Cmds == Seq(Cmd)
Msgs == Seq(Msg)
Name == Nat \X Nat

-----------------------------------------------------------------------------
(* The log *)

Kind(log, p) == log[p][1]

\* The server skips what follows a failed command up to the sync.
Skipped(log, p) ==
  \E k \in 1 .. p - 1 : /\ Kind(log, k) = "fail"
                        /\ \A j \in k + 1 .. p - 1 : Kind(log, j) # "sync"

\* What the server answers, and what the result of a command is: libpq makes
\* up those of the commands that are skipped.
Answered(log, p) == Kind(log, p) = "sync" \/ ~Skipped(log, p)
Status(log, p) ==
  IF Kind(log, p) = "sync" THEN "sync"
  ELSE IF Skipped(log, p) THEN "aborted"
  ELSE IF Kind(log, p) = "fail" THEN "error"
  ELSE IF Kind(log, p) = "rollback" THEN "ok"
  ELSE Kind(log, p)
Answer(log, p) == <<Status(log, p), log[p][2], log[p][3]>>

\* The answers to the commands after the first c, up to the first s.
ExpectedParts(log, c, s) ==
  [i \in 1 .. (s - c) |-> IF Answered(log, c + i) THEN <<Answer(log, c + i)>> ELSE <<>>]
Expected(log, c, s) == FlattenSeq(ExpectedParts(log, c, s))

LEMMA LogTyped ==
  ASSUME NEW log \in Cmds
  PROVE  /\ Len(log) \in Nat /\ DOMAIN log = 1 .. Len(log)
         /\ \A p \in 1 .. Len(log) :
              /\ log[p] \in Cmd
              /\ Kind(log, p) \in {"ok", "fail", "copy", "rollback", "sync"}
              /\ log[p][2] \in Nat /\ log[p][3] \in Nat
<1>1. Len(log) \in Nat /\ DOMAIN log = 1 .. Len(log) /\ \A p \in 1 .. Len(log) : log[p] \in Cmd
  BY DEF Cmds
<1> QED
  BY <1>1 DEF Cmd, Kind

LEMMA SkippedNext ==
  ASSUME NEW log, NEW p \in Nat \ {0}
  PROVE  Skipped(log, p + 1)
           <=> Kind(log, p) = "fail" \/ (Skipped(log, p) /\ Kind(log, p) # "sync")
<1>1. ASSUME Kind(log, p) = "fail" PROVE Skipped(log, p + 1)
  <2>1. p \in 1 .. (p + 1) - 1 /\ \A j \in p + 1 .. (p + 1) - 1 : Kind(log, j) # "sync"
    OBVIOUS
  <2> QED
    BY <1>1, <2>1 DEF Skipped
<1>2. ASSUME Skipped(log, p), Kind(log, p) # "sync" PROVE Skipped(log, p + 1)
  <2>1. PICK k \in 1 .. p - 1 : /\ Kind(log, k) = "fail"
                                /\ \A j \in k + 1 .. p - 1 : Kind(log, j) # "sync"
    BY <1>2 DEF Skipped
  <2>2. k \in 1 .. (p + 1) - 1 /\ \A j \in k + 1 .. (p + 1) - 1 : j = p \/ j \in k + 1 .. p - 1
    OBVIOUS
  <2>3. \A j \in k + 1 .. (p + 1) - 1 : Kind(log, j) # "sync"
    BY <1>2, <2>1, <2>2
  <2> QED
    BY <2>1, <2>2, <2>3 DEF Skipped
<1>3. ASSUME Skipped(log, p + 1), Kind(log, p) # "fail"
      PROVE  Skipped(log, p) /\ Kind(log, p) # "sync"
  <2>1. PICK k \in 1 .. (p + 1) - 1 : /\ Kind(log, k) = "fail"
                                      /\ \A j \in k + 1 .. (p + 1) - 1 : Kind(log, j) # "sync"
    BY <1>3 DEF Skipped
  <2>2. k \in 1 .. p - 1 /\ p \in k + 1 .. (p + 1) - 1
    BY <1>3, <2>1
  <2>3. \A j \in k + 1 .. p - 1 : j \in k + 1 .. (p + 1) - 1
    OBVIOUS
  <2> QED
    BY <2>1, <2>2, <2>3 DEF Skipped
<1> QED
  BY <1>1, <1>2, <1>3

LEMMA NothingSkippedFirst ==
  ASSUME NEW log
  PROVE  ~Skipped(log, 1)
BY DEF Skipped

\* A longer log says the same of what it begins with.
LEMMA LongerLog ==
  ASSUME NEW log \in Cmds, NEW new \in Cmds
  PROVE  /\ log \o new \in Cmds
         /\ Len(log \o new) = Len(log) + Len(new)
         /\ \A p \in 1 .. Len(log) : (log \o new)[p] = log[p]
         /\ \A x \in 1 .. Len(new) : (log \o new)[Len(log) + x] = new[x]
BY DEF Cmds

Begins(big, log, n) == \A p \in 1 .. n : big[p] = log[p]

LEMMA SkippedPrefix ==
  ASSUME NEW log, NEW big, NEW n \in Nat, Begins(big, log, n)
  PROVE  \A p \in 1 .. n + 1 : Skipped(big, p) <=> Skipped(log, p)
<1> TAKE p \in 1 .. n + 1
<1>1. \A k \in 1 .. p - 1 : k \in 1 .. n
  OBVIOUS
<1>2. \A k \in 1 .. p - 1 : Kind(big, k) = Kind(log, k)
  BY <1>1 DEF Kind, Begins
<1>3. \A k \in 1 .. p - 1 : \A j \in k + 1 .. p - 1 : j \in 1 .. p - 1
  OBVIOUS
<1> QED
  BY <1>2, <1>3 DEF Skipped

LEMMA AnswerPrefix ==
  ASSUME NEW log, NEW big, NEW n \in Nat, Begins(big, log, n)
  PROVE  \A p \in 1 .. n : /\ Kind(big, p) = Kind(log, p)
                           /\ Answered(big, p) <=> Answered(log, p)
                           /\ Status(big, p) = Status(log, p)
                           /\ Answer(big, p) = Answer(log, p)
<1> TAKE p \in 1 .. n
<1>1. Kind(big, p) = Kind(log, p) /\ big[p] = log[p]
  BY DEF Kind, Begins
<1>2. Skipped(big, p) <=> Skipped(log, p)
  BY SkippedPrefix
<1>3. Status(big, p) = Status(log, p)
  BY <1>1, <1>2 DEF Status
<1> QED
  BY <1>1, <1>2, <1>3 DEF Answered, Answer

LEMMA ExpectedPrefix ==
  ASSUME NEW log, NEW big, NEW n \in Nat, Begins(big, log, n),
         NEW c \in Nat, NEW s \in 0 .. n
  PROVE  Expected(big, c, s) = Expected(log, c, s)
<1>1. \A i \in 1 .. (s - c) : c + i \in 1 .. n
  OBVIOUS
<1>2. \A i \in 1 .. (s - c) : /\ Answered(big, c + i) <=> Answered(log, c + i)
                              /\ Answer(big, c + i) = Answer(log, c + i)
  BY <1>1, AnswerPrefix
<1>3. ExpectedParts(big, c, s) = ExpectedParts(log, c, s)
  BY <1>2 DEF ExpectedParts
<1> QED
  BY <1>3 DEF Expected

LEMMA AnswerTyped ==
  ASSUME NEW log \in Cmds, NEW p \in 1 .. Len(log)
  PROVE  /\ Answer(log, p)[1] = Status(log, p)
         /\ Answer(log, p)[2] = log[p][2] /\ Answer(log, p)[3] = log[p][3]
         /\ Answer(log, p) \in Res
         /\ Answered(log, p) => /\ Answer(log, p) \in Msg /\ Status(log, p) # "note"
                                /\ Status(log, p) # "aborted"
<1>1. /\ Kind(log, p) \in {"ok", "fail", "copy", "rollback", "sync"}
      /\ log[p][2] \in Nat /\ log[p][3] \in Nat
  BY LogTyped
<1>2. Status(log, p) \in {"ok", "error", "copy", "sync", "aborted"}
  BY <1>1 DEF Status
<1>3. Answered(log, p) => Status(log, p) # "aborted"
  BY <1>1 DEF Status, Answered
<1> QED
  BY <1>1, <1>2, <1>3 DEF Answer, Msg, Res

LEMMA ExpectedPartsTyped ==
  ASSUME NEW log \in Cmds, NEW c \in Nat, NEW s \in 0 .. Len(log)
  PROVE  ExpectedParts(log, c, s) \in Seq(Msgs) /\ Expected(log, c, s) \in Msgs
<1>1. Len(log) \in Nat
  BY LogTyped
<1>2. ASSUME NEW i \in 1 .. (s - c)
      PROVE  (IF Answered(log, c + i) THEN <<Answer(log, c + i)>> ELSE <<>>) \in Msgs
  <2>1. c + i \in 1 .. Len(log)
    BY <1>1
  <2>2. Answered(log, c + i) => <<Answer(log, c + i)>> \in Msgs
    BY <2>1, AnswerTyped, OneTyped DEF Msgs
  <2>3. <<>> \in Msgs
    BY DEF Msgs
  <2> QED
    BY <2>2, <2>3
<1>3. ExpectedParts(log, c, s) \in Seq(Msgs)
  <2>1. CASE s - c \in Nat
    <3> DEFINE k == s - c
               P(i) == IF Answered(log, c + i) THEN <<Answer(log, c + i)>> ELSE <<>>
    <3>1. k \in Nat /\ \A i \in 1 .. k : P(i) \in Msgs
      BY <1>2, <2>1
    <3>2. ExpectedParts(log, c, s) = [i \in 1 .. k |-> P(i)]
      BY DEF ExpectedParts
    <3> HIDE DEF k, P
    <3>3. [i \in 1 .. k |-> P(i)] \in Seq(Msgs)
      BY <3>1
    <3> QED
      BY <3>2, <3>3
  <2>2. CASE s - c \notin Nat
    <3>1. 1 .. (s - c) = {}
      BY <1>1, <2>2
    <3>2. ExpectedParts(log, c, s) = <<>>
      BY <3>1 DEF ExpectedParts
    <3> QED
      BY <3>2
  <2> QED
    BY <2>1, <2>2
<1> QED
  BY <1>3, Flattened DEF Expected, Msgs

LEMMA ExpectedNone ==
  ASSUME NEW log \in Cmds, NEW c \in Nat, NEW s \in 0 .. Len(log), s <= c
  PROVE  Expected(log, c, s) = <<>>
<1>1. 1 .. (s - c) = {}
  BY LogTyped
<1>2. ExpectedParts(log, c, s) = <<>>
  BY <1>1 DEF ExpectedParts
<1> QED
  BY <1>2, FlattenEmpty DEF Expected

\* The first answer that is expected.
LEMMA ExpectedTake ==
  ASSUME NEW log \in Cmds, NEW c \in Nat, NEW s \in 0 .. Len(log), c < s
  PROVE  /\ Answered(log, c + 1) =>
              Expected(log, c, s) = <<Answer(log, c + 1)>> \o Expected(log, c + 1, s)
         /\ ~Answered(log, c + 1) => Expected(log, c, s) = Expected(log, c + 1, s)
<1> DEFINE one == IF Answered(log, c + 1) THEN <<Answer(log, c + 1)>> ELSE <<>>
           a == <<one>>
           b == ExpectedParts(log, c + 1, s)
<1>1. Len(log) \in Nat /\ c + 1 \in 1 .. Len(log) /\ c + 1 \in Nat
  BY LogTyped
<1>2. one \in Msgs
  <2>1. Answered(log, c + 1) => <<Answer(log, c + 1)>> \in Msgs
    BY <1>1, AnswerTyped, OneTyped DEF Msgs
  <2>2. <<>> \in Msgs
    BY DEF Msgs
  <2> QED
    BY <2>1, <2>2
<1>3. a \in Seq(Msgs) /\ b \in Seq(Msgs)
  BY <1>1, <1>2, OneTyped, ExpectedPartsTyped
<1>4. ExpectedParts(log, c, s) = a \o b
  <2> DEFINE P(i) == IF Answered(log, i) THEN <<Answer(log, i)>> ELSE <<>>
             e == [i \in 1 .. (s - c) |-> P(c + i)]
             d == [i \in 1 .. (s - (c + 1)) |-> P((c + 1) + i)]
             h == <<P(c + 1)>>
  <2>1. ExpectedParts(log, c, s) = e /\ b = d /\ a = h
    BY DEF ExpectedParts
  <2> HIDE DEF P
  <2>2. e = h \o d
    BY <1>1
  <2> QED
    BY <2>1, <2>2
<1> HIDE DEF one, a, b
<1>5. FlattenSeq(a \o b) = FlattenSeq(a) \o FlattenSeq(b)
  BY <1>3, FlattenConcat DEF Msgs
<1>6. FlattenSeq(a) = one
  BY <1>2, FlattenOne DEF Msgs, a
<1>7. Expected(log, c, s) = one \o Expected(log, c + 1, s)
  BY <1>4, <1>5, <1>6 DEF Expected, b
<1>8. Expected(log, c + 1, s) \in Msgs
  BY <1>1, ExpectedPartsTyped
<1>9. <<>> \o Expected(log, c + 1, s) = Expected(log, c + 1, s)
  BY <1>8 DEF Msgs
<1> QED
  BY <1>7, <1>9 DEF one

\* The last one, when the server has served one command more.
LEMMA ExpectedServed ==
  ASSUME NEW log \in Cmds, NEW c \in Nat, NEW s \in 0 .. Len(log) - 1,
         s < c => ~Answered(log, s + 1)
  PROVE  Expected(log, c, s + 1)
           = Expected(log, c, s) \o (IF Answered(log, s + 1) THEN <<Answer(log, s + 1)>> ELSE <<>>)
<1> DEFINE one == IF Answered(log, s + 1) THEN <<Answer(log, s + 1)>> ELSE <<>>
           a == ExpectedParts(log, c, s)
<1>1. Len(log) \in Nat /\ s \in 0 .. Len(log) /\ s + 1 \in 1 .. Len(log) /\ s + 1 \in 0 .. Len(log)
  BY LogTyped
<1>2. one \in Msgs
  <2>1. Answered(log, s + 1) => <<Answer(log, s + 1)>> \in Msgs
    BY <1>1, AnswerTyped, OneTyped DEF Msgs
  <2>2. <<>> \in Msgs
    BY DEF Msgs
  <2> QED
    BY <2>1, <2>2
<1>3. a \in Seq(Msgs)
  BY <1>1, ExpectedPartsTyped
<1>4. CASE c <= s
  <2>1. ExpectedParts(log, c, s + 1) = Append(a, one)
    <3> DEFINE P(i) == IF Answered(log, i) THEN <<Answer(log, i)>> ELSE <<>>
               e == [i \in 1 .. ((s + 1) - c) |-> P(c + i)]
               d == [i \in 1 .. (s - c) |-> P(c + i)]
               x == P(s + 1)
    <3>1. ExpectedParts(log, c, s + 1) = e /\ a = d /\ one = x
      BY DEF ExpectedParts
    <3> HIDE DEF P
    <3>2. e = Append(d, x)
      BY <1>1, <1>4
    <3> QED
      BY <3>1, <3>2
  <2> HIDE DEF one, a
  <2>2. FlattenSeq(Append(a, one)) = FlattenSeq(a) \o one
    BY <1>2, <1>3, FlattenAppend DEF Msgs
  <2> QED
    BY <2>1, <2>2 DEF Expected, one, a
<1>5. CASE s < c
  <2>1. Expected(log, c, s + 1) = <<>> /\ Expected(log, c, s) = <<>>
    BY <1>1, <1>5, ExpectedNone
  <2> QED
    BY <1>5, <2>1
<1> QED
  BY <1>1, <1>4, <1>5

-----------------------------------------------------------------------------
(* The server *)

\* SMT is given a Boolean only where it matters that it is one.
Bool == BOOLEAN

Server == [in : Cmds, out : Msgs, txn : SUBSET Name, skip : Bool,
           committed : SUBSET Name, notes : Nat]

Called(log, p) == <<log[p][2], log[p][3]>>

\* Command p has had an effect that nothing up to q has undone or committed.
Survives(log, p, q) ==
  /\ Kind(log, p) \in {"ok", "copy"} /\ ~Skipped(log, p)
  /\ \A x \in p + 1 .. q : Kind(log, x) \notin {"sync", "fail", "rollback"}

\* A sync up to s has committed it.
Stays(log, p, s) ==
  \E q \in p + 1 .. s : Kind(log, q) = "sync" /\ Survives(log, p, q - 1)

Open(log, s) == {e \in Name : \E p \in 1 .. s : e = Called(log, p) /\ Survives(log, p, s)}
Kept(log, s) == {e \in Name : \E p \in 1 .. s : e = Called(log, p) /\ Stays(log, p, s)}

\* The server has served s commands of the log; before this session it had
\* committed old.
Served(v, log, s, old) ==
  /\ v.skip <=> Skipped(log, s + 1)
  /\ v.txn = Open(log, s)
  /\ v.committed = old \union Kept(log, s)

LEMMA SurvivesNext ==
  ASSUME NEW log, NEW s \in Nat, NEW p \in 1 .. s
  PROVE  Survives(log, p, s + 1)
           <=> Survives(log, p, s) /\ Kind(log, s + 1) \notin {"sync", "fail", "rollback"}
<1>1. s + 1 \in p + 1 .. s + 1 /\ \A x \in p + 1 .. s + 1 : x = s + 1 \/ x \in p + 1 .. s
  OBVIOUS
<1>2. \A x \in p + 1 .. s : x \in p + 1 .. s + 1
  OBVIOUS
<1> QED
  BY <1>1, <1>2 DEF Survives

LEMMA SurvivesLast ==
  ASSUME NEW log, NEW s \in Nat
  PROVE  Survives(log, s, s) <=> Kind(log, s) \in {"ok", "copy"} /\ ~Skipped(log, s)
<1>1. s + 1 .. s = {}
  OBVIOUS
<1> QED
  BY <1>1 DEF Survives

LEMMA StaysNext ==
  ASSUME NEW log, NEW s \in Nat, NEW p \in 1 .. s
  PROVE  Stays(log, p, s + 1)
           <=> Stays(log, p, s) \/ (Kind(log, s + 1) = "sync" /\ Survives(log, p, s))
<1>1. /\ s + 1 \in p + 1 .. s + 1 /\ (s + 1) - 1 = s
      /\ \A q \in p + 1 .. s + 1 : q = s + 1 \/ q \in p + 1 .. s
  OBVIOUS
<1>2. \A q \in p + 1 .. s : q \in p + 1 .. s + 1
  OBVIOUS
<1> QED
  BY <1>1, <1>2 DEF Stays

LEMMA StaysLast ==
  ASSUME NEW log, NEW s \in Nat
  PROVE  ~Stays(log, s, s)
<1>1. s + 1 .. s = {}
  OBVIOUS
<1> QED
  BY <1>1 DEF Stays

\* While commands are skipped there is nothing to undo.
LEMMA NothingOpen ==
  ASSUME NEW log, NEW s \in Nat, Skipped(log, s + 1)
  PROVE  Open(log, s) = {}
<1> SUFFICES ASSUME NEW p \in 1 .. s, Survives(log, p, s) PROVE FALSE
  BY DEF Open
<1>1. PICK k \in 1 .. (s + 1) - 1 : /\ Kind(log, k) = "fail"
                                    /\ \A j \in k + 1 .. (s + 1) - 1 : Kind(log, j) # "sync"
  BY DEF Skipped
<1>2. CASE k < p
  <2>1. k \in 1 .. p - 1 /\ \A j \in k + 1 .. p - 1 : j \in k + 1 .. (s + 1) - 1
    BY <1>2
  <2> QED
    BY <1>1, <2>1 DEF Survives, Skipped
<1>3. CASE k = p
  BY <1>1, <1>3 DEF Survives
<1>4. CASE p < k
  <2>1. k \in p + 1 .. s
    BY <1>4
  <2> QED
    BY <1>1, <2>1 DEF Survives
<1> QED
  BY <1>2, <1>3, <1>4

LEMMA OpenNext ==
  ASSUME NEW log \in Cmds, NEW s \in 0 .. Len(log) - 1
  PROVE  Open(log, s + 1) =
           IF Kind(log, s + 1) = "sync" THEN {}
           ELSE IF Skipped(log, s + 1) THEN Open(log, s)
           ELSE IF Kind(log, s + 1) \in {"ok", "copy"}
           THEN Open(log, s) \union {Called(log, s + 1)}
           ELSE {}
<1> DEFINE k == Kind(log, s + 1)
<1>1. s \in Nat /\ s + 1 \in 1 .. Len(log) /\ Len(log) \in Nat
  BY LogTyped
<1>2. k \in {"ok", "fail", "copy", "rollback", "sync"} /\ Called(log, s + 1) \in Name
  BY <1>1, LogTyped DEF Called, Name
<1>3. \A p \in 1 .. s + 1 : p = s + 1 \/ p \in 1 .. s
  BY <1>1
<1>4. s + 1 \in 1 .. s + 1 /\ \A p \in 1 .. s : p \in 1 .. s + 1
  BY <1>1
<1>5. \A p \in 1 .. s : Survives(log, p, s + 1)
                          <=> Survives(log, p, s) /\ k \notin {"sync", "fail", "rollback"}
  BY <1>1, SurvivesNext
<1>6. Survives(log, s + 1, s + 1) <=> k \in {"ok", "copy"} /\ ~Skipped(log, s + 1)
  BY <1>1, SurvivesLast
<1> HIDE DEF k
<1>7. CASE k \in {"sync", "fail", "rollback"}
  <2>1. Open(log, s + 1) = {}
    BY <1>3, <1>5, <1>6, <1>7 DEF Open
  <2>2. Skipped(log, s + 1) => Open(log, s) = {}
    BY <1>1, NothingOpen
  <2> QED
    BY <1>7, <2>1, <2>2 DEF k
<1>8. CASE k \in {"ok", "copy"}
  <2>1. CASE Skipped(log, s + 1)
    <3>1. Open(log, s + 1) = Open(log, s)
      BY <1>3, <1>4, <1>5, <1>6, <1>8, <2>1 DEF Open
    <3> QED
      BY <1>8, <2>1, <3>1 DEF k
  <2>2. CASE ~Skipped(log, s + 1)
    <3>1. \A p \in 1 .. s : Survives(log, p, s + 1) <=> Survives(log, p, s)
      BY <1>5, <1>8
    <3>2. Survives(log, s + 1, s + 1)
      BY <1>6, <1>8, <2>2
    <3>3. \A e : e \in Open(log, s + 1) <=> e \in Open(log, s) \/ e = Called(log, s + 1)
      BY <1>2, <1>3, <1>4, <3>1, <3>2 DEF Open
    <3> QED
      BY <1>8, <2>2, <3>3 DEF k
  <2> QED
    BY <2>1, <2>2
<1> QED
  BY <1>2, <1>7, <1>8

LEMMA KeptNext ==
  ASSUME NEW log \in Cmds, NEW s \in 0 .. Len(log) - 1
  PROVE  Kept(log, s + 1) =
           IF Kind(log, s + 1) = "sync" THEN Kept(log, s) \union Open(log, s) ELSE Kept(log, s)
<1>1. s \in Nat
  BY LogTyped
<1>2. \A p \in 1 .. s + 1 : p = s + 1 \/ p \in 1 .. s
  BY <1>1
<1>3. \A p \in 1 .. s : p \in 1 .. s + 1
  BY <1>1
<1>4. \A p \in 1 .. s : Stays(log, p, s + 1)
        <=> Stays(log, p, s) \/ (Kind(log, s + 1) = "sync" /\ Survives(log, p, s))
  BY <1>1, StaysNext
<1>5. ~Stays(log, s + 1, s + 1)
  BY <1>1, StaysLast
<1>6. \A e : e \in Kept(log, s + 1)
        <=> e \in Kept(log, s) \/ (Kind(log, s + 1) = "sync" /\ e \in Open(log, s))
  BY <1>2, <1>3, <1>4, <1>5 DEF Kept, Open
<1> QED
  BY <1>6

LEMMA CmdsTyped ==
  ASSUME NEW q \in Cmds, q # <<>>
  PROVE  /\ Head(q) \in Cmd /\ Head(q) = q[1] /\ Tail(q) \in Cmds
         /\ Len(q) \in Nat \ {0} /\ Len(Tail(q)) = Len(q) - 1
         /\ \A x \in 1 .. Len(Tail(q)) : Tail(q)[x] = q[x + 1]
BY DEF Cmds

LEMMA MsgsAppend ==
  ASSUME NEW q \in Msgs, NEW m \in Msg
  PROVE  Append(q, m) \in Msgs /\ Append(q, m) = q \o <<m>> /\ q \o <<>> = q
BY DEF Msgs

LEMMA ServeKeeps ==
  ASSUME NEW v \in Server, v.in # <<>>, NEW log \in Cmds, NEW s \in 0 .. Len(log) - 1,
         Head(v.in) = log[s + 1], NEW old, Served(v, log, s, old)
  PROVE  LET w == Serve(v)
         IN  /\ w \in Server /\ w.in = Tail(v.in) /\ w.notes = v.notes
             /\ w.out = v.out \o (IF Answered(log, s + 1) THEN <<Answer(log, s + 1)>> ELSE <<>>)
             /\ Served(w, log, s + 1, old)
<1> DEFINE w == Serve(v)
           c == Head(v.in)
           k == Kind(log, s + 1)
<1>1. s \in Nat /\ s + 1 \in 1 .. Len(log) /\ s + 1 \in Nat \ {0}
  BY LogTyped
<1>2. c = log[s + 1] /\ c[1] = k /\ <<c[2], c[3]>> = Called(log, s + 1)
  BY DEF Kind, Called
<1>3. k \in {"ok", "fail", "copy", "rollback", "sync"} /\ c[2] \in Nat /\ c[3] \in Nat
  BY <1>1, <1>2, LogTyped
<1>4. Tail(v.in) \in Cmds /\ v.out \in Msgs /\ v.notes \in Nat
  BY CmdsTyped DEF Server
<1>5. /\ v.skip <=> Skipped(log, s + 1)
      /\ v.txn = Open(log, s) /\ v.txn \in SUBSET Name
      /\ v.committed = old \union Kept(log, s) /\ v.committed \in SUBSET Name
  BY DEF Served, Server
<1>6. Skipped(log, (s + 1) + 1) <=> k = "fail" \/ (Skipped(log, s + 1) /\ k # "sync")
  BY <1>1, SkippedNext
<1>7. Called(log, s + 1) \in Name
  BY <1>2, <1>3 DEF Name
<1>8. \A st \in {"ok", "error", "copy", "sync"} :
        /\ <<st, c[2], c[3]>> \in Msg
        /\ Append(v.out, <<st, c[2], c[3]>>) \in Msgs
        /\ Append(v.out, <<st, c[2], c[3]>>) = v.out \o <<<<st, c[2], c[3]>>>>
  <2>1. \A st \in {"ok", "error", "copy", "sync"} : <<st, c[2], c[3]>> \in Msg
    BY <1>3 DEF Msg
  <2> QED
    BY <1>4, <2>1, MsgsAppend
<1>9. v.out \o <<>> = v.out
  BY <1>4 DEF Msgs
<1>10. TRUE \in Bool /\ FALSE \in Bool
  BY DEF Bool
<1>11. Answer(log, s + 1) = <<Status(log, s + 1), c[2], c[3]>>
  BY <1>2 DEF Answer
<1> HIDE DEF k
<1>12. CASE k = "sync"
  <2>1. w = [v EXCEPT !.in = Tail(v.in), !.out = Append(v.out, <<"sync", c[2], c[3]>>),
                      !.skip = FALSE, !.txn = {}, !.committed = v.committed \union v.txn]
    BY <1>2, <1>12 DEF Serve, Server
  <2>2. Status(log, s + 1) = "sync" /\ Answered(log, s + 1)
    BY <1>12 DEF Status, Answered, k
  <2>3. Open(log, s + 1) = {} /\ Kept(log, s + 1) = Kept(log, s) \union Open(log, s)
    BY <1>12, OpenNext, KeptNext DEF k
  <2> HIDE DEF w, c
  <2>4. /\ w \in Server /\ w.in = Tail(v.in) /\ w.notes = v.notes
        /\ w.out = Append(v.out, <<"sync", c[2], c[3]>>)
        /\ w.skip = FALSE /\ w.txn = {} /\ w.committed = v.committed \union v.txn
    BY <1>4, <1>5, <1>8, <1>10, <2>1 DEF Server
  <2>5. Served(w, log, s + 1, old)
    BY <1>5, <1>6, <1>12, <2>3, <2>4 DEF Served
  <2> QED
    BY <1>8, <1>11, <2>2, <2>4, <2>5 DEF w
<1>13. CASE k # "sync" /\ Skipped(log, s + 1)
  <2>1. w = [v EXCEPT !.in = Tail(v.in)]
    BY <1>2, <1>5, <1>13 DEF Serve, Server
  <2>2. ~Answered(log, s + 1)
    BY <1>13 DEF Answered, k
  <2>3. Open(log, s + 1) = Open(log, s) /\ Kept(log, s + 1) = Kept(log, s)
    BY <1>13, OpenNext, KeptNext DEF k
  <2> HIDE DEF w, c
  <2>4. /\ w \in Server /\ w.in = Tail(v.in) /\ w.notes = v.notes /\ w.out = v.out
        /\ w.skip = v.skip /\ w.txn = v.txn /\ w.committed = v.committed
    BY <1>4, <2>1 DEF Server
  <2>5. Served(w, log, s + 1, old)
    BY <1>5, <1>6, <1>13, <2>3, <2>4 DEF Served
  <2> QED
    BY <1>9, <2>2, <2>4, <2>5 DEF w
<1>14. CASE k = "fail" /\ ~Skipped(log, s + 1)
  <2>1. w = [v EXCEPT !.in = Tail(v.in), !.out = Append(v.out, <<"error", c[2], c[3]>>),
                      !.skip = TRUE, !.txn = {}]
    BY <1>2, <1>5, <1>14 DEF Serve, Server
  <2>2. Status(log, s + 1) = "error" /\ Answered(log, s + 1)
    BY <1>14 DEF Status, Answered, k
  <2>3. Open(log, s + 1) = {} /\ Kept(log, s + 1) = Kept(log, s)
    BY <1>14, OpenNext, KeptNext DEF k
  <2> HIDE DEF w, c
  <2>4. /\ w \in Server /\ w.in = Tail(v.in) /\ w.notes = v.notes
        /\ w.out = Append(v.out, <<"error", c[2], c[3]>>)
        /\ w.skip = TRUE /\ w.txn = {} /\ w.committed = v.committed
    BY <1>4, <1>8, <1>10, <2>1 DEF Server
  <2>5. Served(w, log, s + 1, old)
    BY <1>5, <1>6, <1>14, <2>3, <2>4 DEF Served
  <2> QED
    BY <1>8, <1>11, <2>2, <2>4, <2>5 DEF w
<1>15. CASE k = "rollback" /\ ~Skipped(log, s + 1)
  <2>1. w = [v EXCEPT !.in = Tail(v.in), !.out = Append(v.out, <<"ok", c[2], c[3]>>), !.txn = {}]
    BY <1>2, <1>5, <1>15 DEF Serve, Server
  <2>2. Status(log, s + 1) = "ok" /\ Answered(log, s + 1)
    BY <1>15 DEF Status, Answered, k
  <2>3. Open(log, s + 1) = {} /\ Kept(log, s + 1) = Kept(log, s)
    BY <1>15, OpenNext, KeptNext DEF k
  <2> HIDE DEF w, c
  <2>4. /\ w \in Server /\ w.in = Tail(v.in) /\ w.notes = v.notes
        /\ w.out = Append(v.out, <<"ok", c[2], c[3]>>)
        /\ w.skip = v.skip /\ w.txn = {} /\ w.committed = v.committed
    BY <1>4, <1>8, <2>1 DEF Server
  <2>5. Served(w, log, s + 1, old)
    BY <1>5, <1>6, <1>15, <2>3, <2>4 DEF Served
  <2> QED
    BY <1>8, <1>11, <2>2, <2>4, <2>5 DEF w
<1>16. CASE k \in {"ok", "copy"} /\ ~Skipped(log, s + 1)
  <2>1. w = [v EXCEPT !.in = Tail(v.in), !.out = Append(v.out, <<k, c[2], c[3]>>),
                      !.txn = v.txn \union {<<c[2], c[3]>>}]
    BY <1>2, <1>5, <1>16 DEF Serve, Server
  <2>2. Status(log, s + 1) = k /\ Answered(log, s + 1)
    BY <1>16 DEF Status, Answered, k
  <2>3. /\ Open(log, s + 1) = Open(log, s) \union {Called(log, s + 1)}
        /\ Kept(log, s + 1) = Kept(log, s)
    BY <1>16, OpenNext, KeptNext DEF k
  <2>4. <<c[2], c[3]>> = Called(log, s + 1)
    BY <1>2
  <2> HIDE DEF w, c
  <2>5. /\ w \in Server /\ w.in = Tail(v.in) /\ w.notes = v.notes
        /\ w.out = Append(v.out, <<k, c[2], c[3]>>)
        /\ w.skip = v.skip /\ w.txn = v.txn \union {Called(log, s + 1)}
        /\ w.committed = v.committed
    BY <1>4, <1>5, <1>7, <1>8, <1>16, <2>1, <2>4 DEF Server
  <2>6. Served(w, log, s + 1, old)
    BY <1>5, <1>6, <1>16, <2>3, <2>5 DEF Served
  <2> QED
    BY <1>8, <1>11, <1>16, <2>2, <2>5, <2>6 DEF w
<1> QED
  BY <1>3, <1>12, <1>13, <1>14, <1>15, <1>16

-----------------------------------------------------------------------------
(* libpq: parsing *)

PGconn == [mode : {"off", "on", "aborted"},
           async : {"idle", "busy", "ready", "copy", "pidle"},
           queue : Cmds, result : Res, out : Cmds, inbuf : Msgs, notifies : Nat]

Notices == {m \in Msg : m[1] = "note"}
Replies == {m \in Msg : m[1] # "note"}
AnswersIn(t) == Pick(t, Replies)
NoteCount(t) == Len(Pick(t, Notices))

LEMMA LineTyped ==
  ASSUME NEW t \in Msgs
  PROVE  AnswersIn(t) \in Msgs /\ NoteCount(t) \in Nat
<1>1. AnswersIn(t) \in Seq(Msg) /\ Pick(t, Notices) \in Seq(Msg)
  BY PickTyped DEF Msgs, AnswersIn
<1> QED
  BY <1>1 DEF Msgs, NoteCount

LEMMA LineConcat ==
  ASSUME NEW t \in Msgs, NEW u \in Msgs
  PROVE  /\ t \o u \in Msgs
         /\ AnswersIn(t \o u) = AnswersIn(t) \o AnswersIn(u)
         /\ NoteCount(t \o u) = NoteCount(t) + NoteCount(u)
<1>1. t \o u \in Msgs
  BY DEF Msgs
<1>2. /\ Pick(t \o u, Replies) = Pick(t, Replies) \o Pick(u, Replies)
      /\ Pick(t \o u, Notices) = Pick(t, Notices) \o Pick(u, Notices)
  BY PickConcat DEF Msgs
<1>3. Pick(t, Notices) \in Seq(Msg) /\ Pick(u, Notices) \in Seq(Msg)
  BY PickTyped DEF Msgs
<1>4. Len(Pick(t, Notices) \o Pick(u, Notices)) = Len(Pick(t, Notices)) + Len(Pick(u, Notices))
  BY <1>3
<1> QED
  BY <1>1, <1>2, <1>4 DEF AnswersIn, NoteCount

LEMMA LineEmpty == <<>> \in Msgs /\ AnswersIn(<<>>) = <<>> /\ NoteCount(<<>>) = 0
BY PickEmpty DEF Msgs, AnswersIn, NoteCount

LEMMA LineOne ==
  ASSUME NEW m \in Msg
  PROVE  /\ <<m>> \in Msgs
         /\ m[1] = "note" => AnswersIn(<<m>>) = <<>> /\ NoteCount(<<m>>) = 1
         /\ m[1] # "note" => AnswersIn(<<m>>) = <<m>> /\ NoteCount(<<m>>) = 0
<1>1. <<m>> \in Msgs
  BY OneTyped DEF Msgs
<1>2. /\ Pick(<<m>>, Replies) = IF m \in Replies THEN <<m>> ELSE <<>>
      /\ Pick(<<m>>, Notices) = IF m \in Notices THEN <<m>> ELSE <<>>
  BY PickOne
<1>3. m \in Replies <=> m[1] # "note"
  BY DEF Replies
<1>4. m \in Notices <=> m[1] = "note"
  BY DEF Notices
<1>5. Len(<<m>>) = 1 /\ Len(<<>>) = 0
  OBVIOUS
<1> QED
  BY <1>1, <1>2, <1>3, <1>4, <1>5 DEF AnswersIn, NoteCount

LEMMA LineFirst ==
  ASSUME NEW t \in Msgs, t # <<>>
  PROVE  /\ Head(t) \in Msg /\ Tail(t) \in Msgs /\ Len(Tail(t)) = Len(t) - 1 /\ Len(t) \in Nat
         /\ Head(t)[1] = "note" => /\ AnswersIn(t) = AnswersIn(Tail(t))
                                   /\ NoteCount(t) = NoteCount(Tail(t)) + 1
         /\ Head(t)[1] # "note" => /\ AnswersIn(t) = <<Head(t)>> \o AnswersIn(Tail(t))
                                   /\ NoteCount(t) = NoteCount(Tail(t))
<1> DEFINE m == Head(t)
           u == Tail(t)
           h == <<m>>
<1>1. m \in Msg /\ u \in Msgs /\ Len(u) = Len(t) - 1 /\ t = h \o u /\ Len(t) \in Nat
  BY DEF Msgs
<1>2. /\ h \in Msgs
      /\ m[1] = "note" => AnswersIn(h) = <<>> /\ NoteCount(h) = 1
      /\ m[1] # "note" => AnswersIn(h) = h /\ NoteCount(h) = 0
  BY <1>1, LineOne
<1> HIDE DEF m, u, h
<1>3. AnswersIn(t) = AnswersIn(h) \o AnswersIn(u) /\ NoteCount(t) = NoteCount(h) + NoteCount(u)
  BY <1>1, <1>2, LineConcat
<1>4. AnswersIn(u) \in Msgs /\ NoteCount(u) \in Nat
  BY <1>1, LineTyped
<1>5. <<>> \o AnswersIn(u) = AnswersIn(u)
  BY <1>4 DEF Msgs
<1>6. CASE m[1] = "note"
  <2>1. AnswersIn(h) = <<>> /\ NoteCount(h) = 1
    BY <1>2, <1>6
  <2>2. AnswersIn(t) = AnswersIn(u)
    BY <1>3, <1>5, <2>1
  <2>3. NoteCount(t) = NoteCount(u) + 1
    BY <1>3, <1>4, <2>1
  <2> QED
    BY <1>1, <1>6, <2>2, <2>3 DEF m, u, h
<1>7. CASE m[1] # "note"
  <2>1. AnswersIn(h) = h /\ NoteCount(h) = 0
    BY <1>2, <1>7
  <2>2. AnswersIn(t) = h \o AnswersIn(u)
    BY <1>3, <2>1
  <2>3. NoteCount(t) = NoteCount(u)
    BY <1>3, <1>4, <2>1
  <2> QED
    BY <1>1, <1>7, <2>2, <2>3 DEF m, u, h
<1> QED
  BY <1>6, <1>7

\* Parsing only moves messages out of the input buffer.
SameQueues(n, m) == m.out = n.out /\ m.queue = n.queue

NotesKept(n, m) == m.notifies + NoteCount(m.inbuf) = n.notifies + NoteCount(n.inbuf)

\* What the answer x makes of a PGconn that was busy.
Takes(n, m, x) ==
  \/ x[1] = "sync" /\ n.mode = "off" /\ m.mode = "off" /\ m.async = "idle"
  \/ x[1] = "sync" /\ n.mode # "off" /\ m.mode = "on" /\ m.async = "ready" /\ m.result = x
  \/ /\ x[1] # "sync" /\ m.result = x
     /\ m.async = IF x[1] = "copy" THEN "copy" ELSE "ready"
     /\ m.mode = IF x[1] = "error" /\ n.mode # "off" THEN "aborted" ELSE n.mode

\* At most one answer is taken, and only by a PGconn that is busy.
Quiet(n, m) ==
  /\ m.mode = n.mode /\ m.async = n.async /\ m.result = n.result
  /\ AnswersIn(m.inbuf) = AnswersIn(n.inbuf)
Advances(n, m) ==
  /\ n.async = "busy"
  /\ \E x \in Replies : AnswersIn(n.inbuf) = <<x>> \o AnswersIn(m.inbuf) /\ Takes(n, m, x)

Reaches(n, m) == SameQueues(n, m) /\ NotesKept(n, m) /\ (Quiet(n, m) \/ Advances(n, m))

\* Nothing that can be parsed is left.
Stuck(n) == n.inbuf = <<>> \/ (Head(n.inbuf)[1] # "note" /\ n.async # "busy")

LEMMA ParseOneKeeps ==
  ASSUME NEW n \in PGconn
  PROVE  LET m == ParseOne(n)
         IN  /\ m \in PGconn
             /\ Reaches(n, m)
             /\ Stuck(n) => m = n
             /\ ~Stuck(n) => Len(m.inbuf) = Len(n.inbuf) - 1
<1> DEFINE m == ParseOne(n)
           x == Head(n.inbuf)
           rest == [n EXCEPT !.inbuf = Tail(n.inbuf)]
<1>1. n.inbuf \in Msgs /\ n.notifies \in Nat /\ n.mode \in {"off", "on", "aborted"}
  BY DEF PGconn
<1>2. CASE Stuck(n)
  <2>1. m = n
    BY <1>1, <1>2 DEF ParseOne, Stuck
  <2> QED
    BY <1>2, <2>1 DEF Reaches, SameQueues, NotesKept, Quiet
<1>3. CASE ~Stuck(n)
  <2>1. n.inbuf # <<>> /\ (x[1] = "note" \/ n.async = "busy")
    BY <1>3 DEF Stuck
  <2>2. /\ x \in Msg /\ Tail(n.inbuf) \in Msgs
        /\ Len(Tail(n.inbuf)) = Len(n.inbuf) - 1
        /\ x[1] = "note" => /\ AnswersIn(n.inbuf) = AnswersIn(Tail(n.inbuf))
                            /\ NoteCount(n.inbuf) = NoteCount(Tail(n.inbuf)) + 1
        /\ x[1] # "note" => /\ AnswersIn(n.inbuf) = <<x>> \o AnswersIn(Tail(n.inbuf))
                            /\ NoteCount(n.inbuf) = NoteCount(Tail(n.inbuf))
    BY <1>1, <2>1, LineFirst
  <2>3. x[1] \in {"ok", "error", "copy", "sync", "note"} /\ x \in Res
    BY <2>2 DEF Msg, Res
  <2>4. NoteCount(Tail(n.inbuf)) \in Nat
    BY <2>2, LineTyped
  <2>5. /\ rest \in PGconn /\ rest.inbuf = Tail(n.inbuf) /\ rest.notifies = n.notifies
        /\ rest.mode = n.mode /\ rest.async = n.async /\ rest.result = n.result
        /\ rest.out = n.out /\ rest.queue = n.queue
    BY <2>2 DEF PGconn
  <2> HIDE DEF x
  <2>6. CASE x[1] = "note"
    <3>1. m = [rest EXCEPT !.notifies = n.notifies + 1]
      BY <2>1, <2>6 DEF ParseOne, x
    <3> HIDE DEF rest, m
    <3>2. /\ m \in PGconn /\ SameQueues(n, m) /\ m.inbuf = Tail(n.inbuf)
          /\ m.notifies = n.notifies + 1
          /\ m.mode = n.mode /\ m.async = n.async /\ m.result = n.result
      BY <1>1, <2>5, <3>1 DEF PGconn, SameQueues
    <3>3. NotesKept(n, m) /\ Quiet(n, m)
      BY <1>1, <2>2, <2>4, <2>6, <3>2 DEF NotesKept, Quiet
    <3> QED
      BY <1>3, <2>2, <3>2, <3>3 DEF Reaches, m
  <2>7. CASE x[1] # "note"
    <3>1. n.async = "busy"
      BY <2>1, <2>7
    <3>2. \/ /\ x[1] = "sync" /\ n.mode = "off"
             /\ m = [rest EXCEPT !.async = "idle"]
          \/ /\ x[1] = "sync" /\ n.mode # "off"
             /\ m = [rest EXCEPT !.result = x, !.async = "ready", !.mode = "on"]
          \/ /\ x[1] = "error" /\ n.mode # "off"
             /\ m = [rest EXCEPT !.result = x, !.async = "ready", !.mode = "aborted"]
          \/ /\ x[1] = "copy"
             /\ m = [rest EXCEPT !.result = x, !.async = "copy"]
          \/ /\ x[1] = "ok" \/ (x[1] = "error" /\ n.mode = "off")
             /\ m = [rest EXCEPT !.result = x, !.async = "ready"]
      BY <2>1, <2>3, <2>5, <2>7, <3>1 DEF ParseOne, x, PGconn
    <3>3. /\ m \in PGconn /\ SameQueues(n, m) /\ m.inbuf = Tail(n.inbuf)
          /\ m.notifies = n.notifies
      BY <2>2, <2>3, <3>2 DEF PGconn, SameQueues
    <3>4. Takes(n, m, x)
      BY <2>2, <2>3, <3>2 DEF PGconn, Takes
    <3>5. NotesKept(n, m)
      BY <2>2, <2>7, <3>3 DEF NotesKept
    <3>6. Advances(n, m)
      BY <2>2, <2>7, <3>1, <3>3, <3>4 DEF Advances, Replies
    <3> QED
      BY <1>3, <2>2, <3>3, <3>5, <3>6 DEF Reaches
  <2> QED
    BY <2>6, <2>7
<1> QED
  BY <1>2, <1>3

LEMMA ReachesStep ==
  ASSUME NEW n \in PGconn, NEW m \in PGconn, Reaches(n, m)
  PROVE  Reaches(n, ParseOne(m))
<1> DEFINE p == ParseOne(m)
<1>1. p \in PGconn /\ Reaches(m, p)
  BY ParseOneKeeps
<1> HIDE DEF p
<1>2. SameQueues(n, p) /\ NotesKept(n, p)
  BY <1>1 DEF Reaches, SameQueues, NotesKept
<1>3. Quiet(n, p) \/ Advances(n, p)
  <2>1. CASE Quiet(n, m)
    <3>1. CASE Quiet(m, p)
      BY <2>1, <3>1 DEF Quiet
    <3>2. CASE Advances(m, p)
      BY <2>1, <3>2 DEF Quiet, Advances, Takes
    <3> QED
      BY <1>1, <3>1, <3>2 DEF Reaches
  <2>2. CASE Advances(n, m)
    <3>1. m.async # "busy"
      BY <2>2 DEF Advances, Takes
    <3>2. Quiet(m, p)
      BY <1>1, <3>1 DEF Reaches, Advances
    <3> QED
      BY <2>2, <3>2 DEF Quiet, Advances, Takes
  <2> QED
    BY <2>1, <2>2 DEF Reaches
<1> QED
  BY <1>2, <1>3 DEF Reaches, p

\* Parsing takes all there is to take: it stops at the end of the buffer or
\* at an answer that has to wait.
LEMMA ParsedKeeps ==
  ASSUME NEW n \in PGconn
  PROVE  /\ Parsed(n) \in PGconn
         /\ Reaches(n, Parsed(n))
         /\ Stuck(Parsed(n))
<1> DEFINE len == Len(n.inbuf)
           advance == [m \in PGconn |-> ParseOne(m)]
           Body(f) == [i \in 0 .. len |-> IF i = 0 THEN n ELSE ParseOne(f[i - 1])]
           parse == CHOOSE f : f = Body(f)
<1>1. Parsed(n) = parse[len]
  BY DEF Parsed
<1>2. len \in Nat /\ advance \in [PGconn -> PGconn]
  <2>1. len \in Nat
    BY DEF PGconn, Msgs
  <2> QED
    BY <2>1, ParseOneKeeps
<1>3. PICK g \in [0 .. len -> PGconn] : Iterates(g, len, n, advance)
  <2> HIDE DEF len, advance
  <2> QED
    BY <1>2, Iteration
<1>4. g = Body(g)
  <2>1. ASSUME NEW i \in 0 .. len
        PROVE  g[i] = IF i = 0 THEN n ELSE ParseOne(g[i - 1])
    <3>1. CASE i = 0
      BY <1>3, <3>1 DEF Iterates
    <3>2. CASE i # 0
      <4>1. i \in 1 .. len /\ i - 1 \in 0 .. len
        BY <1>2, <3>2
      <4>2. g[i] = advance[g[i - 1]] /\ g[i - 1] \in PGconn
        BY <1>3, <4>1 DEF Iterates
      <4> QED
        BY <3>2, <4>2
    <3> QED
      BY <3>1, <3>2
  <2>2. g = [i \in 0 .. len |-> g[i]]
    OBVIOUS
  <2> HIDE DEF len
  <2> QED
    BY <2>1, <2>2
<1>5. parse = Body(parse)
  <2> HIDE DEF len
  <2> QED
    BY <1>4
<1> HIDE DEF parse
<1>6. parse[0] = n /\ \A i \in 1 .. len : parse[i] = ParseOne(parse[i - 1])
  <2> HIDE DEF len
  <2>1. \A i \in 0 .. len : parse[i] = IF i = 0 THEN n ELSE ParseOne(parse[i - 1])
    BY <1>5
  <2> QED
    BY <1>2, <2>1
<1> HIDE DEF Body
<1> DEFINE Ok(k) == /\ parse[k] \in PGconn
                    /\ Reaches(n, parse[k])
                    /\ Stuck(parse[k]) \/ Len(parse[k].inbuf) = len - k
           S == {k \in Nat : k <= len => Ok(k)}
<1>7. 0 \in S
  <2>1. Reaches(n, n)
    BY DEF Reaches, SameQueues, NotesKept, Quiet
  <2> QED
    BY <1>2, <1>6, <2>1
<1>8. ASSUME NEW k \in S PROVE k + 1 \in S
  <2> SUFFICES ASSUME k + 1 <= len PROVE Ok(k + 1)
    OBVIOUS
  <2> DEFINE m == parse[k]
             p == ParseOne(m)
  <2>1. m \in PGconn /\ Reaches(n, m) /\ (Stuck(m) \/ Len(m.inbuf) = len - k)
    BY <1>2
  <2>2. k + 1 \in 1 .. len /\ (k + 1) - 1 = k
    BY <1>2
  <2>3. parse[k + 1] = p
    BY <1>6, <2>2
  <2> HIDE DEF m
  <2>4. /\ p \in PGconn
        /\ Stuck(m) => p = m
        /\ ~Stuck(m) => Len(p.inbuf) = Len(m.inbuf) - 1
    BY <2>1, ParseOneKeeps
  <2>5. Reaches(n, p)
    BY <2>1, ReachesStep
  <2> HIDE DEF p, len
  <2>6. Stuck(p) \/ Len(p.inbuf) = len - (k + 1)
    BY <1>2, <2>1, <2>4
  <2> QED
    BY <2>3, <2>4, <2>5, <2>6
<1>9. S = Nat
  <2> HIDE DEF S
  <2>1. S \in SUBSET Nat
    BY DEF S
  <2> QED
    BY <1>7, <1>8, <2>1, SetInduction
<1>10. Ok(len)
  BY <1>2, <1>9
<1>11. Stuck(parse[len])
  <2>1. Len(parse[len].inbuf) = 0 => parse[len].inbuf = <<>>
    BY <1>10 DEF PGconn, Msgs
  <2>2. len - len = 0
    BY <1>2
  <2> HIDE DEF len
  <2> QED
    BY <1>10, <2>1, <2>2 DEF Stuck
<1> HIDE DEF len
<1> QED
  BY <1>1, <1>10, <1>11

-----------------------------------------------------------------------------
(* libpq: where its PGconn is in the log *)

\* q is what follows the first d commands.
Suffix(q, log, d) ==
  /\ d \in 0 .. Len(log) /\ Len(q) = Len(log) - d
  /\ \A x \in 1 .. Len(q) : q[x] = log[d + x]

\* Outside pipeline mode the log ends with one query and its sync.
Asked(log) ==
  /\ Len(log) >= 2 /\ Kind(log, Len(log)) = "sync"
  /\ Kind(log, Len(log) - 1) \in {"ok", "fail"} /\ ~Skipped(log, Len(log) - 1)

Off(n, log, c) ==
  /\ n.mode = "off" /\ n.queue = <<>>
  /\ \/ n.async = "idle" /\ c = Len(log) /\ ~Skipped(log, c + 1)
     \/ n.async = "busy" /\ Asked(log) /\ (c = Len(log) - 2 \/ c = Len(log) - 1)
     \/ n.async = "ready" /\ Asked(log) /\ c = Len(log) - 1 /\ n.result = Answer(log, c)

\* In pipeline mode the command whose result was taken is still in the queue.
On(n, log, c) ==
  /\ n.mode # "off" /\ (n.mode = "aborted" <=> Skipped(log, c + 1))
  /\ \/ n.async = "idle" /\ n.queue = <<>> /\ c = Len(log)
     \/ n.async = "pidle" /\ Suffix(n.queue, log, c)
     \/ n.async = "busy" /\ Suffix(n.queue, log, c) /\ c < Len(log) /\ Answered(log, c + 1)
     \/ /\ n.async \in {"ready", "copy"} /\ c >= 1 /\ Suffix(n.queue, log, c - 1)
        /\ n.result = Answer(log, c) /\ (n.async = "copy" <=> Status(log, c) = "copy")

\* rest being the answers behind its input buffer, what is still to come is
\* the answers to the commands after the first c, as far as the server got.
Ahead(n, log, c, s, rest) ==
  /\ c \in 0 .. Len(log)
  /\ AnswersIn(n.inbuf) \o rest = Expected(log, c, s)
  /\ \A p \in s + 1 .. c : ~Answered(log, p)

Tracks(n, log, c, s, rest) == (Off(n, log, c) \/ On(n, log, c)) /\ Ahead(n, log, c, s, rest)

\* In pipeline mode, between two commands.
Between(n, log, c, s, rest) ==
  /\ n.mode # "off" /\ (n.mode = "aborted" <=> Skipped(log, c + 1))
  /\ Suffix(n.queue, log, c) /\ Ahead(n, log, c, s, rest)

\* Wherever that is.
Follow(n, log, s, rest) == \E c \in Nat : Tracks(n, log, c, s, rest)

LEMMA TracksFollows ==
  ASSUME NEW n, NEW log \in Cmds, NEW c, NEW s, NEW rest, Tracks(n, log, c, s, rest)
  PROVE  c \in Nat /\ c + 1 \in Nat /\ Follow(n, log, s, rest)
<1>1. c \in Nat
  BY LogTyped DEF Tracks, Ahead
<1> QED
  BY <1>1 DEF Follow

LEMMA SuffixTail ==
  ASSUME NEW q \in Cmds, NEW log \in Cmds, NEW d, Suffix(q, log, d), q # <<>>
  PROVE  d < Len(log) /\ d + 1 \in 1 .. Len(log) /\ Head(q) = log[d + 1] /\ Suffix(Tail(q), log, d + 1)
<1>1. Len(log) \in Nat /\ d \in 0 .. Len(log)
  BY LogTyped DEF Suffix
<1>2. /\ Head(q) = q[1] /\ Len(q) \in Nat \ {0} /\ Len(Tail(q)) = Len(q) - 1
      /\ \A x \in 1 .. Len(Tail(q)) : Tail(q)[x] = q[x + 1]
  BY CmdsTyped
<1>3. d + 1 \in 0 .. Len(log) /\ Len(Tail(q)) = Len(log) - (d + 1)
  BY <1>1, <1>2 DEF Suffix
<1>4. \A x \in 1 .. Len(Tail(q)) : x + 1 \in 1 .. Len(q) /\ d + (x + 1) = (d + 1) + x
  BY <1>1, <1>2
<1>5. \A x \in 1 .. Len(Tail(q)) : Tail(q)[x] = log[(d + 1) + x]
  BY <1>2, <1>4 DEF Suffix
<1>6. 1 \in 1 .. Len(q)
  BY <1>2
<1> QED
  BY <1>1, <1>2, <1>3, <1>5, <1>6 DEF Suffix

LEMMA SuffixAppend ==
  ASSUME NEW q \in Cmds, NEW log \in Cmds, NEW new \in Cmds, NEW d, Suffix(q, log, d)
  PROVE  Suffix(q \o new, log \o new, d)
<1>1. /\ Len(log) \in Nat /\ Len(q) \in Nat /\ Len(new) \in Nat /\ d \in 0 .. Len(log)
      /\ Len(q) = Len(log) - d
  BY LogTyped DEF Suffix
<1>2. /\ Len(q \o new) = Len(q) + Len(new) /\ Len(log \o new) = Len(log) + Len(new)
      /\ \A x \in 1 .. Len(q) : (q \o new)[x] = q[x]
      /\ \A x \in 1 .. Len(new) : (q \o new)[Len(q) + x] = new[x]
      /\ \A p \in 1 .. Len(log) : (log \o new)[p] = log[p]
      /\ \A x \in 1 .. Len(new) : (log \o new)[Len(log) + x] = new[x]
  BY LongerLog
<1>3. ASSUME NEW x \in 1 .. Len(q \o new)
      PROVE  (q \o new)[x] = (log \o new)[d + x]
  <2>1. CASE x <= Len(q)
    <3>1. x \in 1 .. Len(q) /\ d + x \in 1 .. Len(log)
      BY <1>1, <2>1
    <3> QED
      BY <1>2, <3>1 DEF Suffix
  <2>2. CASE x > Len(q)
    <3> DEFINE y == x - Len(q)
    <3>1. y \in 1 .. Len(new) /\ x = Len(q) + y /\ d + x = Len(log) + y
      BY <1>1, <1>2, <2>2
    <3> QED
      BY <1>2, <3>1
  <2> QED
    BY <1>1, <1>2, <2>1, <2>2
<1>4. d \in 0 .. Len(log \o new) /\ Len(q \o new) = Len(log \o new) - d
  BY <1>1, <1>2
<1> QED
  BY <1>3, <1>4 DEF Suffix

LEMMA SuffixEmpty ==
  ASSUME NEW q \in Cmds, NEW log \in Cmds, NEW d, Suffix(q, log, d)
  PROVE  q = <<>> <=> d = Len(log)
<1>1. Len(log) \in Nat /\ Len(q) \in Nat /\ Len(q) = Len(log) - d /\ d \in Nat
  BY LogTyped DEF Suffix
<1>2. q = <<>> <=> Len(q) = 0
  BY DEF Cmds
<1> QED
  BY <1>1, <1>2

LEMMA SuffixOfAll ==
  ASSUME NEW log \in Cmds
  PROVE  Suffix(<<>>, log, Len(log)) /\ Suffix(log, log, 0)
BY LogTyped DEF Suffix

\* libpq takes the result of a command that is skipped without an answer.
LEMMA AheadSkips ==
  ASSUME NEW n, NEW log \in Cmds, NEW c, NEW s \in 0 .. Len(log), NEW rest,
         Ahead(n, log, c, s, rest), c < Len(log), ~Answered(log, c + 1)
  PROVE  Ahead(n, log, c + 1, s, rest)
<1>1. Len(log) \in Nat /\ c \in Nat /\ c + 1 \in 0 .. Len(log) /\ c + 1 \in Nat
  BY LogTyped DEF Ahead
<1>2. Expected(log, c + 1, s) = Expected(log, c, s)
  <2>1. CASE c < s
    BY <1>1, <2>1, ExpectedTake
  <2>2. CASE s <= c
    BY <1>1, <2>2, ExpectedNone
  <2> QED
    BY <1>1, <2>1, <2>2
<1>3. \A p \in s + 1 .. c + 1 : p = c + 1 \/ p \in s + 1 .. c
  BY <1>1
<1> QED
  BY <1>1, <1>2, <1>3 DEF Ahead

LEMMA AheadLonger ==
  ASSUME NEW n, NEW log \in Cmds, NEW new \in Cmds, NEW c, NEW s \in 0 .. Len(log), NEW rest,
         Ahead(n, log, c, s, rest)
  PROVE  Ahead(n, log \o new, c, s, rest)
<1> DEFINE big == log \o new
<1>1. /\ Len(log) \in Nat /\ Len(new) \in Nat /\ c \in 0 .. Len(log) /\ c \in Nat
      /\ Len(big) = Len(log) + Len(new)
      /\ Begins(big, log, Len(log))
  BY LogTyped, LongerLog DEF Ahead, Begins
<1> HIDE DEF big
<1>2. Expected(big, c, s) = Expected(log, c, s)
  BY <1>1, ExpectedPrefix
<1>3. \A p \in 1 .. Len(log) : Answered(big, p) <=> Answered(log, p)
  BY <1>1, AnswerPrefix
<1>4. \A p \in s + 1 .. c : p \in 1 .. Len(log)
  BY <1>1
<1> QED
  BY <1>1, <1>2, <1>3, <1>4 DEF Ahead, big

\* The first answer in line is the one to the next command.
LEMMA AheadTakes ==
  ASSUME NEW n \in PGconn, NEW m \in PGconn, NEW log \in Cmds, NEW c, NEW s \in 0 .. Len(log),
         NEW rest \in Msgs, Ahead(n, log, c, s, rest), c < Len(log), Answered(log, c + 1),
         NEW x \in Msg, AnswersIn(n.inbuf) = <<x>> \o AnswersIn(m.inbuf)
  PROVE  x = Answer(log, c + 1) /\ Ahead(m, log, c + 1, s, rest)
<1> DEFINE a == AnswersIn(m.inbuf)
           b == Expected(log, c + 1, s)
           h == <<x>>
           y == Answer(log, c + 1)
           k == <<y>>
           e == Expected(log, c, s)
<1>1. Len(log) \in Nat /\ c \in Nat /\ c + 1 \in 0 .. Len(log) /\ c + 1 \in Nat
  BY LogTyped DEF Ahead
<1>2. m.inbuf \in Msgs /\ a \in Msgs
  BY LineTyped DEF PGconn
<1>3. (h \o a) \o rest = e
  BY DEF Ahead
<1>4. c < s
  <2>1. CASE s <= c
    <3>1. e = <<>>
      BY <1>1, <2>1, ExpectedNone
    <3>2. Len((h \o a) \o rest) > 0
      BY <1>2 DEF Msgs
    <3>3. Len(<<>>) = 0
      OBVIOUS
    <3> HIDE DEF h, a, e
    <3> QED
      BY <1>3, <3>1, <3>2, <3>3
  <2> QED
    BY <1>1, <2>1
<1>5. e = k \o b
  BY <1>1, <1>4, ExpectedTake
<1>6. b \in Msgs
  BY <1>1, <1>4, ExpectedPartsTyped
<1>7. y \in Msg
  <2>1. c + 1 \in 1 .. Len(log)
    BY <1>1
  <2> QED
    BY <2>1, AnswerTyped
<1> HIDE DEF a, b, e, y
<1>8. x = y /\ a \o rest = b
  <2> DEFINE l == a \o rest
  <2>1. l \in Msgs /\ (h \o a) \o rest = h \o l
    BY <1>2 DEF Msgs
  <2> HIDE DEF l
  <2>2. h \o l = k \o b
    BY <1>3, <1>5, <2>1
  <2>3. x = y /\ l = b
    <3>1. Head(h \o l) = x /\ Tail(h \o l) = l
      BY <2>1 DEF Msgs
    <3>2. Head(k \o b) = y /\ Tail(k \o b) = b
      BY <1>6, <1>7 DEF Msgs
    <3> HIDE DEF h, k
    <3> QED
      BY <2>2, <3>1, <3>2
  <2> QED
    BY <2>3 DEF l
<1>9. s + 1 .. c + 1 = {}
  BY <1>1, <1>4
<1> QED
  BY <1>1, <1>8, <1>9 DEF Ahead, a, b, y
LEMMA StatusOfKind ==
  ASSUME NEW log \in Cmds, NEW p \in 1 .. Len(log)
  PROVE  /\ Status(log, p) = "sync" <=> Kind(log, p) = "sync"
         /\ Status(log, p) = "aborted" <=> ~Answered(log, p)
         /\ Status(log, p) = "error" <=> Kind(log, p) = "fail" /\ ~Skipped(log, p)
         /\ Status(log, p) = "copy" <=> Kind(log, p) = "copy" /\ ~Skipped(log, p)
         /\ Status(log, p) = "ok" <=> Kind(log, p) \in {"ok", "rollback"} /\ ~Skipped(log, p)
         /\ Status(log, p) \in {"ok", "error", "copy", "sync", "aborted"}
<1>1. Kind(log, p) \in {"ok", "fail", "copy", "rollback", "sync"}
  BY LogTyped
<1> QED
  BY <1>1 DEF Status, Answered

\* Parsing takes the answer to the next command, if it takes one.
LEMMA ParsingTracks ==
  ASSUME NEW n \in PGconn, NEW m \in PGconn, Reaches(n, m), NEW log \in Cmds,
         NEW c, NEW s \in 0 .. Len(log), NEW rest \in Msgs, Tracks(n, log, c, s, rest)
  PROVE  \/ Quiet(n, m) /\ Tracks(m, log, c, s, rest)
         \/ n.async = "busy" /\ m.async # "busy" /\ c < Len(log) /\ Tracks(m, log, c + 1, s, rest)
<1>1. m.queue = n.queue
  BY DEF Reaches, SameQueues
<1>2. CASE Quiet(n, m)
  BY <1>1, <1>2 DEF Tracks, Off, On, Ahead, Quiet
<1>3. CASE Advances(n, m)
  <2>1. PICK x \in Replies : AnswersIn(n.inbuf) = <<x>> \o AnswersIn(m.inbuf) /\ Takes(n, m, x)
    BY <1>3 DEF Advances
  <2>2. /\ n.async = "busy" /\ x \in Msg /\ Ahead(n, log, c, s, rest)
        /\ Len(log) \in Nat /\ c \in 0 .. Len(log)
    BY <1>3, LogTyped DEF Advances, Replies, Tracks, Ahead
  <2>3. c < Len(log) /\ Answered(log, c + 1)
    <3>1. CASE Off(n, log, c)
      <4>1. Asked(log) /\ (c = Len(log) - 2 \/ c = Len(log) - 1)
        BY <2>2, <3>1 DEF Off
      <4>2. c = Len(log) - 2 => c + 1 = Len(log) - 1
        BY <2>2
      <4>3. c = Len(log) - 1 => c + 1 = Len(log)
        BY <2>2
      <4> QED
        BY <2>2, <4>1, <4>2, <4>3 DEF Asked, Answered
    <3>2. CASE On(n, log, c)
      BY <2>2, <3>2 DEF On
    <3> QED
      BY <3>1, <3>2 DEF Tracks
  <2>4. x = Answer(log, c + 1) /\ Ahead(m, log, c + 1, s, rest)
    BY <2>1, <2>2, <2>3, AheadTakes
  <2>5. c + 1 \in 1 .. Len(log) /\ c + 1 \in Nat \ {0} /\ (c + 1) - 1 = c
    BY <2>2, <2>3
  <2>6. /\ x[1] = Status(log, c + 1)
        /\ Status(log, c + 1) = "sync" <=> Kind(log, c + 1) = "sync"
        /\ Status(log, c + 1) = "error" <=> Kind(log, c + 1) = "fail" /\ ~Skipped(log, c + 1)
    BY <2>4, <2>5, StatusOfKind, AnswerTyped
  <2>7. Skipped(log, (c + 1) + 1)
          <=> Kind(log, c + 1) = "fail" \/ (Skipped(log, c + 1) /\ Kind(log, c + 1) # "sync")
    BY <2>5, SkippedNext
  <2>8. m.async # "busy"
    BY <2>1 DEF Takes
  <2>9. CASE Off(n, log, c)
    <3>1. /\ Asked(log) /\ (c = Len(log) - 2 \/ c = Len(log) - 1)
          /\ n.mode = "off" /\ n.queue = <<>>
      BY <2>2, <2>9 DEF Off
    <3>2. CASE c = Len(log) - 2
      <4>1. c + 1 = Len(log) - 1 /\ Kind(log, c + 1) \in {"ok", "fail"}
        BY <2>2, <3>1, <3>2 DEF Asked
      <4>2. x[1] # "sync" /\ x[1] # "copy"
        BY <2>6, <4>1 DEF Status
      <4>3. m.async = "ready" /\ m.mode = "off" /\ m.result = x
        BY <2>1, <3>1, <4>2 DEF Takes
      <4> QED
        BY <1>1, <2>2, <2>3, <2>4, <2>8, <3>1, <4>1, <4>3 DEF Tracks, Off
    <3>3. CASE c = Len(log) - 1
      <4>1. c + 1 = Len(log) /\ Kind(log, c + 1) = "sync"
        BY <2>2, <3>1, <3>3 DEF Asked
      <4>2. x[1] = "sync"
        BY <2>6, <4>1
      <4>3. m.async = "idle" /\ m.mode = "off"
        BY <2>1, <3>1, <4>2 DEF Takes
      <4>4. ~Skipped(log, (c + 1) + 1)
        BY <2>7, <4>1
      <4> QED
        BY <1>1, <2>2, <2>3, <2>4, <2>8, <3>1, <4>1, <4>3, <4>4 DEF Tracks, Off
    <3> QED
      BY <3>1, <3>2, <3>3
  <2>10. CASE On(n, log, c)
    <3>1. n.mode # "off" /\ (n.mode = "aborted" <=> Skipped(log, c + 1)) /\ Suffix(n.queue, log, c)
      BY <2>2, <2>10 DEF On
    <3>2. n.mode \in {"off", "on", "aborted"}
      BY DEF PGconn
    <3>3. m.mode # "off" /\ (m.mode = "aborted" <=> Skipped(log, (c + 1) + 1))
      BY <2>1, <2>3, <2>6, <2>7, <3>1, <3>2 DEF Takes, Answered
    <3>4. m.result = x /\ m.async \in {"ready", "copy"} /\ (m.async = "copy" <=> x[1] = "copy")
      BY <2>1, <3>1 DEF Takes
    <3>5. On(m, log, c + 1)
      BY <1>1, <2>4, <2>5, <2>6, <3>1, <3>3, <3>4 DEF On
    <3> QED
      BY <2>2, <2>3, <2>4, <2>8, <3>5 DEF Tracks
  <2> QED
    BY <2>9, <2>10 DEF Tracks
<1> QED
  BY <1>2, <1>3 DEF Reaches

\* What it has to do with the socket is left alone.
SameLine(n, m) == m.out = n.out /\ m.inbuf = n.inbuf /\ m.notifies = n.notifies

LEMMA ProcessQueueKeeps ==
  ASSUME NEW n \in PGconn, NEW log \in Cmds, NEW c, NEW s \in 0 .. Len(log), NEW rest \in Msgs,
         Between(n, log, c, s, rest)
  PROVE  LET m == ProcessQueue(n)
         IN  /\ m \in PGconn /\ SameLine(n, m) /\ m.queue = n.queue /\ m.mode = n.mode
             /\ (Tracks(m, log, c, s, rest) \/ Tracks(m, log, c + 1, s, rest))
             /\ m.async \in {"idle", "busy", "ready"}
             /\ m.async = "idle" <=> n.queue = <<>>
             /\ n.queue # <<>> /\ n.mode = "aborted" /\ Head(n.queue)[1] # "sync" => m.async = "ready"
<1> DEFINE m == ProcessQueue(n)
           x == Head(n.queue)
<1>1. /\ n.mode # "off" /\ (n.mode = "aborted" <=> Skipped(log, c + 1))
      /\ Suffix(n.queue, log, c) /\ Ahead(n, log, c, s, rest)
      /\ Len(log) \in Nat /\ c \in 0 .. Len(log)
  BY LogTyped DEF Between, Ahead
<1>2. n.queue \in Cmds /\ n.mode \in {"off", "on", "aborted"}
  BY DEF PGconn
<1>3. CASE n.queue = <<>>
  <2>1. m = [n EXCEPT !.async = "idle"]
    BY <1>3 DEF ProcessQueue
  <2>2. c = Len(log)
    BY <1>1, <1>2, <1>3, SuffixEmpty
  <2> HIDE DEF m
  <2>3. /\ m \in PGconn /\ SameLine(n, m) /\ m.queue = n.queue /\ m.mode = n.mode
        /\ m.async = "idle"
    BY <2>1 DEF PGconn, SameLine
  <2>4. Ahead(m, log, c, s, rest)
    BY <1>1, <2>3 DEF Ahead, SameLine
  <2>5. On(m, log, c)
    BY <1>1, <1>3, <2>2, <2>3 DEF On
  <2> QED
    BY <1>3, <2>3, <2>4, <2>5 DEF Tracks, m
<1>4. CASE n.queue # <<>>
  <2>1. c < Len(log) /\ c + 1 \in 1 .. Len(log) /\ x = log[c + 1] /\ x \in Cmd
    BY <1>1, <1>2, <1>4, SuffixTail, CmdsTyped
  <2>2. x[1] = Kind(log, c + 1)
    BY <2>1 DEF Kind
  <2>3. CASE n.mode = "aborted" /\ x[1] # "sync"
    <3>1. m = [n EXCEPT !.async = "ready", !.result = <<"aborted", x[2], x[3]>>]
      BY <1>4, <2>3 DEF ProcessQueue
    <3>2. <<"aborted", x[2], x[3]>> = Answer(log, c + 1)
      BY <1>1, <2>1, <2>2, <2>3 DEF Answer, Status
    <3>3. Answer(log, c + 1) \in Res /\ ~Answered(log, c + 1) /\ Status(log, c + 1) # "copy"
      BY <1>1, <2>1, <2>2, <2>3, AnswerTyped DEF Answered, Status
    <3>4. Skipped(log, (c + 1) + 1)
      <4>1. c + 1 \in Nat \ {0}
        BY <1>1
      <4> QED
        BY <1>1, <2>2, <2>3, <4>1, SkippedNext
    <3> HIDE DEF m, x
    <3>5. /\ m \in PGconn /\ SameLine(n, m) /\ m.queue = n.queue /\ m.mode = n.mode
          /\ m.async = "ready" /\ m.result = Answer(log, c + 1)
      BY <3>1, <3>2, <3>3 DEF PGconn, SameLine
    <3>6. Ahead(n, log, c + 1, s, rest)
      BY <1>1, <2>1, <3>3, AheadSkips
    <3>7. Ahead(m, log, c + 1, s, rest)
      BY <3>5, <3>6 DEF Ahead, SameLine
    <3>8. (c + 1) - 1 = c /\ c + 1 >= 1
      BY <1>1
    <3>9. On(m, log, c + 1)
      BY <1>1, <2>3, <3>3, <3>4, <3>5, <3>8 DEF On
    <3>10. Tracks(m, log, c + 1, s, rest)
      BY <3>7, <3>9 DEF Tracks
    <3> QED
      BY <1>4, <3>5, <3>10 DEF m
  <2>4. CASE ~(n.mode = "aborted" /\ x[1] # "sync")
    <3>1. m = [n EXCEPT !.async = "busy"]
      BY <1>4, <2>4 DEF ProcessQueue
    <3>2. Answered(log, c + 1)
      BY <1>1, <2>2, <2>4 DEF Answered
    <3> HIDE DEF m
    <3>3. /\ m \in PGconn /\ SameLine(n, m) /\ m.queue = n.queue /\ m.mode = n.mode
          /\ m.async = "busy"
      BY <3>1 DEF PGconn, SameLine
    <3>4. Ahead(m, log, c, s, rest)
      BY <1>1, <3>3 DEF Ahead, SameLine
    <3>5. On(m, log, c)
      BY <1>1, <2>1, <3>2, <3>3 DEF On
    <3> QED
      BY <1>4, <2>4, <3>3, <3>4, <3>5 DEF Tracks, m
  <2> QED
    BY <2>3, <2>4
<1> QED
  BY <1>3, <1>4
LEMMA AfterGetResultKeeps ==
  ASSUME NEW n \in PGconn, NEW log \in Cmds, NEW c, NEW s \in 0 .. Len(log), NEW rest \in Msgs,
         Tracks(n, log, c, s, rest)
  PROVE  LET m == AfterGetResult(n)
         IN  /\ m \in PGconn /\ SameLine(n, m) /\ m.mode = n.mode
             /\ m.queue = IF n.async = "ready" /\ n.mode # "off" THEN Tail(n.queue) ELSE n.queue
             /\ (Tracks(m, log, c, s, rest) \/ Tracks(m, log, c + 1, s, rest))
             /\ n.async \in {"idle", "busy", "copy"} => m = n
             /\ n.async = "ready" /\ n.mode = "off" => m.async = "busy" /\ Tracks(m, log, c, s, rest)
             /\ n.async = "ready" /\ n.mode # "off" /\ n.result[1] # "sync" => m.async = "pidle"
             /\ \/ n.async = "pidle"
                \/ n.async = "ready" /\ n.mode # "off" /\ n.result[1] = "sync"
                => /\ m.async \in {"idle", "busy", "ready"} /\ (m.async = "idle" <=> m.queue = <<>>)
<1> DEFINE m == AfterGetResult(n)
<1>1. /\ Len(log) \in Nat /\ c \in 0 .. Len(log) /\ Ahead(n, log, c, s, rest)
      /\ n.queue \in Cmds /\ n.mode \in {"off", "on", "aborted"} /\ n.result \in Res
      /\ n.async \in {"idle", "busy", "ready", "copy", "pidle"}
  BY LogTyped DEF Tracks, Ahead, PGconn
<1>2. CASE n.async \in {"idle", "busy", "copy"}
  <2>1. m = n
    BY <1>2 DEF AfterGetResult
  <2> QED
    BY <1>2, <2>1 DEF SameLine
<1>3. CASE n.async = "pidle"
  <2> DEFINE p == ProcessQueue(n)
  <2>1. m = p
    BY <1>3 DEF AfterGetResult
  <2>2. Between(n, log, c, s, rest)
    BY <1>1, <1>3 DEF Tracks, Off, On, Between
  <2>3. /\ p \in PGconn /\ SameLine(n, p) /\ p.queue = n.queue /\ p.mode = n.mode
        /\ (Tracks(p, log, c, s, rest) \/ Tracks(p, log, c + 1, s, rest))
        /\ p.async \in {"idle", "busy", "ready"}
        /\ p.async = "idle" <=> n.queue = <<>>
    BY <2>2, ProcessQueueKeeps
  <2> HIDE DEF p
  <2> QED
    BY <1>3, <2>1, <2>3
<1>4. CASE n.async = "ready" /\ n.mode = "off"
  <2>1. m = [n EXCEPT !.async = "busy"]
    BY <1>4 DEF AfterGetResult
  <2> HIDE DEF m
  <2>2. /\ m \in PGconn /\ SameLine(n, m) /\ m.mode = n.mode /\ m.queue = n.queue
        /\ m.async = "busy"
    BY <2>1 DEF PGconn, SameLine
  <2>3. n.queue = <<>> /\ Asked(log) /\ c = Len(log) - 1
    BY <1>4 DEF Tracks, Off, On
  <2>4. Off(m, log, c) /\ Ahead(m, log, c, s, rest)
    BY <1>1, <1>4, <2>2, <2>3 DEF Off, Ahead, SameLine
  <2> QED
    BY <1>4, <2>2, <2>4 DEF Tracks, m
<1>5. CASE n.async = "ready" /\ n.mode # "off"
  <2> DEFINE u == [n EXCEPT !.queue = Tail(n.queue), !.async = "pidle"]
  <2>1. /\ (n.mode = "aborted" <=> Skipped(log, c + 1))
        /\ c >= 1 /\ Suffix(n.queue, log, c - 1)
    BY <1>5 DEF Tracks, Off, On
  <2>2. c - 1 # Len(log) /\ (c - 1) + 1 = c
    BY <1>1
  <2>3. n.queue # <<>>
    BY <1>1, <2>1, <2>2, SuffixEmpty
  <2>4. Tail(n.queue) \in Cmds /\ Suffix(Tail(n.queue), log, c)
    <3> DEFINE d == c - 1
    <3>1. Suffix(n.queue, log, d) /\ d + 1 = c
      BY <2>1, <2>2
    <3> HIDE DEF d
    <3>2. Suffix(Tail(n.queue), log, d + 1)
      BY <1>1, <2>3, <3>1, SuffixTail
    <3> QED
      BY <1>1, <2>3, <3>1, <3>2, CmdsTyped
  <2>5. m = IF n.result[1] = "sync" THEN ProcessQueue(u) ELSE u
    BY <1>5 DEF AfterGetResult
  <2>6. /\ u \in PGconn /\ SameLine(n, u) /\ u.mode = n.mode /\ u.queue = Tail(n.queue)
        /\ u.async = "pidle"
    BY <2>4 DEF PGconn, SameLine
  <2> HIDE DEF u, m
  <2>7. Ahead(u, log, c, s, rest)
    BY <1>1, <2>6 DEF Ahead, SameLine
  <2>8. On(u, log, c) /\ Between(u, log, c, s, rest)
    BY <1>5, <2>1, <2>4, <2>6, <2>7 DEF On, Between
  <2>9. CASE n.result[1] = "sync"
    <3>1. /\ m \in PGconn /\ SameLine(u, m) /\ m.queue = u.queue /\ m.mode = u.mode
          /\ (Tracks(m, log, c, s, rest) \/ Tracks(m, log, c + 1, s, rest))
          /\ m.async \in {"idle", "busy", "ready"}
          /\ m.async = "idle" <=> u.queue = <<>>
      BY <2>5, <2>6, <2>8, <2>9, ProcessQueueKeeps
    <3>2. SameLine(n, m)
      BY <2>6, <3>1 DEF SameLine
    <3> QED
      BY <1>5, <2>6, <2>9, <3>1, <3>2 DEF m
  <2>10. CASE n.result[1] # "sync"
    <3>1. m = u /\ Tracks(m, log, c, s, rest)
      BY <2>5, <2>7, <2>8, <2>10 DEF Tracks
    <3> QED
      BY <1>5, <2>6, <2>10, <3>1 DEF m
  <2> QED
    BY <2>9, <2>10
<1> QED
  BY <1>1, <1>2, <1>3, <1>4, <1>5

LEMMA CmdsAppend ==
  ASSUME NEW q \in Cmds, NEW x \in Cmd
  PROVE  Append(q, x) = q \o <<x>> /\ Append(q, x) \in Cmds /\ <<x>> \in Cmds /\ Len(<<x>>) = 1
<1>1. <<x>> \in Cmds
  BY OneTyped DEF Cmds
<1>2. Append(q, x) = q \o <<x>> /\ Append(q, x) \in Cmds
  BY DEF Cmds
<1>3. Len(<<x>>) = 1
  OBVIOUS
<1> QED
  BY <1>1, <1>2, <1>3

\* Commands are pushed: the log grows.
LEMMA PushCommandKeeps ==
  ASSUME NEW n \in PGconn, n.mode # "off", NEW x \in Cmd, NEW log \in Cmds, NEW c,
         NEW s \in 0 .. Len(log), NEW rest \in Msgs, Tracks(n, log, c, s, rest)
  PROVE  LET m == PushCommand(n, x)
         IN  /\ m \in PGconn /\ m.mode = n.mode /\ m.inbuf = n.inbuf /\ m.notifies = n.notifies
             /\ m.out = Append(n.out, x) /\ m.queue = Append(n.queue, x)
             /\ (Tracks(m, log \o <<x>>, c, s, rest) \/ Tracks(m, log \o <<x>>, c + 1, s, rest))
             /\ n.async \in {"busy", "ready", "copy"} => m.async = n.async
             /\ n.async = "pidle" /\ n.mode = "on" => m.async = "pidle"
             /\ n.async = "idle" /\ n.mode = "on" => m.async = "busy"
             /\ n.async = "idle" /\ n.mode = "aborted" /\ x[1] # "sync" => m.async = "ready"
<1> DEFINE m == PushCommand(n, x)
           big == log \o <<x>>
           u == [n EXCEPT !.queue = Append(n.queue, x), !.out = Append(n.out, x)]
<1>1. /\ Len(log) \in Nat /\ c \in 0 .. Len(log) /\ Ahead(n, log, c, s, rest)
      /\ n.queue \in Cmds /\ n.out \in Cmds /\ n.mode \in {"on", "aborted"}
      /\ n.async \in {"idle", "busy", "ready", "copy", "pidle"}
  BY LogTyped DEF Tracks, Ahead, PGconn
<1>2. /\ Append(n.queue, x) = n.queue \o <<x>> /\ Append(n.queue, x) \in Cmds
      /\ Append(n.out, x) \in Cmds /\ <<x>> \in Cmds /\ Len(<<x>>) = 1
  BY <1>1, CmdsAppend
<1>3. big \in Cmds /\ Len(big) = Len(log) + 1 /\ Begins(big, log, Len(log))
  <2>1. /\ log \o <<x>> \in Cmds /\ Len(log \o <<x>>) = Len(log) + Len(<<x>>)
        /\ \A p \in 1 .. Len(log) : (log \o <<x>>)[p] = log[p]
    BY <1>2, LongerLog
  <2> QED
    BY <1>2, <2>1 DEF Begins
<1>4. Ahead(n, big, c, s, rest)
  BY <1>1, <1>2, AheadLonger
<1>5. \A d : Suffix(n.queue, log, d) => Suffix(Append(n.queue, x), big, d)
  BY <1>1, <1>2, SuffixAppend
<1>6. /\ \A p \in 1 .. Len(log) + 1 : Skipped(big, p) <=> Skipped(log, p)
      /\ \A p \in 1 .. Len(log) : /\ Answered(big, p) <=> Answered(log, p)
                                  /\ Status(big, p) = Status(log, p) /\ Answer(big, p) = Answer(log, p)
  BY <1>1, <1>3, SkippedPrefix, AnswerPrefix
<1>7. /\ u \in PGconn /\ u.mode = n.mode /\ u.inbuf = n.inbuf /\ u.notifies = n.notifies
      /\ u.out = Append(n.out, x) /\ u.queue = Append(n.queue, x)
      /\ u.async = n.async /\ u.result = n.result
  BY <1>2 DEF PGconn
<1>8. m = CASE n.mode = "aborted" /\ n.async \in {"idle", "pidle"} -> ProcessQueue(u)
            [] n.mode = "on" /\ n.async = "idle" -> [u EXCEPT !.async = "busy"]
            [] OTHER -> u
  BY DEF PushCommand
<1>9. On(n, log, c) /\ (n.mode = "aborted" <=> Skipped(big, c + 1))
  <2>1. On(n, log, c)
    BY DEF Tracks, Off
  <2>2. c + 1 \in 1 .. Len(log) + 1
    BY <1>1
  <2> QED
    BY <1>6, <2>1, <2>2 DEF On
<1> HIDE DEF u, m, big
<1>10. Ahead(u, big, c, s, rest)
  BY <1>4, <1>7 DEF Ahead
<1>11. CASE n.async \in {"idle", "pidle"}
  <2>1. Suffix(n.queue, log, c)
    BY <1>9, <1>11, SuffixOfAll DEF On
  <2>2. Suffix(u.queue, big, c)
    BY <1>5, <1>7, <2>1
  <2>3. s \in 0 .. Len(big)
    BY <1>1, <1>3
  <2>4. Between(u, big, c, s, rest)
    BY <1>7, <1>9, <1>10, <2>2 DEF Between
  <2>5. CASE n.mode = "aborted"
    <3>1. m = ProcessQueue(u)
      BY <1>8, <1>11, <2>5
    <3>2. /\ m \in PGconn /\ SameLine(u, m) /\ m.queue = u.queue /\ m.mode = u.mode
          /\ (Tracks(m, big, c, s, rest) \/ Tracks(m, big, c + 1, s, rest))
          /\ u.queue # <<>> /\ u.mode = "aborted" /\ Head(u.queue)[1] # "sync" => m.async = "ready"
      BY <1>3, <1>7, <2>3, <2>4, <3>1, ProcessQueueKeeps
    <3>3. n.async = "idle" => u.queue # <<>> /\ Head(u.queue) = x
      <4>1. Append(<<>>, x) # <<>> /\ Head(Append(<<>>, x)) = x
        OBVIOUS
      <4>2. n.async = "idle" => n.queue = <<>>
        BY <1>9 DEF On
      <4> QED
        BY <1>7, <4>1, <4>2
    <3> QED
      BY <1>7, <1>11, <2>5, <3>2, <3>3 DEF SameLine, m, big
  <2>6. CASE n.mode = "on" /\ n.async = "pidle"
    <3>1. m = u
      BY <1>8, <2>6
    <3>2. On(u, big, c)
      BY <1>7, <1>9, <2>2, <2>6 DEF On
    <3> QED
      BY <1>7, <1>10, <2>6, <3>1, <3>2 DEF Tracks, m, big
  <2>7. CASE n.mode = "on" /\ n.async = "idle"
    <3>1. m = [u EXCEPT !.async = "busy"]
      BY <1>8, <2>7
    <3>2. /\ m \in PGconn /\ m.mode = u.mode /\ m.inbuf = u.inbuf /\ m.notifies = u.notifies
          /\ m.out = u.out /\ m.queue = u.queue /\ m.async = "busy"
      BY <1>7, <3>1 DEF PGconn
    <3>3. c < Len(big) /\ Answered(big, c + 1)
      BY <1>1, <1>3, <1>9, <2>7 DEF Answered
    <3>4. On(m, big, c) /\ Ahead(m, big, c, s, rest)
      BY <1>7, <1>9, <1>10, <2>2, <2>7, <3>2, <3>3 DEF On, Ahead
    <3> QED
      BY <1>7, <2>7, <3>2, <3>4 DEF Tracks, m, big
  <2> QED
    BY <1>1, <1>11, <2>5, <2>6, <2>7
<1>12. CASE n.async \in {"busy", "ready", "copy"}
  <2>1. m = u
    BY <1>8, <1>12
  <2>2. On(u, big, c)
    <3>1. CASE n.async = "busy"
      <4>1. Suffix(n.queue, log, c) /\ c < Len(log) /\ Answered(log, c + 1)
        BY <1>9, <3>1 DEF On
      <4>2. c + 1 \in 1 .. Len(log) /\ c < Len(big)
        BY <1>1, <1>3, <4>1
      <4> QED
        BY <1>5, <1>6, <1>7, <1>9, <3>1, <4>1, <4>2 DEF On
    <3>2. CASE n.async \in {"ready", "copy"}
      <4>1. /\ c >= 1 /\ Suffix(n.queue, log, c - 1)
            /\ n.result = Answer(log, c) /\ (n.async = "copy" <=> Status(log, c) = "copy")
        BY <1>9, <3>2 DEF On
      <4>2. c \in 1 .. Len(log)
        BY <1>1, <4>1
      <4> QED
        BY <1>5, <1>6, <1>7, <1>9, <3>2, <4>1, <4>2 DEF On
    <3> QED
      BY <1>12, <3>1, <3>2
  <2> QED
    BY <1>7, <1>10, <1>12, <2>1, <2>2 DEF Tracks, m, big
<1> QED
  BY <1>1, <1>11, <1>12
LEMMA PushCommandTyped ==
  ASSUME NEW n \in PGconn, NEW x \in Cmd
  PROVE  PushCommand(n, x) \in PGconn
<1> DEFINE u == [n EXCEPT !.queue = Append(n.queue, x), !.out = Append(n.out, x)]
           y == Head(u.queue)
<1>1. n.queue \in Cmds /\ n.out \in Cmds
  BY DEF PGconn
<1>2. Append(n.queue, x) \in Cmds /\ Append(n.out, x) \in Cmds
  BY <1>1, CmdsAppend
<1>3. u \in PGconn /\ u.queue \in Cmds
  BY <1>2 DEF PGconn
<1>4. \/ PushCommand(n, x) = ProcessQueue(u)
      \/ PushCommand(n, x) = [u EXCEPT !.async = "busy"]
      \/ PushCommand(n, x) = u
  BY DEF PushCommand
<1> HIDE DEF u
<1>5. \/ ProcessQueue(u) = [u EXCEPT !.async = "idle"]
      \/ u.queue # <<>> /\ ProcessQueue(u) = [u EXCEPT !.async = "ready", !.result = <<"aborted", y[2], y[3]>>]
      \/ ProcessQueue(u) = [u EXCEPT !.async = "busy"]
  BY DEF ProcessQueue
<1>6. u.queue # <<>> => <<"aborted", y[2], y[3]>> \in Res
  <2>1. u.queue # <<>> => y \in Cmd
    BY <1>3, CmdsTyped
  <2> QED
    BY <2>1 DEF Cmd, Res
<1> HIDE DEF y
<1>7. ProcessQueue(u) \in PGconn
  BY <1>3, <1>5, <1>6 DEF PGconn
<1>8. [u EXCEPT !.async = "busy"] \in PGconn
  BY <1>3 DEF PGconn
<1> QED
  BY <1>3, <1>4, <1>7, <1>8

\* The first k commands of a sequence.
First(cs, k) == SubSeq(cs, 1, k)

LEMMA FirstNext ==
  ASSUME NEW cs \in Cmds
  PROVE  /\ First(cs, 0) = <<>> /\ First(cs, Len(cs)) = cs
         /\ \A k \in 0 .. Len(cs) : First(cs, k) \in Cmds
         /\ \A k \in 0 .. Len(cs) - 1 : /\ cs[k + 1] \in Cmd
                                        /\ First(cs, k + 1) = First(cs, k) \o <<cs[k + 1]>>
<1>1. \A k \in 0 .. Len(cs) : First(cs, k) \in Cmds
  BY DEF Cmds, First
<1>2. First(cs, 0) = <<>> /\ First(cs, Len(cs)) = cs
  BY DEF Cmds, First
<1>3. ASSUME NEW k \in 0 .. Len(cs) - 1
      PROVE  cs[k + 1] \in Cmd /\ First(cs, k + 1) = First(cs, k) \o <<cs[k + 1]>>
  <2>1. Len(cs) \in Nat /\ k \in Nat /\ k + 1 \in 1 .. Len(cs)
    BY DEF Cmds
  <2>2. cs[k + 1] \in Cmd
    BY <2>1 DEF Cmds
  <2>3. SubSeq(cs, 1, k + 1) = SubSeq(cs, 1, k) \o <<cs[k + 1]>>
    BY <2>1, <2>2 DEF Cmds
  <2> QED
    BY <2>2, <2>3 DEF First
<1> QED
  BY <1>1, <1>2, <1>3

LEMMA CmdsAssociate ==
  ASSUME NEW p \in Cmds, NEW q \in Cmds, NEW x \in Cmd
  PROVE  (p \o q) \o <<x>> = p \o (q \o <<x>>) /\ p \o <<>> = p /\ Append(p \o q, x) = p \o (q \o <<x>>)
<1>1. p \o q \in Cmds /\ <<x>> \in Cmds
  BY CmdsAppend, LongerLog
<1>2. p \o <<>> = p
  BY DEF Cmds
<1>3. Append(p \o q, x) = (p \o q) \o <<x>>
  BY <1>1, CmdsAppend
<1>4. (p \o q) \o <<x>> = p \o (q \o <<x>>)
  <2> DEFINE o == <<x>>
  <2>1. p \in Seq(Cmd) /\ q \in Seq(Cmd) /\ o \in Seq(Cmd)
    BY <1>1 DEF Cmds
  <2> HIDE DEF o
  <2> QED
    BY ONLY <2>1
<1> QED
  BY <1>2, <1>3, <1>4

LEMMA PushIsRecursive ==
  ASSUME NEW n \in PGconn, NEW cs \in Cmds
  PROVE  \E push \in [0 .. Len(cs) -> PGconn] :
           /\ Push(n, cs) = push[Len(cs)]
           /\ push[0] = n
           /\ \A i \in 1 .. Len(cs) : push[i] = PushCommand(push[i - 1], cs[i])
<1> DEFINE len == Len(cs)
           G == [xx \in PGconn \X (1 .. len) |-> PushCommand(xx[1], cs[xx[2]])]
           Body(f) == [i \in 0 .. len |-> IF i = 0 THEN n ELSE PushCommand(f[i - 1], cs[i])]
           push == CHOOSE f : f = Body(f)
<1>1. Push(n, cs) = push[len]
  BY DEF Push
<1>2. len \in Nat /\ \A i \in 1 .. len : cs[i] \in Cmd
  BY DEF Cmds
<1>3. G \in [PGconn \X (1 .. len) -> PGconn]
  BY <1>2, PushCommandTyped
<1>4. PICK g \in [0 .. len -> PGconn] : Follows(g, len, n, G)
  <2> HIDE DEF len, G
  <2> QED
    BY <1>2, <1>3, RecursiveFunction
<1>5. ASSUME NEW i \in 1 .. len
      PROVE  g[i] = PushCommand(g[i - 1], cs[i])
  <2>1. i - 1 \in 0 .. len
    BY <1>2
  <2>2. g[i] = G[<<g[i - 1], i>>] /\ g[i - 1] \in PGconn
    BY <1>4, <2>1 DEF Follows
  <2> QED
    BY <2>2
<1> HIDE DEF len, G
<1>6. g = Body(g)
  <2>1. ASSUME NEW i \in 0 .. len
        PROVE  g[i] = IF i = 0 THEN n ELSE PushCommand(g[i - 1], cs[i])
    <3>1. i # 0 => i \in 1 .. len
      BY <1>2
    <3> QED
      BY <1>4, <1>5, <3>1 DEF Follows
  <2>2. g = [i \in 0 .. len |-> g[i]]
    OBVIOUS
  <2> QED
    BY <2>1, <2>2
<1>7. push = Body(push)
  BY <1>6
<1> HIDE DEF push
<1>8. \A i \in 0 .. len : push[i] = IF i = 0 THEN n ELSE PushCommand(push[i - 1], cs[i])
  BY <1>7
<1>9. push[0] = n /\ \A i \in 1 .. len : push[i] = PushCommand(push[i - 1], cs[i])
  BY <1>2, <1>8
<1>10. push \in [0 .. len -> PGconn]
  <2> DEFINE S == {k \in Nat : k <= len => push[k] \in PGconn}
  <2>1. 0 \in S
    BY <1>9
  <2>2. ASSUME NEW k \in S PROVE k + 1 \in S
    <3> SUFFICES ASSUME k + 1 <= len PROVE push[k + 1] \in PGconn
      OBVIOUS
    <3>1. k + 1 \in 1 .. len /\ (k + 1) - 1 = k /\ push[k] \in PGconn
      BY <1>2
    <3>2. push[k + 1] = PushCommand(push[k], cs[k + 1])
      BY <1>9, <3>1
    <3> QED
      BY <1>2, <3>1, <3>2, PushCommandTyped
  <2>3. S = Nat
    <3>1. S \in SUBSET Nat
      OBVIOUS
    <3> HIDE DEF S
    <3> QED
      BY <2>1, <2>2, <3>1, SetInduction
  <2>4. \A k \in 0 .. len : push[k] \in PGconn
    BY <1>2, <2>3
  <2> QED
    BY <1>7, <2>4
<1> QED
  BY <1>1, <1>9, <1>10 DEF len

LEMMA PushNext ==
  ASSUME NEW u \in PGconn, u.mode # "off", NEW x \in Cmd, NEW lg \in Cmds,
         NEW s \in 0 .. Len(lg), NEW rest \in Msgs, Follow(u, lg, s, rest)
  PROVE  LET m == PushCommand(u, x)
         IN  /\ m.mode = u.mode /\ m.inbuf = u.inbuf /\ m.notifies = u.notifies
             /\ m.out = u.out \o <<x>> /\ m.queue = u.queue \o <<x>>
             /\ Follow(m, lg \o <<x>>, s, rest)
             /\ u.async = "busy" => m.async = "busy"
             /\ u.async = "idle" /\ u.mode = "on" => m.async = "busy"
<1> DEFINE m == PushCommand(u, x)
           big == lg \o <<x>>
<1>1. PICK d \in Nat : Tracks(u, lg, d, s, rest)
  BY DEF Follow
<1>2. /\ m.mode = u.mode /\ m.inbuf = u.inbuf /\ m.notifies = u.notifies
      /\ m.out = Append(u.out, x) /\ m.queue = Append(u.queue, x)
      /\ (Tracks(m, big, d, s, rest) \/ Tracks(m, big, d + 1, s, rest))
      /\ u.async = "busy" => m.async = "busy"
      /\ u.async = "idle" /\ u.mode = "on" => m.async = "busy"
  BY <1>1, PushCommandKeeps
<1>3. big \in Cmds
  BY CmdsAppend, LongerLog
<1>4. Append(u.out, x) = u.out \o <<x>> /\ Append(u.queue, x) = u.queue \o <<x>>
  <2>1. u.out \in Cmds /\ u.queue \in Cmds
    BY DEF PGconn
  <2> QED
    BY <2>1, CmdsAppend
<1> HIDE DEF m, big
<1>5. Follow(m, big, s, rest)
  BY <1>2, <1>3, TracksFollows
<1> QED
  BY <1>2, <1>4, <1>5 DEF m, big

LEMMA PushKeeps ==
  ASSUME NEW n \in PGconn, n.mode # "off", NEW cs \in Cmds, NEW log \in Cmds,
         NEW s \in 0 .. Len(log), NEW rest \in Msgs, Follow(n, log, s, rest)
  PROVE  LET m == Push(n, cs)
         IN  /\ m \in PGconn /\ m.mode = n.mode /\ m.inbuf = n.inbuf /\ m.notifies = n.notifies
             /\ m.out = n.out \o cs /\ m.queue = n.queue \o cs
             /\ Follow(m, log \o cs, s, rest)
             /\ n.async = "idle" /\ n.mode = "on" /\ cs # <<>> => m.async = "busy"
<1> DEFINE len == Len(cs)
<1>1. PICK push \in [0 .. len -> PGconn] :
        /\ Push(n, cs) = push[len]
        /\ push[0] = n
        /\ \A i \in 1 .. len : push[i] = PushCommand(push[i - 1], cs[i])
  BY PushIsRecursive
<1>2. len \in Nat /\ n.out \in Cmds /\ n.queue \in Cmds /\ n.mode \in {"on", "aborted"} /\ Len(log) \in Nat
  BY LogTyped DEF Cmds, PGconn
<1> DEFINE Ok(k) == /\ push[k].mode = n.mode /\ push[k].inbuf = n.inbuf
                    /\ push[k].notifies = n.notifies
                    /\ push[k].out = n.out \o First(cs, k)
                    /\ push[k].queue = n.queue \o First(cs, k)
                    /\ Follow(push[k], log \o First(cs, k), s, rest)
                    /\ n.async = "idle" /\ n.mode = "on" =>
                         IF k = 0 THEN push[k].async = "idle" ELSE push[k].async = "busy"
           S == {k \in Nat : k <= len => Ok(k)}
<1> HIDE DEF len, Ok
<1>3. 0 \in S
  <2>1. First(cs, 0) = <<>>
    BY FirstNext
  <2>2. n.out \o <<>> = n.out /\ n.queue \o <<>> = n.queue /\ log \o <<>> = log
    BY <1>2 DEF Cmds
  <2>3. Ok(0)
    BY <1>1, <2>1, <2>2 DEF Ok
  <2> QED
    BY <2>3
<1>4. ASSUME NEW k \in S PROVE k + 1 \in S
  <2> SUFFICES ASSUME k + 1 <= len PROVE Ok(k + 1)
    OBVIOUS
  <2> DEFINE u == push[k]
             x == cs[k + 1]
             f == First(cs, k)
             lg == log \o f
             m == push[k + 1]
  <2>1. k \in Nat /\ k + 1 \in 1 .. len /\ (k + 1) - 1 = k /\ k <= len /\ k \in 0 .. len /\ k \in 0 .. len - 1
    BY <1>2
  <2>2. u \in PGconn /\ m = PushCommand(u, x)
    <3>2. u \in PGconn
      BY <1>1, <2>1
    <3>3. m = PushCommand(u, x)
      BY <1>1, <2>1
    <3> QED
      BY <3>2, <3>3
  <2>3. x \in Cmd /\ f \in Cmds /\ First(cs, k + 1) = f \o <<x>>
    BY <2>1, FirstNext DEF len
  <2>4. Follow(u, lg, s, rest)
    BY <2>1 DEF Ok
  <2>5. u.mode # "off" /\ u.mode = n.mode
    BY <2>1 DEF Ok
  <2>6. u.out = n.out \o f /\ u.queue = n.queue \o f /\ u.inbuf = n.inbuf /\ u.notifies = n.notifies
    BY <2>1 DEF Ok
  <2>7. n.async = "idle" /\ n.mode = "on" => IF k = 0 THEN u.async = "idle" ELSE u.async = "busy"
    BY <2>1 DEF Ok
  <2> DEFINE p == PushCommand(u, x)
             o == n.out \o f
             q == n.queue \o f
  <2>8. lg \in Cmds /\ s \in 0 .. Len(lg)
    <3>1. lg \in Cmds /\ Len(lg) = Len(log) + Len(f) /\ Len(f) \in Nat /\ Len(log) \in Nat
      BY <2>3, LongerLog, LogTyped
    <3> QED
      BY <3>1
  <2>9. p = m
    BY <2>2
  <2>10. /\ lg \o <<x>> = log \o (f \o <<x>>)
         /\ o \o <<x>> = n.out \o (f \o <<x>>)
         /\ q \o <<x>> = n.queue \o (f \o <<x>>)
    <3> HIDE DEF x, f
    <3>1. lg \o <<x>> = log \o (f \o <<x>>)
      BY <2>3, CmdsAssociate
    <3>2. o \o <<x>> = n.out \o (f \o <<x>>)
      BY <1>2, <2>3, CmdsAssociate
    <3>3. q \o <<x>> = n.queue \o (f \o <<x>>)
      BY <1>2, <2>3, CmdsAssociate
    <3> QED
      BY <3>1, <3>2, <3>3
  <2> HIDE DEF u, x, f, m, lg, o, q
  <2>11. /\ p.mode = u.mode /\ p.inbuf = u.inbuf /\ p.notifies = u.notifies
         /\ p.out = u.out \o <<x>> /\ p.queue = u.queue \o <<x>>
         /\ Follow(p, lg \o <<x>>, s, rest)
         /\ u.async = "busy" => p.async = "busy"
         /\ u.async = "idle" /\ u.mode = "on" => p.async = "busy"
    BY <2>2, <2>3, <2>4, <2>5, <2>8, PushNext
  <2> HIDE DEF p
  <2>12. n.async = "idle" /\ n.mode = "on" => m.async = "busy"
    BY <2>5, <2>7, <2>9, <2>11
  <2>13. k + 1 # 0
    BY <2>1
  <2>14. u.out = o /\ u.queue = q
    BY <2>6 DEF o, q
  <2> DEFINE h == f \o <<x>>
  <2>15. /\ m.mode = n.mode /\ m.inbuf = n.inbuf /\ m.notifies = n.notifies
         /\ m.out = n.out \o h /\ m.queue = n.queue \o h /\ Follow(m, log \o h, s, rest)
         /\ First(cs, k + 1) = h
    BY <2>3, <2>5, <2>6, <2>9, <2>10, <2>11, <2>14
  <2> HIDE DEF h
  <2> QED
    BY <2>12, <2>13, <2>15 DEF m, Ok
<1>5. S = Nat
  <2>1. S \in SUBSET Nat
    OBVIOUS
  <2> HIDE DEF S
  <2> QED
    BY <1>3, <1>4, <2>1, SetInduction
<1>6. Ok(len)
  BY <1>2, <1>5
<1>7. First(cs, len) = cs
  BY FirstNext DEF len
<1>8. push[len] \in PGconn
  BY <1>1, <1>2
<1>9. cs # <<>> => len # 0
  BY DEF Cmds, len
<1> HIDE DEF S
<1> QED
  BY <1>1, <1>6, <1>7, <1>8, <1>9 DEF Ok
\* A single command.
LEMMA PushOne ==
  ASSUME NEW n \in PGconn, NEW x \in Cmd
  PROVE  Push(n, <<x>>) = PushCommand(n, x)
<1> DEFINE cs == <<x>>
<1>1. cs \in Cmds /\ Len(cs) = 1 /\ cs[1] = x
  BY CmdsAppend DEF Cmds
<1> HIDE DEF cs
<1>2. PICK push \in [0 .. Len(cs) -> PGconn] :
        /\ Push(n, cs) = push[Len(cs)]
        /\ push[0] = n
        /\ \A i \in 1 .. Len(cs) : push[i] = PushCommand(push[i - 1], cs[i])
  BY <1>1, PushIsRecursive
<1>3. 1 \in 1 .. Len(cs) /\ 1 - 1 = 0
  BY <1>1
<1>4. push[1] = PushCommand(push[0], cs[1])
  BY <1>2, <1>3
<1> QED
  BY <1>1, <1>2, <1>4 DEF cs

-----------------------------------------------------------------------------
(* The commands of a pipeline *)

Item == {"ok", "fail", "copy"}
Items == Seq(Item)
Operation == [what : {"pipeline", "query"}, items : Items, thrown : Bool]
Operations == Seq(Operation)

\* They stand in the log after the first b commands, and nowhere else.
Block(log, i, o, b) ==
  /\ b \in Nat /\ b + (Size(o) + 1) <= Len(log)
  /\ \A j \in 1 .. Size(o) + 1 : log[b + j] = Commands(i, o)[j]
  /\ \A p \in 1 .. Len(log) : log[p][2] = i => p \in b + 1 .. b + (Size(o) + 1)

LEMMA OperationTyped ==
  ASSUME NEW o \in Operation
  PROVE  /\ Len(o.items) \in Nat /\ DOMAIN o.items = 1 .. Len(o.items) /\ Size(o) \in Nat
         /\ \A j \in 1 .. Len(o.items) : o.items[j] \in Item
         /\ o.thrown => Size(o) = Len(o.items) + 1
         /\ ~o.thrown => Size(o) = Len(o.items)
<1>1. /\ Len(o.items) \in Nat /\ DOMAIN o.items = 1 .. Len(o.items)
      /\ \A j \in 1 .. Len(o.items) : o.items[j] \in Item
  BY DEF Operation, Items
<1>2. o.thrown => Size(o) = Len(o.items) + 1
  BY <1>1 DEF Size
<1>3. ~o.thrown => Size(o) = Len(o.items)
  BY <1>1 DEF Size
<1>4. Size(o) \in Nat
  BY <1>1, <1>2, <1>3
<1> QED
  BY <1>1, <1>2, <1>3, <1>4

LEMMA CommandsTyped ==
  ASSUME NEW i \in Nat, NEW o \in Operation
  PROVE  LET cs == Commands(i, o)
         IN  /\ cs \in Cmds /\ Len(cs) = Size(o) + 1
             /\ \A j \in 1 .. Len(o.items) : cs[j] = <<o.items[j], i, j>>
             /\ o.thrown => cs[Size(o)] = <<"rollback", i, Size(o)>>
             /\ cs[Size(o) + 1] = <<"sync", i, 0>>
<1> DEFINE len == Len(o.items)
           size == Size(o)
           F(j) == <<o.items[j], i, j>>
           a == [j \in DOMAIN o.items |-> <<o.items[j], i, j>>]
           r == <<"rollback", i, size>>
           y == <<"sync", i, 0>>
           b == IF o.thrown THEN <<r>> ELSE <<>>
           cs == Commands(i, o)
<1>1. /\ len \in Nat /\ DOMAIN o.items = 1 .. len /\ size \in Nat
      /\ \A j \in 1 .. len : o.items[j] \in Item
      /\ o.thrown => size = len + 1
      /\ ~o.thrown => size = len
  BY OperationTyped
<1>2. \A j \in 1 .. len : F(j) \in Cmd
  BY <1>1 DEF Cmd, Item
<1>3. r \in Cmd /\ y \in Cmd
  BY <1>1 DEF Cmd
<1>4. a \in Cmds /\ Len(a) = len /\ \A j \in 1 .. len : a[j] = F(j)
  <2>1. a = [j \in 1 .. len |-> F(j)]
    BY <1>1
  <2> HIDE DEF len, F, a
  <2> QED
    BY <1>1, <1>2, <2>1 DEF Cmds
<1>5. cs = (a \o b) \o <<y>>
  BY DEF Commands
<1> HIDE DEF len, size, F, a, r, y, cs
<1>6. <<r>> \in Cmds /\ Len(<<r>>) = 1 /\ <<r>>[1] = r /\ <<y>> \in Cmds /\ Len(<<y>>) = 1 /\ <<y>>[1] = y
  BY <1>3, CmdsAppend DEF Cmds
<1>7. CASE o.thrown
  <2>1. b = <<r>>
    BY <1>7
  <2>2. /\ a \o <<r>> \in Cmds /\ Len(a \o <<r>>) = len + 1
        /\ \A j \in 1 .. len : (a \o <<r>>)[j] = a[j]
        /\ (a \o <<r>>)[len + 1] = r
    <3>1. /\ a \o <<r>> \in Cmds /\ Len(a \o <<r>>) = Len(a) + Len(<<r>>)
          /\ \A j \in 1 .. Len(a) : (a \o <<r>>)[j] = a[j]
          /\ \A x \in 1 .. Len(<<r>>) : (a \o <<r>>)[Len(a) + x] = <<r>>[x]
      BY <1>4, <1>6, LongerLog
    <3>2. 1 \in 1 .. Len(<<r>>)
      BY <1>6
    <3> QED
      BY <1>4, <1>6, <3>1, <3>2
  <2> DEFINE d == a \o <<r>>
  <2> HIDE DEF d
  <2>3. d \in Cmds /\ Len(d) = len + 1 /\ (\A j \in 1 .. len : d[j] = a[j]) /\ d[len + 1] = r
    BY <2>2 DEF d
  <2>4. /\ d \o <<y>> \in Cmds /\ Len(d \o <<y>>) = Len(d) + Len(<<y>>)
        /\ \A j \in 1 .. Len(d) : (d \o <<y>>)[j] = d[j]
        /\ \A x \in 1 .. Len(<<y>>) : (d \o <<y>>)[Len(d) + x] = <<y>>[x]
    BY <1>6, <2>3, LongerLog
  <2>5. 1 \in 1 .. Len(<<y>>) /\ size = len + 1 /\ size \in 1 .. Len(d) /\ \A j \in 1 .. len : j \in 1 .. Len(d)
    BY <1>1, <1>6, <1>7, <2>3
  <2>6. cs = d \o <<y>>
    BY <1>5, <2>1 DEF d
  <2>7. cs \in Cmds /\ Len(cs) = size + 1 /\ cs[size + 1] = y
    BY <1>6, <2>3, <2>4, <2>5, <2>6
  <2>8. cs[size] = r /\ \A j \in 1 .. len : cs[j] = F(j)
    BY <1>4, <2>3, <2>4, <2>5, <2>6
  <2> QED
    BY <2>7, <2>8 DEF cs, size, len, F, r, y
<1>8. CASE ~o.thrown
  <2>1. b = <<>> /\ size = len
    BY <1>1, <1>8
  <2>2. a \o b = a
    BY <1>4, <2>1 DEF Cmds
  <2>3. cs = a \o <<y>>
    BY <1>5, <2>2
  <2>4. /\ a \o <<y>> \in Cmds /\ Len(a \o <<y>>) = Len(a) + Len(<<y>>)
        /\ \A j \in 1 .. Len(a) : (a \o <<y>>)[j] = a[j]
        /\ \A x \in 1 .. Len(<<y>>) : (a \o <<y>>)[Len(a) + x] = <<y>>[x]
    BY <1>4, <1>6, LongerLog
  <2>5. 1 \in 1 .. Len(<<y>>)
    BY <1>6
  <2>6. cs \in Cmds /\ Len(cs) = size + 1 /\ cs[size + 1] = y /\ \A j \in 1 .. len : cs[j] = F(j)
    BY <1>4, <1>6, <2>1, <2>3, <2>4, <2>5
  <2> QED
    BY <1>8, <2>6 DEF cs, size, len, F, y
<1> QED
  BY <1>7, <1>8

LEMMA BlockKinds ==
  ASSUME NEW i \in Nat, NEW o \in Operation, NEW log \in Cmds, NEW b, Block(log, i, o, b)
  PROVE  /\ b \in Nat /\ Size(o) \in Nat
         /\ \A j \in 1 .. Size(o) + 1 : b + j \in 1 .. Len(log) /\ log[b + j][2] = i
         /\ \A j \in 1 .. Size(o) : Kind(log, b + j) # "sync" /\ Called(log, b + j) = <<i, j>>
         /\ \A j \in 1 .. Len(o.items) : j \in 1 .. Size(o) /\ Kind(log, b + j) = o.items[j]
         /\ o.thrown => Size(o) \in 1 .. Size(o) /\ Kind(log, b + Size(o)) = "rollback"
         /\ Kind(log, b + (Size(o) + 1)) = "sync"
<1> DEFINE cs == Commands(i, o)
           size == Size(o)
           len == Len(o.items)
<1>1. /\ len \in Nat /\ size \in Nat
      /\ \A j \in 1 .. len : o.items[j] \in Item
      /\ o.thrown => size = len + 1
      /\ ~o.thrown => size = len
  BY OperationTyped
<1>2. /\ \A j \in 1 .. len : cs[j] = <<o.items[j], i, j>>
      /\ o.thrown => cs[size] = <<"rollback", i, size>>
      /\ cs[size + 1] = <<"sync", i, 0>>
  BY CommandsTyped
<1>3. /\ b \in Nat /\ b + (size + 1) <= Len(log) /\ Len(log) \in Nat
      /\ \A j \in 1 .. size + 1 : log[b + j] = cs[j]
  BY LogTyped DEF Block
<1> HIDE DEF cs, size, len
<1>4. \A j \in 1 .. size + 1 : b + j \in 1 .. Len(log)
  BY <1>1, <1>3
<1>5. \A j \in 1 .. len : j \in 1 .. size /\ j \in 1 .. size + 1
  BY <1>1
<1>6. o.thrown => size \in 1 .. size /\ size \in 1 .. size + 1
  BY <1>1
<1>7. \A j \in 1 .. size : j \in 1 .. len \/ (o.thrown /\ j = size)
  BY <1>1
<1>8. size + 1 \in 1 .. size + 1 /\ \A j \in 1 .. size + 1 : j \in 1 .. size \/ j = size + 1
  BY <1>1
<1>9. ASSUME NEW j \in 1 .. len
      PROVE  /\ Kind(log, b + j) = o.items[j] /\ Kind(log, b + j) # "sync"
             /\ Called(log, b + j) = <<i, j>> /\ log[b + j][2] = i
  <2>1. log[b + j] = <<o.items[j], i, j>>
    BY <1>2, <1>3, <1>5
  <2>2. o.items[j] # "sync"
    BY <1>1 DEF Item
  <2> QED
    BY <2>1, <2>2 DEF Kind, Called
<1>10. o.thrown => /\ Kind(log, b + size) = "rollback" /\ Called(log, b + size) = <<i, size>>
                   /\ log[b + size][2] = i
  BY <1>2, <1>3, <1>6 DEF Kind, Called
<1>11. Kind(log, b + (size + 1)) = "sync" /\ log[b + (size + 1)][2] = i
  BY <1>2, <1>3, <1>8 DEF Kind
<1>12. \A j \in 1 .. size : /\ Kind(log, b + j) # "sync" /\ Called(log, b + j) = <<i, j>>
                            /\ log[b + j][2] = i
  BY <1>7, <1>9, <1>10
<1> QED
  BY <1>1, <1>3, <1>4, <1>5, <1>6, <1>8, <1>9, <1>10, <1>11, <1>12 DEF size, len
\* Between two syncs an error has everything after it skipped.
LEMMA SkippedWithin ==
  ASSUME NEW log, NEW b \in Nat, NEW size \in Nat, \A j \in 1 .. size : Kind(log, b + j) # "sync",
         NEW x \in 1 .. size + 1, NEW y \in 1 .. size + 1, x < y,
         Skipped(log, b + x) \/ Kind(log, b + x) = "fail"
  PROVE  Skipped(log, b + y)
<1>1. \A p \in b + x .. (b + y) - 1 : p - b \in 1 .. size /\ b + (p - b) = p
  OBVIOUS
<1>2. \A p \in b + x .. (b + y) - 1 : Kind(log, p) # "sync"
  BY <1>1
<1>3. CASE Skipped(log, b + x)
  <2>1. PICK k \in 1 .. (b + x) - 1 : /\ Kind(log, k) = "fail"
                                      /\ \A j \in k + 1 .. (b + x) - 1 : Kind(log, j) # "sync"
    BY <1>3 DEF Skipped
  <2>2. /\ k \in 1 .. (b + y) - 1
        /\ \A j \in k + 1 .. (b + y) - 1 : j \in k + 1 .. (b + x) - 1 \/ j \in b + x .. (b + y) - 1
    OBVIOUS
  <2> QED
    BY <1>2, <2>1, <2>2 DEF Skipped
<1>4. CASE Kind(log, b + x) = "fail"
  <2>1. /\ b + x \in 1 .. (b + y) - 1
        /\ \A j \in (b + x) + 1 .. (b + y) - 1 : j \in b + x .. (b + y) - 1
    OBVIOUS
  <2> QED
    BY <1>2, <1>4, <2>1 DEF Skipped
<1> QED
  BY <1>3, <1>4

(* Where the commands of a block are: what BlockKinds says of the places alone. *)
LEMMA BlockPlaces ==
  ASSUME NEW i \in Nat, NEW o \in Operation, NEW log \in Cmds, NEW b, Block(log, i, o, b)
  PROVE  \A j \in 1 .. Size(o) + 1 : b + j \in 1 .. Len(log) /\ log[b + j][2] = i
BY BlockKinds

\* All that is in a block takes effect.
AllTake(log, o, b) ==
  \A j \in 1 .. Size(o) : Kind(log, b + j) \in {"ok", "copy"} /\ ~Skipped(log, b + j)

LEMMA OneStaysAllTake ==
  ASSUME NEW i \in Nat, NEW o \in Operation, NEW log \in Cmds, NEW b, Block(log, i, o, b),
         NEW p \in 1 .. Len(log), log[p][2] = i, NEW s \in Nat, Stays(log, p, s)
  PROVE  /\ b + (Size(o) + 1) <= s
         /\ AllTake(log, o, b)
         /\ \E j \in 1 .. Size(o) : p = b + j
<1> DEFINE size == Size(o)
<1>1. /\ b \in Nat /\ size \in Nat /\ Len(log) \in Nat
      /\ \A j \in 1 .. size : Kind(log, b + j) # "sync"
      /\ Kind(log, b + (size + 1)) = "sync"
      /\ \A j \in 1 .. size + 1 : b + j \in 1 .. Len(log)
      /\ p \in b + 1 .. b + (size + 1)
  <2>1. p \in b + 1 .. b + (size + 1)
    BY DEF Block
  <2>2. Len(log) \in Nat
    BY LogTyped
  <2> HIDE DEF size
  <2>3. /\ b \in Nat /\ size \in Nat
        /\ \A j \in 1 .. size : Kind(log, b + j) # "sync"
        /\ Kind(log, b + (size + 1)) = "sync"
        /\ \A j \in 1 .. size + 1 : b + j \in 1 .. Len(log)
    BY BlockKinds DEF size
  <2> QED
    BY <2>1, <2>2, <2>3
<1>9. \A z \in 1 .. Len(o.items) : Kind(log, b + z) = o.items[z]
  <2> HIDE DEF size
  <2>1. \A z \in 1 .. Len(o.items) : z \in 1 .. Size(o) /\ Kind(log, b + z) = o.items[z]
    BY BlockKinds
  <2> QED
    BY <2>1
<1> HIDE DEF size
<1>2. PICK q \in p + 1 .. s : Kind(log, q) = "sync" /\ Survives(log, p, q - 1)
  BY DEF Stays
<1>3. /\ Kind(log, p) \in {"ok", "copy"} /\ ~Skipped(log, p)
      /\ \A x \in p + 1 .. q - 1 : Kind(log, x) \notin {"sync", "fail", "rollback"}
  BY <1>2 DEF Survives
<1>4. p # b + (size + 1)
  BY <1>1, <1>3
<1>5. PICK j \in 1 .. size : p = b + j
  <2>1. p - b \in 1 .. size /\ p = b + (p - b)
    BY <1>1, <1>4
  <2> QED
    BY <2>1
<1>6. q = b + (size + 1)
  <2>1. CASE q < b + (size + 1)
    <3>1. q - b \in 1 .. size /\ q = b + (q - b)
      BY <1>1, <2>1
    <3> QED
      BY <1>1, <1>2, <3>1
  <2>2. CASE q > b + (size + 1)
    <3>1. b + (size + 1) \in p + 1 .. q - 1
      BY <1>1, <1>4, <2>2
    <3> QED
      BY <1>1, <1>3, <3>1
  <2> QED
    BY <1>1, <2>1, <2>2
<1>7. ASSUME NEW x \in 1 .. size
      PROVE  Kind(log, b + x) \in {"ok", "copy"} /\ ~Skipped(log, b + x)
  <2>1. CASE x = j
    BY <1>3, <1>5, <2>1
  <2>2. CASE x > j
    <3>1. b + x \in p + 1 .. q - 1 /\ b + x \in 1 .. Len(log)
      BY <1>1, <1>5, <1>6, <2>2
    <3>2. Kind(log, b + x) \in {"ok", "copy"}
      BY <1>3, <3>1, LogTyped
    <3>3. ~Skipped(log, b + x)
      <4> SUFFICES ASSUME Skipped(log, b + x) PROVE FALSE
        OBVIOUS
      <4>1. PICK k \in 1 .. (b + x) - 1 : /\ Kind(log, k) = "fail"
                                          /\ \A z \in k + 1 .. (b + x) - 1 : Kind(log, z) # "sync"
        BY DEF Skipped
      <4>2. k < p
        <5>1. k # p
          BY <1>3, <4>1
        <5>2. k > p => k \in p + 1 .. q - 1
          BY <1>1, <3>1
        <5> QED
          BY <1>1, <1>3, <4>1, <5>1, <5>2
      <4>3. k \in 1 .. p - 1 /\ \A z \in k + 1 .. p - 1 : z \in k + 1 .. (b + x) - 1
        BY <1>1, <1>5, <2>2, <4>2
      <4>4. Skipped(log, p)
        BY <4>1, <4>3 DEF Skipped
      <4> QED
        BY <1>3, <4>4
    <3> QED
      BY <3>2, <3>3
  <2>3. CASE x < j
    <3>1. x \in 1 .. size + 1 /\ j \in 1 .. size + 1
      BY <1>1
    <3>2. ~Skipped(log, b + x) /\ Kind(log, b + x) # "fail"
      BY <1>1, <1>3, <1>5, <2>3, <3>1, SkippedWithin
    <3>3. Kind(log, b + x) # "rollback"
      <4>1. /\ \A z \in 1 .. Len(o.items) : Kind(log, b + z) = o.items[z]
            /\ \A z \in 1 .. Len(o.items) : o.items[z] \in Item
            /\ o.thrown => size = Len(o.items) + 1
            /\ ~o.thrown => size = Len(o.items)
            /\ Len(o.items) \in Nat
        <5>1. \A z \in 1 .. Len(o.items) : Kind(log, b + z) = o.items[z]
          BY <1>9
        <5>2. /\ \A z \in 1 .. Len(o.items) : o.items[z] \in Item
              /\ o.thrown => size = Len(o.items) + 1
              /\ ~o.thrown => size = Len(o.items)
              /\ Len(o.items) \in Nat
          BY OperationTyped DEF size
        <5> QED
          BY <5>1, <5>2
      <4>2. x \in 1 .. Len(o.items)
        BY <1>1, <2>3, <4>1
      <4> QED
        BY <4>1, <4>2 DEF Item
    <3>4. Kind(log, b + x) \in {"ok", "fail", "copy", "rollback", "sync"}
      BY <1>1, <3>1, LogTyped
    <3> QED
      BY <1>1, <3>2, <3>3, <3>4
  <2> QED
    BY <2>1, <2>2, <2>3
<1>8. AllTake(log, o, b)
  BY <1>7 DEF AllTake, size
<1> QED
  BY <1>2, <1>5, <1>6, <1>8 DEF size

LEMMA TakenStays ==
  ASSUME NEW i \in Nat, NEW o \in Operation, NEW log \in Cmds, NEW b, Block(log, i, o, b),
         AllTake(log, o, b), NEW s \in Nat, b + (Size(o) + 1) <= s, NEW j \in 1 .. Size(o)
  PROVE  Stays(log, b + j, s)
<1> DEFINE size == Size(o)
           q == b + (size + 1)
<1>1. b \in Nat /\ size \in Nat /\ Kind(log, q) = "sync"
  BY BlockKinds
<1>2. \A x \in (b + j) + 1 .. q - 1 : x - b \in 1 .. size /\ b + (x - b) = x
  BY <1>1
<1>3. \A x \in (b + j) + 1 .. q - 1 : Kind(log, x) \notin {"sync", "fail", "rollback"}
  BY <1>2 DEF AllTake
<1>4. q \in (b + j) + 1 .. s
  BY <1>1
<1>5. Survives(log, b + j, q - 1)
  BY <1>3 DEF Survives, AllTake
<1> QED
  BY <1>1, <1>4, <1>5 DEF Stays

\* All or nothing, and which of them.
OfOperation(E, i) == {e \in E : e[1] = i}
Whole(i, o) == {i} \X DOMAIN o.items
NoFailure(o) == ~o.thrown /\ "fail" \notin Range(o.items)

LEMMA AllTakeMeans ==
  ASSUME NEW i \in Nat, NEW o \in Operation, NEW log \in Cmds, NEW b, Block(log, i, o, b)
  PROVE  /\ AllTake(log, o, b) => NoFailure(o) /\ \A j \in 1 .. Size(o) : Status(log, b + j) \in {"ok", "copy"}
         /\ ~o.thrown /\ (\A j \in 1 .. Size(o) : Status(log, b + j) = "ok") => AllTake(log, o, b)
<1> DEFINE size == Size(o)
           len == Len(o.items)
<1>1. /\ b \in Nat /\ size \in Nat /\ len \in Nat /\ DOMAIN o.items = 1 .. len
      /\ o.thrown => size = len + 1
      /\ ~o.thrown => size = len
      /\ \A j \in 1 .. size + 1 : b + j \in 1 .. Len(log)
      /\ \A j \in 1 .. len : j \in 1 .. size /\ Kind(log, b + j) = o.items[j] /\ o.items[j] \in Item
      /\ o.thrown => size \in 1 .. size /\ Kind(log, b + size) = "rollback"
  BY OperationTyped, BlockKinds
<1>2. \A j \in 1 .. size : j \in 1 .. size + 1
  BY <1>1
<1> HIDE DEF size, len
<1>3. ASSUME AllTake(log, o, b)
      PROVE  NoFailure(o) /\ \A j \in 1 .. size : Status(log, b + j) \in {"ok", "copy"}
  <2>1. \A j \in 1 .. size : Kind(log, b + j) \in {"ok", "copy"} /\ ~Skipped(log, b + j)
    BY <1>3 DEF AllTake, size
  <2>2. ~o.thrown
    BY <1>1, <2>1
  <2>3. "fail" \notin Range(o.items)
    BY <1>1, <2>1 DEF Range
  <2>4. \A j \in 1 .. size : Status(log, b + j) \in {"ok", "copy"}
    BY <2>1 DEF Status
  <2> QED
    BY <2>2, <2>3, <2>4 DEF NoFailure
<1>4. ASSUME ~o.thrown, \A j \in 1 .. size : Status(log, b + j) = "ok"
      PROVE  AllTake(log, o, b)
  <2>1. \A j \in 1 .. size : Kind(log, b + j) \in Item
    BY <1>1, <1>4
  <2>2. ASSUME NEW j \in 1 .. size PROVE Kind(log, b + j) \in {"ok", "copy"} /\ ~Skipped(log, b + j)
    <3>1. b + j \in 1 .. Len(log) /\ Status(log, b + j) = "ok"
      BY <1>1, <1>2, <1>4
    <3>2. Kind(log, b + j) \in {"ok", "rollback"} /\ ~Skipped(log, b + j)
      BY <3>1, StatusOfKind
    <3> QED
      BY <2>1, <3>2 DEF Item
  <2> QED
    BY <2>2 DEF AllTake, size
<1> QED
  BY <1>3, <1>4 DEF size

LEMMA KeptOfBlock ==
  ASSUME NEW i \in Nat, NEW o \in Operation, NEW log \in Cmds, NEW b, Block(log, i, o, b),
         NEW s \in 0 .. Len(log)
  PROVE  /\ AllTake(log, o, b) /\ b + (Size(o) + 1) <= s => OfOperation(Kept(log, s), i) = Whole(i, o)
         /\ ~(AllTake(log, o, b) /\ b + (Size(o) + 1) <= s) => OfOperation(Kept(log, s), i) = {}
<1> DEFINE size == Size(o)
           len == Len(o.items)
<1>1. /\ b \in Nat /\ size \in Nat /\ len \in Nat /\ Len(log) \in Nat /\ s \in Nat
      /\ DOMAIN o.items = 1 .. len
      /\ ~o.thrown => size = len
      /\ \A j \in 1 .. size + 1 : b + j \in 1 .. Len(log)
      /\ \A j \in 1 .. size : Called(log, b + j) = <<i, j>>
  <2>1. /\ size \in Nat /\ len \in Nat /\ DOMAIN o.items = 1 .. len
        /\ ~o.thrown => size = len
    BY OperationTyped
  <2>2. Len(log) \in Nat /\ s \in Nat
    BY LogTyped
  <2>3. /\ b \in Nat
        /\ \A j \in 1 .. size + 1 : b + j \in 1 .. Len(log)
        /\ \A j \in 1 .. size : Called(log, b + j) = <<i, j>>
    BY BlockKinds
  <2> HIDE DEF size, len
  <2> QED
    BY <2>1, <2>2, <2>3
<1> HIDE DEF size, len
<1>2. ASSUME NEW e \in OfOperation(Kept(log, s), i)
      PROVE  AllTake(log, o, b) /\ b + (size + 1) <= s /\ e \in Whole(i, o)
  <2>1. PICK p \in 1 .. s : e = Called(log, p) /\ Stays(log, p, s) /\ e[1] = i
    BY DEF OfOperation, Kept
  <2>2. p \in 1 .. Len(log) /\ log[p][2] = i
    BY <1>1, <2>1 DEF Called
  <2>3. AllTake(log, o, b) /\ b + (size + 1) <= s /\ \E j \in 1 .. size : p = b + j
    BY <1>1, <2>1, <2>2, OneStaysAllTake DEF size
  <2>4. ~o.thrown
    BY <2>3, AllTakeMeans DEF NoFailure
  <2>5. e \in Whole(i, o)
    <3>1. PICK j \in 1 .. size : p = b + j
      BY <2>3
    <3>2. e = <<i, j>> /\ j \in DOMAIN o.items
      BY <1>1, <2>1, <2>4, <3>1
    <3> QED
      BY <3>2 DEF Whole
  <2> QED
    BY <2>3, <2>5
<1>3. ASSUME AllTake(log, o, b), b + (size + 1) <= s, NEW e \in Whole(i, o)
      PROVE  e \in OfOperation(Kept(log, s), i)
  <2>1. ~o.thrown
    BY <1>3, AllTakeMeans DEF NoFailure
  <2>2. PICK j \in 1 .. len : e = <<i, j>>
    BY <1>1 DEF Whole
  <2>3. j \in 1 .. size /\ j \in 1 .. size + 1
    BY <1>1, <2>1
  <2>4. Stays(log, b + j, s)
    BY <1>1, <1>3, <2>3, TakenStays DEF size
  <2>5. b + j \in 1 .. s /\ e = Called(log, b + j)
    BY <1>1, <1>3, <2>2, <2>3
  <2>6. e \in Name /\ e[1] = i
    BY <1>1, <2>2 DEF Name
  <2> QED
    BY <2>4, <2>5, <2>6 DEF OfOperation, Kept
<1> QED
  BY <1>2, <1>3 DEF size
\* What the log and what was committed before it hold of the operations os.
LogOk(log, os) ==
  /\ \A p \in 1 .. Len(log) : log[p][2] \in 1 .. Len(os)
  /\ \A i \in 1 .. Len(os) : os[i].what = "pipeline" =>
       \/ \E b \in Nat : Block(log, i, os[i], b)
       \/ \A p \in 1 .. Len(log) : log[p][2] # i

AllOrNone(E, i, o) == OfOperation(E, i) = {} \/ (OfOperation(E, i) = Whole(i, o) /\ NoFailure(o))

CommittedOk(E, os) ==
  /\ \A e \in E : e[1] \in 1 .. Len(os)
  /\ \A i \in 1 .. Len(os) : os[i].what = "pipeline" => AllOrNone(E, i, os[i])

OldOk(old, log, os) ==
  /\ CommittedOk(old, os)
  /\ \A e \in old : \A p \in 1 .. Len(log) : log[p][2] # e[1]

LEMMA OperationsTyped ==
  ASSUME NEW os \in Operations
  PROVE  /\ Len(os) \in Nat /\ DOMAIN os = 1 .. Len(os)
         /\ \A i \in 1 .. Len(os) : i \in Nat /\ os[i] \in Operation
         /\ \A o \in Operation : /\ Append(os, o) \in Operations
                                 /\ Len(Append(os, o)) = Len(os) + 1
                                 /\ Append(os, o)[Len(os) + 1] = o
                                 /\ \A i \in 1 .. Len(os) : Append(os, o)[i] = os[i]
BY DEF Operations

LEMMA KeptOk ==
  ASSUME NEW os \in Operations, NEW log \in Cmds, NEW s \in 0 .. Len(log), NEW old,
         LogOk(log, os), OldOk(old, log, os)
  PROVE  CommittedOk(old \union Kept(log, s), os)
<1>1. Len(log) \in Nat
  BY LogTyped
<1>2. ASSUME NEW e \in Kept(log, s)
      PROVE  \E p \in 1 .. Len(log) : e[1] = log[p][2]
  <2>1. PICK p \in 1 .. s : e = Called(log, p)
    BY DEF Kept
  <2>2. p \in 1 .. Len(log) /\ e[1] = log[p][2]
    BY <1>1, <2>1 DEF Called
  <2> QED
    BY <2>2
<1>3. \A e \in old \union Kept(log, s) : e[1] \in 1 .. Len(os)
  BY <1>2 DEF LogOk, OldOk, CommittedOk
<1>4. ASSUME NEW i \in 1 .. Len(os), os[i].what = "pipeline"
      PROVE  AllOrNone(old \union Kept(log, s), i, os[i])
  <2>1. CASE \A p \in 1 .. Len(log) : log[p][2] # i
    <3>1. OfOperation(old \union Kept(log, s), i) = OfOperation(old, i)
      BY <1>2, <2>1 DEF OfOperation
    <3> QED
      BY <1>4, <3>1 DEF AllOrNone, OldOk, CommittedOk
  <2>2. ASSUME NEW b \in Nat, Block(log, i, os[i], b)
        PROVE  AllOrNone(old \union Kept(log, s), i, os[i])
    <3>1. i \in Nat /\ os[i] \in Operation
      BY OperationsTyped
    <3>2. /\ AllTake(log, os[i], b) => NoFailure(os[i])
          /\ \/ AllTake(log, os[i], b) /\ OfOperation(Kept(log, s), i) = Whole(i, os[i])
             \/ OfOperation(Kept(log, s), i) = {}
      BY <2>2, <3>1, AllTakeMeans, KeptOfBlock
    <3>3. AllOrNone(Kept(log, s), i, os[i])
      BY <3>2 DEF AllOrNone
    <3>4. \E p \in 1 .. Len(log) : log[p][2] = i
      <4> DEFINE o == os[i]
                 size1 == Size(o) + 1
      <4>1. size1 \in 1 .. size1
        BY <3>1, OperationTyped
      <4>2. o \in Operation /\ Block(log, i, o, b)
        BY <2>2, <3>1
      <4> HIDE DEF o
      <4>3. \A j \in 1 .. size1 : b + j \in 1 .. Len(log) /\ log[b + j][2] = i
        BY <3>1, <4>2, BlockPlaces
      <4> HIDE DEF size1
      <4> QED
        BY <4>1, <4>3
    <3>5. OfOperation(old \union Kept(log, s), i) = OfOperation(Kept(log, s), i)
      <4>1. PICK p \in 1 .. Len(log) : log[p][2] = i
        BY <3>4
      <4>2. \A e \in old : \A x \in 1 .. Len(log) : log[x][2] # e[1]
        BY DEF OldOk
      <4> QED
        BY <4>1, <4>2 DEF OfOperation
    <3> QED
      BY <3>3, <3>5 DEF AllOrNone
  <2> QED
    BY <1>4, <2>1, <2>2 DEF LogOk
<1> QED
  BY <1>3, <1>4 DEF CommittedOk

LEMMA BlockStays ==
  ASSUME NEW log \in Cmds, NEW new \in Cmds, NEW i, NEW o \in Operation, NEW b \in Nat, Block(log, i, o, b),
         \A x \in 1 .. Len(new) : new[x][2] # i
  PROVE  Block(log \o new, i, o, b)
<1> DEFINE big == log \o new
           m == Size(o) + 1
<1>1. /\ Len(log) \in Nat /\ Len(new) \in Nat /\ Len(big) = Len(log) + Len(new)
      /\ \A p \in 1 .. Len(log) : big[p] = log[p]
      /\ \A x \in 1 .. Len(new) : big[Len(log) + x] = new[x]
  BY LongerLog, LogTyped
<1>2. m \in Nat
  BY OperationTyped
<1>3. /\ b + m <= Len(log)
      /\ \A j \in 1 .. m : log[b + j] = Commands(i, o)[j]
      /\ \A p \in 1 .. Len(log) : log[p][2] = i => p \in b + 1 .. b + m
  BY DEF Block
<1> HIDE DEF big, m
<1>4. \A j \in 1 .. m : b + j \in 1 .. Len(log)
  BY <1>1, <1>2, <1>3
<1>5. \A j \in 1 .. m : big[b + j] = Commands(i, o)[j]
  BY <1>1, <1>3, <1>4
<1>6. ASSUME NEW p \in 1 .. Len(big), big[p][2] = i PROVE p \in b + 1 .. b + m
  <2>1. CASE p \in 1 .. Len(log)
    BY <1>1, <1>3, <1>6, <2>1
  <2>2. CASE p \notin 1 .. Len(log)
    <3>1. p - Len(log) \in 1 .. Len(new) /\ Len(log) + (p - Len(log)) = p
      BY <1>1, <2>2
    <3> QED
      BY <1>1, <1>6, <3>1
  <2> QED
    BY <2>1, <2>2
<1>7. b + m <= Len(big)
  BY <1>1, <1>2, <1>3
<1> QED
  BY <1>5, <1>6, <1>7 DEF Block, big, m

LEMMA CommandsOf ==
  ASSUME NEW i \in Nat, NEW o \in Operation
  PROVE  \A x \in 1 .. Len(Commands(i, o)) : Commands(i, o)[x][2] = i
<1> DEFINE cs == Commands(i, o)
           len == Len(o.items)
           size == Size(o)
<1>1. /\ len \in Nat /\ size \in Nat
      /\ o.thrown => size = len + 1
      /\ ~o.thrown => size = len
  BY OperationTyped
<1>2. /\ Len(cs) = size + 1
      /\ \A j \in 1 .. len : cs[j] = <<o.items[j], i, j>>
      /\ o.thrown => cs[size] = <<"rollback", i, size>>
      /\ cs[size + 1] = <<"sync", i, 0>>
  BY CommandsTyped
<1> HIDE DEF cs, len, size
<1>3. \A x \in 1 .. Len(cs) : x \in 1 .. len \/ (o.thrown /\ x = size) \/ x = size + 1
  BY <1>1, <1>2
<1>4. \A x \in 1 .. Len(cs) : cs[x][2] = i
  BY <1>2, <1>3
<1> QED
  BY <1>4 DEF cs

\* An operation is added with the commands it pushed, all of them or none.
LEMMA LogGrows ==
  ASSUME NEW os \in Operations, NEW log \in Cmds, NEW old, LogOk(log, os), OldOk(old, log, os),
         NEW o \in Operation, NEW new \in Cmds,
         \A x \in 1 .. Len(new) : new[x][2] = Len(os) + 1,
         o.what = "pipeline" => new = <<>> \/ new = Commands(Len(os) + 1, o)
  PROVE  /\ LogOk(log \o new, Append(os, o))
         /\ OldOk(old, log \o new, Append(os, o))
         /\ o.what = "pipeline" /\ new # <<>> => Block(log \o new, Len(os) + 1, o, Len(log))
<1> DEFINE big == log \o new
           os2 == Append(os, o)
           i2 == Len(os) + 1
<1>1. /\ Len(log) \in Nat /\ Len(new) \in Nat /\ Len(big) = Len(log) + Len(new) /\ big \in Cmds
      /\ \A p \in 1 .. Len(log) : big[p] = log[p]
      /\ \A x \in 1 .. Len(new) : big[Len(log) + x] = new[x]
  BY LongerLog, LogTyped
<1>2. /\ Len(os) \in Nat /\ Len(os2) = i2 /\ os2[i2] = o /\ os2 \in Operations
      /\ \A i \in 1 .. Len(os) : os2[i] = os[i] /\ os[i] \in Operation
  BY OperationsTyped
<1>3. \A i \in 1 .. Len(os2) : i = i2 \/ i \in 1 .. Len(os)
  BY <1>2
<1>4. i2 \notin 1 .. Len(os) /\ i2 \in Nat /\ i2 \in 1 .. i2 /\ \A i \in 1 .. Len(os) : i \in 1 .. i2
  BY <1>2
<1>5. \A x \in 1 .. Len(new) : new[x][2] = i2
  OBVIOUS
<1>6. o.what = "pipeline" => new = <<>> \/ new = Commands(i2, o)
  OBVIOUS
<1> HIDE DEF big, os2, i2
<1>7. ASSUME NEW p \in 1 .. Len(big)
      PROVE  \/ p \in 1 .. Len(log) /\ big[p] = log[p]
             \/ p - Len(log) \in 1 .. Len(new) /\ big[p] = new[p - Len(log)]
  <2>1. CASE p \in 1 .. Len(log)
    BY <1>1, <2>1
  <2>2. CASE p \notin 1 .. Len(log)
    <3>1. p - Len(log) \in 1 .. Len(new) /\ Len(log) + (p - Len(log)) = p
      BY <1>1, <2>2
    <3> QED
      BY <1>1, <3>1
  <2> QED
    BY <2>1, <2>2
<1>8. \A p \in 1 .. Len(log) : log[p][2] \in 1 .. Len(os)
  BY DEF LogOk
<1>9. ASSUME NEW p \in 1 .. Len(big) PROVE big[p][2] \in 1 .. Len(os2)
  <2>1. CASE p \in 1 .. Len(log) /\ big[p] = log[p]
    BY <1>2, <1>4, <1>8, <2>1
  <2>2. CASE p - Len(log) \in 1 .. Len(new) /\ big[p] = new[p - Len(log)]
    BY <1>2, <1>4, <1>5, <2>2
  <2> QED
    BY <1>7, <2>1, <2>2
<1>10. ASSUME o.what = "pipeline", new # <<>> PROVE Block(big, i2, o, Len(log))
  <2>1. new = Commands(i2, o)
    BY <1>6, <1>10
  <2>2. Len(new) = Size(o) + 1 /\ Size(o) \in Nat
    BY <1>4, <2>1, CommandsTyped, OperationTyped
  <2>3. \A j \in 1 .. Size(o) + 1 : big[Len(log) + j] = Commands(i2, o)[j]
    BY <1>1, <2>1, <2>2
  <2>4. ASSUME NEW p \in 1 .. Len(big), big[p][2] = i2
        PROVE  p \in Len(log) + 1 .. Len(log) + (Size(o) + 1)
    <3>1. p \notin 1 .. Len(log)
      BY <1>1, <1>4, <1>8, <2>4
    <3> QED
      BY <1>1, <2>2, <3>1
  <2> QED
    BY <1>1, <2>2, <2>3, <2>4 DEF Block
<1>11. ASSUME NEW i \in 1 .. Len(os2), os2[i].what = "pipeline"
       PROVE  (\E b \in Nat : Block(big, i, os2[i], b)) \/ \A p \in 1 .. Len(big) : big[p][2] # i
  <2>1. CASE i = i2
    <3>1. CASE new = <<>>
      <4>1. 1 .. Len(new) = {}
        BY <3>1
      <4> QED
        BY <1>4, <1>7, <1>8, <2>1, <4>1
    <3>2. CASE new # <<>>
      BY <1>1, <1>2, <1>10, <1>11, <2>1, <3>2
    <3> QED
      BY <3>1, <3>2
  <2>2. CASE i \in 1 .. Len(os)
    <3>1. os2[i] = os[i] /\ os[i] \in Operation /\ i # i2
      BY <1>2, <1>4, <2>2
    <3>2. ASSUME NEW b \in Nat, Block(log, i, os[i], b) PROVE Block(big, i, os[i], b)
      BY <1>5, <3>1, <3>2, BlockStays DEF big
    <3>3. (\A p \in 1 .. Len(log) : log[p][2] # i) => \A p \in 1 .. Len(big) : big[p][2] # i
      BY <1>5, <1>7, <3>1
    <3>4. (\E b \in Nat : Block(log, i, os[i], b)) \/ \A p \in 1 .. Len(log) : log[p][2] # i
      BY <1>11, <2>2, <3>1 DEF LogOk
    <3> QED
      BY <3>1, <3>2, <3>3, <3>4
  <2> QED
    BY <1>3, <2>1, <2>2
<1>12. LogOk(big, os2)
  BY <1>9, <1>11 DEF LogOk
<1>13. OldOk(old, big, os2)
  <2>1. \A e \in old : e[1] \in 1 .. Len(os) /\ \A p \in 1 .. Len(log) : log[p][2] # e[1]
    BY DEF OldOk, CommittedOk
  <2>2. \A e \in old : \A p \in 1 .. Len(big) : big[p][2] # e[1]
    BY <1>4, <1>5, <1>7, <2>1
  <2>3. \A e \in old : e[1] \in 1 .. Len(os2)
    BY <1>2, <1>4, <2>1
  <2>4. ASSUME NEW i \in 1 .. Len(os2), os2[i].what = "pipeline" PROVE AllOrNone(old, i, os2[i])
    <3>1. CASE i = i2
      BY <1>4, <2>1, <3>1 DEF AllOrNone, OfOperation
    <3>2. CASE i \in 1 .. Len(os)
      BY <1>2, <2>4, <3>2 DEF OldOk, CommittedOk
    <3> QED
      BY <1>3, <3>1, <3>2
  <2> QED
    BY <2>2, <2>3, <2>4 DEF OldOk, CommittedOk
<1> QED
  BY <1>10, <1>12, <1>13 DEF big, os2, i2

-----------------------------------------------------------------------------
(* The PGconn n, the socket tc and the server v together *)

Link(n, tc, v, log, c, s, old) ==
  /\ log \in Cmds /\ s \in 0 .. Len(log)
  /\ Suffix(v.in \o n.out, log, s)
  /\ Served(v, log, s, old)
  /\ Tracks(n, log, c, s, AnswersIn(tc \o v.out))
  /\ n.notifies + NoteCount(n.inbuf \o (tc \o v.out)) <= v.notes /\ v.notes <= MaxNotes

LEMMA LinkTyped ==
  ASSUME NEW n \in PGconn, NEW tc \in Msgs, NEW v \in Server, NEW log, NEW c, NEW s, NEW old,
         Link(n, tc, v, log, c, s, old)
  PROVE  /\ log \in Cmds /\ Len(log) \in Nat /\ s \in 0 .. Len(log) /\ s \in Nat /\ c \in 0 .. Len(log) /\ c \in Nat
         /\ tc \o v.out \in Msgs /\ AnswersIn(tc \o v.out) \in Msgs
         /\ n.inbuf \in Msgs /\ n.notifies \in Nat /\ v.notes \in Nat /\ v.in \in Cmds /\ v.out \in Msgs
         /\ n.out \in Cmds /\ n.queue \in Cmds
<1>1. /\ n.inbuf \in Msgs /\ n.notifies \in Nat /\ v.notes \in Nat /\ v.in \in Cmds /\ v.out \in Msgs
      /\ n.out \in Cmds /\ n.queue \in Cmds
  BY DEF PGconn, Server
<1>2. tc \o v.out \in Msgs /\ AnswersIn(tc \o v.out) \in Msgs
  BY <1>1, LineConcat, LineTyped
<1>3. log \in Cmds /\ s \in 0 .. Len(log) /\ c \in 0 .. Len(log)
  BY DEF Link, Tracks, Ahead
<1>4. Len(log) \in Nat
  BY <1>3, LogTyped
<1> QED
  BY <1>1, <1>2, <1>3, <1>4

\* Messages and commands only move on.
LEMMA LinkMoves ==
  ASSUME NEW n \in PGconn, NEW tc \in Msgs, NEW v \in Server, NEW log, NEW c, NEW s, NEW old,
         Link(n, tc, v, log, c, s, old),
         NEW m \in PGconn, NEW tc2 \in Msgs, NEW w \in Server,
         m.mode = n.mode, m.async = n.async, m.queue = n.queue, m.result = n.result,
         m.notifies = n.notifies,
         w.skip = v.skip, w.txn = v.txn, w.committed = v.committed, w.notes = v.notes,
         w.in \o m.out = v.in \o n.out,
         m.inbuf \o (tc2 \o w.out) = n.inbuf \o (tc \o v.out)
  PROVE  Link(m, tc2, w, log, c, s, old)
<1> DEFINE r == tc \o v.out
           q == tc2 \o w.out
<1>1. n.inbuf \in Msgs /\ m.inbuf \in Msgs /\ r \in Msgs /\ q \in Msgs
  BY LineConcat DEF PGconn, Server
<1> HIDE DEF r, q
<1>2. /\ AnswersIn(n.inbuf \o r) = AnswersIn(n.inbuf) \o AnswersIn(r)
      /\ AnswersIn(m.inbuf \o q) = AnswersIn(m.inbuf) \o AnswersIn(q)
  BY <1>1, LineConcat
<1>3. m.inbuf \o q = n.inbuf \o r
  BY DEF r, q
<1>4. Tracks(n, log, c, s, AnswersIn(r))
  BY DEF Link, r
<1>5. Ahead(m, log, c, s, AnswersIn(q))
  BY <1>2, <1>3, <1>4 DEF Tracks, Ahead
<1>6. Tracks(m, log, c, s, AnswersIn(q))
  BY <1>4, <1>5 DEF Tracks, Off, On
<1>7. Suffix(w.in \o m.out, log, s) /\ Served(w, log, s, old)
  BY DEF Link, Served
<1>8. m.notifies + NoteCount(m.inbuf \o q) <= w.notes /\ w.notes <= MaxNotes
  BY <1>3 DEF Link, r
<1> QED
  BY <1>6, <1>7, <1>8 DEF Link, q

LEMMA LinkParsed ==
  ASSUME NEW n \in PGconn, NEW tc \in Msgs, NEW v \in Server, NEW log, NEW c, NEW s, NEW old,
         Link(n, tc, v, log, c, s, old)
  PROVE  LET m == Parsed(n)
         IN  /\ m \in PGconn /\ SameQueues(n, m) /\ NotesKept(n, m) /\ Stuck(m)
             /\ \/ Quiet(n, m) /\ Link(m, tc, v, log, c, s, old)
                \/ /\ n.async = "busy" /\ m.async # "busy" /\ c < Len(log)
                   /\ Link(m, tc, v, log, c + 1, s, old)
<1> DEFINE m == Parsed(n)
           r == tc \o v.out
<1>1. m \in PGconn /\ Reaches(n, m) /\ Stuck(m)
  BY ParsedKeeps
<1>2. SameQueues(n, m) /\ NotesKept(n, m)
  BY <1>1 DEF Reaches
<1>3. /\ log \in Cmds /\ s \in 0 .. Len(log) /\ r \in Msgs /\ AnswersIn(r) \in Msgs /\ n.inbuf \in Msgs
      /\ n.notifies \in Nat
  BY LinkTyped
<1>4. m.inbuf \in Msgs /\ m.notifies \in Nat
  BY <1>1 DEF PGconn
<1> HIDE DEF m, r
<1>5. Tracks(n, log, c, s, AnswersIn(r))
  BY DEF Link, r
<1>6. \/ Quiet(n, m) /\ Tracks(m, log, c, s, AnswersIn(r))
      \/ n.async = "busy" /\ m.async # "busy" /\ c < Len(log) /\ Tracks(m, log, c + 1, s, AnswersIn(r))
  BY <1>1, <1>3, <1>5, ParsingTracks
<1>7. Suffix(v.in \o m.out, log, s) /\ Served(v, log, s, old)
  BY <1>2 DEF Link, SameQueues
<1>8. m.notifies + NoteCount(m.inbuf \o r) <= v.notes /\ v.notes <= MaxNotes
  <2>1. /\ NoteCount(n.inbuf \o r) = NoteCount(n.inbuf) + NoteCount(r)
        /\ NoteCount(m.inbuf \o r) = NoteCount(m.inbuf) + NoteCount(r)
    BY <1>3, <1>4, LineConcat
  <2>2. NoteCount(n.inbuf) \in Nat /\ NoteCount(m.inbuf) \in Nat /\ NoteCount(r) \in Nat
    BY <1>3, <1>4, LineTyped
  <2>3. n.notifies + NoteCount(n.inbuf \o r) <= v.notes /\ v.notes <= MaxNotes
    BY DEF Link, r
  <2>4. m.notifies + NoteCount(m.inbuf) = n.notifies + NoteCount(n.inbuf)
    BY <1>2 DEF NotesKept
  <2>5. m.notifies + NoteCount(m.inbuf \o r) = n.notifies + NoteCount(n.inbuf \o r)
    BY <1>3, <1>4, <2>1, <2>2, <2>4
  <2> QED
    BY <2>3, <2>5
<1>9. \A d : Tracks(m, log, d, s, AnswersIn(r)) => Link(m, tc, v, log, d, s, old)
  BY <1>3, <1>7, <1>8 DEF Link, r
<1> QED
  BY <1>1, <1>2, <1>6, <1>9 DEF m

\* What of a PGconn its place in the log does not depend on.
LEMMA LinkFollows ==
  ASSUME NEW n \in PGconn, NEW tc \in Msgs, NEW v \in Server, NEW log, NEW c, NEW s, NEW old,
         Link(n, tc, v, log, c, s, old),
         NEW m \in PGconn, SameLine(n, m), NEW d, Tracks(m, log, d, s, AnswersIn(tc \o v.out))
  PROVE  Link(m, tc, v, log, d, s, old)
BY DEF Link, SameLine

LEMMA LinkAfterGetResult ==
  ASSUME NEW n \in PGconn, NEW tc \in Msgs, NEW v \in Server, NEW log, NEW c, NEW s, NEW old,
         Link(n, tc, v, log, c, s, old)
  PROVE  LET m == AfterGetResult(n)
         IN  /\ m \in PGconn /\ SameLine(n, m) /\ m.mode = n.mode
             /\ m.queue = IF n.async = "ready" /\ n.mode # "off" THEN Tail(n.queue) ELSE n.queue
             /\ Link(m, tc, v, log, c, s, old) \/ Link(m, tc, v, log, c + 1, s, old)
             /\ n.async \in {"idle", "busy", "copy"} => m = n
             /\ n.async = "ready" /\ n.mode = "off" => m.async = "busy" /\ Link(m, tc, v, log, c, s, old)
             /\ n.async = "ready" /\ n.mode # "off" /\ n.result[1] # "sync" => m.async = "pidle"
             /\ \/ n.async = "pidle"
                \/ n.async = "ready" /\ n.mode # "off" /\ n.result[1] = "sync"
                => /\ m.async \in {"idle", "busy", "ready"} /\ (m.async = "idle" <=> m.queue = <<>>)
<1> DEFINE m == AfterGetResult(n)
           r == AnswersIn(tc \o v.out)
<1>1. log \in Cmds /\ s \in 0 .. Len(log) /\ r \in Msgs
  BY LinkTyped
<1>2. Tracks(n, log, c, s, r)
  BY DEF Link
<1> HIDE DEF r
<1>3. /\ m \in PGconn /\ SameLine(n, m) /\ m.mode = n.mode
      /\ m.queue = IF n.async = "ready" /\ n.mode # "off" THEN Tail(n.queue) ELSE n.queue
      /\ (Tracks(m, log, c, s, r) \/ Tracks(m, log, c + 1, s, r))
      /\ n.async \in {"idle", "busy", "copy"} => m = n
      /\ n.async = "ready" /\ n.mode = "off" => m.async = "busy" /\ Tracks(m, log, c, s, r)
      /\ n.async = "ready" /\ n.mode # "off" /\ n.result[1] # "sync" => m.async = "pidle"
      /\ \/ n.async = "pidle"
         \/ n.async = "ready" /\ n.mode # "off" /\ n.result[1] = "sync"
         => /\ m.async \in {"idle", "busy", "ready"} /\ (m.async = "idle" <=> m.queue = <<>>)
  BY <1>1, <1>2, AfterGetResultKeeps
<1> HIDE DEF m
<1>4. \A d : Tracks(m, log, d, s, r) => Link(m, tc, v, log, d, s, old)
  BY <1>3, LinkFollows DEF r
<1> QED
  BY <1>3, <1>4 DEF m
LEMMA CmdsSplit ==
  ASSUME NEW a \in Cmds, NEW q \in Cmds, NEW k \in 0 .. Len(q)
  PROVE  /\ SubSeq(q, 1, k) \in Cmds /\ SubSeq(q, k + 1, Len(q)) \in Cmds
         /\ a \o SubSeq(q, 1, k) \in Cmds
         /\ (a \o SubSeq(q, 1, k)) \o SubSeq(q, k + 1, Len(q)) = a \o q
         /\ q = <<>> => SubSeq(q, k + 1, Len(q)) = <<>>
<1> DEFINE x == SubSeq(q, 1, k)
           y == SubSeq(q, k + 1, Len(q))
<1>1. x \in Seq(Cmd) /\ y \in Seq(Cmd) /\ q = x \o y /\ Len(y) = Len(q) - k
  BY SplitSeq DEF Cmds
<1>2. q = <<>> => y = <<>>
  <2>1. q = <<>> => Len(q) = 0 /\ k = 0
    OBVIOUS
  <2>2. Len(y) = 0 => y = <<>>
    BY <1>1
  <2> HIDE DEF y
  <2> QED
    BY <1>1, <2>1, <2>2
<1> HIDE DEF x, y
<1>3. a \o x \in Cmds
  BY <1>1, LongerLog DEF Cmds
<1>4. (a \o x) \o y = a \o q
  BY <1>1, Join DEF Cmds
<1> QED
  BY <1>1, <1>2, <1>3, <1>4 DEF x, y, Cmds

LEMMA MsgsJoin ==
  ASSUME NEW a \in Msgs, NEW b \in Msgs, NEW d \in Msgs
  PROVE  (a \o b) \o d = a \o (b \o d)
<1> DEFINE t == b \o d
<1>1. t = b \o d
  OBVIOUS
<1> HIDE DEF t
<1>2. (a \o b) \o d = a \o t
  BY <1>1, Join DEF Msgs
<1> QED
  BY <1>1, <1>2

LEMMA MsgsEmpty ==
  ASSUME NEW a \in Msgs
  PROVE  a \o <<>> = a /\ <<>> \o a = a
BY DEF Msgs

LEMMA MsgsSplit ==
  ASSUME NEW a \in Msgs, NEW q \in Msgs, NEW k \in 0 .. Len(q)
  PROVE  /\ SubSeq(q, k + 1, Len(q)) \in Msgs /\ a \o SubSeq(q, 1, k) \in Msgs
         /\ (a \o SubSeq(q, 1, k)) \o SubSeq(q, k + 1, Len(q)) = a \o q
<1> DEFINE x == SubSeq(q, 1, k)
           y == SubSeq(q, k + 1, Len(q))
<1>1. x \in Msgs /\ y \in Msgs /\ q = x \o y
  BY SplitSeq DEF Msgs
<1> HIDE DEF x, y
<1>2. a \o x \in Msgs
  BY <1>1, LineConcat
<1>3. (a \o x) \o y = a \o q
  BY <1>1, Join DEF Msgs
<1> QED
  BY <1>1, <1>2, <1>3 DEF x, y

\* The first k commands of the output are sent.
LEMMA LinkSends ==
  ASSUME NEW n \in PGconn, NEW tc \in Msgs, NEW v \in Server, NEW log, NEW c, NEW s, NEW old,
         Link(n, tc, v, log, c, s, old), NEW k \in 0 .. Len(n.out)
  PROVE  LET m == [n EXCEPT !.out = SubSeq(n.out, k + 1, Len(n.out))]
             w == [v EXCEPT !.in = v.in \o SubSeq(n.out, 1, k)]
         IN  m \in PGconn /\ w \in Server /\ Link(m, tc, w, log, c, s, old)
<1> DEFINE a == SubSeq(n.out, 1, k)
           b == SubSeq(n.out, k + 1, Len(n.out))
           m == [n EXCEPT !.out = b]
           w == [v EXCEPT !.in = v.in \o a]
<1>1. v.in \in Cmds /\ n.out \in Cmds
  BY LinkTyped
<1>2. b \in Cmds /\ v.in \o a \in Cmds /\ (v.in \o a) \o b = v.in \o n.out
  BY <1>1, CmdsSplit
<1> HIDE DEF a, b
<1>3. /\ m \in PGconn /\ m.out = b /\ m.mode = n.mode /\ m.async = n.async /\ m.queue = n.queue
      /\ m.result = n.result /\ m.notifies = n.notifies /\ m.inbuf = n.inbuf
  BY <1>2 DEF PGconn
<1>4. /\ w \in Server /\ w.in = v.in \o a /\ w.skip = v.skip /\ w.txn = v.txn
      /\ w.committed = v.committed /\ w.notes = v.notes /\ w.out = v.out
  BY <1>2 DEF Server
<1> HIDE DEF m, w
<1>5. Link(m, tc, w, log, c, s, old)
  BY <1>2, <1>3, <1>4, LinkMoves
<1> QED
  BY <1>3, <1>4, <1>5 DEF m, w, a, b

\* All that is in the socket is read.
LEMMA LinkReads ==
  ASSUME NEW n \in PGconn, NEW tc \in Msgs, NEW v \in Server, NEW log, NEW c, NEW s, NEW old,
         Link(n, tc, v, log, c, s, old)
  PROVE  LET m == [n EXCEPT !.inbuf = n.inbuf \o tc]
         IN  m \in PGconn /\ <<>> \in Msgs /\ Link(m, <<>>, v, log, c, s, old)
<1> DEFINE m == [n EXCEPT !.inbuf = n.inbuf \o tc]
<1>1. n.inbuf \in Msgs /\ v.out \in Msgs /\ <<>> \in Msgs
  BY LinkTyped, LineEmpty
<1>2. n.inbuf \o tc \in Msgs /\ (n.inbuf \o tc) \o v.out = n.inbuf \o (tc \o v.out) /\ <<>> \o v.out = v.out
  <2>1. n.inbuf \o tc \in Msgs
    BY <1>1, LineConcat
  <2>2. (n.inbuf \o tc) \o v.out = n.inbuf \o (tc \o v.out)
    BY <1>1, MsgsJoin
  <2>3. <<>> \o v.out = v.out
    BY <1>1, MsgsEmpty
  <2> QED
    BY <2>1, <2>2, <2>3
<1>3. /\ m \in PGconn /\ m.out = n.out /\ m.mode = n.mode /\ m.async = n.async /\ m.queue = n.queue
      /\ m.result = n.result /\ m.notifies = n.notifies /\ m.inbuf = n.inbuf \o tc
  BY <1>2 DEF PGconn
<1> HIDE DEF m
<1>4. m.inbuf \o (<<>> \o v.out) = n.inbuf \o (tc \o v.out) /\ v.in \o m.out = v.in \o n.out
  BY <1>2, <1>3
<1> DEFINE tc2 == <<>>
<1>5. tc2 \in Msgs /\ m.inbuf \o (tc2 \o v.out) = n.inbuf \o (tc \o v.out)
  BY <1>1, <1>4
<1> HIDE DEF tc2
<1>6. Link(m, tc2, v, log, c, s, old)
  BY <1>3, <1>4, <1>5, LinkMoves
<1> QED
  BY <1>1, <1>3, <1>6 DEF m, tc2

LEMMA LinkConsumes ==
  ASSUME NEW n \in PGconn, NEW tc \in Msgs, NEW v \in Server, NEW log, NEW c, NEW s, NEW old,
         Link(n, tc, v, log, c, s, old), NEW k \in 0 .. Len(n.out)
  PROVE  LET m == [n EXCEPT !.inbuf = n.inbuf \o tc, !.out = SubSeq(n.out, k + 1, Len(n.out))]
             w == [v EXCEPT !.in = v.in \o SubSeq(n.out, 1, k)]
         IN  /\ m \in PGconn /\ w \in Server /\ <<>> \in Msgs
             /\ Link(m, <<>>, w, log, c, s, old)
<1> DEFINE u == [n EXCEPT !.inbuf = n.inbuf \o tc]
           m == [n EXCEPT !.inbuf = n.inbuf \o tc, !.out = SubSeq(n.out, k + 1, Len(n.out))]
           w == [v EXCEPT !.in = v.in \o SubSeq(n.out, 1, k)]
           tc2 == <<>>
<1>1. u \in PGconn /\ tc2 \in Msgs /\ Link(u, tc2, v, log, c, s, old)
  BY LinkReads
<1>2. u.out = n.out
  BY DEF PGconn
<1>3. m = [u EXCEPT !.out = SubSeq(u.out, k + 1, Len(u.out))] /\ w = [v EXCEPT !.in = v.in \o SubSeq(u.out, 1, k)]
  BY <1>2
<1> HIDE DEF u, m, w, tc2
<1>4. m \in PGconn /\ w \in Server /\ Link(m, tc2, w, log, c, s, old)
  BY <1>1, <1>2, <1>3, LinkSends
<1> QED
  BY <1>1, <1>4 DEF m, w, tc2

\* The server writes the first k messages of its output.
LEMMA LinkWrites ==
  ASSUME NEW n \in PGconn, NEW tc \in Msgs, NEW v \in Server, NEW log, NEW c, NEW s, NEW old,
         Link(n, tc, v, log, c, s, old), NEW k \in 0 .. Len(v.out)
  PROVE  LET w == [v EXCEPT !.out = SubSeq(v.out, k + 1, Len(v.out))]
             tc2 == tc \o SubSeq(v.out, 1, k)
         IN  /\ w \in Server /\ tc2 \in Msgs /\ Link(n, tc2, w, log, c, s, old)
<1> DEFINE b == SubSeq(v.out, k + 1, Len(v.out))
           w == [v EXCEPT !.out = b]
           tc2 == tc \o SubSeq(v.out, 1, k)
<1>1. v.out \in Msgs
  BY LinkTyped
<1>2. b \in Msgs /\ tc2 \in Msgs /\ tc2 \o b = tc \o v.out
  BY <1>1, MsgsSplit
<1> HIDE DEF b, tc2
<1>3. /\ w \in Server /\ w.in = v.in /\ w.skip = v.skip /\ w.txn = v.txn
      /\ w.committed = v.committed /\ w.notes = v.notes /\ w.out = b
  BY <1>2 DEF Server
<1> HIDE DEF w
<1>4. n.inbuf \o (tc2 \o w.out) = n.inbuf \o (tc \o v.out) /\ w.in \o n.out = v.in \o n.out
  BY <1>2, <1>3
<1>5. Link(n, tc2, w, log, c, s, old)
  BY <1>2, <1>3, <1>4, LinkMoves
<1> QED
  BY <1>2, <1>3, <1>5 DEF w, b, tc2

LEMMA LinkFlushes ==
  ASSUME NEW n \in PGconn, NEW tc \in Msgs, NEW v \in Server, NEW log, NEW c, NEW s, NEW old,
         Link(n, tc, v, log, c, s, old)
  PROVE  LET w == [v EXCEPT !.out = <<>>]
         IN  w \in Server /\ tc \o v.out \in Msgs /\ Link(n, tc \o v.out, w, log, c, s, old)
<1> DEFINE b == <<>>
           w == [v EXCEPT !.out = b]
           tc2 == tc \o v.out
<1>1. b \in Msgs /\ tc2 \in Msgs /\ v.out \in Msgs
  BY LinkTyped, LineEmpty
<1>2. tc2 \o b = tc2
  BY <1>1, MsgsEmpty
<1> HIDE DEF b
<1>3. /\ w \in Server /\ w.in = v.in /\ w.skip = v.skip /\ w.txn = v.txn
      /\ w.committed = v.committed /\ w.notes = v.notes /\ w.out = b
  BY <1>1 DEF Server
<1>4. n.inbuf \o (tc2 \o w.out) = n.inbuf \o (tc \o v.out) /\ w.in \o n.out = v.in \o n.out
  BY <1>2, <1>3
<1> HIDE DEF w, tc2
<1>5. Link(n, tc2, w, log, c, s, old)
  BY <1>1, <1>3, <1>4, LinkMoves
<1> QED
  BY <1>1, <1>3, <1>5 DEF w, b, tc2
LEMMA HeadOfConcat ==
  ASSUME NEW a \in Cmds, a # <<>>, NEW b \in Cmds
  PROVE  /\ a \o b \in Cmds /\ a \o b # <<>> /\ Head(a \o b) = Head(a)
         /\ Tail(a \o b) = Tail(a) \o b /\ Tail(a) \in Cmds
<1>1. a \o b \in Cmds /\ Tail(a) \in Cmds
  BY DEF Cmds
<1>2. Len(a) \in Nat \ {0} /\ Len(b) \in Nat /\ Len(a \o b) = Len(a) + Len(b)
  BY DEF Cmds
<1>3. a \o b # <<>>
  <2>1. Len(a \o b) # 0
    BY <1>2
  <2> QED
    BY <2>1
<1>4. Head(a \o b) = Head(a) /\ Tail(a \o b) = Tail(a) \o b
  BY DEF Cmds
<1> QED
  BY <1>1, <1>3, <1>4

LEMMA LinkServes ==
  ASSUME NEW n \in PGconn, NEW tc \in Msgs, NEW v \in Server, NEW log, NEW c, NEW s, NEW old,
         Link(n, tc, v, log, c, s, old), v.in # <<>>
  PROVE  LET w == Serve(v)
         IN  /\ w \in Server /\ w.notes = v.notes
             /\ s < Len(log) /\ Link(n, tc, w, log, c, s + 1, old)
             /\ w.in = Tail(v.in) /\ Head(v.in) = log[s + 1]
             /\ w.out = v.out \o (IF Answered(log, s + 1) THEN <<Answer(log, s + 1)>> ELSE <<>>)
<1> DEFINE w == Serve(v)
           r == tc \o v.out
           one == IF Answered(log, s + 1) THEN <<Answer(log, s + 1)>> ELSE <<>>
           q == v.in \o n.out
<1>1. /\ log \in Cmds /\ Len(log) \in Nat /\ s \in 0 .. Len(log) /\ s \in Nat /\ r \in Msgs
      /\ AnswersIn(r) \in Msgs /\ n.inbuf \in Msgs /\ n.notifies \in Nat /\ v.in \in Cmds
      /\ v.out \in Msgs /\ n.out \in Cmds /\ c \in Nat
  BY LinkTyped
<1>2. /\ q \in Cmds /\ q # <<>> /\ Head(q) = Head(v.in) /\ Tail(q) = Tail(v.in) \o n.out
      /\ Tail(v.in) \in Cmds
  BY <1>1, HeadOfConcat
<1>3. Suffix(q, log, s) /\ Served(v, log, s, old) /\ Tracks(n, log, c, s, AnswersIn(r))
  BY DEF Link
<1> HIDE DEF q, r
<1>4. s < Len(log) /\ s + 1 \in 1 .. Len(log) /\ Head(q) = log[s + 1] /\ Suffix(Tail(q), log, s + 1)
  BY <1>1, <1>2, <1>3, SuffixTail
<1>5. s \in 0 .. Len(log) - 1 /\ s + 1 \in 0 .. Len(log)
  BY <1>1, <1>4
<1>6. /\ w \in Server /\ w.in = Tail(v.in) /\ w.notes = v.notes
      /\ w.out = v.out \o one
      /\ Served(w, log, s + 1, old)
  BY <1>1, <1>2, <1>3, <1>4, <1>5, ServeKeeps
<1>7. one \in Msgs /\ AnswersIn(one) = one /\ NoteCount(one) = 0
  <2>1. CASE Answered(log, s + 1)
    <3>1. Answer(log, s + 1) \in Msg /\ Answer(log, s + 1)[1] # "note"
      BY <1>1, <1>4, <2>1, AnswerTyped
    <3> QED
      BY <2>1, <3>1, LineOne
  <2>2. CASE ~Answered(log, s + 1)
    BY <2>2, LineEmpty
  <2> QED
    BY <2>1, <2>2
<1>8. AnswersIn(n.inbuf) \o AnswersIn(r) = Expected(log, c, s) /\ \A p \in s + 1 .. c : ~Answered(log, p)
  BY <1>3 DEF Tracks, Ahead
<1>9. Expected(log, c, s + 1) = Expected(log, c, s) \o one
  <2>1. s < c => s + 1 \in s + 1 .. c
    BY <1>1
  <2>2. s < c => ~Answered(log, s + 1)
    BY <1>8, <2>1
  <2> QED
    BY <1>1, <1>5, <2>2, ExpectedServed
<1> HIDE DEF w, one
<1>10. tc \o w.out = r \o one
  <2>1. (tc \o v.out) \o one = tc \o (v.out \o one)
    BY <1>1, <1>7, MsgsJoin
  <2> QED
    BY <1>6, <2>1 DEF r
<1>11. AnswersIn(tc \o w.out) = AnswersIn(r) \o one /\ NoteCount(n.inbuf \o (tc \o w.out)) = NoteCount(n.inbuf \o r)
  <2>1. AnswersIn(r \o one) = AnswersIn(r) \o AnswersIn(one)
    BY <1>1, <1>7, LineConcat
  <2> DEFINE ib == n.inbuf
  <2>0. ib \in Msgs /\ r \in Msgs /\ one \in Msgs
    BY <1>1, <1>7
  <2> HIDE DEF ib
  <2>2. (ib \o r) \o one = ib \o (r \o one)
    BY <2>0, MsgsJoin
  <2> USE DEF ib
  <2>3. n.inbuf \o r \in Msgs
    BY <1>1, LineConcat
  <2>4. NoteCount((n.inbuf \o r) \o one) = NoteCount(n.inbuf \o r) + NoteCount(one)
    BY <1>7, <2>3, LineConcat
  <2>5. NoteCount(n.inbuf \o r) \in Nat
    BY <2>3, LineTyped
  <2> QED
    BY <1>7, <1>10, <2>1, <2>2, <2>4, <2>5
<1>12. AnswersIn(n.inbuf) \o AnswersIn(tc \o w.out) = Expected(log, c, s + 1)
  <2>1. AnswersIn(n.inbuf) \in Msgs
    BY <1>1, LineTyped
  <2>2. (AnswersIn(n.inbuf) \o AnswersIn(r)) \o one = AnswersIn(n.inbuf) \o (AnswersIn(r) \o one)
    BY <1>1, <1>7, <2>1, MsgsJoin
  <2> QED
    BY <1>8, <1>9, <1>11, <2>2
<1>13. \A p \in (s + 1) + 1 .. c : p \in s + 1 .. c
  BY <1>1
<1>14. Tracks(n, log, c, s + 1, AnswersIn(tc \o w.out))
  BY <1>3, <1>8, <1>12, <1>13 DEF Tracks, Ahead
<1>15. n.notifies + NoteCount(n.inbuf \o (tc \o w.out)) <= w.notes /\ w.notes <= MaxNotes
  BY <1>6, <1>11 DEF Link, r
<1>16. Suffix(w.in \o n.out, log, s + 1)
  BY <1>2, <1>4, <1>6
<1> QED
  BY <1>1, <1>2, <1>4, <1>5, <1>6, <1>14, <1>15, <1>16 DEF Link, w, one

LEMMA LinkNotifies ==
  ASSUME NEW n \in PGconn, NEW tc \in Msgs, NEW v \in Server, NEW log, NEW c, NEW s, NEW old,
         Link(n, tc, v, log, c, s, old), v.notes < MaxNotes
  PROVE  LET w == [v EXCEPT !.notes = v.notes + 1, !.out = Append(v.out, <<"note", 0, 0>>)]
         IN  w \in Server /\ Link(n, tc, w, log, c, s, old)
<1> DEFINE x == <<"note", 0, 0>>
           one == <<x>>
           w == [v EXCEPT !.notes = v.notes + 1, !.out = Append(v.out, x)]
           r == tc \o v.out
<1>1. /\ log \in Cmds /\ Len(log) \in Nat /\ s \in 0 .. Len(log) /\ r \in Msgs
      /\ AnswersIn(r) \in Msgs /\ n.inbuf \in Msgs /\ n.notifies \in Nat
      /\ v.out \in Msgs /\ v.notes \in Nat
  BY LinkTyped
<1>2. x \in Msg /\ x[1] = "note"
  BY DEF Msg
<1> HIDE DEF x
<1>3. one \in Msgs /\ AnswersIn(one) = <<>> /\ NoteCount(one) = 1
  BY <1>2, LineOne
<1>4. Append(v.out, x) \in Msgs /\ Append(v.out, x) = v.out \o one
  BY <1>1, <1>2, MsgsAppend
<1>5. MaxNotes \in Nat
  BY PipelineAssumption
<1> HIDE DEF one, r
<1>6. /\ w \in Server /\ w.in = v.in /\ w.skip = v.skip /\ w.txn = v.txn /\ w.committed = v.committed
      /\ w.notes = v.notes + 1 /\ w.out = v.out \o one
  <2> DEFINE u == Append(v.out, x)
             k == v.notes + 1
  <2>1. u \in Msgs /\ k \in Nat
    BY <1>1, <1>4
  <2>3. w = [v EXCEPT !.notes = k, !.out = u]
    OBVIOUS
  <2> HIDE DEF u, k, w
  <2>2. /\ w \in Server /\ w.in = v.in /\ w.skip = v.skip /\ w.txn = v.txn /\ w.committed = v.committed
        /\ w.notes = k /\ w.out = u
    BY <2>1, <2>3 DEF Server
  <2> QED
    BY <1>4, <2>2 DEF u, k
<1> HIDE DEF w
<1>7. tc \o w.out = r \o one
  <2>1. (tc \o v.out) \o one = tc \o (v.out \o one)
    BY <1>1, <1>3, MsgsJoin
  <2> QED
    BY <1>6, <2>1 DEF r
<1>8. AnswersIn(tc \o w.out) = AnswersIn(r)
  <2>1. AnswersIn(r \o one) = AnswersIn(r) \o AnswersIn(one)
    BY <1>1, <1>3, LineConcat
  <2>2. AnswersIn(r) \o <<>> = AnswersIn(r)
    BY <1>1, MsgsEmpty
  <2> QED
    BY <1>3, <1>7, <2>1, <2>2
<1>9. NoteCount(n.inbuf \o (tc \o w.out)) = NoteCount(n.inbuf \o r) + 1 /\ NoteCount(n.inbuf \o r) \in Nat
  <2> DEFINE ib == n.inbuf
  <2>0. ib \in Msgs /\ r \in Msgs /\ one \in Msgs
    BY <1>1, <1>3
  <2> HIDE DEF ib
  <2>1. (ib \o r) \o one = ib \o (r \o one)
    BY <2>0, MsgsJoin
  <2> USE DEF ib
  <2>2. n.inbuf \o r \in Msgs
    BY <1>1, LineConcat
  <2>3. NoteCount((n.inbuf \o r) \o one) = NoteCount(n.inbuf \o r) + NoteCount(one)
    BY <1>3, <2>2, LineConcat
  <2>4. NoteCount(n.inbuf \o r) \in Nat
    BY <2>2, LineTyped
  <2> QED
    BY <1>3, <1>7, <2>1, <2>3, <2>4
<1>10. n.notifies + NoteCount(n.inbuf \o (tc \o w.out)) <= w.notes /\ w.notes <= MaxNotes
  <2>1. n.notifies + NoteCount(n.inbuf \o r) <= v.notes
    BY DEF Link, r
  <2> DEFINE k == NoteCount(n.inbuf \o r)
             k2 == NoteCount(n.inbuf \o (tc \o w.out))
  <2>2. k \in Nat /\ k2 = k + 1 /\ n.notifies + k <= v.notes
    BY <1>9, <2>1
  <2> HIDE DEF k, k2
  <2>3. n.notifies + k2 <= v.notes + 1 /\ v.notes + 1 <= MaxNotes
    BY <1>1, <1>5, <2>2
  <2> QED
    BY <1>6, <2>3 DEF k2
<1>11. Tracks(n, log, c, s, AnswersIn(r)) /\ Suffix(v.in \o n.out, log, s) /\ Served(v, log, s, old)
  BY DEF Link, r
<1>12. Tracks(n, log, c, s, AnswersIn(tc \o w.out)) /\ Suffix(w.in \o n.out, log, s) /\ Served(w, log, s, old)
  BY <1>6, <1>8, <1>11 DEF Served
<1> QED
  BY <1>1, <1>6, <1>10, <1>12 DEF Link, w, x

-----------------------------------------------------------------------------
(* The log grows, and a new one begins *)

LEMMA SurvivesPrefix ==
  ASSUME NEW log, NEW big, NEW n \in Nat, Begins(big, log, n), NEW p \in 1 .. n, NEW q \in 0 .. n
  PROVE  Survives(big, p, q) <=> Survives(log, p, q)
<1>1. \A x \in p + 1 .. q : x \in 1 .. n
  OBVIOUS
<1>2. \A x \in p + 1 .. q : Kind(big, x) = Kind(log, x)
  BY <1>1, AnswerPrefix
<1>3. p \in 1 .. n + 1
  OBVIOUS
<1>4. Kind(big, p) = Kind(log, p) /\ (Skipped(big, p) <=> Skipped(log, p))
  BY <1>3, AnswerPrefix, SkippedPrefix
<1> QED
  BY <1>2, <1>4 DEF Survives

LEMMA StaysPrefix ==
  ASSUME NEW log, NEW big, NEW n \in Nat, Begins(big, log, n), NEW p \in 1 .. n
  PROVE  Stays(big, p, n) <=> Stays(log, p, n)
<1>1. ASSUME NEW q \in p + 1 .. n
      PROVE  Kind(big, q) = Kind(log, q) /\ (Survives(big, p, q - 1) <=> Survives(log, p, q - 1))
  <2>1. q \in 1 .. n /\ q - 1 \in 0 .. n
    OBVIOUS
  <2>2. Kind(big, q) = Kind(log, q)
    BY <2>1, AnswerPrefix
  <2>3. Survives(big, p, q - 1) <=> Survives(log, p, q - 1)
    BY <2>1, SurvivesPrefix
  <2> QED
    BY <2>2, <2>3
<1> QED
  BY <1>1 DEF Stays

\* What was served is not changed by what is pushed later.
LEMMA ServedLonger ==
  ASSUME NEW v, NEW log \in Cmds, NEW new \in Cmds, NEW s \in 0 .. Len(log), NEW old,
         Served(v, log, s, old)
  PROVE  /\ Served(v, log \o new, s, old)
         /\ Open(log \o new, s) = Open(log, s) /\ Kept(log \o new, s) = Kept(log, s)
<1> DEFINE big == log \o new
<1>1. s \in Nat /\ \A p \in 1 .. s : p \in 1 .. Len(log)
  BY LogTyped
<1>2. Begins(big, log, s)
  BY <1>1, LongerLog DEF Begins
<1> HIDE DEF big
<1>3. s + 1 \in 1 .. s + 1 /\ s \in 0 .. s
  BY <1>1
<1>4. Skipped(big, s + 1) <=> Skipped(log, s + 1)
  BY <1>1, <1>2, <1>3, SkippedPrefix
<1>5. ASSUME NEW p \in 1 .. s
      PROVE  /\ Called(big, p) = Called(log, p)
             /\ Survives(big, p, s) <=> Survives(log, p, s)
             /\ Stays(big, p, s) <=> Stays(log, p, s)
  <2>1. Called(big, p) = Called(log, p)
    BY <1>2 DEF Called, Begins
  <2>2. Survives(big, p, s) <=> Survives(log, p, s)
    BY <1>1, <1>2, <1>3, SurvivesPrefix
  <2>3. Stays(big, p, s) <=> Stays(log, p, s)
    BY <1>1, <1>2, StaysPrefix
  <2> QED
    BY <2>1, <2>2, <2>3
<1>6. Open(big, s) = Open(log, s)
  BY <1>5 DEF Open
<1>7. Kept(big, s) = Kept(log, s)
  BY <1>5 DEF Kept
<1> QED
  BY <1>4, <1>6, <1>7 DEF Served, big

\* A new session, and one that has just been closed.
LEMMA LinkFresh ==
  ASSUME NEW v \in Server, v.in = <<>>, v.out = <<>>, v.txn = {}, v.skip = FALSE, v.notes <= MaxNotes
  PROVE  Fresh \in PGconn /\ <<>> \in Msgs /\ Link(Fresh, <<>>, v, <<>>, 0, 0, v.committed)
<1>1. Fresh \in PGconn /\ <<>> \in Msgs /\ <<>> \in Cmds /\ Len(<<>>) = 0 /\ 0 \in 0 .. 0
  BY DEF Fresh, PGconn, Cmds, Msgs, Res, Null
<1>2. <<>> \o <<>> = <<>>
  OBVIOUS
<1>3. Suffix(v.in \o Fresh.out, <<>>, 0)
  BY <1>1, <1>2 DEF Suffix, Fresh
<1>4. ~Skipped(<<>>, 0 + 1)
  BY NothingSkippedFirst
<1>5. Open(<<>>, 0) = {} /\ Kept(<<>>, 0) = {}
  BY DEF Open, Kept
<1>6. Served(v, <<>>, 0, v.committed)
  BY <1>4, <1>5 DEF Served
<1>7. Off(Fresh, <<>>, 0)
  BY <1>1, <1>4 DEF Off, Fresh
<1>8. Expected(<<>>, 0, 0) = <<>>
  BY <1>1, ExpectedNone
<1>9. Ahead(Fresh, <<>>, 0, 0, AnswersIn(<<>> \o v.out))
  <2>1. Fresh.inbuf = <<>> /\ <<>> \o v.out = <<>>
    BY <1>2 DEF Fresh
  <2>2. AnswersIn(Fresh.inbuf) \o AnswersIn(<<>> \o v.out) = <<>>
    BY <1>2, <2>1, LineEmpty
  <2>3. 0 \in 0 .. Len(<<>>) /\ \A p \in 0 + 1 .. 0 : ~Answered(<<>>, p)
    BY <1>1
  <2> QED
    BY <1>8, <2>2, <2>3 DEF Ahead
<1>10. Fresh.notifies + NoteCount(Fresh.inbuf \o (<<>> \o v.out)) <= v.notes
  <2>1. v.notes \in Nat
    BY DEF Server
  <2> QED
    BY <1>2, <2>1, LineEmpty DEF Fresh
<1> QED
  BY <1>1, <1>3, <1>6, <1>7, <1>9, <1>10 DEF Link, Tracks

\* PQenterPipelineMode.
LEMMA LinkEnters ==
  ASSUME NEW n \in PGconn, NEW tc \in Msgs, NEW v \in Server, NEW log, NEW c, NEW s, NEW old,
         Link(n, tc, v, log, c, s, old), PQenterPipelineMode(n)
  PROVE  LET m == [n EXCEPT !.mode = IF n.mode = "off" THEN "on" ELSE n.mode]
         IN  /\ m \in PGconn /\ m.mode # "off" /\ m.out = n.out /\ m.async = n.async /\ m.queue = n.queue
             /\ n.mode = "off" => m.mode = "on"
             /\ n.mode # "off" => m = n
             /\ Link(m, tc, v, log, c, s, old)
<1> DEFINE m == [n EXCEPT !.mode = IF n.mode = "off" THEN "on" ELSE n.mode]
<1>1. CASE n.mode # "off"
  <2>1. m = n
    BY <1>1 DEF PGconn
  <2> QED
    BY <1>1, <2>1
<1>2. CASE n.mode = "off"
  <2>1. /\ m \in PGconn /\ m.mode = "on" /\ m.async = n.async /\ m.queue = n.queue /\ m.out = n.out
        /\ m.inbuf = n.inbuf /\ m.notifies = n.notifies /\ m.result = n.result
    BY <1>2 DEF PGconn
  <2> HIDE DEF m
  <2>2. n.async = "idle"
    BY <1>2 DEF PQenterPipelineMode
  <2>3. Tracks(n, log, c, s, AnswersIn(tc \o v.out))
    BY DEF Link
  <2>4. Off(n, log, c)
    BY <1>2, <2>3 DEF Tracks, On
  <2>5. On(m, log, c)
    BY <2>1, <2>2, <2>4 DEF Off, On
  <2>6. Tracks(m, log, c, s, AnswersIn(tc \o v.out))
    BY <2>1, <2>3, <2>5 DEF Tracks, Ahead
  <2>7. Link(m, tc, v, log, c, s, old)
    BY <2>1, <2>6, LinkFollows DEF SameLine
  <2> QED
    BY <1>2, <2>1, <2>7 DEF m
<1> QED
  BY <1>1, <1>2

LEMMA CmdsJoin ==
  ASSUME NEW a \in Cmds, NEW b \in Cmds, NEW d \in Cmds
  PROVE  (a \o b) \o d = a \o (b \o d) /\ b \o d \in Cmds
BY Join DEF Cmds

\* Commands are pushed in pipeline mode.
LEMMA LinkPush ==
  ASSUME NEW n \in PGconn, NEW tc \in Msgs, NEW v \in Server, NEW log, NEW c, NEW s, NEW old,
         Link(n, tc, v, log, c, s, old), n.mode # "off", NEW cs \in Cmds
  PROVE  LET m == Push(n, cs)
         IN  /\ m \in PGconn /\ m.mode = n.mode /\ m.out = n.out \o cs /\ m.queue = n.queue \o cs
             /\ m.inbuf = n.inbuf
             /\ \E d \in Nat : Link(m, tc, v, log \o cs, d, s, old)
             /\ n.async = "idle" /\ n.mode = "on" /\ cs # <<>> => m.async = "busy"
<1> DEFINE m == Push(n, cs)
           r == AnswersIn(tc \o v.out)
           big == log \o cs
<1>1. /\ log \in Cmds /\ s \in 0 .. Len(log) /\ s \in Nat /\ Len(log) \in Nat /\ r \in Msgs /\ v.in \in Cmds
      /\ n.out \in Cmds
  BY LinkTyped
<1>2. Tracks(n, log, c, s, r) /\ Served(v, log, s, old) /\ Suffix(v.in \o n.out, log, s)
  BY DEF Link
<1> HIDE DEF r
<1>3. Follow(n, log, s, r)
  BY <1>1, <1>2, TracksFollows
<1>4. /\ m \in PGconn /\ m.mode = n.mode /\ m.inbuf = n.inbuf /\ m.notifies = n.notifies
      /\ m.out = n.out \o cs /\ m.queue = n.queue \o cs
      /\ Follow(m, big, s, r)
      /\ n.async = "idle" /\ n.mode = "on" /\ cs # <<>> => m.async = "busy"
  <2> HIDE DEF m
  <2>1. /\ Push(n, cs) \in PGconn /\ Push(n, cs).mode = n.mode /\ Push(n, cs).inbuf = n.inbuf
        /\ Push(n, cs).notifies = n.notifies
        /\ Push(n, cs).out = n.out \o cs /\ Push(n, cs).queue = n.queue \o cs
        /\ Follow(Push(n, cs), log \o cs, s, r)
        /\ n.async = "idle" /\ n.mode = "on" /\ cs # <<>> => Push(n, cs).async = "busy"
    BY <1>1, <1>3, PushKeeps
  <2> QED
    BY <2>1 DEF m
<1>5. big \in Cmds /\ s \in 0 .. Len(big)
  <2>1. Len(cs) \in Nat
    BY LogTyped
  <2>2. big \in Cmds /\ Len(big) = Len(log) + Len(cs)
    BY <1>1, LongerLog
  <2> QED
    BY <1>1, <2>1, <2>2
<1>6. Served(v, big, s, old)
  BY <1>1, <1>2, ServedLonger
<1>7. Suffix(v.in \o m.out, big, s)
  <2>1. v.in \o n.out \in Cmds /\ (v.in \o n.out) \o cs = v.in \o (n.out \o cs)
    BY <1>1, CmdsJoin, ZenonT(40)
  <2>2. Suffix((v.in \o n.out) \o cs, big, s)
    BY <1>1, <1>2, <2>1, SuffixAppend
  <2> QED
    BY <1>4, <2>1, <2>2
<1> HIDE DEF m, big
<1>8. PICK d \in Nat : Tracks(m, big, d, s, r)
  BY <1>4 DEF Follow
<1>9. Link(m, tc, v, big, d, s, old)
  BY <1>4, <1>5, <1>6, <1>7, <1>8 DEF Link, r
<1> QED
  BY <1>4, <1>9 DEF m, big

\* A single query outside pipeline mode, with the sync libpq adds.
Asking(n, x, y) == [n EXCEPT !.async = "busy", !.out = n.out \o <<x, y>>]

Pushed(log, x, y) ==
  /\ Len(log \o <<x, y>>) = Len(log) + 2
  /\ (log \o <<x, y>>)[Len(log) + 1] = x

LEMMA LinkAsks ==
  ASSUME NEW n \in PGconn, NEW tc \in Msgs, NEW v \in Server, NEW log, NEW c, NEW s, NEW old,
         Link(n, tc, v, log, c, s, old), n.mode = "off", n.async = "idle",
         NEW x \in Cmd, x[1] \in {"ok", "fail"}, NEW y \in Cmd, y[1] = "sync"
  PROVE  /\ Asking(n, x, y) \in PGconn /\ <<x, y>> \in Cmds
         /\ Link(Asking(n, x, y), tc, v, log \o <<x, y>>, Len(log), s, old)
         /\ Pushed(log, x, y)
<1> DEFINE cs == <<x, y>>
           q == n.out \o cs
           m == [n EXCEPT !.async = "busy", !.out = q]
           r == AnswersIn(tc \o v.out)
           big == log \o cs
<1>1. /\ log \in Cmds /\ s \in 0 .. Len(log) /\ s \in Nat /\ Len(log) \in Nat /\ r \in Msgs /\ v.in \in Cmds
      /\ n.out \in Cmds /\ c \in 0 .. Len(log)
  BY LinkTyped
<1>2. Tracks(n, log, c, s, r) /\ Served(v, log, s, old) /\ Suffix(v.in \o n.out, log, s)
  BY DEF Link
<1>3. cs \in Cmds /\ Len(cs) = 2 /\ cs[1] = x /\ cs[2] = y
  BY DEF Cmds
<1> HIDE DEF r, cs
<1>4. big \in Cmds /\ Len(big) = Len(log) + 2 /\ Begins(big, log, Len(log))
      /\ big[Len(log) + 1] = x /\ big[Len(log) + 2] = y
  <2>1. 1 \in 1 .. Len(cs) /\ 2 \in 1 .. Len(cs)
    BY <1>3
  <2>2. /\ big \in Cmds /\ Len(big) = Len(log) + Len(cs)
        /\ \A p \in 1 .. Len(log) : big[p] = log[p]
        /\ \A j \in 1 .. Len(cs) : big[Len(log) + j] = cs[j]
    BY <1>1, <1>3, LongerLog
  <2>3. big[Len(log) + 1] = x /\ big[Len(log) + 2] = y
    BY <1>3, <2>1, <2>2
  <2> QED
    BY <1>3, <2>2, <2>3 DEF Begins
<1>5. Served(v, big, s, old)
  BY <1>1, <1>2, <1>3, ServedLonger
<1>6. q \in Cmds /\ Suffix(v.in \o q, big, s)
  <2>1. v.in \o n.out \in Cmds /\ (v.in \o n.out) \o cs = v.in \o q /\ q \in Cmds
    BY <1>1, <1>3, CmdsJoin
  <2>2. Suffix((v.in \o n.out) \o cs, big, s)
    BY <1>1, <1>2, <1>3, <2>1, SuffixAppend
  <2> QED
    BY <2>1, <2>2
<1>7. c = Len(log) /\ ~Skipped(log, c + 1) /\ n.queue = <<>>
  <2>1. Off(n, log, c)
    BY <1>2 DEF Tracks, On
  <2> QED
    BY <2>1 DEF Off
<1> HIDE DEF big, q
<1>8. /\ m \in PGconn /\ m.mode = "off" /\ m.async = "busy" /\ m.queue = n.queue /\ m.out = q
      /\ m.inbuf = n.inbuf /\ m.notifies = n.notifies
  BY <1>6 DEF PGconn
<1> HIDE DEF m
<1>9. ~Skipped(big, Len(log) + 1)
  <2>1. Len(log) + 1 \in 1 .. Len(log) + 1
    BY <1>1
  <2> QED
    BY <1>1, <1>4, <1>7, <2>1, SkippedPrefix
<1>10. Asked(big)
  <2>1. Len(big) - 1 = Len(log) + 1 /\ Len(big) = Len(log) + 2 /\ Len(big) >= 2
    BY <1>1, <1>4
  <2> QED
    BY <1>4, <1>9, <2>1 DEF Asked, Kind
<1>11. Off(m, big, Len(log))
  <2>1. Len(log) = Len(big) - 2
    BY <1>1, <1>4
  <2> QED
    BY <1>7, <1>8, <1>10, <2>1 DEF Off
<1>12. Ahead(m, big, Len(log), s, r)
  <2>1. Ahead(n, big, c, s, r)
    BY <1>1, <1>2, <1>3, AheadLonger DEF Tracks, big
  <2> QED
    BY <1>7, <1>8, <2>1 DEF Ahead
<1>13. Link(m, tc, v, big, Len(log), s, old)
  <2>1. Tracks(m, big, Len(log), s, r)
    BY <1>11, <1>12 DEF Tracks
  <2>2. s \in 0 .. Len(big)
    BY <1>1, <1>4
  <2> QED
    BY <1>4, <1>5, <1>6, <1>8, <2>1, <2>2 DEF Link, r
<1> QED
  BY <1>3, <1>4, <1>8, <1>13 DEF Asking, Pushed, m, q, big, cs

\* What PQgetResult returns.
LEMMA LinkResult ==
  ASSUME NEW n \in PGconn, NEW tc \in Msgs, NEW v \in Server, NEW log, NEW c, NEW s, NEW old,
         Link(n, tc, v, log, c, s, old)
  PROVE  /\ GetResult(n) \in Res
         /\ IF n.async \in {"ready", "copy"}
            THEN /\ c \in 1 .. Len(log) /\ GetResult(n) = Answer(log, c)
                 /\ GetResult(n) # Null /\ GetResult(n)[1] = Status(log, c)
            ELSE GetResult(n) = Null
         /\ GetResult(n)[1] = "sync" =>
              n.async = "ready" /\ n.mode # "off" /\ n.result[1] = "sync" /\ Kind(log, c) = "sync"
<1>1. log \in Cmds /\ c \in 0 .. Len(log) /\ Len(log) \in Nat
  BY LinkTyped
<1>2. Off(n, log, c) \/ On(n, log, c)
  BY DEF Link, Tracks
<1>3. Null \in Res /\ Null[1] # "sync" /\ Null[1] = "null"
  BY DEF Null, Res
<1>4. CASE n.async \notin {"ready", "copy"}
  BY <1>3, <1>4 DEF GetResult
<1>5. CASE n.async \in {"ready", "copy"}
  <2>1. GetResult(n) = n.result
    BY <1>5 DEF GetResult
  <2>2. c \in 1 .. Len(log) /\ n.result = Answer(log, c)
    <3>1. CASE Off(n, log, c)
      BY <1>1, <1>5, <3>1 DEF Off, Asked
    <3>2. CASE On(n, log, c)
      BY <1>1, <1>5, <3>2 DEF On
    <3> QED
      BY <1>2, <3>1, <3>2
  <2>3. /\ Answer(log, c) \in Res /\ Answer(log, c)[1] = Status(log, c)
        /\ Status(log, c) \in {"ok", "error", "copy", "sync", "aborted"}
        /\ Status(log, c) = "sync" <=> Kind(log, c) = "sync"
    BY <1>1, <2>2, AnswerTyped, StatusOfKind
  <2>4. Answer(log, c) # Null
    BY <1>3, <2>3
  <2>5. ASSUME Status(log, c) = "sync"
        PROVE  n.async = "ready" /\ n.mode # "off"
    <3>1. CASE Off(n, log, c)
      <4>1. Kind(log, c) \in {"ok", "fail"}
        BY <1>5, <3>1 DEF Off, Asked
      <4> QED
        BY <2>3, <2>5, <4>1
    <3>2. CASE On(n, log, c)
      BY <1>5, <2>5, <3>2 DEF On
    <3> QED
      BY <1>2, <3>1, <3>2
  <2> QED
    BY <1>5, <2>1, <2>2, <2>3, <2>4, <2>5
<1> QED
  BY <1>4, <1>5

\* PQexitPipelineMode after the sync: all that was pushed was served and read.
LEMMA LinkLeaves ==
  ASSUME NEW n \in PGconn, NEW tc \in Msgs, NEW v \in Server, NEW log, NEW c, NEW s, NEW old,
         Link(n, tc, v, log, c, s, old), GetResult(n)[1] = "sync",
         PQexitPipelineMode(AfterGetResult(n))
  PROVE  LET m == [AfterGetResult(n) EXCEPT !.mode = "off", !.async = "idle"]
         IN  /\ m \in PGconn /\ SameLine(n, m)
             /\ c = Len(log) /\ s = Len(log) /\ Len(log) \in 1 .. Len(log) /\ Kind(log, c) = "sync"
             /\ n.queue # <<>> /\ Tail(n.queue) = <<>>
             /\ Link(m, tc, v, log, c, s, old)
<1> DEFINE a == AfterGetResult(n)
           m == [a EXCEPT !.mode = "off", !.async = "idle"]
           r == AnswersIn(tc \o v.out)
<1>1. /\ log \in Cmds /\ s \in 0 .. Len(log) /\ Len(log) \in Nat /\ r \in Msgs /\ c \in 0 .. Len(log)
      /\ n.queue \in Cmds
  BY LinkTyped
<1>2. /\ n.async = "ready" /\ n.mode # "off" /\ n.result[1] = "sync" /\ Kind(log, c) = "sync"
      /\ c \in 1 .. Len(log)
  BY LinkResult
<1>3. Tracks(n, log, c, s, r)
  BY DEF Link
<1>4. a \in PGconn /\ SameLine(n, a) /\ a.queue = Tail(n.queue)
  BY <1>2, LinkAfterGetResult
<1>5. a.queue = <<>>
  BY DEF PQexitPipelineMode
<1> HIDE DEF a, r
<1>6. On(n, log, c)
  BY <1>2, <1>3 DEF Tracks, Off
<1>7. Suffix(n.queue, log, c - 1)
  BY <1>2, <1>6 DEF On
<1>8. n.queue # <<>>
  BY <1>1, <1>2, <1>7, SuffixEmpty
<1>9. c = Len(log)
  <2>1. Suffix(Tail(n.queue), log, (c - 1) + 1)
    BY <1>1, <1>7, <1>8, SuffixTail
  <2>2. (c - 1) + 1 = c /\ Tail(n.queue) \in Cmds
    BY <1>1, <1>8, CmdsTyped
  <2> QED
    BY <1>1, <1>4, <1>5, <2>1, <2>2, SuffixEmpty
<1>10. s = Len(log)
  <2>1. \A p \in s + 1 .. c : ~Answered(log, p)
    BY <1>3 DEF Tracks, Ahead
  <2>2. c \notin s + 1 .. c
    BY <1>2, <2>1 DEF Answered
  <2> QED
    BY <1>1, <1>9, <2>2
<1>11. ~Skipped(log, c + 1)
  BY <1>1, <1>2, SkippedNext
<1>12. /\ m \in PGconn /\ m.mode = "off" /\ m.async = "idle" /\ m.queue = a.queue /\ m.out = a.out
       /\ m.inbuf = a.inbuf /\ m.notifies = a.notifies
  BY <1>4 DEF PGconn
<1> HIDE DEF m
<1>13. SameLine(n, m)
  BY <1>4, <1>12 DEF SameLine
<1>14. Tracks(m, log, c, s, r)
  <2>1. Off(m, log, c)
    BY <1>5, <1>9, <1>11, <1>12 DEF Off
  <2>2. Ahead(m, log, c, s, r)
    BY <1>3, <1>13 DEF Tracks, Ahead, SameLine
  <2> QED
    BY <2>1, <2>2 DEF Tracks
<1>15. Link(m, tc, v, log, c, s, old)
  BY <1>12, <1>13, <1>14, LinkFollows DEF r
<1> QED
  BY <1>2, <1>4, <1>5, <1>8, <1>9, <1>10, <1>12, <1>13, <1>15 DEF m, a

\* A server whose client is gone still serves some of what it was sent.
LEMMA LinkServesFirst ==
  ASSUME NEW n \in PGconn, NEW tc \in Msgs, NEW v \in Server, NEW log, NEW c, NEW s, NEW old,
         Link(n, tc, v, log, c, s, old), NEW k \in 0 .. Len(v.in)
  PROVE  LET w == ServeFirst(v, k)
         IN  w \in Server /\ Link(n, tc, w, log, c, s + k, old) /\ w.notes = v.notes
<1> DEFINE V == {w \in Server : \E t : Link(n, tc, w, log, c, t, old)}
           step == [w \in V |-> IF w.in # <<>> THEN Serve(w) ELSE w]
           Body(f) == [i \in 0 .. k |-> IF i = 0 THEN v ELSE Serve(f[i - 1])]
           serve == CHOOSE f : f = Body(f)
<1>1. ServeFirst(v, k) = serve[k]
  BY DEF ServeFirst
<1>2. s \in Nat /\ v.in \in Cmds /\ Len(v.in) \in Nat /\ k \in Nat
  BY LinkTyped, LogTyped
<1>3. step \in [V -> V]
  <2>1. ASSUME NEW w \in V, w.in # <<>> PROVE Serve(w) \in V
    <3>1. PICK t : Link(n, tc, w, log, c, t, old)
      OBVIOUS
    <3>2. Serve(w) \in Server /\ Link(n, tc, Serve(w), log, c, t + 1, old)
      BY <2>1, <3>1, LinkServes
    <3> QED
      BY <3>2
  <2> QED
    BY <2>1
<1>4. v \in V
  OBVIOUS
<1>5. PICK f \in [0 .. k -> V] : Iterates(f, k, v, step)
  <2> HIDE DEF V, step
  <2> QED
    BY <1>2, <1>3, <1>4, Iteration
<1>6. f[0] = v /\ \A i \in 1 .. k : f[i - 1] \in V /\ f[i] = IF f[i - 1].in # <<>> THEN Serve(f[i - 1]) ELSE f[i - 1]
  <2>1. f[0] = v /\ \A i \in 1 .. k : f[i] = step[f[i - 1]]
    BY <1>5 DEF Iterates
  <2>2. ASSUME NEW i \in 1 .. k PROVE f[i - 1] \in V
    <3>1. i - 1 \in 0 .. k
      BY <1>2
    <3> QED
      BY <1>5, <3>1
  <2> QED
    BY <2>1, <2>2
<1> DEFINE Ok(j) == /\ Link(n, tc, f[j], log, c, s + j, old) /\ f[j].notes = v.notes
                    /\ Len(f[j].in) = Len(v.in) - j
           S == {j \in Nat : j <= k => f[j] \in Server /\ Ok(j)}
<1> HIDE DEF Ok
<1>7. 0 \in S
  <2>1. s + 0 = s /\ Len(v.in) - 0 = Len(v.in)
    BY <1>2
  <2> QED
    BY <1>6, <2>1 DEF Ok
<1>8. ASSUME NEW j \in S PROVE j + 1 \in S
  <2> SUFFICES ASSUME j + 1 <= k PROVE f[j + 1] \in Server /\ Ok(j + 1)
    OBVIOUS
  <2> DEFINE u == f[j]
  <2>1. j + 1 \in 1 .. k /\ (j + 1) - 1 = j /\ j \in Nat /\ j < Len(v.in) /\ j <= k
    BY <1>2
  <2>2. u \in Server /\ Link(n, tc, u, log, c, s + j, old) /\ u.notes = v.notes /\ Len(u.in) = Len(v.in) - j
    BY <2>1 DEF Ok
  <2>3. f[j + 1] = IF u.in # <<>> THEN Serve(u) ELSE u
    BY <1>6, <2>1
  <2> HIDE DEF u
  <2>4. u.in \in Cmds /\ u.in # <<>>
    <3>1. u.in \in Cmds
      BY <2>2, LinkTyped
    <3>2. u.in = <<>> => Len(u.in) = 0
      OBVIOUS
    <3> QED
      BY <1>2, <2>1, <2>2, <3>1, <3>2
  <2>5. /\ Serve(u) \in Server /\ Serve(u).notes = u.notes /\ Serve(u).in = Tail(u.in)
        /\ Link(n, tc, Serve(u), log, c, (s + j) + 1, old)
    BY <2>2, <2>4, LinkServes
  <2>6. Len(Tail(u.in)) = Len(u.in) - 1
    BY <2>4, CmdsTyped
  <2>7. (s + j) + 1 = s + (j + 1) /\ (Len(v.in) - j) - 1 = Len(v.in) - (j + 1)
    BY <1>2, <2>1
  <2> QED
    BY <2>2, <2>3, <2>4, <2>5, <2>6, <2>7 DEF Ok
<1>9. S = Nat
  <2>1. S \in SUBSET Nat
    OBVIOUS
  <2> HIDE DEF S
  <2> QED
    BY <1>7, <1>8, <2>1, SetInduction
<1>10. \A j \in 0 .. k : f[j] \in Server /\ Ok(j)
  BY <1>2, <1>9
<1> HIDE DEF V, step, S
<1>11. ASSUME NEW i \in 1 .. k PROVE f[i] = Serve(f[i - 1])
  <2>1. i - 1 \in 0 .. k /\ i - 1 < Len(v.in)
    BY <1>2
  <2>2. Len(f[i - 1].in) = Len(v.in) - (i - 1)
    BY <1>10, <2>1 DEF Ok
  <2>3. f[i - 1].in = <<>> => Len(f[i - 1].in) = 0
    OBVIOUS
  <2>4. f[i - 1].in # <<>>
    BY <1>2, <2>1, <2>2, <2>3
  <2> QED
    BY <1>6, <2>4
<1>12. f = Body(f)
  <2>1. ASSUME NEW i \in 0 .. k
        PROVE  f[i] = IF i = 0 THEN v ELSE Serve(f[i - 1])
    <3>1. i # 0 => i \in 1 .. k
      BY <1>2
    <3> QED
      BY <1>6, <1>11, <3>1
  <2>2. f = [i \in 0 .. k |-> f[i]]
    BY <1>5
  <2> QED
    BY <2>1, <2>2
<1>13. serve = Body(serve)
  BY <1>12
<1> HIDE DEF serve
<1>14. \A i \in 0 .. k : serve[i] = IF i = 0 THEN v ELSE Serve(serve[i - 1])
  BY <1>13
<1> DEFINE T == {j \in Nat : j <= k => serve[j] = f[j]}
<1>15. 0 \in T
  <2>1. 0 \in 0 .. k
    BY <1>2
  <2> QED
    BY <1>6, <1>14, <2>1
<1>16. ASSUME NEW j \in T PROVE j + 1 \in T
  <2> SUFFICES ASSUME j + 1 <= k PROVE serve[j + 1] = f[j + 1]
    OBVIOUS
  <2>1. j + 1 \in 1 .. k /\ j + 1 \in 0 .. k /\ (j + 1) - 1 = j /\ j + 1 # 0 /\ serve[j] = f[j]
    BY <1>2
  <2>2. serve[j + 1] = Serve(serve[j])
    BY <1>14, <2>1
  <2>3. f[j + 1] = Serve(f[j])
    BY <1>11, <2>1
  <2> QED
    BY <2>1, <2>2, <2>3
<1>17. T = Nat
  <2>1. T \in SUBSET Nat
    OBVIOUS
  <2> HIDE DEF T
  <2> QED
    BY <1>15, <1>16, <2>1, SetInduction
<1>18. serve[k] = f[k] /\ k \in 0 .. k
  BY <1>2, <1>17
<1> QED
  BY <1>1, <1>10, <1>18 DEF Ok

\* Pushing on an idle PGconn sets it going.
LEMMA PushStarts ==
  ASSUME NEW n \in PGconn, n.mode # "off", n.async = "idle", NEW cs \in Cmds, cs # <<>>
  PROVE  Push(n, cs).async \in {"busy", "ready"}
<1> DEFINE len == Len(cs)
<1>1. PICK push \in [0 .. len -> PGconn] :
        /\ Push(n, cs) = push[len]
        /\ push[0] = n
        /\ \A i \in 1 .. len : push[i] = PushCommand(push[i - 1], cs[i])
  BY PushIsRecursive
<1>2. len \in Nat /\ len # 0 /\ \A i \in 1 .. len : cs[i] \in Cmd
  BY DEF Cmds
<1>3. ASSUME NEW u \in PGconn, u.mode = n.mode, u.async \in {"idle", "busy", "ready"}, NEW x \in Cmd
      PROVE  PushCommand(u, x).mode = n.mode /\ PushCommand(u, x).async \in {"busy", "ready"}
  <2> DEFINE q == Append(u.queue, x)
             o == Append(u.out, x)
             m == [u EXCEPT !.queue = q, !.out = o]
             g == [m EXCEPT !.async = "busy"]
  <2>1. q \in Cmds /\ q # <<>> /\ o \in Cmds
    <3>1. u.queue \in Cmds /\ u.out \in Cmds
      BY DEF PGconn
    <3> QED
      BY <3>1 DEF Cmds
  <2> HIDE DEF q, o
  <2>2. m \in PGconn /\ m.queue = q /\ m.mode = u.mode /\ m.async = u.async
    BY <2>1 DEF PGconn
  <2>3. g \in PGconn /\ g.mode = u.mode /\ g.async = "busy"
    BY <2>2 DEF PGconn
  <2>4. u.mode \in {"on", "aborted"}
    BY <1>3 DEF PGconn
  <2>5. PushCommand(u, x) = CASE u.mode = "aborted" /\ u.async \in {"idle", "pidle"} -> ProcessQueue(m)
                              [] u.mode = "on" /\ u.async = "idle" -> g
                              [] OTHER -> m
    BY DEF PushCommand, q, o
  <2> HIDE DEF m, g
  <2>6. ProcessQueue(m).mode = u.mode /\ ProcessQueue(m).async \in {"busy", "ready"}
    <3> DEFINE y == Head(m.queue)
               z == <<"aborted", y[2], y[3]>>
    <3>1. ProcessQueue(m) = IF m.mode = "aborted" /\ y[1] # "sync"
                            THEN [m EXCEPT !.async = "ready", !.result = z]
                            ELSE [m EXCEPT !.async = "busy"]
      BY <2>1, <2>2 DEF ProcessQueue
    <3> HIDE DEF z, y
    <3> QED
      BY <2>2, <3>1 DEF PGconn
  <2> QED
    BY <1>3, <2>2, <2>3, <2>4, <2>5, <2>6
<1> DEFINE Ok(k) == push[k].mode = n.mode /\ push[k].async \in (IF k = 0 THEN {"idle"} ELSE {"busy", "ready"})
           S == {k \in Nat : k <= len => Ok(k)}
<1> HIDE DEF len, Ok
<1>4. 0 \in S
  BY <1>1 DEF Ok
<1>5. ASSUME NEW k \in S PROVE k + 1 \in S
  <2> SUFFICES ASSUME k + 1 <= len PROVE Ok(k + 1)
    OBVIOUS
  <2>1. k \in Nat /\ k + 1 \in 1 .. len /\ (k + 1) - 1 = k /\ k <= len /\ k \in 0 .. len /\ k + 1 # 0
    BY <1>2
  <2>2. push[k] \in PGconn /\ push[k + 1] = PushCommand(push[k], cs[k + 1]) /\ cs[k + 1] \in Cmd
    BY <1>1, <1>2, <2>1
  <2>3. push[k].mode = n.mode /\ push[k].async \in {"idle", "busy", "ready"}
    BY <2>1 DEF Ok
  <2> QED
    BY <1>3, <2>1, <2>2, <2>3 DEF Ok
<1>6. S = Nat
  <2>1. S \in SUBSET Nat
    OBVIOUS
  <2> HIDE DEF S
  <2> QED
    BY <1>4, <1>5, <2>1, SetInduction
<1>7. Ok(len)
  BY <1>2, <1>6
<1> QED
  BY <1>1, <1>2, <1>7 DEF Ok

\* Nothing of operation i is still to be served or to be committed.
Finished(log, s, i) ==
  /\ \A p \in s + 1 .. Len(log) : log[p][2] # i
  /\ OfOperation(Open(log, s), i) = {}

\* Then what was committed of it stays as it is.
LEMMA FinishedNext ==
  ASSUME NEW log \in Cmds, NEW s \in 0 .. Len(log) - 1, NEW i, Finished(log, s, i)
  PROVE  /\ Finished(log, s + 1, i)
         /\ OfOperation(Kept(log, s + 1), i) = OfOperation(Kept(log, s), i)
<1>1. Len(log) \in Nat /\ s + 1 \in s + 1 .. Len(log) /\ \A p \in (s + 1) + 1 .. Len(log) : p \in s + 1 .. Len(log)
  BY LogTyped
<1>2. log[s + 1][2] # i
  BY <1>1 DEF Finished
<1>3. Called(log, s + 1)[1] # i
  BY <1>2 DEF Called
<1>4. OfOperation(Open(log, s), i) = {}
  BY DEF Finished
<1>5. OfOperation(Open(log, s + 1), i) = {}
  <2> DEFINE A == Open(log, s)
             B == Open(log, s + 1)
             e == Called(log, s + 1)
  <2>1. B = {} \/ B = A \/ B = A \union {e}
    BY OpenNext
  <2> HIDE DEF A, B, e
  <2>2. OfOperation(A, i) = {} /\ e[1] # i
    BY <1>3, <1>4 DEF A, e
  <2>3. OfOperation(B, i) = {}
    BY <2>1, <2>2 DEF OfOperation
  <2> QED
    BY <2>3 DEF B
<1>6. OfOperation(Kept(log, s + 1), i) = OfOperation(Kept(log, s), i)
  <2> DEFINE A == Open(log, s)
             K == Kept(log, s)
             L == Kept(log, s + 1)
  <2>1. L = K \/ L = K \union A
    BY KeptNext
  <2> HIDE DEF A, K, L
  <2>2. OfOperation(A, i) = {}
    BY <1>4 DEF A
  <2>3. OfOperation(L, i) = OfOperation(K, i)
    BY <2>1, <2>2 DEF OfOperation
  <2> QED
    BY <2>3 DEF K, L
<1>7. \A p \in (s + 1) + 1 .. Len(log) : log[p][2] # i
  BY <1>1 DEF Finished
<1> QED
  BY <1>5, <1>6, <1>7 DEF Finished

LEMMA FinishedStays ==
  ASSUME NEW log \in Cmds, NEW s \in 0 .. Len(log), NEW i, Finished(log, s, i),
         NEW k \in Nat, s + k <= Len(log)
  PROVE  OfOperation(Kept(log, s + k), i) = OfOperation(Kept(log, s), i)
<1> DEFINE Ok(j) == /\ Finished(log, s + j, i)
                    /\ OfOperation(Kept(log, s + j), i) = OfOperation(Kept(log, s), i)
           S == {j \in Nat : s + j <= Len(log) => Ok(j)}
<1>1. s \in Nat /\ Len(log) \in Nat
  BY LogTyped
<1> HIDE DEF Ok
<1>2. 0 \in S
  <2>1. s + 0 = s
    BY <1>1
  <2> QED
    BY <2>1 DEF Ok
<1>3. ASSUME NEW j \in S PROVE j + 1 \in S
  <2> SUFFICES ASSUME s + (j + 1) <= Len(log) PROVE Ok(j + 1)
    OBVIOUS
  <2>1. s + j \in 0 .. Len(log) - 1 /\ (s + j) + 1 = s + (j + 1) /\ s + j <= Len(log)
    BY <1>1
  <2>2. Finished(log, s + j, i) /\ OfOperation(Kept(log, s + j), i) = OfOperation(Kept(log, s), i)
    BY <2>1 DEF Ok
  <2>3. /\ Finished(log, (s + j) + 1, i)
        /\ OfOperation(Kept(log, (s + j) + 1), i) = OfOperation(Kept(log, s + j), i)
    BY <2>1, <2>2, FinishedNext
  <2> QED
    BY <2>1, <2>2, <2>3 DEF Ok
<1>4. S = Nat
  <2>1. S \in SUBSET Nat
    OBVIOUS
  <2> HIDE DEF S
  <2> QED
    BY <1>2, <1>3, <2>1, SetInduction
<1> QED
  BY <1>4 DEF Ok

-----------------------------------------------------------------------------
(* What a PGconn that is linked to the log can look like *)

OffAt(n, log, c) ==
  /\ Len(n.queue) = 0 /\ Len(log) \in Nat
  /\ n.async \in {"idle", "busy", "ready"}
  /\ n.async = "idle" => c = Len(log)
  /\ n.async # "idle" => Asked(log)
  /\ n.async = "busy" => c = Len(log) - 2 \/ c = Len(log) - 1
  /\ n.async = "ready" => c = Len(log) - 1 /\ n.result = Answer(log, c)

OnAt(n, log, c) ==
  /\ Len(n.queue) \in Nat /\ Len(log) \in Nat /\ c \in 0 .. Len(log)
  /\ n.queue = <<>> <=> Len(n.queue) = 0
  /\ n.mode = "aborted" <=> Skipped(log, c + 1)
  /\ n.async \in {"ready", "copy"} =>
       /\ c = Len(log) - Len(n.queue) + 1 /\ c >= 1 /\ n.result = Answer(log, c)
       /\ n.async = "copy" <=> Status(log, c) = "copy"
  /\ n.async \notin {"ready", "copy"} => c = Len(log) - Len(n.queue)
  /\ n.async = "idle" => Len(n.queue) = 0
  /\ n.async = "busy" => Len(n.queue) >= 1 /\ Answered(log, c + 1)

LEMMA LinkOff ==
  ASSUME NEW n \in PGconn, NEW tc \in Msgs, NEW v \in Server, NEW log, NEW c, NEW s, NEW old,
         Link(n, tc, v, log, c, s, old), n.mode = "off"
  PROVE  OffAt(n, log, c)
<1>1. Len(log) \in Nat
  BY LinkTyped
<1>2. Off(n, log, c)
  BY DEF Link, Tracks, On
<1>3. Len(<<>>) = 0
  OBVIOUS
<1> QED
  BY <1>1, <1>2, <1>3 DEF Off, OffAt

LEMMA LinkOn ==
  ASSUME NEW n \in PGconn, NEW tc \in Msgs, NEW v \in Server, NEW log, NEW c, NEW s, NEW old,
         Link(n, tc, v, log, c, s, old), n.mode # "off"
  PROVE  OnAt(n, log, c)
<1>1. Len(log) \in Nat /\ c \in 0 .. Len(log) /\ n.queue \in Cmds
  BY LinkTyped
<1>2. On(n, log, c)
  BY DEF Link, Tracks, Off
<1>3. Len(n.queue) \in Nat /\ (n.queue = <<>> <=> Len(n.queue) = 0)
  BY <1>1 DEF Cmds
<1>4. n.mode = "aborted" <=> Skipped(log, c + 1)
  BY <1>2 DEF On
<1>5. n.async \in {"ready", "copy"} =>
              /\ c = Len(log) - Len(n.queue) + 1 /\ c >= 1 /\ n.result = Answer(log, c)
              /\ n.async = "copy" <=> Status(log, c) = "copy"
  <2> SUFFICES ASSUME n.async \in {"ready", "copy"} 
               PROVE  /\ c = Len(log) - Len(n.queue) + 1 /\ c >= 1 /\ n.result = Answer(log, c)
                      /\ n.async = "copy" <=> Status(log, c) = "copy"
    OBVIOUS
  <2>1. /\ c >= 1 /\ Len(n.queue) = Len(log) - (c - 1) /\ n.result = Answer(log, c)
        /\ (n.async = "copy" <=> Status(log, c) = "copy")
    BY <1>2 DEF On, Suffix
  <2> QED
    BY <1>1, <1>3, <2>1
<1>6. n.async \notin {"ready", "copy"} =>
        /\ c = Len(log) - Len(n.queue)
        /\ n.async = "idle" => Len(n.queue) = 0
        /\ n.async = "busy" => Len(n.queue) >= 1 /\ Answered(log, c + 1)
  <2> SUFFICES ASSUME n.async \notin {"ready", "copy"} 
               PROVE  /\ c = Len(log) - Len(n.queue)
                      /\ n.async = "idle" => Len(n.queue) = 0
                      /\ n.async = "busy" => Len(n.queue) >= 1 /\ Answered(log, c + 1)
    OBVIOUS
  <2>1. CASE n.async = "idle"
    <3>1. n.queue = <<>> /\ c = Len(log)
      BY <1>2, <2>1 DEF On
    <3> QED
      BY <1>1, <1>3, <2>1, <3>1
  <2>2. CASE n.async # "idle"
    <3>1. Len(n.queue) = Len(log) - c /\ (n.async = "busy" => c < Len(log) /\ Answered(log, c + 1))
      BY <1>2, <2>2 DEF On, Suffix
    <3> QED
      BY <1>1, <1>3, <2>2, <3>1
  <2> QED
    BY <2>1, <2>2
<1> QED
  BY <1>1, <1>3, <1>4, <1>5, <1>6 DEF OnAt

\* n is m with some of its input parsed: it may have taken one answer.
Settles(n, m, c, d) ==
  /\ m.queue = n.queue /\ (m.mode = "off" <=> n.mode = "off")
  /\ \/ d = c /\ m.mode = n.mode /\ m.async = n.async
     \/ d = c + 1 /\ n.async = "busy" /\ m.async # "busy"

LEMMA LinkSettles ==
  ASSUME NEW n \in PGconn, NEW tc \in Msgs, NEW v \in Server, NEW log, NEW c, NEW s, NEW old,
         Link(n, tc, v, log, c, s, old)
  PROVE  LET m == Parsed(n)
         IN  /\ m \in PGconn /\ m.out = n.out /\ NotesKept(n, m) /\ Stuck(m)
             /\ \E d \in Nat : Settles(n, m, c, d) /\ Link(m, tc, v, log, d, s, old)
<1> DEFINE m == Parsed(n)
<1>1. /\ m \in PGconn /\ SameQueues(n, m) /\ NotesKept(n, m) /\ Stuck(m)
      /\ \/ Quiet(n, m) /\ Link(m, tc, v, log, c, s, old)
         \/ /\ n.async = "busy" /\ m.async # "busy" /\ c < Len(log)
            /\ Link(m, tc, v, log, c + 1, s, old)
  BY LinkParsed
<1>2. Reaches(n, m)
  BY ParsedKeeps
<1> HIDE DEF m
<1>3. m.mode = "off" <=> n.mode = "off"
  BY <1>2 DEF Reaches, Quiet, Advances, Takes
<1>4. c \in Nat /\ c + 1 \in Nat
  BY LinkTyped
<1>5. CASE Quiet(n, m) /\ Link(m, tc, v, log, c, s, old)
  <2>1. Settles(n, m, c, c)
    BY <1>1, <1>3, <1>5 DEF Settles, Quiet, SameQueues
  <2> QED
    BY <1>1, <1>4, <1>5, <2>1 DEF SameQueues, m
<1>6. CASE n.async = "busy" /\ m.async # "busy" /\ Link(m, tc, v, log, c + 1, s, old)
  <2>1. Settles(n, m, c, c + 1)
    BY <1>1, <1>3, <1>6 DEF Settles, SameQueues
  <2> QED
    BY <1>1, <1>4, <1>6, <2>1 DEF SameQueues, m
<1> QED
  BY <1>1, <1>5, <1>6

-----------------------------------------------------------------------------
(* An operation under way *)

Ress == Seq(Res)

\* The results rs are those of the commands after the first b.
OwnResults(log, b, rs) ==
  \A j \in 1 .. Len(rs) : rs[j] = Answer(log, b + j) /\ Status(log, b + j) # "copy"

PhaseOk(o, ph, k) ==
  /\ ph = "result" => k < Size(o)
  /\ ph = "null" => k \in 1 .. Size(o)
  /\ ph = "sync" => k = Size(o)

\* Where nothing can have gone wrong.
Clean(o, st) == ~st /\ "copy" \notin Range(o.items)

\* What it pushed is at the end of the log.  Of that libpq has taken no more
\* off its queue than results were received; if as much, they are its own.
InPipeline(n, log, i, o, ph, rs, st) ==
  /\ n.mode # "off" /\ Block(log, i, o, Len(log) - (Size(o) + 1))
  /\ Len(n.queue) >= (Size(o) + 1) - Len(rs)
  /\ Len(n.queue) = (Size(o) + 1) - Len(rs) => OwnResults(log, Len(log) - (Size(o) + 1), rs)
  /\ PhaseOk(o, ph, Len(rs))
  /\ ph = "null" /\ Len(n.queue) = (Size(o) + 1) - Len(rs) => n.async = "pidle"
  /\ Clean(o, st) => /\ Len(n.queue) = (Size(o) + 1) - Len(rs)
                     /\ ph # "null" => n.async \in {"busy", "ready"}

\* A query in the middle of a pipeline that was left behind.
InQueryOn(n, log, i, ph, rs, st) ==
  /\ Len(log) >= 1 /\ Kind(log, Len(log)) \in {"ok", "fail"} /\ Called(log, Len(log)) = <<i, 1>>
  /\ ph = "result" => /\ Len(n.queue) >= 1
                      /\ Len(n.queue) = 1 => n.mode = "aborted" \/ n.async = "pidle"
  /\ ph = "null" /\ Len(n.queue) = 0 => n.mode = "aborted"
  /\ ~st /\ ph = "result" => Len(n.queue) = 1 /\ n.async = "ready"
  /\ ~st /\ ph = "null" => Len(n.queue) = 0 /\ n.async = "pidle" /\ rs[1] = Answer(log, Len(log))

InQueryOff(n, log, c, i, ph, rs) ==
  /\ Len(log) >= 2 /\ Called(log, Len(log) - 1) = <<i, 1>>
  /\ ph = "result" => (n.async = "busy" /\ c = Len(log) - 2) \/ n.async = "ready"
  /\ ph = "null" => /\ rs[1] = Answer(log, Len(log) - 1)
                    /\ (n.async = "busy" /\ c = Len(log) - 1) \/ n.async = "idle"

InQuery(n, log, c, i, ph, rs, st) ==
  /\ ph \in {"result", "null"}
  /\ ph = "null" => Len(rs) = 1
  /\ n.mode # "off" => InQueryOn(n, log, i, ph, rs, st)
  /\ n.mode = "off" => InQueryOff(n, log, c, i, ph, rs)

Running(n, log, c, os, ph, rs, st) ==
  /\ Len(os) >= 1
  /\ os[Len(os)].what = "pipeline" => InPipeline(n, log, Len(os), os[Len(os)], ph, rs, st)
  /\ os[Len(os)].what = "query" => InQuery(n, log, c, Len(os), ph, rs, st)

\* Without a COPY among the items there is none among the commands.
LEMMA NoCopyInBlock ==
  ASSUME NEW i \in Nat, NEW o \in Operation, NEW log \in Cmds, NEW b, Block(log, i, o, b),
         "copy" \notin Range(o.items), NEW j \in 1 .. Size(o) + 1
  PROVE  b + j \in 1 .. Len(log) /\ Status(log, b + j) # "copy"
<1>1. /\ Len(o.items) \in Nat /\ DOMAIN o.items = 1 .. Len(o.items) /\ Size(o) \in Nat
      /\ o.thrown => Size(o) = Len(o.items) + 1
      /\ ~o.thrown => Size(o) = Len(o.items)
  BY OperationTyped
<1>2. /\ b \in Nat /\ b + j \in 1 .. Len(log)
      /\ \A k \in 1 .. Len(o.items) : Kind(log, b + k) = o.items[k]
      /\ o.thrown => Kind(log, b + Size(o)) = "rollback"
      /\ Kind(log, b + (Size(o) + 1)) = "sync"
  BY BlockKinds
<1>3. Kind(log, b + j) # "copy"
  <2>1. CASE j \in 1 .. Len(o.items)
    <3>1. o.items[j] \in Range(o.items)
      BY <1>1, <2>1 DEF Range
    <3> QED
      BY <1>2, <2>1, <3>1
  <2>2. CASE j \notin 1 .. Len(o.items)
    <3>1. j = Size(o) + 1 \/ (o.thrown /\ j = Size(o))
      BY <1>1, <2>2
    <3> QED
      BY <1>2, <3>1
  <2> QED
    BY <2>1, <2>2
<1> QED
  BY <1>2, <1>3, StatusOfKind

\* Parsing does not disturb it.
LEMMA PipelineParsed ==
  ASSUME NEW n \in PGconn, NEW m \in PGconn, NEW tc \in Msgs, NEW v \in Server, NEW log, NEW c, NEW d,
         NEW s, NEW old, Link(n, tc, v, log, c, s, old), Link(m, tc, v, log, d, s, old),
         Settles(n, m, c, d), NEW i \in Nat, NEW o \in Operation, NEW ph, NEW rs \in Ress, NEW st \in Bool,
         InPipeline(n, log, i, o, ph, rs, st)
  PROVE  InPipeline(m, log, i, o, ph, rs, st)
<1>1. n.mode # "off" /\ m.mode # "off" /\ m.queue = n.queue
  BY DEF InPipeline, Settles
<1>2. Size(o) \in Nat /\ Len(rs) \in Nat /\ log \in Cmds
  BY OperationTyped, LinkTyped DEF Ress
<1> DEFINE left == (Size(o) + 1) - Len(rs)
<1>3. ASSUME Clean(o, st)
      PROVE  /\ Len(m.queue) = left
             /\ ph = "null" => m.async = "pidle"
             /\ ph # "null" => m.async \in {"busy", "ready"}
  <2>1. Len(n.queue) = left
    BY <1>3 DEF InPipeline
  <2>2. ph = "null" => n.async = "pidle"
    BY <1>3 DEF InPipeline
  <2>3. ph # "null" => n.async \in {"busy", "ready"}
    BY <1>3 DEF InPipeline
  <2>4. CASE m.async = n.async
    BY <1>1, <2>1, <2>2, <2>3, <2>4
  <2>5. CASE d = c + 1 /\ n.async = "busy" /\ m.async # "busy"
    <3>1. ph # "null"
      BY <2>2, <2>5
    <3>a. OnAt(n, log, c) /\ OnAt(m, log, d)
      BY <1>1, LinkOn
    <3>2. /\ c = Len(log) - Len(n.queue) /\ Len(n.queue) >= 1 /\ Len(n.queue) \in Nat /\ Len(log) \in Nat
          /\ c \in 0 .. Len(log)
      BY <2>5, <3>a DEF OnAt
    <3>3. /\ m.async \in {"ready", "copy"} => /\ d = Len(log) - Len(m.queue) + 1
                                              /\ m.async = "copy" <=> Status(log, d) = "copy"
          /\ m.async \notin {"ready", "copy"} => d = Len(log) - Len(m.queue)
      BY <3>a DEF OnAt
    <3>4. m.async \in {"ready", "copy"}
      BY <1>1, <2>5, <3>2, <3>3
    <3>5. Status(log, d) # "copy"
      <4> DEFINE b == Len(log) - (Size(o) + 1)
                 j == Len(rs) + 1
      <4>1. Len(rs) <= Size(o)
        BY <1>2, <2>1, <3>2
      <4>2. j \in 1 .. Size(o) + 1 /\ b + j = d
        <5> DEFINE r == Len(rs)
                   k == Size(o)
                   l == Len(log)
                   q == Len(n.queue)
        <5>1. r \in Nat /\ k \in Nat /\ l \in Nat /\ r <= k /\ q = (k + 1) - r /\ c = l - q /\ d = c + 1
          BY <1>2, <2>1, <2>5, <3>2, <4>1
        <5> HIDE DEF r, k, l, q
        <5>2. r + 1 \in 1 .. k + 1 /\ (l - (k + 1)) + (r + 1) = d
          BY <5>1
        <5> QED
          BY <5>2 DEF r, k, l
      <4>3. Block(log, i, o, b) /\ "copy" \notin Range(o.items)
        BY <1>3 DEF InPipeline, Clean
      <4> HIDE DEF b, j
      <4> QED
        BY <1>2, <4>2, <4>3, NoCopyInBlock
    <3> QED
      BY <1>1, <2>1, <3>1, <3>3, <3>4, <3>5
  <2> QED
    BY <2>4, <2>5 DEF Settles
<1>4. ph = "null" /\ Len(n.queue) = left => m.async = "pidle"
  <2>1. ph = "null" /\ Len(n.queue) = left => n.async = "pidle"
    BY DEF InPipeline
  <2>2. m.async = n.async \/ n.async = "busy"
    BY DEF Settles
  <2> QED
    BY <2>1, <2>2
<1> QED
  BY <1>1, <1>3, <1>4 DEF InPipeline

LEMMA QueryParsed ==
  ASSUME NEW n \in PGconn, NEW m \in PGconn, NEW tc \in Msgs, NEW v \in Server, NEW log, NEW c, NEW d,
         NEW s, NEW old, Link(n, tc, v, log, c, s, old), Link(m, tc, v, log, d, s, old),
         Settles(n, m, c, d), NEW i \in Nat, NEW ph, NEW rs \in Ress, NEW st \in Bool,
         InQuery(n, log, c, i, ph, rs, st)
  PROVE  InQuery(m, log, d, i, ph, rs, st)
<1>1. m.queue = n.queue /\ (m.mode = "off" <=> n.mode = "off")
  BY DEF Settles
<1>2. log \in Cmds /\ Len(log) \in Nat /\ c \in 0 .. Len(log) /\ c \in Nat
  BY LinkTyped
<1>3. CASE d = c /\ m.mode = n.mode /\ m.async = n.async
  BY <1>1, <1>3 DEF InQuery, InQueryOn, InQueryOff
<1>4. CASE d = c + 1 /\ n.async = "busy" /\ m.async # "busy"
  <2>1. CASE n.mode = "off"
    <3>1. InQueryOff(n, log, c, i, ph, rs)
      BY <2>1 DEF InQuery
    <3>2. /\ m.async \in {"idle", "busy", "ready"}
          /\ m.async = "idle" => d = Len(log)
          /\ m.async = "ready" => d = Len(log) - 1
      <4>1. OffAt(m, log, d)
        BY <1>1, <2>1, LinkOff
      <4> QED
        BY <4>1 DEF OffAt
    <3>3. InQueryOff(m, log, d, i, ph, rs)
      <4>1. ph = "result" => c = Len(log) - 2
        BY <1>4, <3>1 DEF InQueryOff
      <4>2. ph = "null" => c = Len(log) - 1
        BY <1>4, <3>1 DEF InQueryOff
      <4>3. ph = "result" => m.async = "ready"
        BY <1>2, <1>4, <3>2, <4>1
      <4>4. ph = "null" => m.async = "idle"
        BY <1>2, <1>4, <3>2, <4>2
      <4> QED
        BY <3>1, <4>3, <4>4 DEF InQueryOff
    <3> QED
      BY <1>1, <2>1, <3>3 DEF InQuery
  <2>2. CASE n.mode # "off"
    <3>1. InQueryOn(n, log, i, ph, rs, st)
      BY <2>2 DEF InQuery
    <3>2. /\ c = Len(log) - Len(n.queue) /\ Len(n.queue) >= 1 /\ Len(n.queue) \in Nat
          /\ n.mode = "aborted" <=> Skipped(log, c + 1)
          /\ Answered(log, c + 1)
      <4>1. OnAt(n, log, c)
        BY <2>2, LinkOn
      <4> QED
        BY <1>4, <4>1 DEF OnAt
    <3>3. ph = "result" => Len(n.queue) # 1
      <4> SUFFICES ASSUME ph = "result", Len(n.queue) = 1 PROVE FALSE
        OBVIOUS
      <4>1. n.mode = "aborted" /\ Kind(log, Len(log)) # "sync"
        BY <1>4, <3>1 DEF InQueryOn
      <4>2. c + 1 = Len(log)
        BY <1>2, <3>2
      <4> QED
        BY <3>2, <4>1, <4>2 DEF Answered
    <3>4. InQueryOn(m, log, i, ph, rs, st)
      BY <1>1, <1>4, <3>1, <3>2, <3>3 DEF InQueryOn
    <3> QED
      BY <1>1, <2>2, <3>4 DEF InQuery
  <2> QED
    BY <2>1, <2>2
<1> QED
  BY <1>3, <1>4 DEF Settles

\* The operation's position, with that of its session.
Underway(n, tc, v, log, s, old, os, ph, rs, st) ==
  \E c \in Nat : Link(n, tc, v, log, c, s, old) /\ Running(n, log, c, os, ph, rs, st)

LEMMA UnderwayParsed ==
  ASSUME NEW n \in PGconn, NEW tc \in Msgs, NEW v \in Server, NEW log, NEW s, NEW old,
         NEW os \in Operations, NEW ph, NEW rs \in Ress, NEW st \in Bool,
         Underway(n, tc, v, log, s, old, os, ph, rs, st)
  PROVE  LET m == Parsed(n)
         IN  /\ m \in PGconn /\ m.out = n.out /\ NotesKept(n, m) /\ Stuck(m)
             /\ n.async # "busy" => m.async # "busy"
             /\ Underway(m, tc, v, log, s, old, os, ph, rs, st)
<1> DEFINE m == Parsed(n)
<1>1. PICK c \in Nat : Link(n, tc, v, log, c, s, old) /\ Running(n, log, c, os, ph, rs, st)
  BY DEF Underway
<1>2. /\ m \in PGconn /\ m.out = n.out /\ NotesKept(n, m) /\ Stuck(m)
      /\ \E d \in Nat : Settles(n, m, c, d) /\ Link(m, tc, v, log, d, s, old)
  BY <1>1, LinkSettles
<1>3. PICK d \in Nat : Settles(n, m, c, d) /\ Link(m, tc, v, log, d, s, old)
  BY <1>2
<1> HIDE DEF m
<1>4. Len(os) \in Nat /\ Len(os) >= 1 /\ os[Len(os)] \in Operation
  <2>1. Len(os) \in Nat /\ Len(os) >= 1
    BY <1>1, OperationsTyped DEF Running
  <2>2. Len(os) \in 1 .. Len(os)
    BY <2>1
  <2> QED
    BY <2>1, <2>2, OperationsTyped
<1>5. ASSUME os[Len(os)].what = "pipeline"
      PROVE  InPipeline(m, log, Len(os), os[Len(os)], ph, rs, st)
  <2>1. InPipeline(n, log, Len(os), os[Len(os)], ph, rs, st)
    BY <1>1, <1>5 DEF Running
  <2> QED
    BY <1>1, <1>2, <1>3, <1>4, <2>1, PipelineParsed
<1>6. ASSUME os[Len(os)].what = "query"
      PROVE  InQuery(m, log, d, Len(os), ph, rs, st)
  <2>1. InQuery(n, log, c, Len(os), ph, rs, st)
    BY <1>1, <1>6 DEF Running
  <2> QED
    BY <1>1, <1>2, <1>3, <1>4, <2>1, QueryParsed
<1>7. Running(m, log, d, os, ph, rs, st)
  BY <1>4, <1>5, <1>6 DEF Running
<1>8. n.async # "busy" => m.async # "busy"
  BY <1>3 DEF Settles
<1> QED
  BY <1>2, <1>3, <1>7, <1>8 DEF Underway, m

\* Nor does what only moves messages and commands.
LEMMA RunningSame ==
  ASSUME NEW n, NEW m, m.mode = n.mode, m.async = n.async, m.queue = n.queue,
         NEW log, NEW c, NEW os, NEW ph, NEW rs, NEW st, Running(n, log, c, os, ph, rs, st)
  PROVE  Running(m, log, c, os, ph, rs, st)
BY DEF Running, InPipeline, InQuery, InQueryOn, InQueryOff

\* The coroutine waits for input only when libpq has none left.
Received(n, w) ==
  /\ n.out = <<>>
  /\ w = "read" => n.async = "busy" /\ n.inbuf = <<>>
  /\ w = "posted" => n.async # "busy"

LEMMA ReceiveKeeps ==
  ASSUME NEW n \in PGconn, n.out = <<>>, NEW tc \in Msgs, NEW v \in Server, NEW log, NEW s, NEW old,
         NEW os \in Operations, NEW ph, NEW rs \in Ress, NEW st \in Bool,
         Underway(n, tc, v, log, s, old, os, ph, rs, st), ReceiveResult(n)
  PROVE  /\ pq' \in PGconn /\ op' \in {"read", "posted"} /\ Received(pq', op')
         /\ Underway(pq', tc, v, log, s, old, os, ph, rs, st)
<1> DEFINE m == Parsed(n)
<1>1. m \in PGconn /\ m.out = <<>> /\ Stuck(m) /\ Underway(m, tc, v, log, s, old, os, ph, rs, st)
  BY UnderwayParsed
<1>2. pq' = m /\ op' = IF m.async = "busy" THEN "read" ELSE "posted"
  BY DEF ReceiveResult
<1> HIDE DEF m
<1>3. Received(m, op')
  BY <1>1, <1>2 DEF Received, Stuck
<1> QED
  BY <1>1, <1>2, <1>3

LEMMA UnderwaySends ==
  ASSUME NEW n \in PGconn, NEW tc \in Msgs, NEW v \in Server, NEW log, NEW s, NEW old,
         NEW os, NEW ph, NEW rs, NEW st,
         Underway(n, tc, v, log, s, old, os, ph, rs, st), NEW k \in 0 .. Len(n.out)
  PROVE  LET m == [n EXCEPT !.out = SubSeq(n.out, k + 1, Len(n.out))]
             w == [v EXCEPT !.in = v.in \o SubSeq(n.out, 1, k)]
         IN  m \in PGconn /\ w \in Server /\ Underway(m, tc, w, log, s, old, os, ph, rs, st)
<1> DEFINE b == SubSeq(n.out, k + 1, Len(n.out))
           m == [n EXCEPT !.out = b]
           w == [v EXCEPT !.in = v.in \o SubSeq(n.out, 1, k)]
<1>1. PICK c \in Nat : Link(n, tc, v, log, c, s, old) /\ Running(n, log, c, os, ph, rs, st)
  BY DEF Underway
<1>2. m \in PGconn /\ w \in Server /\ Link(m, tc, w, log, c, s, old)
  BY <1>1, LinkSends
<1> HIDE DEF w, b
<1>3. m.mode = n.mode /\ m.async = n.async /\ m.queue = n.queue
  BY DEF PGconn
<1> HIDE DEF m
<1>4. Running(m, log, c, os, ph, rs, st)
  BY <1>1, <1>3, RunningSame
<1> QED
  BY <1>1, <1>2, <1>4 DEF Underway, m, w, b

LEMMA UnderwayReads ==
  ASSUME NEW n \in PGconn, NEW tc \in Msgs, NEW v \in Server, NEW log, NEW s, NEW old,
         NEW os, NEW ph, NEW rs, NEW st,
         Underway(n, tc, v, log, s, old, os, ph, rs, st)
  PROVE  LET m == [n EXCEPT !.inbuf = n.inbuf \o tc]
         IN  m \in PGconn /\ <<>> \in Msgs /\ Underway(m, <<>>, v, log, s, old, os, ph, rs, st)
<1> DEFINE b == n.inbuf \o tc
           m == [n EXCEPT !.inbuf = b]
<1>1. PICK c \in Nat : Link(n, tc, v, log, c, s, old) /\ Running(n, log, c, os, ph, rs, st)
  BY DEF Underway
<1>2. m \in PGconn /\ <<>> \in Msgs /\ Link(m, <<>>, v, log, c, s, old)
  BY <1>1, LinkReads
<1> HIDE DEF b
<1>3. m.mode = n.mode /\ m.async = n.async /\ m.queue = n.queue
  BY DEF PGconn
<1> HIDE DEF m
<1>4. Running(m, log, c, os, ph, rs, st)
  BY <1>1, <1>3, RunningSame
<1> QED
  BY <1>1, <1>2, <1>4 DEF Underway, m, b

\* What the server has done is not touched by what is sent to it.
SameServed(v, w) ==
  w.txn = v.txn /\ w.committed = v.committed /\ w.notes = v.notes

LEMMA FlushKeeps ==
  ASSUME NEW n \in PGconn, to_client \in Msgs, srv \in Server, NEW log, NEW s, NEW old,
         NEW os \in Operations, NEW ph, NEW rs \in Ress, NEW st \in Bool,
         Underway(n, to_client, srv, log, s, old, os, ph, rs, st),
         NEW atleast \in Nat, FlushStep(n, atleast)
  PROVE  /\ pq' \in PGconn /\ to_client' \in Msgs /\ srv' \in Server /\ SameServed(srv, srv')
         /\ op' \in {"flush", "read", "posted"}
         /\ op' # "flush" => Received(pq', op')
         /\ Underway(pq', to_client', srv', log, s, old, os, ph, rs, st)
<1>1. PICK k \in atleast .. Len(n.out) :
        LET m == [n EXCEPT !.out = SubSeq(@, k + 1, Len(@))]
        IN  /\ srv' = [srv EXCEPT !.in = @ \o SubSeq(n.out, 1, k)]
            /\ IF m.out = <<>>
               THEN ReceiveResult(m) /\ UNCHANGED to_client
               ELSE /\ op' = "flush"
                    /\ \E some \in BOOLEAN :
                         /\ pq' = IF some THEN [m EXCEPT !.inbuf = @ \o to_client] ELSE m
                         /\ to_client' = IF some THEN <<>> ELSE to_client
  BY DEF FlushStep
<1> DEFINE m == [n EXCEPT !.out = SubSeq(n.out, k + 1, Len(n.out))]
           w == [srv EXCEPT !.in = srv.in \o SubSeq(n.out, 1, k)]
           g == [m EXCEPT !.inbuf = m.inbuf \o to_client]
<1>2. k \in 0 .. Len(n.out)
  <2>1. Len(n.out) \in Nat
    BY DEF PGconn, Cmds
  <2> QED
    BY <2>1
<1>3. m \in PGconn /\ w \in Server /\ Underway(m, to_client, w, log, s, old, os, ph, rs, st)
  BY <1>2, UnderwaySends
<1>4. SameServed(srv, w)
  BY DEF Server, SameServed
<1>5. /\ srv' = w
      /\ IF m.out = <<>> THEN ReceiveResult(m) /\ UNCHANGED to_client
         ELSE /\ op' = "flush"
              /\ \/ pq' = g /\ to_client' = <<>>
                 \/ pq' = m /\ to_client' = to_client
  BY <1>1
<1> HIDE DEF m, w
<1>6. CASE m.out = <<>>
  <2>1. ReceiveResult(m) /\ to_client' = to_client
    BY <1>5, <1>6
  <2>2. /\ pq' \in PGconn /\ op' \in {"read", "posted"} /\ Received(pq', op')
        /\ Underway(pq', to_client, w, log, s, old, os, ph, rs, st)
    BY <1>3, <1>6, <2>1, ReceiveKeeps
  <2> QED
    BY <1>3, <1>4, <1>5, <2>1, <2>2
<1>7. CASE m.out # <<>>
  <2>1. g \in PGconn /\ <<>> \in Msgs /\ Underway(g, <<>>, w, log, s, old, os, ph, rs, st)
    BY <1>3, UnderwayReads
  <2> HIDE DEF g
  <2> QED
    BY <1>3, <1>4, <1>5, <1>7, <2>1
<1> QED
  BY <1>6, <1>7

-----------------------------------------------------------------------------
(* The results of an operation *)

AppendRes(rs, x) == Append(rs, x)

LEMMA RessAppend ==
  ASSUME NEW rs \in Ress, NEW x \in Res
  PROVE  /\ AppendRes(rs, x) \in Ress /\ Len(rs) \in Nat /\ Len(AppendRes(rs, x)) = Len(rs) + 1
         /\ \A j \in 1 .. Len(rs) : AppendRes(rs, x)[j] = rs[j]
         /\ AppendRes(rs, x)[Len(rs) + 1] = x
BY DEF Ress, AppendRes

\* The result of a command has been received.
LEMMA PipelineGetsResult ==
  ASSUME NEW n \in PGconn, NEW tc \in Msgs, NEW v \in Server, NEW log, NEW c, NEW s, NEW old,
         Link(n, tc, v, log, c, s, old), n.async # "busy",
         NEW i \in Nat, NEW o \in Operation, NEW rs \in Ress, NEW st \in Bool,
         InPipeline(n, log, i, o, "result", rs, st)
  PROVE  LET m == AfterGetResult(n)
         IN  InPipeline(m, log, i, o, "null", AppendRes(rs, GetResult(n)), st)
<1> DEFINE m == AfterGetResult(n)
           res == GetResult(n)
           r == Len(rs)
           k == Size(o)
           N == Len(log)
           q == Len(n.queue)
           b == N - (k + 1)
           rs2 == AppendRes(rs, res)
<1>1. /\ m \in PGconn /\ m.mode = n.mode
      /\ m.queue = IF n.async = "ready" /\ n.mode # "off" THEN Tail(n.queue) ELSE n.queue
      /\ n.async = "ready" /\ n.mode # "off" /\ n.result[1] # "sync" => m.async = "pidle"
  BY LinkAfterGetResult
<1>2. n.mode # "off" /\ OnAt(n, log, c) /\ log \in Cmds /\ n.queue \in Cmds
  BY LinkOn, LinkTyped DEF InPipeline
<1>3. res \in Res /\ (n.async \in {"ready", "copy"} => res = Answer(log, c))
  BY LinkResult
<1>4. r \in Nat /\ k \in Nat /\ N \in Nat /\ q \in Nat
  BY <1>2, OperationTyped DEF Ress, OnAt
<1>5. /\ Block(log, i, o, b) /\ q >= (k + 1) - r /\ r < k
      /\ q = (k + 1) - r => OwnResults(log, b, rs)
      /\ Clean(o, st) => q = (k + 1) - r /\ n.async \in {"busy", "ready"}
  BY DEF InPipeline, PhaseOk
<1>6. /\ rs2 \in Ress /\ Len(rs2) = r + 1 /\ rs2[r + 1] = res
      /\ \A j \in 1 .. r : rs2[j] = rs[j]
  BY <1>3, RessAppend
<1>7. n.async = "ready" => /\ c = N - q + 1 /\ q >= 1 /\ res = Answer(log, c) /\ n.result = Answer(log, c)
                           /\ Status(log, c) # "copy" /\ m.queue = Tail(n.queue) /\ Len(m.queue) = q - 1
  <2> SUFFICES ASSUME n.async = "ready" 
               PROVE  /\ c = N - q + 1 /\ q >= 1 /\ res = Answer(log, c) /\ n.result = Answer(log, c)
                      /\ Status(log, c) # "copy" /\ m.queue = Tail(n.queue) /\ Len(m.queue) = q - 1
    OBVIOUS
  <2>1. /\ c = N - q + 1 /\ n.result = Answer(log, c) /\ Status(log, c) # "copy" /\ c \in 0 .. N
        /\ n.queue = <<>> <=> q = 0
    BY <1>2 DEF OnAt
  <2>2. q >= 1
    BY <1>4, <2>1
  <2>3. n.queue # <<>>
    BY <2>1, <2>2
  <2>4. Len(Tail(n.queue)) = q - 1
    BY <1>2, <2>3, CmdsTyped
  <2> QED
    BY <1>1, <1>2, <1>3, <2>1, <2>2, <2>4
<1>8. n.async # "ready" => Len(m.queue) = q
  BY <1>1
<1> HIDE DEF m, res, r, k, N, q, b, rs2
<1>9. b = N - (k + 1)
  BY DEF b
<1>10. Len(m.queue) = q - 1 \/ Len(m.queue) = q
  BY <1>7, <1>8
<1>11. /\ Len(m.queue) >= (k + 1) - (r + 1)
       /\ Len(m.queue) = (k + 1) - (r + 1) => n.async = "ready" /\ q = (k + 1) - r
  <2>1. n.async = "ready" => Len(m.queue) = q - 1
    BY <1>7
  <2>2. q >= (k + 1) - r
    BY <1>5
  <2> QED
    BY <1>4, <1>8, <1>10, <2>1, <2>2
<1>12. n.async = "ready" /\ q = (k + 1) - r => c = b + (r + 1)
  BY <1>4, <1>7, <1>9
<1>13. Len(m.queue) = (k + 1) - (r + 1) => OwnResults(log, b, rs2)
  <2> SUFFICES ASSUME Len(m.queue) = (k + 1) - (r + 1), NEW j \in 1 .. Len(rs2)
               PROVE  rs2[j] = Answer(log, b + j) /\ Status(log, b + j) # "copy"
    BY DEF OwnResults
  <2>1. n.async = "ready" /\ q = (k + 1) - r /\ c = b + (r + 1)
    BY <1>11, <1>12
  <2>2. CASE j = r + 1
    BY <1>6, <1>7, <2>1, <2>2
  <2>3. CASE j # r + 1
    <3>1. j \in 1 .. r /\ j \in 1 .. Len(rs)
      BY <1>4, <1>6, <2>3 DEF r
    <3>2. OwnResults(log, b, rs)
      BY <1>5, <2>1
    <3> QED
      BY <1>6, <3>1, <3>2 DEF OwnResults
  <2> QED
    BY <2>2, <2>3
<1>14. PhaseOk(o, "null", r + 1)
  <2>1. r + 1 \in 1 .. k
    BY <1>4, <1>5
  <2> QED
    BY <2>1 DEF PhaseOk, k
<1>15. Len(m.queue) = (k + 1) - (r + 1) => m.async = "pidle"
  <2> SUFFICES ASSUME Len(m.queue) = (k + 1) - (r + 1) PROVE m.async = "pidle"
    OBVIOUS
  <2>1. n.async = "ready" /\ q = (k + 1) - r
    BY <1>11
  <2>2. c = b + (r + 1) /\ n.result = Answer(log, c) /\ Len(m.queue) = q - 1
    BY <1>7, <1>12, <2>1
  <2>3. Kind(log, c) # "sync" /\ c \in 1 .. Len(log)
    <3>1. r + 1 \in 1 .. Size(o) /\ r + 1 \in 1 .. Size(o) + 1
      BY <1>4, <1>5 DEF k
    <3> QED
      BY <1>2, <1>5, <2>2, <3>1, BlockKinds
  <2>4. Answer(log, c)[1] = Status(log, c) /\ Status(log, c) # "sync"
    BY <1>2, <2>3, AnswerTyped, StatusOfKind
  <2> QED
    BY <1>1, <1>2, <2>1, <2>2, <2>4
<1>16. Clean(o, st) => Len(m.queue) = (k + 1) - (r + 1)
  <2> SUFFICES ASSUME Clean(o, st) PROVE Len(m.queue) = (k + 1) - (r + 1)
    OBVIOUS
  <2>1. q = (k + 1) - r /\ n.async # "busy"
    BY <1>5
  <2>2. n.async = "ready"
    BY <1>5
  <2> QED
    BY <1>4, <1>7, <2>1, <2>2
<1> QED
  BY <1>1, <1>2, <1>5, <1>6, <1>11, <1>13, <1>14, <1>15, <1>16 DEF InPipeline, m, rs2, b, N, k, r, res

\* The null after it has been received.
LEMMA PipelineGetsNull ==
  ASSUME NEW n \in PGconn, NEW tc \in Msgs, NEW v \in Server, NEW log, NEW c, NEW s, NEW old,
         Link(n, tc, v, log, c, s, old), n.async # "busy",
         NEW i \in Nat, NEW o \in Operation, NEW rs \in Ress, NEW st \in Bool,
         InPipeline(n, log, i, o, "null", rs, st)
  PROVE  /\ Clean(o, st) => GetResult(n) = Null
         /\ GetResult(n) = Null =>
              InPipeline(AfterGetResult(n), log, i, o, IF Len(rs) < Size(o) THEN "result" ELSE "sync", rs, st)
<1> DEFINE m == AfterGetResult(n)
           r == Len(rs)
           k == Size(o)
           q == Len(n.queue)
           ph == IF r < k THEN "result" ELSE "sync"
<1>1. Clean(o, st) => n.async = "pidle" /\ q = (k + 1) - r
  BY DEF InPipeline
<1>2. IF n.async \in {"ready", "copy"} THEN GetResult(n) # Null ELSE GetResult(n) = Null
  BY LinkResult
<1>3. Clean(o, st) => GetResult(n) = Null
  BY <1>1, <1>2
<1>4. ASSUME GetResult(n) = Null
      PROVE  InPipeline(m, log, i, o, ph, rs, st)
  <2>1. n.async \notin {"ready", "copy"}
    BY <1>2, <1>4
  <2>2. /\ m \in PGconn /\ m.mode = n.mode /\ m.queue = n.queue
        /\ n.async = "pidle" => m.async \in {"idle", "busy", "ready"} /\ (m.async = "idle" <=> m.queue = <<>>)
    BY <2>1, LinkAfterGetResult
  <2>3. n.mode # "off" /\ OnAt(n, log, c)
    BY LinkOn DEF InPipeline
  <2>4. r \in Nat /\ k \in Nat /\ q \in Nat /\ (n.queue = <<>> <=> q = 0)
    BY <2>3, OperationTyped DEF Ress, OnAt
  <2>5. r \in 1 .. k
    BY DEF InPipeline, PhaseOk
  <2>6. PhaseOk(o, ph, r) /\ ph # "null"
    BY <2>4, <2>5 DEF PhaseOk
  <2> HIDE DEF m, ph
  <2>7. Clean(o, st) => m.async \in {"busy", "ready"}
    <3> SUFFICES ASSUME Clean(o, st) PROVE m.async \in {"busy", "ready"}
      OBVIOUS
    <3>1. q # 0
      BY <1>1, <2>4, <2>5
    <3> QED
      BY <1>1, <2>2, <2>4, <3>1
  <2> QED
    BY <2>2, <2>6, <2>7 DEF InPipeline
<1> QED
  BY <1>3, <1>4

LEMMA CmdsLen ==
  ASSUME NEW q \in Cmds
  PROVE  Len(q) \in Nat /\ (q = <<>> <=> Len(q) = 0)
BY DEF Cmds

\* The result of the sync.
LEMMA PipelineGetsSync ==
  ASSUME NEW n \in PGconn, NEW tc \in Msgs, NEW v \in Server, NEW log, NEW c, NEW s, NEW old,
         Link(n, tc, v, log, c, s, old), n.async # "busy",
         NEW i \in Nat, NEW o \in Operation, NEW rs \in Ress, NEW st \in Bool,
         InPipeline(n, log, i, o, "sync", rs, st)
  PROVE  /\ Clean(o, st) => GetResult(n)[1] = "sync" /\ PQexitPipelineMode(AfterGetResult(n))
         /\ GetResult(n)[1] = "sync" /\ PQexitPipelineMode(AfterGetResult(n)) =>
              /\ OwnResults(log, Len(log) - (Size(o) + 1), rs) /\ Len(rs) = Size(o)
              /\ s = Len(log) /\ Finished(log, s, i)
<1> DEFINE m == AfterGetResult(n)
           res == GetResult(n)
           q == Len(n.queue)
           b == Len(log) - (Size(o) + 1)
<1>1. n.mode # "off" /\ OnAt(n, log, c) /\ log \in Cmds /\ n.queue \in Cmds /\ Block(log, i, o, b)
  BY LinkOn, LinkTyped DEF InPipeline
<1>2. Len(rs) = Size(o) /\ Size(o) \in Nat /\ Len(log) \in Nat /\ q \in Nat /\ (n.queue = <<>> <=> q = 0)
  BY <1>1, OperationTyped DEF InPipeline, PhaseOk, OnAt
<1>3. Kind(log, Len(log)) = "sync" /\ Len(log) \in 1 .. Len(log)
  <2>1. b \in Nat /\ Kind(log, b + (Size(o) + 1)) = "sync"
    BY <1>1, BlockKinds
  <2>2. b + (Size(o) + 1) = Len(log)
    BY <1>2
  <2>3. Len(log) \in 1 .. Len(log)
    BY <1>2, <2>1
  <2> QED
    BY <2>1, <2>2, <2>3
<1>4. ASSUME Clean(o, st)
      PROVE  res[1] = "sync" /\ PQexitPipelineMode(m)
  <2>1. q = 1 /\ n.async = "ready"
    <3>1. q = (Size(o) + 1) - Len(rs) /\ n.async \in {"busy", "ready"}
      BY <1>4 DEF InPipeline
    <3> QED
      BY <1>2, <3>1
  <2>2. c = Len(log) /\ n.result = Answer(log, c)
    BY <1>1, <1>2, <2>1 DEF OnAt
  <2>3. Answer(log, c)[1] = "sync"
    BY <1>1, <1>3, <2>2, AnswerTyped, StatusOfKind
  <2>4. res = n.result
    BY <2>1 DEF GetResult
  <2>5. /\ m.queue = Tail(n.queue) /\ (m.async = "idle" <=> m.queue = <<>>)
    <3>1. n.async = "ready" /\ n.mode # "off" /\ n.result[1] = "sync"
      BY <1>1, <2>1, <2>2, <2>3
    <3>2. m.queue = Tail(n.queue)
      BY <3>1, LinkAfterGetResult
    <3>3. m.async = "idle" <=> m.queue = <<>>
      BY <3>1, LinkAfterGetResult
    <3> QED
      BY <3>2, <3>3
  <2>6. m.queue = <<>>
    <3>1. n.queue # <<>>
      BY <1>2, <2>1
    <3>2. Tail(n.queue) \in Cmds /\ Len(Tail(n.queue)) = q - 1
      BY <1>1, <3>1, CmdsTyped
    <3>3. Tail(n.queue) = <<>> <=> Len(Tail(n.queue)) = 0
      BY <3>2, CmdsLen
    <3>4. q - 1 = 0
      BY <2>1
    <3>5. Tail(n.queue) = <<>>
      BY <3>2, <3>3, <3>4
    <3> QED
      BY <2>5, <3>5
  <2> QED
    BY <2>2, <2>3, <2>4, <2>5, <2>6 DEF PQexitPipelineMode
<1>5. ASSUME res[1] = "sync", PQexitPipelineMode(m)
      PROVE  OwnResults(log, b, rs) /\ s = Len(log) /\ Finished(log, s, i)
  <2>1. c = Len(log) /\ s = Len(log) /\ n.queue # <<>> /\ Tail(n.queue) = <<>>
    BY <1>5, LinkLeaves
  <2>2. q = 1
    <3>1. Len(Tail(n.queue)) = q - 1
      BY <1>1, <2>1, CmdsTyped
    <3>2. Tail(n.queue) \in Cmds /\ Tail(n.queue) = <<>>
      BY <1>1, <2>1, CmdsTyped
    <3> HIDE DEF q
    <3> DEFINE x == Tail(n.queue)
    <3>3. Len(x) = 0
      <4>1. x \in Cmds /\ x = <<>>
        BY <3>2
      <4> HIDE DEF x
      <4> QED
        BY <4>1, CmdsLen
    <3>4. q - 1 = 0
      BY <3>1, <3>3
    <3> QED
      BY <1>2, <3>4
  <2>3. OwnResults(log, b, rs)
    <3>1. q = (Size(o) + 1) - Len(rs)
      BY <1>2, <2>2
    <3> QED
      BY <3>1 DEF InPipeline
  <2>4. Open(log, s) = {}
    <3>1. Len(log) - 1 \in 0 .. Len(log) - 1 /\ (Len(log) - 1) + 1 = Len(log)
      BY <1>2, <1>3
    <3> QED
      BY <1>1, <1>3, <2>1, <3>1, OpenNext
  <2>5. Finished(log, s, i)
    <3>1. s + 1 .. Len(log) = {}
      BY <1>2, <2>1
    <3> QED
      BY <2>4, <3>1 DEF Finished, OfOperation
  <2> QED
    BY <2>1, <2>3, <2>5
<1> QED
  BY <1>2, <1>4, <1>5

LEMMA AnswerCalled ==
  ASSUME NEW log, NEW p
  PROVE  Tail(Answer(log, p)) = Called(log, p)
BY DEF Answer, Called

\* What has become of a pipeline whose results have all been received.
Fate(v, os, i, rs) ==
  /\ os[i].thrown \/ FirstError(rs) => OfOperation(v.committed, i) = {}
  /\ ~os[i].thrown /\ ~FirstError(rs) => OfOperation(v.committed, i) = Whole(i, os[i])
  /\ \A j \in DOMAIN rs : Tail(rs[j]) = <<i, j>>

LEMMA PipelineOutcome ==
  ASSUME NEW v \in Server, NEW log \in Cmds, NEW s, s = Len(log), NEW old, Served(v, log, s, old),
         NEW os \in Operations, OldOk(old, log, os),
         NEW i \in 1 .. Len(os), NEW b, Block(log, i, os[i], b), b + (Size(os[i]) + 1) = s,
         NEW rs \in Ress, OwnResults(log, b, rs), Len(rs) = Size(os[i])
  PROVE  Fate(v, os, i, rs)
<1> DEFINE o == os[i]
<1>1. i \in Nat /\ o \in Operation /\ Size(o) \in Nat /\ Len(log) \in Nat /\ b \in Nat
  BY OperationsTyped, OperationTyped, LogTyped DEF Block
<1>2. DOMAIN rs = 1 .. Size(o)
  BY DEF Ress
<1>3. ASSUME NEW j \in 1 .. Size(o)
      PROVE  /\ rs[j] = Answer(log, b + j) /\ rs[j][1] = Status(log, b + j) /\ Status(log, b + j) # "copy"
             /\ Tail(rs[j]) = <<i, j>> /\ b + j \in 1 .. Len(log)
  <2>1. j \in 1 .. Len(rs) /\ j \in 1 .. Size(o) + 1
    BY <1>1
  <2>2. rs[j] = Answer(log, b + j) /\ Status(log, b + j) # "copy"
    BY <2>1 DEF OwnResults
  <2>3. b + j \in 1 .. Len(log) /\ Called(log, b + j) = <<i, j>>
    BY <1>1, <2>1, BlockKinds
  <2>4. Answer(log, b + j)[1] = Status(log, b + j)
    BY <2>3, AnswerTyped
  <2>5. Tail(Answer(log, b + j)) = Called(log, b + j)
    BY AnswerCalled
  <2> QED
    BY <2>2, <2>3, <2>4, <2>5
<1>4. /\ AllTake(log, o, b) => ~o.thrown /\ \A j \in 1 .. Size(o) : Status(log, b + j) \in {"ok", "copy"}
      /\ ~o.thrown /\ (\A j \in 1 .. Size(o) : Status(log, b + j) = "ok") => AllTake(log, o, b)
  BY <1>1, AllTakeMeans DEF NoFailure
<1>5. OfOperation(v.committed, i) = OfOperation(Kept(log, s), i)
  <2>1. v.committed = old \union Kept(log, s)
    BY DEF Served
  <2>2. \A e \in old : e[1] # i
    <3>1. Size(o) + 1 \in 1 .. Size(o) + 1
      BY <1>1
    <3>2. b + (Size(o) + 1) \in 1 .. Len(log) /\ log[b + (Size(o) + 1)][2] = i
      <4>1. \A j \in 1 .. Size(o) + 1 : b + j \in 1 .. Len(log) /\ log[b + j][2] = i
        BY <1>1, BlockPlaces
      <4> QED
        BY <3>1, <4>1
    <3> QED
      BY <3>2 DEF OldOk
  <2> DEFINE K == Kept(log, s)
             C == v.committed
  <2>3. C = old \union K
    BY <2>1
  <2> HIDE DEF K, C
  <2>4. OfOperation(C, i) = OfOperation(K, i)
    BY <2>2, <2>3 DEF OfOperation
  <2> QED
    BY <2>4 DEF K, C
<1>6. /\ AllTake(log, o, b) => OfOperation(Kept(log, s), i) = Whole(i, o)
      /\ ~AllTake(log, o, b) => OfOperation(Kept(log, s), i) = {}
  <2>1. s \in 0 .. Len(log) /\ b + (Size(o) + 1) <= s
    BY <1>1
  <2> QED
    BY <1>1, <2>1, KeptOfBlock
<1>7. ASSUME o.thrown \/ FirstError(rs) PROVE ~AllTake(log, o, b)
  <2>1. CASE o.thrown
    BY <1>4, <2>1
  <2>2. CASE FirstError(rs)
    <3>1. PICK j \in 1 .. Size(o) : rs[j][1] # "ok"
      BY <1>2, <2>2 DEF FirstError
    <3>2. Status(log, b + j) \notin {"ok", "copy"}
      BY <1>3, <3>1
    <3> QED
      BY <1>4, <3>2
  <2> QED
    BY <1>7, <2>1, <2>2
<1>8. ASSUME ~o.thrown, ~FirstError(rs) PROVE AllTake(log, o, b)
  <2>1. \A j \in 1 .. Size(o) : Status(log, b + j) = "ok"
    BY <1>2, <1>3, <1>8 DEF FirstError
  <2> QED
    BY <1>4, <1>8, <2>1
<1> QED
  BY <1>2, <1>3, <1>5, <1>6, <1>7, <1>8 DEF Fate

\* Where an operation leaves a PGconn to the next one.
IdleOk(n, st) ==
  /\ n.mode # "off" /\ n.async = "idle" => n.mode = "aborted"
  /\ ~st => n.async = "idle"

LEMMA QueryGetsResult ==
  ASSUME NEW n \in PGconn, NEW tc \in Msgs, NEW v \in Server, NEW log, NEW c, NEW s, NEW old,
         Link(n, tc, v, log, c, s, old), n.async # "busy",
         NEW i \in Nat, NEW rs \in Ress, NEW st \in Bool,
         InQuery(n, log, c, i, "result", rs, st)
  PROVE  LET m == AfterGetResult(n)
         IN  \E d \in Nat : /\ Link(m, tc, v, log, d, s, old)
                            /\ InQuery(m, log, d, i, "null", <<GetResult(n)>>, st)
<1> DEFINE m == AfterGetResult(n)
           one == <<GetResult(n)>>
           N == Len(log)
<1>1. /\ m \in PGconn /\ m.mode = n.mode
      /\ m.queue = IF n.async = "ready" /\ n.mode # "off" THEN Tail(n.queue) ELSE n.queue
      /\ Link(m, tc, v, log, c, s, old) \/ Link(m, tc, v, log, c + 1, s, old)
      /\ n.async = "ready" /\ n.mode = "off" => m.async = "busy" /\ Link(m, tc, v, log, c, s, old)
      /\ n.async = "ready" /\ n.mode # "off" /\ n.result[1] # "sync" => m.async = "pidle"
  BY LinkAfterGetResult
<1>2. log \in Cmds /\ N \in Nat /\ c \in Nat /\ c + 1 \in Nat /\ n.queue \in Cmds
  BY LinkTyped
<1>3. Len(one) = 1 /\ one[1] = GetResult(n)
  OBVIOUS
<1>4. IF n.async \in {"ready", "copy"} THEN GetResult(n) = Answer(log, c) ELSE GetResult(n) = Null
  BY LinkResult
<1> HIDE DEF m, one
<1>5. CASE n.mode = "off"
  <2>1. InQueryOff(n, log, c, i, "result", rs) /\ OffAt(n, log, c)
    BY <1>5, LinkOff DEF InQuery
  <2>2. n.async = "ready" /\ N >= 2 /\ Called(log, N - 1) = <<i, 1>>
    BY <2>1 DEF InQueryOff
  <2>3. c = N - 1
    BY <2>1, <2>2 DEF OffAt
  <2>4. one[1] = Answer(log, N - 1)
    BY <1>3, <1>4, <2>2, <2>3
  <2>5. m.async = "busy" /\ Link(m, tc, v, log, c, s, old) /\ m.mode = "off"
    BY <1>1, <1>5, <2>2
  <2>6. InQueryOff(m, log, c, i, "null", one)
    BY <2>2, <2>3, <2>4, <2>5 DEF InQueryOff
  <2>7. InQuery(m, log, c, i, "null", one, st)
    BY <1>3, <2>5, <2>6 DEF InQuery
  <2> QED
    BY <1>2, <2>5, <2>7 DEF m, one
<1>6. CASE n.mode # "off"
  <2>1. InQueryOn(n, log, i, "result", rs, st) /\ OnAt(n, log, c)
    BY <1>6, LinkOn DEF InQuery
  <2> DEFINE q == Len(n.queue)
  <2>2. /\ N >= 1 /\ Kind(log, N) \in {"ok", "fail"} /\ Called(log, N) = <<i, 1>>
        /\ q >= 1 /\ q \in Nat /\ n.queue # <<>>
        /\ q = 1 => n.mode = "aborted" \/ n.async = "pidle"
        /\ ~st => q = 1 /\ n.async = "ready"
    BY <2>1 DEF InQueryOn, OnAt
  <2>3. Len(Tail(n.queue)) = q - 1
    BY <1>2, <2>2, CmdsTyped
  <2>4. Len(m.queue) = IF n.async = "ready" THEN q - 1 ELSE q
    BY <1>1, <1>6, <2>3
  <2> HIDE DEF q
  <2>5. Len(m.queue) = 0 => m.mode = "aborted"
    <3> SUFFICES ASSUME Len(m.queue) = 0 PROVE n.mode = "aborted"
      BY <1>1
    <3>1. n.async = "ready" /\ q = 1
      BY <2>2, <2>4
    <3> QED
      BY <2>2, <3>1
  <2>6. ~st => Len(m.queue) = 0 /\ m.async = "pidle" /\ one[1] = Answer(log, N)
    <3> SUFFICES ASSUME ~st PROVE Len(m.queue) = 0 /\ m.async = "pidle" /\ one[1] = Answer(log, N)
      OBVIOUS
    <3>1. q = 1 /\ n.async = "ready"
      BY <2>2
    <3>2. c = N /\ n.result = Answer(log, c)
      <4>1. c = N - q + 1 /\ n.result = Answer(log, c)
        BY <2>1, <3>1 DEF OnAt, q
      <4> QED
        BY <1>2, <3>1, <4>1
    <3>3. N \in 1 .. Len(log)
      BY <1>2, <2>2
    <3>4. Answer(log, N)[1] = Status(log, N) /\ Status(log, N) # "sync"
      BY <1>2, <2>2, <3>3, AnswerTyped, StatusOfKind
    <3>5. m.async = "pidle"
      BY <1>1, <1>6, <3>1, <3>2, <3>4
    <3>6. Len(m.queue) = 0
      BY <2>4, <3>1
    <3> QED
      BY <1>3, <1>4, <3>1, <3>2, <3>5, <3>6
  <2>7. InQueryOn(m, log, i, "null", one, st)
    BY <2>2, <2>5, <2>6 DEF InQueryOn
  <2>8. \A d : InQuery(m, log, d, i, "null", one, st)
    BY <1>1, <1>3, <1>6, <2>7 DEF InQuery
  <2> QED
    BY <1>1, <1>2, <2>8 DEF m, one
<1> QED
  BY <1>5, <1>6

LEMMA QueryGetsNull ==
  ASSUME NEW n \in PGconn, NEW tc \in Msgs, NEW v \in Server, NEW log, NEW c, NEW s, NEW old,
         Link(n, tc, v, log, c, s, old), n.async # "busy",
         NEW i \in Nat, NEW rs \in Ress, NEW st \in Bool,
         InQuery(n, log, c, i, "null", rs, st)
  PROVE  /\ GetResult(n) # Null => st
         /\ GetResult(n) = Null => IdleOk(AfterGetResult(n), st)
         /\ ~st => Tail(rs[1]) = <<i, 1>>
<1> DEFINE m == AfterGetResult(n)
           N == Len(log)
<1>1. /\ m \in PGconn /\ m.mode = n.mode
      /\ n.async # "ready" => m.queue = n.queue
      /\ n.async = "idle" => m = n
      /\ n.async = "pidle" => m.async \in {"idle", "busy", "ready"} /\ (m.async = "idle" <=> m.queue = <<>>)
      /\ n.async \in {"idle", "busy", "copy"} => m = n
  BY LinkAfterGetResult
<1>2. IF n.async \in {"ready", "copy"} THEN GetResult(n) # Null ELSE GetResult(n) = Null
  BY LinkResult
<1>3. n.async \in {"idle", "busy", "ready", "copy", "pidle"}
  BY DEF PGconn
<1> HIDE DEF m
<1>4. CASE n.mode = "off"
  <2>1. n.async = "idle" /\ rs[1] = Answer(log, N - 1) /\ Called(log, N - 1) = <<i, 1>>
    BY <1>4 DEF InQuery, InQueryOff
  <2>2. Tail(rs[1]) = <<i, 1>>
    BY <2>1, AnswerCalled
  <2>3. IdleOk(m, st)
    BY <1>1, <1>4, <2>1 DEF IdleOk
  <2> QED
    BY <1>2, <2>1, <2>2, <2>3 DEF m
<1>5. CASE n.mode # "off"
  <2>1. InQueryOn(n, log, i, "null", rs, st) /\ OnAt(n, log, c)
    BY <1>5, LinkOn DEF InQuery
  <2>2. /\ Len(n.queue) = 0 => n.mode = "aborted"
        /\ ~st => Len(n.queue) = 0 /\ n.async = "pidle" /\ rs[1] = Answer(log, N) /\ Called(log, N) = <<i, 1>>
        /\ n.queue = <<>> <=> Len(n.queue) = 0
        /\ n.async = "idle" => Len(n.queue) = 0
    BY <2>1 DEF InQueryOn, OnAt
  <2>3. ~st => Tail(rs[1]) = <<i, 1>>
    BY <2>2, AnswerCalled
  <2>4. ASSUME GetResult(n) = Null PROVE IdleOk(m, st)
    <3>1. n.async \in {"idle", "pidle"}
      BY <1>2, <1>3, <2>4
    <3>2. m.async = "idle" => n.mode = "aborted"
      BY <1>1, <2>2, <3>1
    <3>3. ~st => m.async = "idle"
      BY <1>1, <2>2
    <3> QED
      BY <1>1, <3>2, <3>3 DEF IdleOk
  <2>5. GetResult(n) # Null => st
    BY <1>2, <2>2
  <2> QED
    BY <2>3, <2>4, <2>5 DEF m
<1> QED
  BY <1>4, <1>5

-----------------------------------------------------------------------------
(* The start of an operation *)

LEMMA PipelineStarts ==
  ASSUME NEW n \in PGconn, NEW tc \in Msgs, NEW v \in Server, NEW log, NEW c, NEW s, NEW old,
         Link(n, tc, v, log, c, s, old), NEW st \in Bool, IdleOk(n, st),
         PQenterPipelineMode(n),
         NEW os \in Operations, LogOk(log, os), OldOk(old, log, os),
         NEW o \in Operation, o.what = "pipeline"
  PROVE  LET os2 == Append(os, o)
             cs == Commands(Len(os2), o)
             m == Push([n EXCEPT !.mode = IF n.mode = "off" THEN "on" ELSE n.mode], cs)
             ph == IF Size(o) = 0 THEN "sync" ELSE "result"
         IN  /\ m \in PGconn /\ os2 \in Operations
             /\ log \o cs \in Cmds /\ LogOk(log \o cs, os2) /\ OldOk(old, log \o cs, os2)
             /\ Underway(m, tc, v, log \o cs, s, old, os2, ph, <<>>, st)
<1> DEFINE os2 == Append(os, o)
           i == Len(os) + 1
           cs == Commands(i, o)
           big == log \o cs
           e == [n EXCEPT !.mode = IF n.mode = "off" THEN "on" ELSE n.mode]
           m == Push(e, cs)
           ph == IF Size(o) = 0 THEN "sync" ELSE "result"
           N == Len(log)
           k == Size(o)
<1>1. /\ Len(os) \in Nat /\ i \in Nat /\ os2 \in Operations /\ Len(os2) = i /\ os2[i] = o
  BY OperationsTyped
<1>2. /\ cs \in Cmds /\ Len(cs) = k + 1 /\ k \in Nat
  BY <1>1, CommandsTyped, OperationTyped
<1>3. \A x \in 1 .. Len(cs) : cs[x][2] = Len(os) + 1
  BY <1>1, CommandsOf
<1>4. /\ log \in Cmds /\ N \in Nat /\ n.queue \in Cmds
  BY LinkTyped
<1>5. cs # <<>>
  BY <1>2, CmdsLen
<1>6. /\ LogOk(big, os2) /\ OldOk(old, big, os2) /\ Block(big, i, o, N)
  <2>1. cs = <<>> \/ cs = Commands(Len(os) + 1, o)
    OBVIOUS
  <2> HIDE DEF cs
  <2>2. /\ LogOk(log \o cs, Append(os, o)) /\ OldOk(old, log \o cs, Append(os, o))
        /\ Block(log \o cs, Len(os) + 1, o, Len(log))
    BY <1>2, <1>3, <1>4, <1>5, <2>1, LogGrows
  <2> QED
    BY <2>2
<1>7. big \in Cmds /\ Len(big) = N + (k + 1)
  <2>1. big \in Cmds /\ Len(big) = Len(log) + Len(cs)
    BY <1>2, <1>4, LongerLog
  <2> QED
    BY <1>2, <2>1
<1>8. /\ e \in PGconn /\ e.mode # "off" /\ e.async = n.async /\ e.queue = n.queue
      /\ Link(e, tc, v, log, c, s, old)
  BY LinkEnters
<1> HIDE DEF e, cs
<1>9. /\ m \in PGconn /\ m.mode = e.mode /\ m.queue = e.queue \o cs
      /\ \E d \in Nat : Link(m, tc, v, big, d, s, old)
  <2>1. e \in PGconn /\ e.mode # "off" /\ Link(e, tc, v, log, c, s, old) /\ cs \in Cmds
    BY <1>2, <1>8
  <2> QED
    BY <2>1, LinkPush
<1>10. PICK d \in Nat : Link(m, tc, v, big, d, s, old)
  BY <1>9
<1>11. Len(m.queue) = Len(n.queue) + (k + 1) /\ Len(n.queue) \in Nat
  <2>1. Len(n.queue \o cs) = Len(n.queue) + Len(cs) /\ Len(n.queue) \in Nat
    BY <1>2, <1>4, LongerLog, CmdsLen
  <2> QED
    BY <1>2, <1>8, <1>9, <2>1
<1>12. ~st => Len(n.queue) = 0 /\ m.async \in {"busy", "ready"}
  <2> SUFFICES ASSUME ~st PROVE Len(n.queue) = 0 /\ m.async \in {"busy", "ready"}
    OBVIOUS
  <2>1. n.async = "idle"
    BY DEF IdleOk
  <2>2. Len(n.queue) = 0
    BY <2>1, LinkOff, LinkOn DEF OffAt, OnAt
  <2>3. m.async \in {"busy", "ready"}
    BY <1>2, <1>5, <1>8, <2>1, PushStarts
  <2> QED
    BY <2>2, <2>3
<1> HIDE DEF m, big
<1>13. InPipeline(m, big, i, o, ph, <<>>, st)
  <2> DEFINE rs == <<>>
  <2>1. Len(rs) = 0
    OBVIOUS
  <2>2. OwnResults(big, Len(big) - (k + 1), rs)
    BY <2>1 DEF OwnResults
  <2> HIDE DEF rs
  <2>3. PhaseOk(o, ph, Len(rs)) /\ ph # "null"
    BY <1>2, <2>1 DEF PhaseOk
  <2>4. Len(big) - (k + 1) = N
    BY <1>2, <1>4, <1>7
  <2>5. Len(m.queue) >= (k + 1) - Len(rs)
    BY <1>2, <1>11, <2>1
  <2>6. Clean(o, st) => Len(m.queue) = (k + 1) - Len(rs) /\ m.async \in {"busy", "ready"}
    BY <1>2, <1>11, <1>12, <2>1 DEF Clean
  <2>7. m.mode # "off" /\ Block(big, i, o, Len(big) - (k + 1))
    BY <1>6, <1>8, <1>9, <2>4
  <2> HIDE DEF ph
  <2>8. InPipeline(m, big, i, o, ph, rs, st)
    BY <2>2, <2>3, <2>5, <2>6, <2>7 DEF InPipeline
  <2> QED
    BY <2>8 DEF rs
<1>14. Running(m, big, d, os2, ph, <<>>, st)
  <2>1. i >= 1 /\ os2[Len(os2)].what = "pipeline"
    BY <1>1
  <2> HIDE DEF ph, os2
  <2> QED
    BY <1>1, <1>13, <2>1 DEF Running
<1>15. Underway(m, tc, v, big, s, old, os2, ph, <<>>, st)
  BY <1>10, <1>14 DEF Underway
<1> QED
  BY <1>1, <1>6, <1>7, <1>9, <1>15 DEF m, e, big, cs

LEMMA OneCommand ==
  ASSUME NEW k \in {"ok", "fail"}, NEW i \in Nat
  PROVE  /\ <<k, i, 1>> \in Cmd /\ <<k, i, 1>>[2] = i
         /\ <<"sync", i, 0>> \in Cmd /\ <<"sync", i, 0>>[2] = i
BY DEF Cmd

LEMMA OnlyOne ==
  ASSUME NEW x \in Cmd, NEW i, x[2] = i
  PROVE  /\ <<x>> \in Cmds /\ Len(<<x>>) = 1 /\ <<x>>[1] = x
         /\ \A z \in 1 .. Len(<<x>>) : <<x>>[z][2] = i
BY DEF Cmds

LEMMA OnlyTwo ==
  ASSUME NEW x \in Cmd, NEW y \in Cmd, NEW i, x[2] = i, y[2] = i
  PROVE  /\ <<x, y>> \in Cmds
         /\ \A z \in 1 .. Len(<<x, y>>) : <<x, y>>[z][2] = i
BY DEF Cmds

\* A query in the middle of a pipeline that was left behind.
LEMMA QueryStartsOn ==
  ASSUME NEW n \in PGconn, NEW tc \in Msgs, NEW v \in Server, NEW log, NEW c, NEW s, NEW old,
         Link(n, tc, v, log, c, s, old), NEW st \in Bool, IdleOk(n, st), n.mode # "off",
         NEW os \in Operations, LogOk(log, os), OldOk(old, log, os),
         NEW o \in Operation, o.what = "query", NEW k \in {"ok", "fail"}
  PROVE  LET os2 == Append(os, o)
             cs == <<<<k, Len(os2), 1>>>>
             m == Push(n, cs)
         IN  /\ m \in PGconn /\ os2 \in Operations
             /\ log \o cs \in Cmds /\ LogOk(log \o cs, os2) /\ OldOk(old, log \o cs, os2)
             /\ Underway(m, tc, v, log \o cs, s, old, os2, "result", <<>>, st)
<1> DEFINE os2 == Append(os, o)
           i == Len(os) + 1
           x == <<k, i, 1>>
           cs == <<x>>
           big == log \o cs
           m == Push(n, cs)
           N == Len(log)
<1>1. /\ Len(os) \in Nat /\ i \in Nat /\ os2 \in Operations /\ Len(os2) = i /\ os2[i] = o
  BY OperationsTyped
<1>2. x \in Cmd /\ cs \in Cmds /\ Len(cs) = 1 /\ (\A y \in 1 .. Len(cs) : cs[y][2] = i) /\ cs[1] = x
  <2>1. x \in Cmd /\ x[2] = i
    BY <1>1, OneCommand
  <2> HIDE DEF x, i
  <2> QED
    BY <2>1, OnlyOne
<1>3. x[1] \in {"ok", "fail"} /\ <<x[2], x[3]>> = <<i, 1>>
  OBVIOUS
<1>4. /\ log \in Cmds /\ N \in Nat /\ n.queue \in Cmds /\ s \in 0 .. Len(log)
      /\ AnswersIn(tc \o v.out) \in Msgs
  BY LinkTyped
<1> HIDE DEF x
<1>5. LogOk(big, os2) /\ OldOk(old, big, os2)
  <2>1. \A y \in 1 .. Len(cs) : cs[y][2] = Len(os) + 1
    BY <1>2
  <2> HIDE DEF cs, i
  <2>2. LogOk(log \o cs, Append(os, o)) /\ OldOk(old, log \o cs, Append(os, o))
    BY <1>2, <1>4, <2>1, LogGrows
  <2> QED
    BY <2>2
<1>6. big \in Cmds /\ Len(big) = N + 1 /\ big[N + 1] = x
  <2>1. 1 \in 1 .. Len(cs)
    BY <1>2
  <2>2. big \in Cmds /\ Len(big) = Len(log) + Len(cs) /\ big[Len(log) + 1] = cs[1]
    BY <1>2, <1>4, <2>1, LongerLog
  <2> QED
    BY <1>2, <2>2
<1>7. /\ m \in PGconn /\ m.mode = n.mode /\ m.queue = n.queue \o cs
      /\ \E d \in Nat : Link(m, tc, v, big, d, s, old)
  <2> HIDE DEF cs
  <2> QED
    BY <1>2, LinkPush
<1>8. PICK d \in Nat : Link(m, tc, v, big, d, s, old)
  BY <1>7
<1>9. Len(m.queue) = Len(n.queue) + 1 /\ Len(n.queue) \in Nat
  <2>1. Len(n.queue \o cs) = Len(n.queue) + Len(cs) /\ Len(n.queue) \in Nat
    BY <1>2, <1>4, LongerLog, CmdsLen
  <2> QED
    BY <1>2, <1>7, <2>1
<1>10. /\ n.async = "pidle" /\ n.mode = "on" => m.async = "pidle"
       /\ n.async = "idle" /\ n.mode = "aborted" => m.async = "ready"
  <2>1. m = PushCommand(n, x)
    BY <1>2, PushOne
  <2>2. Tracks(n, log, c, s, AnswersIn(tc \o v.out))
    BY DEF Link
  <2> HIDE DEF m
  <2> QED
    BY <1>2, <1>3, <1>4, <2>1, <2>2, PushCommandKeeps
<1>11. OnAt(n, log, c) /\ n.async \in {"idle", "busy", "ready", "copy", "pidle"} /\ n.mode \in {"on", "aborted"}
  BY LinkOn DEF PGconn
<1> HIDE DEF m, big, cs
<1>12. Len(m.queue) = 1 => m.mode = "aborted" \/ m.async = "pidle"
  <2> SUFFICES ASSUME Len(m.queue) = 1 PROVE m.mode = "aborted" \/ m.async = "pidle"
    OBVIOUS
  <2>1. Len(n.queue) = 0
    BY <1>9
  <2>2. n.async \in {"idle", "pidle"}
    BY <1>4, <1>11, <2>1 DEF OnAt
  <2>3. CASE n.async = "idle"
    BY <1>7, <2>3 DEF IdleOk
  <2>4. CASE n.async = "pidle"
    BY <1>7, <1>10, <1>11, <2>4
  <2> QED
    BY <2>2, <2>3, <2>4
<1>13. ~st => Len(m.queue) = 1 /\ m.async = "ready"
  <2> SUFFICES ASSUME ~st PROVE Len(m.queue) = 1 /\ m.async = "ready"
    OBVIOUS
  <2>1. n.async = "idle" /\ n.mode = "aborted"
    BY DEF IdleOk
  <2>2. Len(n.queue) = 0
    BY <1>11, <2>1 DEF OnAt
  <2> QED
    BY <1>9, <1>10, <2>1, <2>2
<1>14. InQueryOn(m, big, i, "result", <<>>, st)
  <2>1. Kind(big, Len(big)) \in {"ok", "fail"} /\ Called(big, Len(big)) = <<i, 1>>
    BY <1>3, <1>6 DEF Kind, Called
  <2>2. Len(big) >= 1 /\ Len(m.queue) >= 1
    BY <1>4, <1>6, <1>9
  <2> QED
    BY <1>12, <1>13, <2>1, <2>2 DEF InQueryOn
<1>15. Running(m, big, d, os2, "result", <<>>, st)
  <2>1. i >= 1 /\ os2[Len(os2)].what = "query" /\ m.mode # "off"
    BY <1>1, <1>7
  <2> HIDE DEF os2
  <2> QED
    BY <1>1, <1>14, <2>1 DEF Running, InQuery
<1>16. Underway(m, tc, v, big, s, old, os2, "result", <<>>, st)
  BY <1>8, <1>15 DEF Underway
<1> QED
  BY <1>1, <1>5, <1>6, <1>7, <1>16 DEF m, big, cs, x

\* A query on its own.
LEMMA QueryStartsOff ==
  ASSUME NEW n \in PGconn, NEW tc \in Msgs, NEW v \in Server, NEW log, NEW c, NEW s, NEW old,
         Link(n, tc, v, log, c, s, old), NEW st \in Bool, n.mode = "off", n.async = "idle",
         NEW os \in Operations, LogOk(log, os), OldOk(old, log, os),
         NEW o \in Operation, o.what = "query", NEW k \in {"ok", "fail"}
  PROVE  LET os2 == Append(os, o)
             cs == <<<<k, Len(os2), 1>>, <<"sync", Len(os2), 0>>>>
             m == [n EXCEPT !.async = "busy", !.out = n.out \o cs]
         IN  /\ m \in PGconn /\ os2 \in Operations
             /\ log \o cs \in Cmds /\ LogOk(log \o cs, os2) /\ OldOk(old, log \o cs, os2)
             /\ Underway(m, tc, v, log \o cs, s, old, os2, "result", <<>>, st)
<1> DEFINE os2 == Append(os, o)
           i == Len(os) + 1
           x == <<k, i, 1>>
           y == <<"sync", i, 0>>
           cs == <<x, y>>
           big == log \o cs
           q == n.out \o cs
           m == [n EXCEPT !.async = "busy", !.out = q]
           N == Len(log)
<1>1. /\ Len(os) \in Nat /\ i \in Nat /\ os2 \in Operations /\ Len(os2) = i /\ os2[i] = o
  BY OperationsTyped
<1>2. x \in Cmd /\ y \in Cmd /\ cs \in Cmds /\ \A z \in 1 .. Len(cs) : cs[z][2] = i
  <2>1. x \in Cmd /\ x[2] = i /\ y \in Cmd /\ y[2] = i
    BY <1>1, OneCommand
  <2> HIDE DEF x, y, i
  <2> QED
    BY <2>1, OnlyTwo
<1>3. x[1] \in {"ok", "fail"} /\ <<x[2], x[3]>> = <<i, 1>> /\ y[1] = "sync"
  OBVIOUS
<1>4. log \in Cmds /\ N \in Nat /\ n.out \in Cmds
  BY LinkTyped
<1>5. LogOk(big, os2) /\ OldOk(old, big, os2)
  BY <1>2, <1>4, LogGrows
<1> HIDE DEF x, y
<1>6. /\ m \in PGconn /\ Link(m, tc, v, big, N, s, old)
      /\ Len(big) = N + 2 /\ big[N + 1] = x
  <2>1. x \in Cmd /\ x[1] \in {"ok", "fail"} /\ y \in Cmd /\ y[1] = "sync"
    BY <1>2, <1>3
  <2>2. /\ Asking(n, x, y) \in PGconn /\ Link(Asking(n, x, y), tc, v, log \o <<x, y>>, Len(log), s, old)
        /\ Pushed(log, x, y)
    BY <2>1, LinkAsks
  <2> QED
    BY <2>2 DEF Asking, Pushed
<1>7. m.mode = "off" /\ m.async = "busy"
  <2>1. q \in Cmds
    BY <1>2, <1>4, CmdsJoin
  <2> HIDE DEF q
  <2> QED
    BY <2>1 DEF PGconn
<1>8. big \in Cmds
  BY <1>2, <1>4, CmdsJoin
<1> HIDE DEF m, big, cs
<1>9. InQueryOff(m, big, N, i, "result", <<>>)
  <2>1. Len(big) - 1 = N + 1 /\ Len(big) - 2 = N /\ Len(big) >= 2
    BY <1>4, <1>6
  <2>2. Called(big, Len(big) - 1) = <<i, 1>>
    BY <1>3, <1>6, <2>1 DEF Called
  <2> QED
    BY <1>7, <2>1, <2>2 DEF InQueryOff
<1>10. Running(m, big, N, os2, "result", <<>>, st)
  <2>1. i >= 1 /\ os2[Len(os2)].what = "query"
    BY <1>1
  <2> HIDE DEF os2
  <2> QED
    BY <1>1, <1>7, <1>9, <2>1 DEF Running, InQuery
<1>11. Underway(m, tc, v, big, s, old, os2, "result", <<>>, st)
  BY <1>4, <1>6, <1>10 DEF Underway
<1> QED
  BY <1>1, <1>5, <1>6, <1>8, <1>11 DEF m, q, big, cs, x, y

-----------------------------------------------------------------------------
(* What an operation leaves behind *)

\* In pipeline mode a PGconn is not idle on its own: one that ended early has
\* something in its queue, or the pipeline is aborted.
LEMMA PipelineNotIdle ==
  ASSUME NEW n \in PGconn, NEW tc \in Msgs, NEW v \in Server, NEW log, NEW c, NEW s, NEW old,
         Link(n, tc, v, log, c, s, old),
         NEW i \in Nat, NEW o \in Operation, NEW ph \in {"result", "null", "sync"}, NEW rs \in Ress,
         NEW st \in Bool, InPipeline(n, log, i, o, ph, rs, st)
  PROVE  n.mode # "off" /\ n.queue # <<>> /\ Len(n.queue) \in Nat \ {0} /\ n.async # "idle"
<1>1. n.mode # "off" /\ PhaseOk(o, ph, Len(rs)) /\ Len(n.queue) >= (Size(o) + 1) - Len(rs)
  BY DEF InPipeline
<1>2. Size(o) \in Nat /\ Len(rs) \in Nat
  BY OperationTyped DEF Ress
<1>3. OnAt(n, log, c)
  BY <1>1, LinkOn
<1>4. /\ Len(n.queue) \in Nat /\ (n.queue = <<>> <=> Len(n.queue) = 0)
      /\ n.async = "idle" => Len(n.queue) = 0
  BY <1>3 DEF OnAt
<1> DEFINE r == Len(rs)
           k == Size(o)
<1>5. r <= k
  BY <1>1, <1>2 DEF PhaseOk
<1>6. Len(n.queue) >= 1
  BY <1>1, <1>2, <1>4, <1>5
<1> QED
  BY <1>1, <1>4, <1>6

LEMMA OneLeft ==
  ASSUME NEW q \in Cmds, q # <<>>, Tail(q) = <<>>
  PROVE  Len(q) = 1
<1>1. Len(q) \in Nat /\ Len(Tail(q)) = Len(q) - 1 /\ Tail(q) \in Cmds
  BY CmdsTyped
<1>2. Len(Tail(q)) = 0
  BY <1>1, CmdsLen
<1> QED
  BY <1>1, <1>2

LEMMA PipelineLeaves ==
  ASSUME NEW n \in PGconn, NEW tc \in Msgs, NEW v \in Server, NEW log, NEW c, NEW s, NEW old,
         Link(n, tc, v, log, c, s, old),
         NEW i \in Nat, NEW o \in Operation, NEW ph \in {"null", "sync"}, NEW rs \in Ress,
         NEW st \in Bool, InPipeline(n, log, i, o, ph, rs, st),
         \/ ph = "null" /\ GetResult(n) # Null
         \/ ph = "sync" /\ GetResult(n)[1] # "sync"
         \/ ph = "sync" /\ ~PQexitPipelineMode(AfterGetResult(n))
  PROVE  AfterGetResult(n).async # "idle"
<1> DEFINE m == AfterGetResult(n)
           q == Len(n.queue)
<1>1. /\ m \in PGconn /\ m.mode = n.mode
      /\ m.queue = IF n.async = "ready" /\ n.mode # "off" THEN Tail(n.queue) ELSE n.queue
      /\ n.async \in {"idle", "busy", "copy"} => m = n
      /\ n.async = "ready" /\ n.mode # "off" /\ n.result[1] # "sync" => m.async = "pidle"
      /\ \/ n.async = "pidle"
         \/ n.async = "ready" /\ n.mode # "off" /\ n.result[1] = "sync"
         => /\ m.async \in {"idle", "busy", "ready"} /\ (m.async = "idle" <=> m.queue = <<>>)
  BY LinkAfterGetResult
<1>2. n.mode # "off" /\ n.queue # <<>> /\ q \in Nat \ {0} /\ n.async # "idle"
  BY PipelineNotIdle
<1>3. n.queue \in Cmds
  BY LinkTyped
<1>4. Tail(n.queue) = <<>> => q = 1
  BY <1>2, <1>3, OneLeft
<1>5. n.async \in {"idle", "busy", "ready", "copy", "pidle"}
  BY DEF PGconn
<1> HIDE DEF m, q
<1>6. CASE ph = "null" /\ GetResult(n) # Null
  <2>1. n.async \in {"ready", "copy"}
    BY <1>6, LinkResult
  <2>2. CASE n.async = "ready" /\ n.result[1] = "sync" /\ m.async = "idle"
    <3>1. q = 1
      BY <1>1, <1>2, <1>4, <2>2
    <3>2. /\ PhaseOk(o, ph, Len(rs)) /\ q >= (Size(o) + 1) - Len(rs)
          /\ ph = "null" /\ q = (Size(o) + 1) - Len(rs) => n.async = "pidle"
      BY DEF InPipeline, q
    <3>3. Size(o) \in Nat /\ Len(rs) \in Nat
      BY OperationTyped DEF Ress
    <3>4. Len(rs) \in 1 .. Size(o)
      BY <1>6, <3>2 DEF PhaseOk
    <3>5. q = (Size(o) + 1) - Len(rs)
      BY <3>1, <3>2, <3>3, <3>4
    <3> QED
      BY <1>6, <2>2, <3>2, <3>5
  <2> QED
    BY <1>1, <1>2, <2>1, <2>2 DEF m
<1>7. CASE ph = "sync" /\ GetResult(n)[1] # "sync"
  <2>1. n.async = "ready" => n.result[1] # "sync"
    BY <1>7 DEF GetResult
  <2> QED
    BY <1>1, <1>2, <1>5, <2>1 DEF m
<1>8. CASE ph = "sync" /\ ~PQexitPipelineMode(m)
  <2>1. m.async = "idle" => m.queue = <<>>
    <3>1. PICK d : Link(m, tc, v, log, d, s, old)
      BY LinkAfterGetResult DEF m
    <3>2. OnAt(m, log, d)
      BY <1>1, <1>2, <3>1, LinkOn
    <3> QED
      BY <3>2 DEF OnAt
  <2> QED
    BY <1>8, <2>1 DEF PQexitPipelineMode, m
<1> QED
  BY <1>6, <1>7, <1>8 DEF m

LEMMA QueryNotIdle ==
  ASSUME NEW n \in PGconn, NEW tc \in Msgs, NEW v \in Server, NEW log, NEW c, NEW s, NEW old,
         Link(n, tc, v, log, c, s, old),
         NEW i \in Nat, NEW ph \in {"result", "null", "sync"}, NEW rs \in Ress,
         NEW st \in Bool, InQuery(n, log, c, i, ph, rs, st)
  PROVE  IdleOk(n, TRUE)
<1> SUFFICES ASSUME n.mode # "off", n.async = "idle" PROVE n.mode = "aborted"
  BY DEF IdleOk
<1>1. InQueryOn(n, log, i, ph, rs, st) /\ ph \in {"result", "null"}
  BY DEF InQuery
<1>2. OnAt(n, log, c)
  BY LinkOn
<1>3. Len(n.queue) = 0
  BY <1>2 DEF OnAt
<1> QED
  BY <1>1, <1>3 DEF InQueryOn

LEMMA QueryLeaves ==
  ASSUME NEW n \in PGconn, NEW tc \in Msgs, NEW v \in Server, NEW log, NEW c, NEW s, NEW old,
         Link(n, tc, v, log, c, s, old),
         NEW i \in Nat, NEW rs \in Ress,
         NEW st \in Bool, InQuery(n, log, c, i, "null", rs, st), GetResult(n) # Null
  PROVE  IdleOk(AfterGetResult(n), TRUE)
<1> DEFINE m == AfterGetResult(n)
           q == Len(n.queue)
<1>1. /\ m \in PGconn /\ m.mode = n.mode
      /\ m.queue = IF n.async = "ready" /\ n.mode # "off" THEN Tail(n.queue) ELSE n.queue
      /\ n.async \in {"idle", "busy", "copy"} => m = n
      /\ n.async = "ready" /\ n.mode # "off" /\ n.result[1] # "sync" => m.async = "pidle"
      /\ n.async = "ready" /\ n.mode # "off" /\ n.result[1] = "sync" => (m.async = "idle" <=> m.queue = <<>>)
  BY LinkAfterGetResult
<1> SUFFICES ASSUME m.mode # "off", m.async = "idle" PROVE FALSE
  BY DEF IdleOk
<1>2. n.async \in {"ready", "copy"} /\ n.mode # "off"
  BY <1>1, LinkResult
<1>3. n.async = "ready" /\ n.result[1] = "sync" /\ Tail(n.queue) = <<>>
  BY <1>1, <1>2
<1>4. n.queue \in Cmds /\ log \in Cmds
  BY LinkTyped
<1>5. InQueryOn(n, log, i, "null", rs, st)
  BY <1>2 DEF InQuery
<1>6. OnAt(n, log, c)
  BY <1>2, LinkOn
<1>7. /\ q \in Nat /\ Len(log) \in Nat /\ c = Len(log) - q + 1 /\ n.result = Answer(log, c) /\ c \in 0 .. Len(log)
      /\ n.queue = <<>> <=> q = 0
  BY <1>3, <1>6 DEF OnAt
<1>8. n.queue # <<>>
  <2>1. c <= Len(log) /\ q # 0
    BY <1>7
  <2> QED
    BY <1>7, <2>1
<1>9. q = 1
  BY <1>3, <1>4, <1>8, OneLeft
<1>10. c = Len(log) /\ c \in 1 .. Len(log) /\ Kind(log, c) # "sync"
  <2>1. Len(log) >= 1 /\ Kind(log, Len(log)) \in {"ok", "fail"}
    BY <1>5 DEF InQueryOn
  <2> HIDE DEF q
  <2>2. c = Len(log)
    BY <1>7, <1>9
  <2>3. c \in 1 .. Len(log)
    BY <1>7, <2>1, <2>2
  <2> QED
    BY <2>1, <2>2, <2>3
<1>11. n.result[1] = Status(log, c)
  BY <1>4, <1>7, <1>10, AnswerTyped
<1> QED
  BY <1>3, <1>4, <1>10, <1>11, StatusOfKind
\* Nothing is in line for a PGconn that is idle.
LEMMA IdleEmpty ==
  ASSUME NEW n \in PGconn, NEW tc \in Msgs, NEW v \in Server, NEW log, NEW c, NEW s, NEW old,
         Link(n, tc, v, log, c, s, old), n.async = "idle", Stuck(n)
  PROVE  n.inbuf = <<>>
<1>1. /\ log \in Cmds /\ s \in 0 .. Len(log) /\ n.inbuf \in Msgs /\ AnswersIn(tc \o v.out) \in Msgs
      /\ Len(log) \in Nat
  BY LinkTyped
<1>2. c = Len(log)
  <2>1. CASE n.mode = "off"
    <3>1. OffAt(n, log, c)
      BY <2>1, LinkOff
    <3> QED
      BY <3>1 DEF OffAt
  <2>2. CASE n.mode # "off"
    <3>1. OnAt(n, log, c)
      BY <2>2, LinkOn
    <3>2. Len(n.queue) = 0 /\ c = Len(log) - Len(n.queue)
      BY <3>1 DEF OnAt
    <3> QED
      BY <1>1, <3>2
  <2> QED
    BY <2>1, <2>2
<1>3. AnswersIn(n.inbuf) \o AnswersIn(tc \o v.out) = Expected(log, c, s)
  BY DEF Link, Tracks, Ahead
<1>4. c \in Nat /\ s <= c
  BY <1>1, <1>2
<1>5. Expected(log, c, s) = <<>>
  BY <1>1, <1>4, ExpectedNone
<1> SUFFICES ASSUME n.inbuf # <<>> PROVE FALSE
  OBVIOUS
<1>6. Head(n.inbuf)[1] # "note"
  BY DEF Stuck
<1>7. AnswersIn(n.inbuf) = <<Head(n.inbuf)>> \o AnswersIn(Tail(n.inbuf)) /\ Head(n.inbuf) \in Msg
      /\ Tail(n.inbuf) \in Msgs
  BY <1>1, <1>6, LineFirst
<1> DEFINE h == Head(n.inbuf)
           a == AnswersIn(Tail(n.inbuf))
           b == AnswersIn(tc \o v.out)
<1>8. a \in Msgs /\ b \in Msgs /\ h \in Msg
  BY <1>1, <1>7, LineTyped
<1>9. (<<h>> \o a) \o b = <<>>
  BY <1>3, <1>5, <1>7
<1> HIDE DEF h, a, b
<1> QED
  BY <1>8, <1>9 DEF Msgs

LEMMA IdleOkParsed ==
  ASSUME NEW n \in PGconn, NEW tc \in Msgs, NEW v \in Server, NEW log, NEW c, NEW s, NEW old,
         Link(n, tc, v, log, c, s, old), NEW st \in Bool, IdleOk(n, st)
  PROVE  IdleOk(Parsed(n), st)
<1> DEFINE m == Parsed(n)
<1>1. PICK d \in Nat : Settles(n, m, c, d) /\ Link(m, tc, v, log, d, s, old) /\ m \in PGconn
  BY LinkSettles
<1> HIDE DEF m
<1>2. CASE n.async = "busy"
  <2>1. st
    BY <1>2 DEF IdleOk
  <2>2. m.mode # "off" => m.async # "idle"
    <3> SUFFICES ASSUME m.mode # "off" PROVE m.async # "idle"
      OBVIOUS
    <3>1. OnAt(m, log, d) /\ n.mode # "off" /\ m.queue = n.queue
      BY <1>1, LinkOn DEF Settles
    <3>2. OnAt(n, log, c)
      BY <3>1, LinkOn
    <3>3. Len(n.queue) >= 1
      BY <1>2, <3>2 DEF OnAt
    <3> QED
      BY <3>1, <3>3 DEF OnAt
  <2> QED
    BY <2>1, <2>2 DEF IdleOk, m
<1>3. CASE n.async # "busy"
  <2>1. m.mode = n.mode /\ m.async = n.async
    BY <1>1, <1>3 DEF Settles
  <2> QED
    BY <2>1 DEF IdleOk, m
<1> QED
  BY <1>2, <1>3

\* The receiver takes a notification.
LEMMA LinkTakesNote ==
  ASSUME NEW n \in PGconn, NEW tc \in Msgs, NEW v \in Server, NEW log, NEW c, NEW s, NEW old,
         Link(n, tc, v, log, c, s, old), n.notifies > 0
  PROVE  LET m == [n EXCEPT !.notifies = n.notifies - 1]
         IN  m \in PGconn /\ Link(m, tc, v, log, c, s, old) /\ v.notes > 0
<1> DEFINE m == [n EXCEPT !.notifies = n.notifies - 1]
           x == NoteCount(n.inbuf \o (tc \o v.out))
<1>1. n.notifies \in Nat /\ v.notes \in Nat
  BY LinkTyped
<1>2. n.notifies - 1 \in Nat
  BY <1>1
<1>3. /\ m \in PGconn /\ m.mode = n.mode /\ m.async = n.async /\ m.queue = n.queue /\ m.result = n.result
      /\ m.inbuf = n.inbuf /\ m.out = n.out /\ m.notifies = n.notifies - 1
  BY <1>2 DEF PGconn
<1>4. x \in Nat
  <2>1. n.inbuf \in Msgs /\ tc \o v.out \in Msgs
    BY LinkTyped
  <2>2. n.inbuf \o (tc \o v.out) \in Msgs
    BY <2>1, LineConcat
  <2> QED
    BY <2>2, LineTyped
<1>5. n.notifies + x <= v.notes
  BY DEF Link
<1> HIDE DEF m, x
<1>6. m.notifies + x <= v.notes /\ v.notes > 0
  BY <1>1, <1>3, <1>4, <1>5
<1>7. Tracks(m, log, c, s, AnswersIn(tc \o v.out))
  <2>1. Tracks(n, log, c, s, AnswersIn(tc \o v.out))
    BY DEF Link
  <2> QED
    BY <1>3, <2>1 DEF Tracks, Off, On, Ahead
<1>8. Link(m, tc, v, log, c, s, old)
  BY <1>3, <1>6, <1>7 DEF Link, x
<1> QED
  BY <1>3, <1>6, <1>8 DEF m

LEMMA RangeOfConcat ==
  ASSUME NEW a \in Cmds, NEW b \in Msgs, NEW x, x \in Range(a) \/ x \in Range(b)
  PROVE  x \in Range(a \o b)
<1>1. /\ Len(a) \in Nat /\ Len(b) \in Nat /\ DOMAIN a = 1 .. Len(a) /\ DOMAIN b = 1 .. Len(b)
      /\ DOMAIN (a \o b) = 1 .. (Len(a) + Len(b))
      /\ \A j \in 1 .. Len(a) : (a \o b)[j] = a[j]
      /\ \A j \in 1 .. Len(b) : (a \o b)[Len(a) + j] = b[j]
  BY DEF Cmds, Msgs
<1>2. CASE x \in Range(a)
  BY <1>1, <1>2 DEF Range
<1>3. CASE x \in Range(b)
  <2>1. PICK j \in 1 .. Len(b) : x = b[j]
    BY <1>1, <1>3 DEF Range
  <2>2. Len(a) + j \in DOMAIN (a \o b)
    BY <1>1
  <2> QED
    BY <1>1, <2>1, <2>2 DEF Range
<1> QED
  BY <1>2, <1>3

\* What libpq waits for is on its way, when its own buffers are empty.
LEMMA AnswerInLine ==
  ASSUME NEW n \in PGconn, NEW v \in Server, NEW log, NEW c, NEW s, NEW old,
         Link(n, <<>>, v, log, c, s, old), n.async = "busy", n.inbuf = <<>>, n.out = <<>>,
         Kind(log, Len(log)) = "sync"
  PROVE  \E m \in Range(v.in \o v.out) : m[1] = "sync"
<1> DEFINE tc == <<>>
<1>1. tc \in Msgs
  BY LineEmpty
<1>a. Link(n, tc, v, log, c, s, old)
  OBVIOUS
<1> HIDE DEF tc
<1>2. /\ log \in Cmds /\ Len(log) \in Nat /\ s \in 0 .. Len(log) /\ c \in 0 .. Len(log)
      /\ v.in \in Cmds /\ v.out \in Msgs /\ n.out \in Cmds
  BY <1>1, <1>a, LinkTyped
<1> DEFINE N == Len(log)
<1>3. c < N
  <2>1. CASE n.mode = "off"
    <3>1. OffAt(n, log, c)
      BY <1>1, <1>a, <2>1, LinkOff
    <3> QED
      BY <1>2, <3>1 DEF OffAt
  <2>2. CASE n.mode # "off"
    <3>1. OnAt(n, log, c)
      BY <1>1, <1>a, <2>2, LinkOn
    <3>2. Len(n.queue) >= 1 /\ c = N - Len(n.queue) /\ Len(n.queue) \in Nat
      BY <3>1 DEF OnAt
    <3> QED
      BY <1>2, <3>2
  <2> QED
    BY <2>1, <2>2
<1>4. N \in 1 .. N
  BY <1>2, <1>3
<1>5. CASE s < N
  <2> DEFINE q == v.in \o n.out
  <2>1. Suffix(q, log, s)
    BY DEF Link
  <2>2. q = v.in
    BY <1>2 DEF Cmds
  <2>3. Suffix(v.in, log, s)
    BY <2>1, <2>2
  <2>4. Len(v.in) = N - s /\ \A x \in 1 .. Len(v.in) : v.in[x] = log[s + x]
    BY <2>3 DEF Suffix
  <2>5. N - s \in 1 .. Len(v.in) /\ s + (N - s) = N
    BY <1>2, <1>5, <2>4
  <2>6. v.in[N - s] = log[N]
    BY <2>4, <2>5
  <2>7. DOMAIN v.in = 1 .. Len(v.in)
    BY <1>2 DEF Cmds
  <2>8. log[N] \in Range(v.in)
    BY <2>5, <2>6, <2>7 DEF Range
  <2>9. log[N][1] = "sync"
    BY DEF Kind
  <2>10. log[N] \in Range(v.in \o v.out)
    BY <1>2, <2>8, RangeOfConcat
  <2> QED
    BY <2>9, <2>10
<1>6. CASE s = N
  <2> DEFINE k == N - 1
             x == Answer(log, N)
  <2>1. k \in 0 .. Len(log) - 1 /\ k + 1 = N /\ c \in Nat /\ ~(k < c)
    BY <1>2, <1>3
  <2>2. Answered(log, k + 1)
    BY <2>1 DEF Answered
  <2> HIDE DEF k
  <2>3. Expected(log, c, k + 1) = Expected(log, c, k) \o <<Answer(log, k + 1)>>
    BY <1>2, <2>1, <2>2, ExpectedServed
  <2>4. Expected(log, c, N) = Expected(log, c, k) \o <<x>>
    BY <2>1, <2>3
  <2>5. Expected(log, c, k) \in Msgs
    BY <1>2, <2>1, ExpectedPartsTyped
  <2>6. x \in Msg /\ x[1] = "sync"
    <3>1. Status(log, N) = "sync"
      BY <1>2, <1>4, StatusOfKind
    <3> QED
      BY <1>2, <1>4, <2>1, <2>2, <3>1, AnswerTyped
  <2>7. AnswersIn(n.inbuf) \o AnswersIn(tc \o v.out) = Expected(log, c, N)
    BY <1>a, <1>6 DEF Link, Tracks, Ahead
  <2>8. AnswersIn(n.inbuf) = <<>> /\ tc \o v.out = v.out /\ AnswersIn(v.out) \in Msgs
    BY <1>2, LineEmpty, LineTyped, MsgsEmpty DEF tc
  <2>9. AnswersIn(v.out) = Expected(log, c, k) \o <<x>>
    BY <2>4, <2>7, <2>8, MsgsEmpty
  <2> DEFINE e == Expected(log, c, k)
  <2> HIDE DEF x, e
  <2>10. x \in ToSet(e \o <<x>>)
    <3>1. /\ Len(e) \in Nat /\ DOMAIN (e \o <<x>>) = 1 .. (Len(e) + 1)
          /\ (e \o <<x>>)[Len(e) + 1] = x
      BY <2>5 DEF Msgs, e
    <3> QED
      BY <3>1 DEF ToSet
  <2>11. x \in ToSet(v.out)
    <3>1. x \in ToSet(Pick(v.out, Replies))
      BY <2>9, <2>10 DEF AnswersIn, e
    <3> QED
      BY <1>2, <3>1, PickWithin DEF Msgs
  <2>12. x \in Range(v.out)
    BY <2>11 DEF ToSet, Range
  <2>13. x \in Range(v.in \o v.out)
    BY <1>2, <2>12, RangeOfConcat
  <2> QED
    BY <2>6, <2>13
<1> QED
  BY <1>2, <1>5, <1>6

-----------------------------------------------------------------------------
(* The inductive invariant *)

Places == {"none", "flush", "flush_readable", "read", "read_readable", "posted"}
Phases == {"result", "null", "sync"}

Fields ==
  /\ pq \in PGconn /\ to_client \in Msgs /\ srv \in Server
  /\ op \in Places /\ phase \in Phases
  /\ results \in Ress /\ ops \in Operations /\ stale \in Bool
  /\ rcv \in {"none", "waiting", "woken", "aborted"}

\* w is where the operation is, if there is one.
Placed(n, tc, v, log, s, old, w, os, ph, rs, st) ==
  \E c \in Nat : /\ Link(n, tc, v, log, c, s, old)
                 /\ w # "none" => Running(n, log, c, os, ph, rs, st)

\* What an operation waits for, and what the receiver sleeps on.  One that has
\* had no notification has not read any input for the operation.
Waits(n, v, w, st, r) ==
  /\ w \in {"read", "read_readable", "posted"} => n.out = <<>>
  /\ w = "posted" => n.async # "busy"
  /\ w \in {"read", "read_readable"} /\ v.notes = 0 /\ r = "none" =>
       n.async = "busy" /\ n.inbuf = <<>>
  /\ w = "none" => IdleOk(n, st)
  /\ r = "waiting" /\ w = "none" /\ ~st => n.notifies = 0 /\ n.inbuf = <<>>

\* What the end l of the latest operation says of the server v.
Effected(log, s, v, os, l) ==
  os # <<>> /\ os[Len(os)].what = "pipeline" =>
    /\ l.outcome \in {"success", "failed", "exception"} => Finished(log, s, Len(os))
    /\ l.outcome = "success" => OfOperation(v.committed, Len(os)) = Whole(Len(os), os[Len(os)])
    /\ l.outcome \in {"failed", "exception"} => OfOperation(v.committed, Len(os)) = {}

\* And of its results.
Reported(os, l) ==
  os # <<>> =>
    /\ os[Len(os)].what = "pipeline" /\ l.outcome \in {"success", "failed"} =>
         /\ Len(l.results) = Size(os[Len(os)])
         /\ \A j \in DOMAIN l.results : Tail(l.results[j]) = <<Len(os), j>>
    /\ os[Len(os)].what # "pipeline" /\ l.outcome \in {"success", "failed"} =>
         l.stale \/ Tail(l.results[1]) = <<Len(os), 1>>
    /\ ~l.stale /\ "copy" \notin Range(os[Len(os)].items) =>
         l.outcome \in {"none", "success", "failed", "exception", "cancelled"}

At(log, s, old) ==
  /\ Placed(pq, to_client, srv, log, s, old, op, ops, phase, results, stale)
  /\ LogOk(log, ops) /\ OldOk(old, log, ops)
  /\ Effected(log, s, srv, ops, last)

Ind ==
  /\ Fields
  /\ Waits(pq, srv, op, stale, rcv)
  /\ op # "none" => last = NoEnd
  /\ Reported(ops, last)
  /\ \E log, s, old : At(log, s, old)

LEMMA NothingEnded ==
  ASSUME NEW log, NEW s, NEW v, NEW os
  PROVE  Effected(log, s, v, os, NoEnd) /\ Reported(os, NoEnd)
BY DEF Effected, Reported, NoEnd

\* The ends that are neither a success nor an answer.
Broken == {"enter_failed", "thrown_out", "sync_failed", "send_failed",
           "unexpected_non_null", "unexpected_status", "exit_failed", "cancelled"}
EarlyEnd(outcome, st) == [outcome |-> outcome, results |-> <<>>, stale |-> st]

LEMMA EndedEarly ==
  ASSUME NEW log, NEW s, NEW v, NEW os, NEW outcome \in Broken, NEW st,
         st \/ outcome = "cancelled" \/ "copy" \in Range(os[Len(os)].items)
  PROVE  Effected(log, s, v, os, EarlyEnd(outcome, st)) /\ Reported(os, EarlyEnd(outcome, st))
<1> DEFINE l == EarlyEnd(outcome, st)
<1>1. l.outcome = outcome /\ l.stale = st
  BY DEF EarlyEnd
<1>2. l.outcome \notin {"success", "failed", "exception"}
  BY <1>1 DEF Broken
<1> HIDE DEF l
<1>3. Effected(log, s, v, os, l)
  BY <1>2 DEF Effected
<1>4. Reported(os, l)
  BY <1>1, <1>2 DEF Reported
<1> QED
  BY <1>3, <1>4 DEF l

LEMMA PlacedUnderway ==
  ASSUME NEW n, NEW tc, NEW v, NEW log, NEW s, NEW old, NEW w, w # "none",
         NEW os, NEW ph, NEW rs, NEW st
  PROVE  Placed(n, tc, v, log, s, old, w, os, ph, rs, st)
           <=> Underway(n, tc, v, log, s, old, os, ph, rs, st)
BY DEF Placed, Underway

LEMMA PlacedAlone ==
  ASSUME NEW n \in PGconn, NEW tc \in Msgs, NEW v \in Server, NEW log, NEW s, NEW old, NEW c,
         Link(n, tc, v, log, c, s, old), NEW os, NEW ph, NEW rs, NEW st
  PROVE  Placed(n, tc, v, log, s, old, "none", os, ph, rs, st)
<1>1. c \in Nat
  BY LinkTyped
<1> QED
  BY <1>1 DEF Placed

LEMMA EmptyTyped ==
  <<>> \in Ress /\ <<>> \in Operations /\ <<>> \in Msgs /\ <<>> \in Cmds /\ Len(<<>>) = 0
BY DEF Ress, Operations, Msgs, Cmds

LEMMA NewSessionTyped ==
  /\ NewSession \in Server /\ NewSession.in = <<>> /\ NewSession.out = <<>> /\ NewSession.txn = {}
  /\ NewSession.skip = FALSE /\ NewSession.committed = {} /\ NewSession.notes = 0
<1> DEFINE b == FALSE
<1>1. b \in Bool
  BY DEF Bool
<1>2. <<>> \in Msgs /\ <<>> \in Cmds
  BY EmptyTyped
<1> HIDE DEF b
<1>3. NewSession = [in |-> <<>>, out |-> <<>>, txn |-> {}, skip |-> b, committed |-> {}, notes |-> 0]
  BY DEF NewSession, b
<1>4. NewSession \in Server
  BY <1>1, <1>2, <1>3 DEF Server
<1>5. NewSession.skip = FALSE
  BY DEF NewSession
<1> QED
  BY <1>3, <1>4, <1>5

LEMMA FreshIs ==
  /\ Fresh.mode = "off" /\ Fresh.async = "idle" /\ Fresh.out = <<>> /\ Fresh.inbuf = <<>>
  /\ Fresh.notifies = 0
BY DEF Fresh

LEMMA InitOk == Init => Ind
<1> SUFFICES ASSUME Init PROVE Ind
  OBVIOUS
<1> DEFINE none == {}
<1>1. /\ pq = Fresh /\ to_client = <<>> /\ srv = NewSession /\ op = "none" /\ phase = "result"
      /\ results = <<>> /\ ops = <<>> /\ last = NoEnd /\ stale = FALSE /\ rcv = "none"
  BY DEF Init
<1>2. srv \in Server /\ srv.committed = none
  BY <1>1, NewSessionTyped
<1>3. pq \in PGconn /\ to_client \in Msgs /\ Link(pq, to_client, srv, <<>>, 0, 0, none)
  <2>1. srv.notes <= MaxNotes
    BY <1>1, NewSessionTyped, PipelineAssumption
  <2>2. Fresh \in PGconn /\ <<>> \in Msgs /\ Link(Fresh, <<>>, srv, <<>>, 0, 0, srv.committed)
    BY <1>1, <1>2, <2>1, NewSessionTyped, LinkFresh
  <2> QED
    BY <1>1, <1>2, <2>2
<1>4. Fields
  <2>1. stale \in Bool
    BY <1>1 DEF Bool
  <2> QED
    BY <1>1, <1>2, <1>3, <2>1, EmptyTyped DEF Fields, Places, Phases
<1>5. Waits(pq, srv, op, stale, rcv)
  <2>1. IdleOk(pq, stale)
    BY <1>1, FreshIs DEF IdleOk
  <2> QED
    BY <1>1, <2>1 DEF Waits
<1>6. Placed(pq, to_client, srv, <<>>, 0, none, op, ops, phase, results, stale)
  BY <1>1, <1>2, <1>3, PlacedAlone
<1>7. LogOk(<<>>, ops) /\ OldOk(none, <<>>, ops)
  <2>1. Len(ops) = 0 /\ 1 .. Len(ops) = {}
    BY <1>1, EmptyTyped
  <2>2. \A p \in 1 .. Len(<<>>) : FALSE
    BY EmptyTyped
  <2>3. LogOk(<<>>, ops)
    BY <2>1, <2>2 DEF LogOk
  <2> QED
    BY <2>1, <2>3 DEF OldOk, CommittedOk
<1>8. Effected(<<>>, 0, srv, ops, last) /\ Reported(ops, last)
  BY <1>1, NothingEnded
<1> HIDE DEF none
<1>9. At(<<>>, 0, none)
  BY <1>6, <1>7, <1>8 DEF At
<1> QED
  BY <1>1, <1>4, <1>5, <1>8, <1>9 DEF Ind

-----------------------------------------------------------------------------
(* The server's steps *)

\* What the server has of its session.
LEMMA LinkServed ==
  ASSUME NEW n, NEW tc, NEW v, NEW log, NEW c, NEW s, NEW old, Link(n, tc, v, log, c, s, old)
  PROVE  /\ v.committed = old \union Kept(log, s) /\ v.txn = Open(log, s)
         /\ log \in Cmds /\ s \in 0 .. Len(log)
BY DEF Link, Served

LEMMA OfUnion ==
  ASSUME NEW E, NEW F, NEW i
  PROVE  OfOperation(E \union F, i) = OfOperation(E, i) \union OfOperation(F, i)
BY DEF OfOperation

\* An end stays true while the server serves more of the log.
LEMMA EffectedServes ==
  ASSUME NEW n, NEW tc, NEW v, NEW log, NEW c, NEW s, NEW old, Link(n, tc, v, log, c, s, old),
         s < Len(log), NEW w, Link(n, tc, w, log, c, s + 1, old),
         NEW os, NEW l, Effected(log, s, v, os, l)
  PROVE  Effected(log, s + 1, w, os, l)
<1> DEFINE i == Len(os)
<1>1. SUFFICES ASSUME os # <<>>, os[i].what = "pipeline",
                      l.outcome \in {"success", "failed", "exception"}
               PROVE  /\ Finished(log, s + 1, i)
                      /\ OfOperation(w.committed, i) = OfOperation(v.committed, i)
  BY DEF Effected
<1>2. Finished(log, s, i)
  BY <1>1 DEF Effected
<1>3. /\ v.committed = old \union Kept(log, s) /\ w.committed = old \union Kept(log, s + 1)
      /\ log \in Cmds /\ s \in 0 .. Len(log)
  BY LinkServed
<1>4. Len(log) \in Nat
  BY <1>3, CmdsLen
<1>5. s \in 0 .. Len(log) - 1
  BY <1>3, <1>4
<1> HIDE DEF i
<1>6. Finished(log, s + 1, i) /\ OfOperation(Kept(log, s + 1), i) = OfOperation(Kept(log, s), i)
  BY <1>2, <1>3, <1>5, FinishedNext
<1>7. /\ OfOperation(v.committed, i) = OfOperation(old, i) \union OfOperation(Kept(log, s), i)
      /\ OfOperation(w.committed, i) = OfOperation(old, i) \union OfOperation(Kept(log, s + 1), i)
  BY <1>3, OfUnion
<1>8. OfOperation(w.committed, i) = OfOperation(v.committed, i)
  BY <1>6, <1>7
<1> QED
  BY <1>6, <1>8 DEF i

LEMMA ServerServesKeeps ==
  ASSUME Ind, ServerServes
  PROVE  Ind'
<1>1. Fields /\ Waits(pq, srv, op, stale, rcv) /\ (op # "none" => last = NoEnd) /\ Reported(ops, last)
  BY DEF Ind
<1>2. PICK log, s, old : At(log, s, old)
  BY DEF Ind
<1>3. PICK c \in Nat : /\ Link(pq, to_client, srv, log, c, s, old)
                       /\ op # "none" => Running(pq, log, c, ops, phase, results, stale)
  BY <1>2 DEF At, Placed
<1>4. /\ srv' = Serve(srv) /\ srv.in # <<>> /\ pq' = pq /\ to_client' = to_client /\ op' = op /\ phase' = phase
      /\ results' = results /\ ops' = ops /\ last' = last /\ stale' = stale /\ rcv' = rcv
  BY DEF ServerServes, operation
<1>5. pq \in PGconn /\ to_client \in Msgs /\ srv \in Server
  BY <1>1 DEF Fields
<1>6. /\ srv' \in Server /\ srv'.notes = srv.notes
      /\ s < Len(log) /\ Link(pq, to_client, srv', log, c, s + 1, old)
  BY <1>3, <1>4, <1>5, LinkServes
<1>7. Placed(pq', to_client', srv', log, s + 1, old, op', ops', phase', results', stale')
  BY <1>3, <1>4, <1>6 DEF Placed
<1>8. Effected(log, s + 1, srv', ops', last')
  <2>1. Effected(log, s, srv, ops, last)
    BY <1>2 DEF At
  <2> QED
    BY <1>3, <1>4, <1>6, <2>1, EffectedServes
<1>9. LogOk(log, ops') /\ OldOk(old, log, ops')
  BY <1>2, <1>4 DEF At
<1>10. Fields'
  BY <1>1, <1>4, <1>6 DEF Fields
<1>11. Waits(pq', srv', op', stale', rcv')
  BY <1>1, <1>4, <1>6 DEF Waits
<1>12. (op' # "none" => last' = NoEnd) /\ Reported(ops', last')
  BY <1>1, <1>4
<1> QED
  BY <1>7, <1>8, <1>9, <1>10, <1>11, <1>12 DEF Ind, At

\* Steps of the socket: what the server has done stays, and the rest too.
LEMMA SocketKeeps ==
  ASSUME Ind, pq' = pq, UNCHANGED operation, rcv' = rcv,
         to_client' \in Msgs, srv' \in Server, srv'.committed = srv.committed,
         srv.notes > 0 => srv'.notes > 0,
         \A log, c, s, old : Link(pq, to_client, srv, log, c, s, old)
                               => Link(pq, to_client', srv', log, c, s, old)
  PROVE  Ind'
<1>1. Fields /\ Waits(pq, srv, op, stale, rcv) /\ (op # "none" => last = NoEnd) /\ Reported(ops, last)
  BY DEF Ind
<1>2. PICK log, s, old : At(log, s, old)
  BY DEF Ind
<1>3. PICK c \in Nat : /\ Link(pq, to_client, srv, log, c, s, old)
                       /\ op # "none" => Running(pq, log, c, ops, phase, results, stale)
  BY <1>2 DEF At, Placed
<1>4. /\ op' = op /\ phase' = phase
      /\ results' = results /\ ops' = ops /\ last' = last /\ stale' = stale
  BY DEF operation
<1>5. Link(pq', to_client', srv', log, c, s, old)
  BY <1>3
<1>6. Placed(pq', to_client', srv', log, s, old, op', ops', phase', results', stale')
  BY <1>3, <1>4, <1>5 DEF Placed
<1>7. Effected(log, s, srv', ops', last')
  <2>1. Effected(log, s, srv, ops, last)
    BY <1>2 DEF At
  <2> QED
    BY <1>4, <2>1 DEF Effected
<1>8. LogOk(log, ops') /\ OldOk(old, log, ops')
  BY <1>2, <1>4 DEF At
<1>9. Fields'
  BY <1>1, <1>4 DEF Fields
<1>10. Waits(pq', srv', op', stale', rcv')
  <2>1. srv'.notes = 0 => srv.notes = 0
    <3>1. srv.notes \in Nat
      BY <1>1 DEF Fields, Server
    <3> QED
      BY <3>1
  <2> QED
    BY <1>1, <1>4, <2>1 DEF Waits
<1>11. (op' # "none" => last' = NoEnd) /\ Reported(ops', last')
  BY <1>1, <1>4
<1> QED
  BY <1>6, <1>7, <1>8, <1>9, <1>10, <1>11 DEF Ind, At

LEMMA ServerWritesKeeps ==
  ASSUME Ind, ServerWrites
  PROVE  Ind'
<1>1. PICK k \in 1 .. Len(srv.out) :
        /\ to_client' = to_client \o SubSeq(srv.out, 1, k)
        /\ srv' = [srv EXCEPT !.out = SubSeq(srv.out, k + 1, Len(srv.out))]
  BY DEF ServerWrites
<1>2. pq \in PGconn /\ to_client \in Msgs /\ srv \in Server
  BY DEF Ind, Fields
<1>3. k \in 0 .. Len(srv.out)
  OBVIOUS
<1>4. srv'.committed = srv.committed /\ srv'.notes = srv.notes
  BY <1>1, <1>2 DEF Server
<1>5. ASSUME NEW log, NEW c, NEW s, NEW old, Link(pq, to_client, srv, log, c, s, old)
      PROVE  srv' \in Server /\ to_client' \in Msgs /\ Link(pq, to_client', srv', log, c, s, old)
  BY <1>1, <1>2, <1>3, <1>5, LinkWrites
<1>6. \E log, c, s, old : Link(pq, to_client, srv, log, c, s, old)
  BY DEF Ind, At, Placed
<1>7. pq' = pq /\ UNCHANGED operation /\ rcv' = rcv
  BY DEF ServerWrites
<1> QED
  BY <1>4, <1>5, <1>6, <1>7, SocketKeeps

LEMMA ServerFlushesKeeps ==
  ASSUME Ind, ServerFlushes
  PROVE  Ind'
<1>1. to_client' = to_client \o srv.out /\ srv' = [srv EXCEPT !.out = <<>>]
  BY DEF ServerFlushes
<1>2. pq \in PGconn /\ to_client \in Msgs /\ srv \in Server
  BY DEF Ind, Fields
<1>4. srv'.committed = srv.committed /\ srv'.notes = srv.notes
  BY <1>1, <1>2 DEF Server
<1>5. ASSUME NEW log, NEW c, NEW s, NEW old, Link(pq, to_client, srv, log, c, s, old)
      PROVE  srv' \in Server /\ to_client' \in Msgs /\ Link(pq, to_client', srv', log, c, s, old)
  BY <1>1, <1>2, <1>5, LinkFlushes
<1>6. \E log, c, s, old : Link(pq, to_client, srv, log, c, s, old)
  BY DEF Ind, At, Placed
<1>7. pq' = pq /\ UNCHANGED operation /\ rcv' = rcv
  BY DEF ServerFlushes
<1> QED
  BY <1>4, <1>5, <1>6, <1>7, SocketKeeps

LEMMA ServerNotifiesKeeps ==
  ASSUME Ind, ServerNotifies
  PROVE  Ind'
<1>1. /\ to_client' = to_client /\ srv.notes < MaxNotes
      /\ srv' = [srv EXCEPT !.notes = srv.notes + 1, !.out = Append(srv.out, <<"note", 0, 0>>)]
  BY DEF ServerNotifies
<1>2. pq \in PGconn /\ to_client \in Msgs /\ srv \in Server
  BY DEF Ind, Fields
<1>3. srv.notes \in Nat
  BY <1>2 DEF Server
<1>4. srv'.committed = srv.committed /\ srv'.notes > 0
  <2>1. srv'.committed = srv.committed /\ srv'.notes = srv.notes + 1
    BY <1>1, <1>2 DEF Server
  <2> QED
    BY <1>3, <2>1
<1>5. ASSUME NEW log, NEW c, NEW s, NEW old, Link(pq, to_client, srv, log, c, s, old)
      PROVE  srv' \in Server /\ to_client' \in Msgs /\ Link(pq, to_client', srv', log, c, s, old)
  BY <1>1, <1>2, <1>5, LinkNotifies
<1>6. \E log, c, s, old : Link(pq, to_client, srv, log, c, s, old)
  BY DEF Ind, At, Placed
<1>7. pq' = pq /\ UNCHANGED operation /\ rcv' = rcv
  BY DEF ServerNotifies
<1> QED
  BY <1>4, <1>5, <1>6, <1>7, SocketKeeps

-----------------------------------------------------------------------------
(* The receiver's steps, and the socket's readiness *)

\* async_receive_notifcation up to its wait or its completion.
LEMMA LoopKeeps ==
  ASSUME NEW n \in PGconn, NEW tc \in Msgs, NEW v \in Server, NEW log, NEW s, NEW old, NEW w,
         NEW os \in Operations, NEW ph, NEW rs \in Ress, NEW st \in Bool,
         Placed(n, tc, v, log, s, old, w, os, ph, rs, st), w = "none" => IdleOk(n, st),
         ReceiveLoop(n)
  PROVE  /\ pq' \in PGconn /\ Placed(pq', tc, v, log, s, old, w, os, ph, rs, st)
         /\ pq'.out = n.out /\ (n.async # "busy" => pq'.async # "busy")
         /\ rcv' \in {"none", "waiting"} /\ (rcv' = "none" => v.notes # 0)
         /\ w = "none" => IdleOk(pq', st)
         /\ rcv' = "waiting" /\ w = "none" /\ ~st => pq'.notifies = 0 /\ pq'.inbuf = <<>>
<1> DEFINE p == Parsed(n)
           m == [p EXCEPT !.notifies = p.notifies - 1]
<1>1. PICK c \in Nat : Link(n, tc, v, log, c, s, old) /\ (w # "none" => Running(n, log, c, os, ph, rs, st))
  BY DEF Placed
<1>2. p \in PGconn /\ p.out = n.out /\ Stuck(p) /\ (n.async # "busy" => p.async # "busy")
  <2>1. p \in PGconn /\ p.out = n.out /\ Stuck(p) /\ \E d \in Nat : Settles(n, p, c, d)
    BY <1>1, LinkSettles
  <2>2. n.async # "busy" => p.async # "busy"
    BY <2>1 DEF Settles
  <2> QED
    BY <2>1, <2>2
<1>3. PICK d \in Nat : Link(p, tc, v, log, d, s, old) /\ (w # "none" => Running(p, log, d, os, ph, rs, st))
  <2>1. CASE w = "none"
    <3>1. \E d \in Nat : Link(p, tc, v, log, d, s, old)
      BY <1>1, LinkSettles
    <3> QED
      BY <2>1, <3>1
  <2>2. CASE w # "none"
    <3>1. Underway(n, tc, v, log, s, old, os, ph, rs, st)
      BY <1>1, <2>2 DEF Underway
    <3>2. Underway(p, tc, v, log, s, old, os, ph, rs, st)
      BY <3>1, UnderwayParsed
    <3> QED
      BY <3>2 DEF Underway
  <2> QED
    BY <2>1, <2>2
<1>4. w = "none" => IdleOk(p, st)
  BY <1>1, IdleOkParsed
<1>5. p.notifies \in Nat
  BY <1>2 DEF PGconn
<1>6. \/ p.notifies > 0 /\ pq' = m /\ rcv' = "none"
      \/ p.notifies = 0 /\ pq' = p /\ rcv' = "waiting"
  BY <1>5 DEF ReceiveLoop
<1> HIDE DEF p, m
<1>7. CASE p.notifies > 0 /\ pq' = m /\ rcv' = "none"
  <2>1. m \in PGconn /\ Link(m, tc, v, log, d, s, old) /\ v.notes > 0
    BY <1>2, <1>3, <1>7, LinkTakesNote DEF m
  <2>2. m.mode = p.mode /\ m.async = p.async /\ m.queue = p.queue /\ m.out = p.out
    BY <1>2 DEF m, PGconn
  <2>3. w # "none" => Running(m, log, d, os, ph, rs, st)
    BY <1>3, <2>2, RunningSame
  <2>4. Placed(m, tc, v, log, s, old, w, os, ph, rs, st)
    BY <2>1, <2>3 DEF Placed
  <2>5. w = "none" => IdleOk(m, st)
    BY <1>4, <2>2 DEF IdleOk
  <2>6. v.notes # 0
    BY <2>1 DEF Server
  <2> QED
    BY <1>2, <1>7, <2>1, <2>2, <2>4, <2>5, <2>6
<1>8. CASE p.notifies = 0 /\ pq' = p /\ rcv' = "waiting"
  <2>1. Placed(p, tc, v, log, s, old, w, os, ph, rs, st)
    BY <1>3 DEF Placed
  <2>2. w = "none" /\ ~st => p.inbuf = <<>>
    <3> SUFFICES ASSUME w = "none", ~st PROVE p.inbuf = <<>>
      OBVIOUS
    <3>1. p.async = "idle"
      BY <1>4 DEF IdleOk
    <3> QED
      BY <1>2, <1>3, <3>1, IdleEmpty
  <2> QED
    BY <1>2, <1>4, <1>8, <2>1, <2>2
<1> QED
  BY <1>6, <1>7, <1>8

LEMMA StartReceiveKeeps ==
  ASSUME Ind, StartReceive
  PROVE  Ind'
<1>1. Fields /\ Waits(pq, srv, op, stale, rcv) /\ (op # "none" => last = NoEnd) /\ Reported(ops, last)
  BY DEF Ind
<1>2. PICK log, s, old : At(log, s, old)
  BY DEF Ind
<1>3. /\ pq \in PGconn /\ to_client \in Msgs /\ srv \in Server /\ ops \in Operations
      /\ results \in Ress /\ stale \in Bool
  BY <1>1 DEF Fields
<1>4. Placed(pq, to_client, srv, log, s, old, op, ops, phase, results, stale)
  BY <1>2 DEF At
<1>5. /\ to_client' = to_client /\ srv' = srv /\ op' = op /\ phase' = phase
      /\ results' = results /\ ops' = ops /\ last' = last /\ stale' = stale /\ ReceiveLoop(pq)
  BY DEF StartReceive, operation
<1>6. op = "none" => IdleOk(pq, stale)
  BY <1>1 DEF Waits
<1>7. /\ pq' \in PGconn /\ Placed(pq', to_client, srv, log, s, old, op, ops, phase, results, stale)
      /\ pq'.out = pq.out /\ (pq.async # "busy" => pq'.async # "busy")
      /\ rcv' \in {"none", "waiting"} /\ (rcv' = "none" => srv.notes # 0)
      /\ op = "none" => IdleOk(pq', stale)
      /\ rcv' = "waiting" /\ op = "none" /\ ~stale => pq'.notifies = 0 /\ pq'.inbuf = <<>>
  BY <1>3, <1>4, <1>5, <1>6, LoopKeeps
<1>8. Fields'
  BY <1>1, <1>5, <1>7 DEF Fields
<1>9. Waits(pq', srv', op', stale', rcv')
  BY <1>1, <1>5, <1>7 DEF Waits
<1>10. Effected(log, s, srv', ops', last') /\ LogOk(log, ops') /\ OldOk(old, log, ops')
  BY <1>2, <1>5 DEF At
<1> QED
  BY <1>1, <1>5, <1>7, <1>8, <1>9, <1>10 DEF Ind, At

\* PQconsumeInput.
Consumed(n, tc, k) == [n EXCEPT !.inbuf = n.inbuf \o tc, !.out = SubSeq(n.out, k + 1, Len(n.out))]
Sent(v, n, k) == [v EXCEPT !.in = v.in \o SubSeq(n.out, 1, k)]

LEMMA PlacedConsumes ==
  ASSUME NEW n \in PGconn, NEW tc \in Msgs, NEW v \in Server, NEW log, NEW s, NEW old, NEW w,
         NEW os, NEW ph, NEW rs, NEW st,
         Placed(n, tc, v, log, s, old, w, os, ph, rs, st), NEW k \in 0 .. Len(n.out)
  PROVE  /\ Consumed(n, tc, k) \in PGconn /\ Sent(v, n, k) \in Server /\ <<>> \in Msgs
         /\ Consumed(n, tc, k).mode = n.mode /\ Consumed(n, tc, k).async = n.async
         /\ n.out = <<>> => Consumed(n, tc, k).out = <<>>
         /\ Sent(v, n, k).committed = v.committed /\ Sent(v, n, k).notes = v.notes
         /\ Placed(Consumed(n, tc, k), <<>>, Sent(v, n, k), log, s, old, w, os, ph, rs, st)
<1> DEFINE m == [n EXCEPT !.inbuf = n.inbuf \o tc, !.out = SubSeq(n.out, k + 1, Len(n.out))]
           z == [v EXCEPT !.in = v.in \o SubSeq(n.out, 1, k)]
<1>1. PICK c \in Nat : Link(n, tc, v, log, c, s, old) /\ (w # "none" => Running(n, log, c, os, ph, rs, st))
  BY DEF Placed
<1>2. m \in PGconn /\ z \in Server /\ <<>> \in Msgs /\ Link(m, <<>>, z, log, c, s, old)
  BY <1>1, LinkConsumes
<1>3. /\ m.mode = n.mode /\ m.async = n.async /\ m.queue = n.queue
      /\ m.out = SubSeq(n.out, k + 1, Len(n.out))
  BY DEF PGconn
<1>4. z.committed = v.committed /\ z.notes = v.notes
  BY DEF Server
<1>5. n.out = <<>> => m.out = <<>>
  <2>1. n.out \in Cmds /\ <<>> \in Cmds
    BY EmptyTyped DEF PGconn
  <2> QED
    BY <1>3, <2>1, CmdsSplit
<1> HIDE DEF m, z
<1>6. w # "none" => Running(m, log, c, os, ph, rs, st)
  BY <1>1, <1>3, RunningSame
<1>7. Placed(m, <<>>, z, log, s, old, w, os, ph, rs, st)
  BY <1>2, <1>6 DEF Placed
<1> QED
  BY <1>2, <1>3, <1>4, <1>5, <1>7 DEF m, z, Consumed, Sent

LEMMA ReceiverRunsKeeps ==
  ASSUME Ind, ReceiverRuns
  PROVE  Ind'
<1>1. Fields /\ Waits(pq, srv, op, stale, rcv) /\ (op # "none" => last = NoEnd) /\ Reported(ops, last)
  BY DEF Ind
<1>2. PICK log, s, old : At(log, s, old)
  BY DEF Ind
<1>3. /\ pq \in PGconn /\ to_client \in Msgs /\ srv \in Server /\ ops \in Operations
      /\ results \in Ress /\ stale \in Bool
  BY <1>1 DEF Fields
<1>4. Placed(pq, to_client, srv, log, s, old, op, ops, phase, results, stale)
  BY <1>2 DEF At
<1>5. PICK k \in 0 .. Len(pq.out) :
        /\ to_client' = <<>> /\ srv' = Sent(srv, pq, k)
        /\ ReceiveLoop(Consumed(pq, to_client, k))
  BY DEF ReceiverRuns, Consumes, ConsumeInput, Consumed, Sent
<1>6. /\ op' = op /\ phase' = phase
      /\ results' = results /\ ops' = ops /\ last' = last /\ stale' = stale
  BY DEF ReceiverRuns, operation
<1> DEFINE m == Consumed(pq, to_client, k)
           tc == <<>>
<1>7. /\ m \in PGconn /\ srv' \in Server /\ tc \in Msgs
      /\ m.mode = pq.mode /\ m.async = pq.async /\ (pq.out = <<>> => m.out = <<>>)
      /\ srv'.committed = srv.committed /\ srv'.notes = srv.notes
      /\ Placed(m, tc, srv', log, s, old, op, ops, phase, results, stale)
  <2> DEFINE z == Sent(srv, pq, k)
  <2>1. /\ m \in PGconn /\ z \in Server /\ tc \in Msgs
        /\ m.mode = pq.mode /\ m.async = pq.async /\ (pq.out = <<>> => m.out = <<>>)
        /\ z.committed = srv.committed /\ z.notes = srv.notes
        /\ Placed(m, tc, z, log, s, old, op, ops, phase, results, stale)
    BY <1>3, <1>4, PlacedConsumes
  <2>2. srv' = z
    BY <1>5
  <2> HIDE DEF z, m, tc
  <2> QED
    BY <2>1, <2>2
<1>8. ReceiveLoop(m) /\ to_client' = tc
  BY <1>5
<1> HIDE DEF m, tc
<1>9. op = "none" => IdleOk(m, stale)
  <2>1. op = "none" => IdleOk(pq, stale)
    BY <1>1 DEF Waits
  <2> QED
    BY <1>7, <2>1 DEF IdleOk
<1>10. /\ pq' \in PGconn /\ Placed(pq', tc, srv', log, s, old, op, ops, phase, results, stale)
       /\ pq'.out = m.out /\ (m.async # "busy" => pq'.async # "busy")
       /\ rcv' \in {"none", "waiting"} /\ (rcv' = "none" => srv'.notes # 0)
       /\ op = "none" => IdleOk(pq', stale)
       /\ rcv' = "waiting" /\ op = "none" /\ ~stale => pq'.notifies = 0 /\ pq'.inbuf = <<>>
  <2> DEFINE z == srv'
  <2>1. z \in Server /\ Placed(m, tc, z, log, s, old, op, ops, phase, results, stale)
    BY <1>7
  <2> HIDE DEF z
  <2>2. /\ pq' \in PGconn /\ Placed(pq', tc, z, log, s, old, op, ops, phase, results, stale)
        /\ pq'.out = m.out /\ (m.async # "busy" => pq'.async # "busy")
        /\ rcv' \in {"none", "waiting"} /\ (rcv' = "none" => z.notes # 0)
        /\ op = "none" => IdleOk(pq', stale)
        /\ rcv' = "waiting" /\ op = "none" /\ ~stale => pq'.notifies = 0 /\ pq'.inbuf = <<>>
    BY <1>3, <1>7, <1>8, <1>9, <2>1, LoopKeeps
  <2> QED
    BY <2>2 DEF z
<1>11. Fields'
  BY <1>1, <1>6, <1>7, <1>8, <1>10 DEF Fields
<1>12. Waits(pq', srv', op', stale', rcv')
  BY <1>1, <1>6, <1>7, <1>10 DEF Waits
<1>13. Effected(log, s, srv', ops', last') /\ LogOk(log, ops') /\ OldOk(old, log, ops')
  BY <1>2, <1>6, <1>7 DEF At, Effected
<1> QED
  BY <1>1, <1>6, <1>8, <1>10, <1>11, <1>12, <1>13 DEF Ind, At

LEMMA ReadableKeeps ==
  ASSUME Ind, Readable
  PROVE  Ind'
<1>1. Fields /\ Waits(pq, srv, op, stale, rcv) /\ (op # "none" => last = NoEnd) /\ Reported(ops, last)
  BY DEF Ind
<1>2. PICK log, s, old : At(log, s, old)
  BY DEF Ind
<1>3. /\ pq' = pq /\ to_client' = to_client /\ srv' = srv /\ phase' = phase
      /\ results' = results /\ ops' = ops /\ last' = last /\ stale' = stale
      /\ op' = CASE op = "flush" -> "flush_readable"
                 [] op = "read"  -> "read_readable"
                 [] OTHER        -> op
      /\ rcv' = IF rcv = "waiting" THEN "woken" ELSE rcv
  BY DEF Readable
<1>4. \/ op = "flush" /\ op' = "flush_readable"
      \/ op = "read" /\ op' = "read_readable"
      \/ op' = op
  BY <1>3
<1>5. op' \in Places /\ (op' = "none" <=> op = "none")
  BY <1>1, <1>4 DEF Fields, Places
<1>6. Fields'
  BY <1>1, <1>3, <1>5 DEF Fields
<1>7. Waits(pq', srv', op', stale', rcv')
  BY <1>1, <1>3, <1>4 DEF Waits
<1>8. Placed(pq', to_client', srv', log, s, old, op', ops', phase', results', stale')
  BY <1>2, <1>3, <1>5 DEF At, Placed
<1>9. Effected(log, s, srv', ops', last') /\ LogOk(log, ops') /\ OldOk(old, log, ops')
  BY <1>2, <1>3 DEF At
<1> QED
  BY <1>1, <1>3, <1>5, <1>6, <1>7, <1>8, <1>9 DEF Ind, At

-----------------------------------------------------------------------------
(* The handlers of an operation *)

\* self.complete before the answer was all read.
LEMMA EndEarlyKeeps ==
  ASSUME Fields, NEW n \in PGconn, to_client' \in Msgs, srv' \in Server,
         NEW log, NEW c, NEW s, NEW old, Link(n, to_client', srv', log, c, s, old),
         LogOk(log, ops), OldOk(old, log, ops), IdleOk(n, TRUE),
         NEW outcome \in Broken,
         stale \/ outcome = "cancelled" \/ "copy" \in Range(ops[Len(ops)].items),
         EndEarly(n, outcome)
  PROVE  Ind'
<1> DEFINE l == EarlyEnd(outcome, stale)
           t == TRUE
<1>1. /\ pq' = n /\ op' = "none" /\ last' = l /\ phase' = phase /\ results' = results /\ ops' = ops
      /\ stale' = t /\ rcv' = rcv
  BY DEF EndEarly, Complete, EarlyEnd
<1>2. t \in Bool
  BY DEF Bool
<1>3. IdleOk(n, t) /\ t
  OBVIOUS
<1>4. Effected(log, s, srv', ops, l) /\ Reported(ops, l)
  BY EndedEarly
<1> HIDE DEF l, t
<1>5. Fields'
  BY <1>1, <1>2 DEF Fields, Places
<1>6. Waits(pq', srv', op', stale', rcv')
  BY <1>1, <1>3 DEF Waits
<1>7. Placed(pq', to_client', srv', log, s, old, op', ops', phase', results', stale')
  <2>1. c \in Nat
    <3> DEFINE z == srv'
               tc == to_client'
    <3>1. z \in Server /\ tc \in Msgs /\ Link(n, tc, z, log, c, s, old)
      OBVIOUS
    <3> HIDE DEF z, tc
    <3> QED
      BY <3>1, LinkTyped
  <2> QED
    BY <1>1, <2>1 DEF Placed
<1> QED
  BY <1>1, <1>4, <1>5, <1>6, <1>7 DEF Ind, At

\* The operation goes on: it waits for the next result.
LEMMA GoesOn ==
  ASSUME Fields, last = NoEnd, NEW n \in PGconn, n.out = <<>>, to_client' \in Msgs, srv' \in Server,
         NEW log, NEW s, NEW old, NEW ph \in Phases, NEW rs \in Ress,
         Underway(n, to_client', srv', log, s, old, ops, ph, rs, stale),
         LogOk(log, ops), OldOk(old, log, ops), ReceiveResult(n),
         phase' = ph, results' = rs, UNCHANGED <<ops, last, stale, rcv>>
  PROVE  Ind'
<1> DEFINE tc == to_client'
           z == srv'
<1>1. tc \in Msgs /\ z \in Server /\ Underway(n, tc, z, log, s, old, ops, ph, rs, stale)
  OBVIOUS
<1>2. ops \in Operations /\ stale \in Bool
  BY DEF Fields
<1> HIDE DEF tc, z
<1>3. /\ pq' \in PGconn /\ op' \in {"read", "posted"} /\ Received(pq', op')
      /\ Underway(pq', tc, z, log, s, old, ops, ph, rs, stale)
  BY <1>1, <1>2, ReceiveKeeps
<1>4. Fields'
  BY <1>3 DEF Fields, Places
<1>5. Waits(pq', srv', op', stale', rcv')
  BY <1>3 DEF Waits, Received
<1>6. Placed(pq', to_client', srv', log, s, old, op', ops', phase', results', stale')
  BY <1>3 DEF Placed, Underway, tc, z
<1>7. Effected(log, s, srv', ops, NoEnd) /\ Reported(ops, NoEnd)
  BY NothingEnded
<1> QED
  BY <1>4, <1>5, <1>6, <1>7 DEF Ind, At

\* Emit: the receiver does not go on sleeping.
LEMMA EmitWakes ==
  ASSUME Fields, Emit
  PROVE  rcv' \in {"none", "waiting", "woken", "aborted"} /\ rcv' # "waiting"
BY DEF Fields, Emit

\* The operation ends with its answer read, and leaves n.
LEMMA EndsWell ==
  ASSUME Fields, NEW n \in PGconn, to_client' \in Msgs, srv' \in Server,
         NEW log, NEW c, NEW s, NEW old, Link(n, to_client', srv', log, c, s, old),
         LogOk(log, ops), OldOk(old, log, ops), IdleOk(n, stale),
         NEW outcome, NEW rs, Complete(outcome, rs), pq' = n, stale' = stale, Emit,
         NEW l, l = [outcome |-> outcome, results |-> rs, stale |-> stale],
         Effected(log, s, srv', ops, l), Reported(ops, l)
  PROVE  Ind'
<1>1. op' = "none" /\ last' = l /\ phase' = phase /\ results' = results /\ ops' = ops
  BY DEF Complete
<1>2. rcv' \in {"none", "waiting", "woken", "aborted"} /\ rcv' # "waiting"
  BY EmitWakes
<1>3. Fields'
  BY <1>1, <1>2 DEF Fields, Places
<1>4. Waits(pq', srv', op', stale', rcv')
  BY <1>1, <1>2 DEF Waits
<1>5. Placed(pq', to_client', srv', log, s, old, op', ops', phase', results', stale')
  <2>1. c \in Nat
    <3> DEFINE z == srv'
               tc == to_client'
    <3>1. z \in Server /\ tc \in Msgs /\ Link(n, tc, z, log, c, s, old)
      OBVIOUS
    <3> HIDE DEF z, tc
    <3> QED
      BY <3>1, LinkTyped
  <2> QED
    BY <1>1, <2>1 DEF Placed
<1> QED
  BY <1>1, <1>3, <1>4, <1>5 DEF Ind, At
\* What is under way, of which operation.
LEMMA UnderwayOf ==
  ASSUME NEW n, NEW tc, NEW v, NEW log, NEW s, NEW old, NEW os \in Operations, NEW ph, NEW rs, NEW st,
         Underway(n, tc, v, log, s, old, os, ph, rs, st)
  PROVE  /\ Len(os) \in Nat /\ os[Len(os)] \in Operation /\ Len(os) \in 1 .. Len(os)
         /\ \E c \in Nat :
              /\ Link(n, tc, v, log, c, s, old)
              /\ os[Len(os)].what = "pipeline" => InPipeline(n, log, Len(os), os[Len(os)], ph, rs, st)
              /\ os[Len(os)].what = "query" => InQuery(n, log, c, Len(os), ph, rs, st)
<1>1. PICK c \in Nat : Link(n, tc, v, log, c, s, old) /\ Running(n, log, c, os, ph, rs, st)
  BY DEF Underway
<1>2. Len(os) \in Nat /\ Len(os) >= 1
  BY <1>1, OperationsTyped DEF Running
<1>3. Len(os) \in 1 .. Len(os)
  BY <1>2
<1>4. os[Len(os)] \in Operation
  BY <1>3, OperationsTyped
<1> QED
  BY <1>1, <1>2, <1>3, <1>4 DEF Running

LEMMA PipelineUnderway ==
  ASSUME NEW n, NEW tc, NEW v, NEW log, NEW s, NEW old, NEW os, NEW ph, NEW rs, NEW st,
         NEW c \in Nat, Link(n, tc, v, log, c, s, old), Len(os) >= 1, os[Len(os)].what = "pipeline",
         InPipeline(n, log, Len(os), os[Len(os)], ph, rs, st)
  PROVE  Underway(n, tc, v, log, s, old, os, ph, rs, st)
BY DEF Underway, Running

LEMMA QueryUnderway ==
  ASSUME NEW n, NEW tc, NEW v, NEW log, NEW s, NEW old, NEW os, NEW ph, NEW rs, NEW st,
         NEW c \in Nat, Link(n, tc, v, log, c, s, old), Len(os) >= 1, os[Len(os)].what = "query",
         InQuery(n, log, c, Len(os), ph, rs, st)
  PROVE  Underway(n, tc, v, log, s, old, os, ph, rs, st)
BY DEF Underway, Running

\* How a pipeline ends whose sync has been read.
Verdict(o, rs) ==
  IF o.thrown THEN "exception" ELSE IF FirstError(rs) THEN "failed" ELSE "success"
Shown(o, rs) == IF o.thrown THEN <<>> ELSE rs
End(outcome, rs, st) == [outcome |-> outcome, results |-> rs, stale |-> st]

LEMMA PipelineEnded ==
  ASSUME NEW n \in PGconn, NEW tc \in Msgs, NEW v \in Server, NEW log, NEW c, NEW s, NEW old,
         Link(n, tc, v, log, c, s, old), n.async # "busy",
         NEW os \in Operations, Len(os) \in 1 .. Len(os), OldOk(old, log, os),
         os[Len(os)].what = "pipeline",
         NEW rs \in Ress, NEW st \in Bool,
         InPipeline(n, log, Len(os), os[Len(os)], "sync", rs, st),
         GetResult(n)[1] = "sync", PQexitPipelineMode(AfterGetResult(n))
  PROVE  LET o == os[Len(os)]
             l == End(Verdict(o, rs), Shown(o, rs), st)
         IN  Effected(log, s, v, os, l) /\ Reported(os, l)
<1> DEFINE i == Len(os)
           o == os[i]
           l == End(Verdict(o, rs), Shown(o, rs), st)
           b == Len(log) - (Size(o) + 1)
<1>1. i \in Nat /\ o \in Operation /\ i \in 1 .. Len(os)
  BY OperationsTyped
<1>2. /\ OwnResults(log, b, rs) /\ Len(rs) = Size(o)
      /\ s = Len(log) /\ Finished(log, s, i)
  <2> HIDE DEF i, o
  <2>1. InPipeline(n, log, i, o, "sync", rs, st)
    BY DEF i, o
  <2> QED
    BY <1>1, <2>1, PipelineGetsSync
<1>3. Block(log, i, o, b) /\ b + (Size(o) + 1) = s
  <2>1. Block(log, i, o, b)
    BY DEF InPipeline
  <2>2. Len(log) \in Nat /\ Size(o) \in Nat
    BY <1>1, LinkTyped, OperationTyped
  <2> QED
    BY <1>2, <2>1, <2>2
<1>4. Served(v, log, s, old) /\ log \in Cmds
  BY DEF Link
<1> HIDE DEF i, b
<1>5. /\ o.thrown \/ FirstError(rs) => OfOperation(v.committed, i) = {}
      /\ ~o.thrown /\ ~FirstError(rs) => OfOperation(v.committed, i) = Whole(i, o)
      /\ \A j \in DOMAIN rs : Tail(rs[j]) = <<i, j>>
  <2>1. /\ v \in Server /\ log \in Cmds /\ s = Len(log) /\ Served(v, log, s, old)
        /\ os \in Operations /\ OldOk(old, log, os) /\ i \in 1 .. Len(os)
        /\ Block(log, i, os[i], b) /\ b + (Size(os[i]) + 1) = s
        /\ rs \in Ress /\ OwnResults(log, b, rs) /\ Len(rs) = Size(os[i])
    BY <1>1, <1>2, <1>3, <1>4
  <2> HIDE DEF o, l
  <2>2. Fate(v, os, i, rs)
    BY ONLY <2>1, PipelineOutcome
  <2> QED
    BY <2>2 DEF o, Fate
<1> HIDE DEF o
<1>6. l.outcome = Verdict(o, rs) /\ l.results = Shown(o, rs)
  BY DEF End
<1>7. /\ l.outcome \in {"success", "failed", "exception"}
      /\ l.outcome = "success" => ~o.thrown /\ ~FirstError(rs)
      /\ l.outcome \in {"failed", "exception"} => o.thrown \/ FirstError(rs)
      /\ l.outcome \in {"success", "failed"} => l.results = rs
  BY <1>6 DEF Verdict, Shown
<1> HIDE DEF l
<1>8. Effected(log, s, v, os, l)
  BY <1>2, <1>5, <1>7 DEF Effected, i, o
<1>9. Reported(os, l)
  BY <1>2, <1>5, <1>7 DEF Reported, i, o
<1> QED
  BY <1>8, <1>9 DEF l, i, o

LEMMA EndOfPipelineKeeps ==
  ASSUME Fields, NEW n \in PGconn, n.async # "busy",
         to_client' \in Msgs, srv' \in Server, NEW log, NEW c, NEW s, NEW old,
         Link(n, to_client', srv', log, c, s, old), LogOk(log, ops), OldOk(old, log, ops),
         Len(ops) \in 1 .. Len(ops), ops[Len(ops)].what = "pipeline",
         InPipeline(n, log, Len(ops), ops[Len(ops)], "sync", results, stale),
         GetResult(n)[1] = "sync", PQexitPipelineMode(AfterGetResult(n)),
         EndOfPipeline(AfterGetResult(n))
  PROVE  Ind'
<1> DEFINE tc == to_client'
           z == srv'
           m == AfterGetResult(n)
           m2 == [m EXCEPT !.mode = "off", !.async = "idle"]
           o == ops[Len(ops)]
           l == End(Verdict(o, results), Shown(o, results), stale)
<1>1. ops \in Operations /\ results \in Ress /\ stale \in Bool
  BY DEF Fields
<1>2. tc \in Msgs /\ z \in Server /\ Link(n, tc, z, log, c, s, old)
  OBVIOUS
<1>3. /\ pq' = m2 /\ Emit /\ stale' = stale
      /\ CASE o.thrown -> Complete("exception", <<>>)
           [] ~o.thrown /\ FirstError(results) -> Complete("failed", results)
           [] OTHER -> Complete("success", results)
  BY DEF EndOfPipeline, LeavesPipelineMode
<1> HIDE DEF tc, z
<1>4. m2 \in PGconn /\ Link(m2, tc, z, log, c, s, old)
  BY <1>2, LinkLeaves
<1>5. IdleOk(m2, stale)
  <2>1. m \in PGconn
    BY <1>2, LinkAfterGetResult
  <2>2. m2.mode = "off" /\ m2.async = "idle"
    BY <2>1 DEF PGconn
  <2> QED
    BY <2>2 DEF IdleOk
<1>6. Effected(log, s, z, ops, l) /\ Reported(ops, l)
  BY <1>1, <1>2, PipelineEnded
<1> HIDE DEF m, m2
<1>7. Complete(Verdict(o, results), Shown(o, results))
  BY <1>3 DEF Verdict, Shown
<1>8. l = [outcome |-> Verdict(o, results), results |-> Shown(o, results), stale |-> stale]
  BY DEF End
<1> DEFINE oc == Verdict(o, results)
           sh == Shown(o, results)
<1>9. Complete(oc, sh) /\ l = [outcome |-> oc, results |-> sh, stale |-> stale]
  BY <1>7, <1>8
<1> HIDE DEF l, oc, sh
<1>10. Link(m2, to_client', srv', log, c, s, old) /\ Effected(log, s, srv', ops, l)
  BY <1>4, <1>6 DEF tc, z
<1> QED
  BY <1>3, <1>4, <1>5, <1>6, <1>9, <1>10, EndsWell

LEMMA PipelineResultKeeps ==
  ASSUME Fields, last = NoEnd, NEW n \in PGconn, n.out = <<>>, n.async # "busy",
         to_client' \in Msgs, srv' \in Server, NEW log, NEW s, NEW old,
         Underway(n, to_client', srv', log, s, old, ops, phase, results, stale),
         LogOk(log, ops), OldOk(old, log, ops), ops[Len(ops)].what = "pipeline", PipelineResult(n)
  PROVE  Ind'
<1> DEFINE tc == to_client'
           z == srv'
           m == AfterGetResult(n)
           res == GetResult(n)
           i == Len(ops)
           o == ops[i]
<1>1. ops \in Operations /\ results \in Ress /\ stale \in Bool /\ phase \in Phases
  BY DEF Fields
<1>2. tc \in Msgs /\ z \in Server /\ Underway(n, tc, z, log, s, old, ops, phase, results, stale)
  OBVIOUS
<1> HIDE DEF tc, z
<1>3. PICK c \in Nat : Link(n, tc, z, log, c, s, old) /\ InPipeline(n, log, i, o, phase, results, stale)
  BY <1>1, <1>2, UnderwayOf
<1>4. i \in Nat /\ o \in Operation /\ i \in 1 .. i
  BY <1>1, <1>2, UnderwayOf
<1>5. m \in PGconn /\ SameLine(n, m) /\ \E d \in Nat : Link(m, tc, z, log, d, s, old)
  <2>1. Link(m, tc, z, log, c, s, old) \/ Link(m, tc, z, log, c + 1, s, old)
    BY <1>2, <1>3, LinkAfterGetResult
  <2>2. m \in PGconn /\ SameLine(n, m)
    BY <1>2, <1>3, LinkAfterGetResult
  <2>3. c + 1 \in Nat
    OBVIOUS
  <2> QED
    BY <2>1, <2>2, <2>3
<1>6. PICK d \in Nat : Link(m, tc, z, log, d, s, old)
  BY <1>5
<1>7. m.out = <<>>
  BY <1>5 DEF SameLine
<1>8. Link(m, to_client', srv', log, d, s, old) /\ Link(n, to_client', srv', log, c, s, old)
  BY <1>3, <1>6 DEF tc, z
<1>9. o.what = "pipeline" /\ i >= 1
  BY <1>4
<1> HIDE DEF m, res, i, o
<1>a. ASSUME NEW ph, NEW rs, InPipeline(m, log, i, o, ph, rs, stale)
      PROVE  Underway(m, to_client', srv', log, s, old, ops, ph, rs, stale)
  <2>1. Underway(m, tc, z, log, s, old, ops, ph, rs, stale)
    BY <1>6, <1>9, <1>a, PipelineUnderway DEF i, o
  <2> QED
    BY <2>1 DEF tc, z
<1>b. ~Clean(o, stale) => stale \/ "copy" \in Range(ops[Len(ops)].items)
  BY DEF Clean, o, i
<1>10. CASE /\ phase = "result" /\ results' = Append(results, res) /\ phase' = "null"
            /\ ReceiveResult(m) /\ UNCHANGED <<ops, last, stale, rcv>>
  <2> DEFINE rs == AppendRes(results, res)
  <2>1. InPipeline(m, log, i, o, "null", rs, stale)
    BY <1>1, <1>2, <1>3, <1>4, <1>10, PipelineGetsResult DEF m, res
  <2>2. rs \in Ress
    <3>1. res \in Res
      BY <1>2, <1>3, LinkResult DEF res
    <3> QED
      BY <1>1, <3>1, RessAppend
  <2>3. results' = rs
    BY <1>10 DEF AppendRes
  <2> HIDE DEF rs
  <2>4. Underway(m, to_client', srv', log, s, old, ops, "null", rs, stale)
    BY <1>a, <2>1
  <2>5. "null" \in Phases
    BY DEF Phases
  <2> QED
    BY <1>5, <1>7, <1>10, <2>2, <2>3, <2>4, <2>5, GoesOn
<1>11. CASE phase = "null" /\ res # Null /\ EndEarly(m, "unexpected_non_null")
  <2>1. InPipeline(n, log, i, o, "null", results, stale)
    BY <1>3, <1>11
  <2>2. ~Clean(o, stale)
    BY <1>1, <1>2, <1>3, <1>4, <1>11, <2>1, PipelineGetsNull DEF res
  <2>3. m.async # "idle"
    BY <1>1, <1>2, <1>3, <1>4, <1>11, <2>1, PipelineLeaves DEF res, m
  <2>4. IdleOk(m, TRUE)
    BY <2>3 DEF IdleOk
  <2>5. "unexpected_non_null" \in Broken
    BY DEF Broken
  <2> QED
    BY <1>5, <1>8, <1>11, <1>b, <2>2, <2>4, <2>5, EndEarlyKeeps
<1>12. CASE /\ phase = "null" /\ res = Null
            /\ phase' = IF Len(results) < Size(o) THEN "result" ELSE "sync"
            /\ ReceiveResult(m) /\ UNCHANGED <<results, ops, last, stale, rcv>>
  <2> DEFINE ph == IF Len(results) < Size(o) THEN "result" ELSE "sync"
  <2>1. InPipeline(n, log, i, o, "null", results, stale)
    BY <1>3, <1>12
  <2>2. InPipeline(m, log, i, o, ph, results, stale)
    BY <1>1, <1>2, <1>3, <1>4, <1>12, <2>1, PipelineGetsNull DEF res, m
  <2>3. ph \in Phases
    BY DEF Phases
  <2>4. phase' = ph
    BY <1>12
  <2> HIDE DEF ph
  <2>5. Underway(m, to_client', srv', log, s, old, ops, ph, results, stale)
    BY <1>a, <2>2
  <2> QED
    BY <1>1, <1>5, <1>7, <1>12, <2>3, <2>4, <2>5, GoesOn
<1>13. CASE phase = "sync" /\ res[1] # "sync" /\ EndEarly(m, "unexpected_status")
  <2>1. InPipeline(n, log, i, o, "sync", results, stale)
    BY <1>3, <1>13
  <2>2. ~Clean(o, stale)
    BY <1>1, <1>2, <1>3, <1>4, <1>13, <2>1, PipelineGetsSync DEF res
  <2>3. m.async # "idle"
    BY <1>1, <1>2, <1>3, <1>4, <1>13, <2>1, PipelineLeaves DEF res, m
  <2>4. IdleOk(m, TRUE)
    BY <2>3 DEF IdleOk
  <2>5. "unexpected_status" \in Broken
    BY DEF Broken
  <2> QED
    BY <1>5, <1>8, <1>13, <1>b, <2>2, <2>4, <2>5, EndEarlyKeeps
<1>14. CASE phase = "sync" /\ res[1] = "sync" /\ EndOfPipeline(m)
  <2>1. InPipeline(n, log, i, o, "sync", results, stale)
    BY <1>3, <1>14
  <2>2. CASE PQexitPipelineMode(m)
    BY <1>4, <1>8, <1>14, <2>1, <2>2, EndOfPipelineKeeps DEF i, o, m, res
  <2>3. CASE ~PQexitPipelineMode(m)
    <3>1. EndEarly(m, "exit_failed")
      BY <1>14, <2>3 DEF EndOfPipeline, LeavesPipelineMode
    <3>2. ~Clean(o, stale)
      BY <1>1, <1>2, <1>3, <1>4, <1>14, <2>1, <2>3, PipelineGetsSync DEF res, m
    <3>3. m.async # "idle"
      BY <1>1, <1>2, <1>3, <1>4, <1>14, <2>1, <2>3, PipelineLeaves DEF res, m
    <3>4. IdleOk(m, TRUE)
      BY <3>3 DEF IdleOk
    <3>5. "exit_failed" \in Broken
      BY DEF Broken
    <3> QED
      BY <1>5, <1>8, <1>b, <3>1, <3>2, <3>4, <3>5, EndEarlyKeeps
  <2> QED
    BY <2>2, <2>3
<1> QED
  BY <1>10, <1>11, <1>12, <1>13, <1>14 DEF PipelineResult, m, res, i, o
LEMMA QueryResultKeeps ==
  ASSUME Fields, last = NoEnd, NEW n \in PGconn, n.out = <<>>, n.async # "busy",
         to_client' \in Msgs, srv' \in Server, NEW log, NEW s, NEW old,
         Underway(n, to_client', srv', log, s, old, ops, phase, results, stale),
         LogOk(log, ops), OldOk(old, log, ops), ops[Len(ops)].what = "query", QueryResult(n)
  PROVE  Ind'
<1> DEFINE tc == to_client'
           z == srv'
           m == AfterGetResult(n)
           res == GetResult(n)
           i == Len(ops)
<1>1. ops \in Operations /\ results \in Ress /\ stale \in Bool /\ phase \in Phases
  BY DEF Fields
<1>2. tc \in Msgs /\ z \in Server /\ Underway(n, tc, z, log, s, old, ops, phase, results, stale)
  OBVIOUS
<1> HIDE DEF tc, z
<1>3. PICK c \in Nat : Link(n, tc, z, log, c, s, old) /\ InQuery(n, log, c, i, phase, results, stale)
  BY <1>1, <1>2, UnderwayOf
<1>4. i \in Nat /\ i \in 1 .. i /\ i >= 1
  <2>1. i \in Nat /\ i \in 1 .. i
    BY <1>1, <1>2, UnderwayOf
  <2> QED
    BY <2>1
<1>5. m \in PGconn /\ SameLine(n, m) /\ \E d \in Nat : Link(m, tc, z, log, d, s, old)
  <2>1. Link(m, tc, z, log, c, s, old) \/ Link(m, tc, z, log, c + 1, s, old)
    BY <1>2, <1>3, LinkAfterGetResult
  <2>2. m \in PGconn /\ SameLine(n, m)
    BY <1>2, <1>3, LinkAfterGetResult
  <2>3. c + 1 \in Nat
    OBVIOUS
  <2> QED
    BY <2>1, <2>2, <2>3
<1>6. PICK d \in Nat : Link(m, tc, z, log, d, s, old)
  BY <1>5
<1>7. m.out = <<>>
  BY <1>5 DEF SameLine
<1>8. Link(m, to_client', srv', log, d, s, old)
  BY <1>6 DEF tc, z
<1> HIDE DEF m, res, i
<1>10. CASE /\ phase = "result" /\ results' = <<res>> /\ phase' = "null"
            /\ ReceiveResult(m) /\ UNCHANGED <<ops, last, stale, rcv>>
  <2> DEFINE rs == <<res>>
  <2>1. InQuery(n, log, c, i, "result", results, stale)
    BY <1>3, <1>10
  <2>2. PICK e \in Nat : Link(m, tc, z, log, e, s, old) /\ InQuery(m, log, e, i, "null", rs, stale)
    BY <1>1, <1>2, <1>3, <1>4, <2>1, QueryGetsResult DEF m, res
  <2>3. rs \in Ress
    <3>1. res \in Res
      BY <1>2, <1>3, LinkResult DEF res
    <3> QED
      BY <3>1, OneTyped DEF Ress
  <2>4. results' = rs
    BY <1>10
  <2> HIDE DEF rs
  <2>5. Underway(m, tc, z, log, s, old, ops, "null", rs, stale)
    BY <1>4, <2>2, QueryUnderway DEF i
  <2>6. Underway(m, to_client', srv', log, s, old, ops, "null", rs, stale)
    BY <2>5 DEF tc, z
  <2>7. "null" \in Phases
    BY DEF Phases
  <2> QED
    BY <1>5, <1>7, <1>10, <2>3, <2>4, <2>6, <2>7, GoesOn
<1>11. CASE phase = "null" /\ res # Null /\ EndEarly(m, "unexpected_non_null")
  <2>1. InQuery(n, log, c, i, "null", results, stale)
    BY <1>3, <1>11
  <2>2. stale
    BY <1>1, <1>2, <1>3, <1>4, <1>11, <2>1, QueryGetsNull DEF res
  <2>3. IdleOk(m, TRUE)
    BY <1>1, <1>2, <1>3, <1>4, <1>11, <2>1, QueryLeaves DEF res, m
  <2>4. "unexpected_non_null" \in Broken
    BY DEF Broken
  <2> QED
    BY <1>5, <1>8, <1>11, <2>2, <2>3, <2>4, EndEarlyKeeps
<1>12. CASE /\ phase = "null" /\ res = Null /\ pq' = m /\ Emit
            /\ Complete(IF FirstError(results) THEN "failed" ELSE "success", results)
            /\ UNCHANGED stale
  <2> DEFINE oc == IF FirstError(results) THEN "failed" ELSE "success"
             l == End(oc, results, stale)
  <2>1. InQuery(n, log, c, i, "null", results, stale)
    BY <1>3, <1>12
  <2>2. IdleOk(m, stale)
    BY <1>1, <1>2, <1>3, <1>4, <1>12, <2>1, QueryGetsNull DEF res, m
  <2>3. ~stale => Tail(results[1]) = <<i, 1>>
    BY <1>1, <1>2, <1>3, <1>4, <2>1, QueryGetsNull
  <2>4. l.outcome = oc /\ l.results = results /\ l.stale = stale
    BY DEF End
  <2>5. oc \in {"failed", "success"} /\ Complete(oc, results) /\ l = [outcome |-> oc, results |-> results, stale |-> stale]
    BY <1>12 DEF End
  <2> HIDE DEF l, oc
  <2>6. Effected(log, s, srv', ops, l)
    BY DEF Effected
  <2>7. Reported(ops, l)
    BY <2>3, <2>4, <2>5 DEF Reported, i
  <2> QED
    BY <1>5, <1>8, <1>12, <2>2, <2>5, <2>6, <2>7, EndsWell
<1> QED
  BY <1>10, <1>11, <1>12 DEF QueryResult, m, res

LEMMA GotResultKeeps ==
  ASSUME Fields, last = NoEnd, NEW n \in PGconn, n.out = <<>>, n.async # "busy",
         to_client' \in Msgs, srv' \in Server, NEW log, NEW s, NEW old,
         Underway(n, to_client', srv', log, s, old, ops, phase, results, stale),
         LogOk(log, ops), OldOk(old, log, ops), GotResult(n)
  PROVE  Ind'
<1>1. ops \in Operations
  BY DEF Fields
<1>2. ops[Len(ops)].what \in {"pipeline", "query"}
  <2>1. ops[Len(ops)] \in Operation
    BY <1>1, UnderwayOf
  <2> QED
    BY <2>1 DEF Operation
<1>3. CASE ops[Len(ops)].what = "pipeline"
  <2>1. PipelineResult(n)
    BY <1>3 DEF GotResult
  <2> QED
    BY <1>3, <2>1, PipelineResultKeeps
<1>4. CASE ops[Len(ops)].what = "query"
  <2>1. QueryResult(n)
    BY <1>4 DEF GotResult
  <2> QED
    BY <1>4, <2>1, QueryResultKeeps
<1> QED
  BY <1>2, <1>3, <1>4

LEMMA ResultPostedKeeps ==
  ASSUME Ind, ResultPosted
  PROVE  Ind'
<1>1. Fields /\ Waits(pq, srv, op, stale, rcv) /\ op = "posted" /\ last = NoEnd
  BY DEF Ind, ResultPosted
<1>2. PICK log, s, old : At(log, s, old)
  BY DEF Ind
<1>3. /\ pq \in PGconn /\ to_client \in Msgs /\ srv \in Server /\ ops \in Operations
      /\ results \in Ress /\ stale \in Bool
  BY <1>1 DEF Fields
<1>4. Underway(pq, to_client, srv, log, s, old, ops, phase, results, stale)
      /\ LogOk(log, ops) /\ OldOk(old, log, ops)
  BY <1>1, <1>2 DEF At, Placed, Underway
<1>5. pq.out = <<>> /\ pq.async # "busy"
  BY <1>1 DEF Waits
<1>6. to_client' = to_client /\ srv' = srv /\ GotResult(Parsed(pq))
  BY DEF ResultPosted
<1> DEFINE p == Parsed(pq)
<1>7. /\ p \in PGconn /\ p.out = <<>> /\ p.async # "busy"
      /\ Underway(p, to_client, srv, log, s, old, ops, phase, results, stale)
  BY <1>3, <1>4, <1>5, UnderwayParsed
<1> HIDE DEF p
<1>8. /\ to_client' \in Msgs /\ srv' \in Server
      /\ Underway(p, to_client', srv', log, s, old, ops, phase, results, stale)
  BY <1>3, <1>6, <1>7
<1>9. GotResult(p)
  BY <1>6 DEF p
<1> QED
  BY <1>1, <1>4, <1>7, <1>8, <1>9, GotResultKeeps

LEMMA ReadReadableKeeps ==
  ASSUME Ind, ReadReadable
  PROVE  Ind'
<1>1. Fields /\ Waits(pq, srv, op, stale, rcv) /\ op = "read_readable" /\ last = NoEnd
  BY DEF Ind, ReadReadable
<1>2. PICK log, s, old : At(log, s, old)
  BY DEF Ind
<1>3. /\ pq \in PGconn /\ to_client \in Msgs /\ srv \in Server /\ ops \in Operations
      /\ results \in Ress /\ stale \in Bool
  BY <1>1 DEF Fields
<1>4. /\ Placed(pq, to_client, srv, log, s, old, op, ops, phase, results, stale)
      /\ LogOk(log, ops) /\ OldOk(old, log, ops)
  BY <1>1, <1>2 DEF At
<1>5. pq.out = <<>>
  BY <1>1 DEF Waits
<1> DEFINE m == Consumed(pq, to_client, 0)
           z == Sent(srv, pq, 0)
           tc == <<>>
           p == Parsed(m)
<1>6. 0 \in 0 .. Len(pq.out)
  BY <1>5, EmptyTyped
<1>7. /\ m \in PGconn /\ z \in Server /\ tc \in Msgs /\ m.out = <<>>
      /\ Placed(m, tc, z, log, s, old, op, ops, phase, results, stale)
  BY <1>3, <1>4, <1>5, <1>6, PlacedConsumes
<1>8. /\ to_client' = tc /\ srv' = z
      /\ \/ p.async = "busy" /\ pq' = p /\ op' = "read" /\ UNCHANGED <<phase, results, ops, last, stale, rcv>>
         \/ p.async # "busy" /\ GotResult(p)
  BY DEF ReadReadable, Consumes, ConsumeInput, Consumed, Sent
<1> HIDE DEF m, z, tc
<1>9. Underway(m, tc, z, log, s, old, ops, phase, results, stale)
  BY <1>1, <1>7, PlacedUnderway
<1>10. /\ p \in PGconn /\ p.out = <<>> /\ Stuck(p)
       /\ Underway(p, tc, z, log, s, old, ops, phase, results, stale)
  BY <1>3, <1>7, <1>9, UnderwayParsed
<1> HIDE DEF p
<1>11. /\ to_client' \in Msgs /\ srv' \in Server
       /\ Underway(p, to_client', srv', log, s, old, ops, phase, results, stale)
  BY <1>7, <1>8, <1>10
<1>12. CASE p.async # "busy" /\ GotResult(p)
  BY <1>1, <1>4, <1>10, <1>11, <1>12, GotResultKeeps
<1>13. CASE p.async = "busy" /\ pq' = p /\ op' = "read" /\ UNCHANGED <<phase, results, ops, last, stale, rcv>>
  <2>1. p.inbuf = <<>>
    BY <1>10, <1>13 DEF Stuck
  <2>2. Fields'
    BY <1>1, <1>10, <1>11, <1>13 DEF Fields, Places
  <2>3. Waits(pq', srv', op', stale', rcv')
    BY <1>10, <1>13, <2>1 DEF Waits
  <2>4. Placed(pq', to_client', srv', log, s, old, op', ops', phase', results', stale')
    BY <1>11, <1>13 DEF Placed, Underway
  <2>5. Effected(log, s, srv', ops, NoEnd) /\ Reported(ops, NoEnd)
    BY NothingEnded
  <2> QED
    BY <1>1, <1>4, <1>13, <2>2, <2>3, <2>4, <2>5 DEF Ind, At
<1> QED
  BY <1>8, <1>12, <1>13

LEMMA FlushReadableKeeps ==
  ASSUME Ind, FlushReadable
  PROVE  Ind'
<1>1. Fields /\ Waits(pq, srv, op, stale, rcv) /\ op = "flush_readable" /\ last = NoEnd
  BY DEF Ind, FlushReadable
<1>2. PICK log, s, old : At(log, s, old)
  BY DEF Ind
<1>3. pq \in PGconn /\ to_client \in Msgs /\ srv \in Server
  BY <1>1 DEF Fields
<1>4. /\ Placed(pq, to_client, srv, log, s, old, op, ops, phase, results, stale)
      /\ LogOk(log, ops) /\ OldOk(old, log, ops)
  BY <1>1, <1>2 DEF At
<1>5. PICK k \in 0 .. Len(pq.out) :
        to_client' = <<>> /\ srv' = Sent(srv, pq, k) /\ pq' = Consumed(pq, to_client, k)
  BY DEF FlushReadable, Consumes, ConsumeInput, Consumed, Sent
<1> DEFINE m == Consumed(pq, to_client, k)
           z == Sent(srv, pq, k)
           tc == <<>>
<1>6. /\ m \in PGconn /\ z \in Server /\ tc \in Msgs
      /\ Placed(m, tc, z, log, s, old, op, ops, phase, results, stale)
  BY <1>3, <1>4, PlacedConsumes
<1>7. to_client' = tc /\ srv' = z /\ pq' = m
  BY <1>5
<1> HIDE DEF m, z, tc
<1>8. op' = "flush" /\ UNCHANGED <<phase, results, ops, last, stale, rcv>>
  BY DEF FlushReadable
<1>9. Fields'
  BY <1>1, <1>6, <1>7, <1>8 DEF Fields, Places
<1>10. Waits(pq', srv', op', stale', rcv')
  BY <1>8 DEF Waits
<1>11. Placed(pq', to_client', srv', log, s, old, op', ops', phase', results', stale')
  BY <1>1, <1>6, <1>7, <1>8 DEF Placed
<1>12. Effected(log, s, srv', ops, NoEnd) /\ Reported(ops, NoEnd)
  BY NothingEnded
<1> QED
  BY <1>1, <1>4, <1>8, <1>9, <1>10, <1>11, <1>12 DEF Ind, At

\* The output is sent, and when all of it is, the answer is waited for.
LEMMA FlushStepKeeps ==
  ASSUME Fields, NEW n \in PGconn, NEW log, NEW s, NEW old, NEW os \in Operations, NEW ph \in Phases,
         NEW rs \in Ress, Underway(n, to_client, srv, log, s, old, os, ph, rs, stale),
         LogOk(log, os), OldOk(old, log, os), NEW atleast \in Nat, FlushStep(n, atleast),
         ops' = os, phase' = ph, results' = rs, last' = NoEnd, UNCHANGED <<stale, rcv>>
  PROVE  Ind'
<1>1. to_client \in Msgs /\ srv \in Server /\ stale \in Bool
  BY DEF Fields
<1>2. /\ pq' \in PGconn /\ to_client' \in Msgs /\ srv' \in Server /\ SameServed(srv, srv')
      /\ op' \in {"flush", "read", "posted"}
      /\ op' # "flush" => Received(pq', op')
      /\ Underway(pq', to_client', srv', log, s, old, os, ph, rs, stale)
  BY <1>1, FlushKeeps
<1>3. Fields'
  BY <1>2 DEF Fields, Places
<1>4. Waits(pq', srv', op', stale', rcv')
  BY <1>2 DEF Waits, Received
<1>5. Placed(pq', to_client', srv', log, s, old, op', ops', phase', results', stale')
  BY <1>2 DEF Placed, Underway
<1>6. Effected(log, s, srv', os, NoEnd) /\ Reported(os, NoEnd)
  BY NothingEnded
<1> QED
  BY <1>3, <1>4, <1>5, <1>6 DEF Ind, At

LEMMA FlushWritableKeeps ==
  ASSUME Ind, FlushWritable
  PROVE  Ind'
<1>1. Fields /\ op = "flush" /\ last = NoEnd
  BY DEF Ind, FlushWritable
<1>2. PICK log, s, old : At(log, s, old)
  BY DEF Ind
<1>3. pq \in PGconn /\ ops \in Operations /\ phase \in Phases /\ results \in Ress
  BY <1>1 DEF Fields
<1>4. /\ Underway(pq, to_client, srv, log, s, old, ops, phase, results, stale)
      /\ LogOk(log, ops) /\ OldOk(old, log, ops)
  BY <1>1, <1>2 DEF At, Placed, Underway
<1> DEFINE least == Min({1, Len(pq.out)})
<1>5. least \in Nat
  <2>1. Len(pq.out) \in Nat
    BY <1>3, CmdsLen DEF PGconn
  <2>2. {1, Len(pq.out)} \in SUBSET Nat /\ {1, Len(pq.out)} # {}
    BY <2>1
  <2> QED
    BY <2>1, <2>2, MinOfNaturals
<1>6. FlushStep(pq, least) /\ UNCHANGED <<phase, results, ops, last, stale, rcv>>
  BY DEF FlushWritable
<1> HIDE DEF least
<1> QED
  BY <1>1, <1>3, <1>4, <1>5, <1>6, FlushStepKeeps

LEMMA CancelKeeps ==
  ASSUME Ind, Cancel
  PROVE  Ind'
<1>1. Fields /\ op # "none" /\ to_client' = to_client /\ srv' = srv /\ EndEarly(pq, "cancelled")
  BY DEF Ind, Cancel
<1>2. PICK log, s, old : At(log, s, old)
  BY DEF Ind
<1>3. /\ pq \in PGconn /\ to_client \in Msgs /\ srv \in Server /\ ops \in Operations
      /\ results \in Ress /\ stale \in Bool /\ phase \in Phases
  BY <1>1 DEF Fields
<1>4. Underway(pq, to_client, srv, log, s, old, ops, phase, results, stale)
      /\ LogOk(log, ops) /\ OldOk(old, log, ops)
  BY <1>1, <1>2 DEF At, Placed, Underway
<1> DEFINE i == Len(ops)
           o == ops[i]
<1>5. i \in Nat /\ o \in Operation
  BY <1>3, <1>4, UnderwayOf
<1>6. PICK c \in Nat :
        /\ Link(pq, to_client, srv, log, c, s, old)
        /\ o.what = "pipeline" => InPipeline(pq, log, i, o, phase, results, stale)
        /\ o.what = "query" => InQuery(pq, log, c, i, phase, results, stale)
  BY <1>3, <1>4, UnderwayOf
<1> HIDE DEF i, o
<1>7. o.what \in {"pipeline", "query"} /\ phase \in {"result", "null", "sync"}
  BY <1>3, <1>5 DEF Operation, Phases
<1>8. IdleOk(pq, TRUE)
  <2>1. CASE o.what = "pipeline"
    <3>1. pq.async # "idle"
      BY <1>3, <1>5, <1>6, <1>7, <2>1, PipelineNotIdle
    <3> QED
      BY <3>1 DEF IdleOk
  <2>2. CASE o.what = "query"
    BY <1>3, <1>5, <1>6, <1>7, <2>2, QueryNotIdle
  <2> QED
    BY <1>7, <2>1, <2>2
<1>9. "cancelled" \in Broken
  BY DEF Broken
<1>10. to_client' \in Msgs /\ srv' \in Server /\ Link(pq, to_client', srv', log, c, s, old)
  BY <1>1, <1>3, <1>6
<1> QED
  BY <1>1, <1>3, <1>4, <1>8, <1>9, <1>10, EndEarlyKeeps

-----------------------------------------------------------------------------
(* The start of an operation, and the pool *)

\* The one that does not get as far as its first wait: then one before it
\* ended early.
LEMMA RefusedKeeps ==
  ASSUME Ind, op = "none", stale, NEW o \in Operation, ops' = Append(ops, o), phase' \in Phases,
         results' = <<>>, NEW outcome \in Broken, Refused(outcome)
  PROVE  Ind'
<1>1. Fields /\ Waits(pq, srv, op, stale, rcv)
  BY DEF Ind
<1>2. PICK log, s, old : At(log, s, old)
  BY DEF Ind
<1>3. pq \in PGconn /\ to_client \in Msgs /\ srv \in Server /\ ops \in Operations
  BY <1>1 DEF Fields
<1>4. PICK c \in Nat : Link(pq, to_client, srv, log, c, s, old)
  BY <1>2 DEF At, Placed
<1> DEFINE os == Append(ops, o)
           none == <<>>
           t == TRUE
           l == EarlyEnd(outcome, stale)
<1>5. none \in Cmds /\ none \in Ress /\ log \in Cmds /\ log \o none = log
  <2>1. log \in Cmds
    BY <1>3, <1>4, LinkTyped
  <2> QED
    BY <2>1, EmptyTyped DEF Cmds
<1>6. os \in Operations
  BY <1>3, OperationsTyped
<1>7. \A x \in 1 .. Len(none) : FALSE
  BY EmptyTyped
<1>8. results' = none /\ ops' = os
  OBVIOUS
<1>9. /\ op' = "none" /\ last' = l /\ stale' = t
      /\ pq' = pq /\ to_client' = to_client /\ srv' = srv /\ rcv' = rcv
  BY DEF Refused, EarlyEnd
<1>10. t \in Bool /\ t
  BY DEF Bool
<1>11. Effected(log, s, srv, os, l) /\ Reported(os, l)
  BY EndedEarly
<1> HIDE DEF none, t, l
<1>12. LogOk(log, os) /\ OldOk(old, log, os)
  <2>1. LogOk(log, ops) /\ OldOk(old, log, ops)
    BY <1>2 DEF At
  <2>2. /\ \A x \in 1 .. Len(none) : none[x][2] = Len(ops) + 1
        /\ o.what = "pipeline" => none = <<>> \/ none = Commands(Len(ops) + 1, o)
    BY <1>7 DEF none
  <2>3. LogOk(log \o none, Append(ops, o)) /\ OldOk(old, log \o none, Append(ops, o))
    BY <1>3, <1>5, <2>1, <2>2, LogGrows
  <2> QED
    BY <1>5, <2>3
<1> HIDE DEF os
<1>13. Fields'
  BY <1>1, <1>5, <1>6, <1>8, <1>9, <1>10 DEF Fields, Places
<1>14. Waits(pq', srv', op', stale', rcv')
  <2>1. IdleOk(pq, stale)
    BY <1>1 DEF Waits
  <2>2. IdleOk(pq, t)
    BY <1>10, <2>1 DEF IdleOk
  <2> QED
    BY <1>9, <1>10, <2>2 DEF Waits
<1>15. Placed(pq', to_client', srv', log, s, old, op', ops', phase', results', stale')
  BY <1>4, <1>9 DEF Placed
<1> QED
  BY <1>8, <1>9, <1>11, <1>12, <1>13, <1>14, <1>15 DEF Ind, At

\* What StartPipeline pushes, and on what.
Entered(n) == [n EXCEPT !.mode = IF n.mode = "off" THEN "on" ELSE n.mode]
FirstPhase(o) == IF Size(o) = 0 THEN "sync" ELSE "result"
Begun(m, tc, v, s, old, os, ph, st) ==
  /\ m \in PGconn /\ os \in Operations
  /\ \E lg \in Cmds : /\ LogOk(lg, os) /\ OldOk(old, lg, os)
                      /\ Underway(m, tc, v, lg, s, old, os, ph, <<>>, st)

LEMMA PipelineStarted ==
  ASSUME NEW n \in PGconn, NEW tc \in Msgs, NEW v \in Server, NEW log, NEW c, NEW s, NEW old,
         Link(n, tc, v, log, c, s, old), NEW st \in Bool, IdleOk(n, st),
         PQenterPipelineMode(n),
         NEW os \in Operations, LogOk(log, os), OldOk(old, log, os),
         NEW o \in Operation, o.what = "pipeline", NEW os2, os2 = Append(os, o)
  PROVE  Begun(Push(Entered(n), Commands(Len(os2), o)), tc, v, s, old, os2, FirstPhase(o), st)
<1>1. LET oo == Append(os, o)
          cs == Commands(Len(oo), o)
          m == Push([n EXCEPT !.mode = IF n.mode = "off" THEN "on" ELSE n.mode], cs)
          ph == IF Size(o) = 0 THEN "sync" ELSE "result"
      IN  /\ m \in PGconn /\ oo \in Operations
          /\ log \o cs \in Cmds /\ LogOk(log \o cs, oo) /\ OldOk(old, log \o cs, oo)
          /\ Underway(m, tc, v, log \o cs, s, old, oo, ph, <<>>, st)
  BY PipelineStarts
<1> QED
  BY <1>1 DEF Entered, FirstPhase, Begun

LEMMA StartPipelineKeeps ==
  ASSUME Ind, NEW o \in Operation, o.what = "pipeline", StartPipeline(o)
  PROVE  Ind'
<1>1. Fields /\ Waits(pq, srv, op, stale, rcv)
  BY DEF Ind
<1>2. PICK log, s, old : At(log, s, old)
  BY DEF Ind
<1>3. /\ pq \in PGconn /\ to_client \in Msgs /\ srv \in Server /\ ops \in Operations /\ stale \in Bool
  BY <1>1 DEF Fields
<1>4. PICK c \in Nat : Link(pq, to_client, srv, log, c, s, old)
  BY <1>2 DEF At, Placed
<1>5. LogOk(log, ops) /\ OldOk(old, log, ops)
  BY <1>2 DEF At
<1>6. op = "none" /\ ops' = Append(ops, o) /\ phase' = FirstPhase(o) /\ results' = <<>>
  BY DEF StartPipeline, Begin, FirstPhase
<1>7. IdleOk(pq, stale)
  BY <1>1, <1>6 DEF Waits
<1>8. FirstPhase(o) \in Phases /\ <<>> \in Ress
  BY EmptyTyped DEF FirstPhase, Phases
<1>9. CASE ~PQenterPipelineMode(pq)
  <2>1. Refused("enter_failed") /\ "enter_failed" \in Broken
    BY <1>9 DEF StartPipeline, Broken
  <2>2. stale
    BY <1>7, <1>9 DEF IdleOk, PQenterPipelineMode
  <2> QED
    BY <1>6, <1>8, <2>1, <2>2, RefusedKeeps
<1>10. CASE PQenterPipelineMode(pq) /\ pq.async = "copy"
  <2> DEFINE outcome == IF Size(o) > 0 THEN "thrown_out" ELSE "sync_failed"
  <2>1. Refused(outcome) /\ outcome \in Broken
    BY <1>10 DEF StartPipeline, Broken
  <2>2. stale
    BY <1>7, <1>10 DEF IdleOk
  <2> HIDE DEF outcome
  <2> QED
    BY <1>6, <1>8, <2>1, <2>2, RefusedKeeps
<1>11. CASE PQenterPipelineMode(pq) /\ pq.async # "copy"
  <2> DEFINE os2 == Append(ops, o)
             m == Push(Entered(pq), Commands(Len(os2), o))
  <2>1. FlushStep(m, 0) /\ last' = NoEnd /\ UNCHANGED <<stale, rcv>>
    BY <1>6, <1>11 DEF StartPipeline, Entered
  <2>2. /\ m \in PGconn /\ os2 \in Operations
        /\ \E lg \in Cmds : /\ LogOk(lg, os2) /\ OldOk(old, lg, os2)
                            /\ Underway(m, to_client, srv, lg, s, old, os2, FirstPhase(o), <<>>, stale)
    <3> DEFINE st == stale
    <3>1. st \in Bool /\ IdleOk(pq, st)
      BY <1>3, <1>7
    <3> HIDE DEF st
    <3>2. Begun(m, to_client, srv, s, old, os2, FirstPhase(o), st)
      BY <1>3, <1>4, <1>5, <1>11, <3>1, PipelineStarted
    <3> HIDE DEF m, os2
    <3> QED
      BY <3>2 DEF st, Begun
  <2>3. ops' = os2
    BY <1>6
  <2> HIDE DEF os2, m
  <2>4. PICK lg \in Cmds : /\ LogOk(lg, os2) /\ OldOk(old, lg, os2)
                           /\ Underway(m, to_client, srv, lg, s, old, os2, FirstPhase(o), <<>>, stale)
    BY <2>2
  <2> DEFINE rs == <<>>
             ph == FirstPhase(o)
             z == 0
  <2>5. /\ rs \in Ress /\ ph \in Phases /\ results' = rs /\ phase' = ph /\ z \in Nat /\ FlushStep(m, z)
        /\ Underway(m, to_client, srv, lg, s, old, os2, ph, rs, stale)
    BY <1>6, <1>8, <2>1, <2>4
  <2> HIDE DEF rs, ph, z
  <2> QED
    BY <1>1, <2>1, <2>2, <2>3, <2>4, <2>5, FlushStepKeeps
<1> QED
  BY <1>9, <1>10, <1>11

\* What StartQuery sends.
QueryOf(k) == [what |-> "query", items |-> <<k>>, thrown |-> FALSE]

LEMMA QueryOfTyped ==
  ASSUME NEW k \in {"ok", "fail"}
  PROVE  QueryOf(k) \in Operation /\ QueryOf(k).what = "query" /\ FirstPhase(QueryOf(k)) = "result"
<1> DEFINE b == FALSE
           i == <<k>>
           o == [what |-> "query", items |-> i, thrown |-> b]
<1>1. b \in Bool
  BY DEF Bool
<1>2. k \in Item
  BY DEF Item
<1>3. i \in Items /\ Len(i) = 1 /\ Len(i) + 0 # 0
  BY <1>2 DEF Items
<1>4. o = QueryOf(k)
  BY DEF QueryOf
<1> HIDE DEF i, b
<1>5. o \in Operation /\ o.what = "query" /\ o.items = i /\ o.thrown = b
  BY <1>1, <1>3 DEF Operation
<1> HIDE DEF o
<1>6. Size(o) # 0
  BY <1>3, <1>5 DEF Size, b
<1>7. FirstPhase(o) = "result"
  BY <1>6 DEF FirstPhase
<1> QED
  BY <1>4, <1>5, <1>7

PushedOn(n, k, i) == Push(n, <<<<k, i, 1>>>>)
SentOff(n, k, i) == [n EXCEPT !.async = "busy", !.out = n.out \o <<<<k, i, 1>>, <<"sync", i, 0>>>>]

LEMMA QueryStarted ==
  ASSUME NEW n \in PGconn, NEW tc \in Msgs, NEW v \in Server, NEW log, NEW c, NEW s, NEW old,
         Link(n, tc, v, log, c, s, old), NEW st \in Bool, IdleOk(n, st),
         NEW os \in Operations, LogOk(log, os), OldOk(old, log, os),
         NEW o \in Operation, o.what = "query", NEW k \in {"ok", "fail"}, NEW os2, os2 = Append(os, o),
         NEW m, \/ n.mode # "off" /\ m = PushedOn(n, k, Len(os2))
                \/ n.mode = "off" /\ n.async = "idle" /\ m = SentOff(n, k, Len(os2))
  PROVE  Begun(m, tc, v, s, old, os2, "result", st)
<1>1. CASE n.mode # "off" /\ m = PushedOn(n, k, Len(os2))
  <2>1. LET oo == Append(os, o)
            cs == <<<<k, Len(oo), 1>>>>
            mm == Push(n, cs)
        IN  /\ mm \in PGconn /\ oo \in Operations
            /\ log \o cs \in Cmds /\ LogOk(log \o cs, oo) /\ OldOk(old, log \o cs, oo)
            /\ Underway(mm, tc, v, log \o cs, s, old, oo, "result", <<>>, st)
    BY <1>1, QueryStartsOn
  <2> DEFINE lg == log \o <<<<k, Len(os2), 1>>>>
  <2>2. /\ m \in PGconn /\ os2 \in Operations
        /\ lg \in Cmds /\ LogOk(lg, os2) /\ OldOk(old, lg, os2)
        /\ Underway(m, tc, v, lg, s, old, os2, "result", <<>>, st)
    BY <1>1, <2>1 DEF PushedOn
  <2> HIDE DEF lg
  <2> QED
    BY <2>2 DEF Begun
<1>2. CASE n.mode = "off" /\ n.async = "idle" /\ m = SentOff(n, k, Len(os2))
  <2>1. LET oo == Append(os, o)
            cs == <<<<k, Len(oo), 1>>, <<"sync", Len(oo), 0>>>>
            mm == [n EXCEPT !.async = "busy", !.out = n.out \o cs]
        IN  /\ mm \in PGconn /\ oo \in Operations
            /\ log \o cs \in Cmds /\ LogOk(log \o cs, oo) /\ OldOk(old, log \o cs, oo)
            /\ Underway(mm, tc, v, log \o cs, s, old, oo, "result", <<>>, st)
    BY <1>2, QueryStartsOff, ZenonT(40)
  <2> DEFINE lg == log \o <<<<k, Len(os2), 1>>, <<"sync", Len(os2), 0>>>>
  <2>2. /\ m \in PGconn /\ os2 \in Operations
        /\ lg \in Cmds /\ LogOk(lg, os2) /\ OldOk(old, lg, os2)
        /\ Underway(m, tc, v, lg, s, old, os2, "result", <<>>, st)
    BY <1>2, <2>1 DEF SentOff
  <2> HIDE DEF lg
  <2> QED
    BY <2>2 DEF Begun
<1> QED
  BY <1>1, <1>2

LEMMA StartQueryKeeps ==
  ASSUME Ind, NEW k \in {"ok", "fail"}, StartQuery(k)
  PROVE  Ind'
<1> DEFINE o == QueryOf(k)
           os2 == Append(ops, o)
<1>1. Fields /\ Waits(pq, srv, op, stale, rcv)
  BY DEF Ind
<1>2. PICK log, s, old : At(log, s, old)
  BY DEF Ind
<1>3. /\ pq \in PGconn /\ to_client \in Msgs /\ srv \in Server /\ ops \in Operations /\ stale \in Bool
  BY <1>1 DEF Fields
<1>4. PICK c \in Nat : Link(pq, to_client, srv, log, c, s, old)
  BY <1>2 DEF At, Placed
<1>5. LogOk(log, ops) /\ OldOk(old, log, ops)
  BY <1>2 DEF At
<1>6. o \in Operation /\ o.what = "query" /\ FirstPhase(o) = "result"
  BY QueryOfTyped
<1>7. op = "none" /\ ops' = os2 /\ phase' = FirstPhase(o) /\ results' = <<>>
  BY DEF StartQuery, Begin, FirstPhase, QueryOf
<1>8. IdleOk(pq, stale)
  BY <1>1, <1>7 DEF Waits
<1>9. "result" \in Phases /\ <<>> \in Ress
  BY EmptyTyped DEF Phases
<1>10. \/ /\ \/ pq.mode # "off" /\ FlushStep(PushedOn(pq, k, Len(os2)), 0)
             \/ pq.mode = "off" /\ pq.async = "idle" /\ FlushStep(SentOff(pq, k, Len(os2)), 0)
          /\ last' = NoEnd /\ UNCHANGED <<stale, rcv>>
       \/ Refused("send_failed") /\ pq.async # "idle"
  BY <1>7 DEF StartQuery, PushedOn, SentOff
<1> HIDE DEF o
<1>11. CASE Refused("send_failed") /\ pq.async # "idle"
  <2>1. "send_failed" \in Broken
    BY DEF Broken
  <2>2. stale
    BY <1>8, <1>11 DEF IdleOk
  <2> QED
    BY <1>6, <1>7, <1>9, <1>11, <2>1, <2>2, RefusedKeeps
<1>12. CASE /\ \/ pq.mode # "off" /\ FlushStep(PushedOn(pq, k, Len(os2)), 0)
               \/ pq.mode = "off" /\ pq.async = "idle" /\ FlushStep(SentOff(pq, k, Len(os2)), 0)
            /\ last' = NoEnd /\ UNCHANGED <<stale, rcv>>
  <2>1. PICK m : /\ \/ pq.mode # "off" /\ m = PushedOn(pq, k, Len(os2))
                    \/ pq.mode = "off" /\ pq.async = "idle" /\ m = SentOff(pq, k, Len(os2))
                 /\ FlushStep(m, 0)
    BY <1>12
  <2> DEFINE st == stale
  <2>2. st \in Bool /\ IdleOk(pq, st) /\ os2 = Append(ops, o)
    BY <1>3, <1>8
  <2> HIDE DEF st, os2
  <2>6. Begun(m, to_client, srv, s, old, os2, "result", st)
    BY <1>3, <1>4, <1>5, <1>6, <2>1, <2>2, QueryStarted
  <2>3. /\ m \in PGconn /\ os2 \in Operations
        /\ \E lg \in Cmds : /\ LogOk(lg, os2) /\ OldOk(old, lg, os2)
                            /\ Underway(m, to_client, srv, lg, s, old, os2, "result", <<>>, st)
    BY <2>6 DEF Begun
  <2>4. PICK lg \in Cmds : /\ LogOk(lg, os2) /\ OldOk(old, lg, os2)
                           /\ Underway(m, to_client, srv, lg, s, old, os2, "result", <<>>, st)
    BY <2>3
  <2> DEFINE rs == <<>>
             ph == "result"
             z == 0
  <2>5. /\ rs \in Ress /\ ph \in Phases /\ results' = rs /\ phase' = ph /\ z \in Nat /\ FlushStep(m, z)
        /\ Underway(m, to_client, srv, lg, s, old, os2, ph, rs, stale)
    BY <1>6, <1>7, <1>9, <2>1, <2>4 DEF st
  <2> HIDE DEF rs, ph, z
  <2> QED
    BY <1>1, <1>7, <1>12, <2>3, <2>4, <2>5, FlushStepKeeps
<1> QED
  BY <1>10, <1>11, <1>12

-----------------------------------------------------------------------------
(* The pool *)

\* The server of a connection that is closed, after k more commands.
Closed(v, k) == [NewSession EXCEPT !.committed = ServeFirst(v, k).committed, !.notes = v.notes]

LEMMA ClosedTyped ==
  ASSUME NEW v \in Server, NEW k, ServeFirst(v, k) \in Server
  PROVE  /\ Closed(v, k) \in Server /\ Closed(v, k).in = <<>> /\ Closed(v, k).out = <<>>
         /\ Closed(v, k).txn = {} /\ Closed(v, k).skip = FALSE
         /\ Closed(v, k).committed = ServeFirst(v, k).committed /\ Closed(v, k).notes = v.notes
<1> DEFINE E == ServeFirst(v, k).committed
           z == v.notes
           b == FALSE
           none == <<>>
<1>1. E \in SUBSET Name /\ z \in Nat
  BY DEF Server
<1>2. none \in Cmds /\ none \in Msgs
  BY EmptyTyped
<1>3. b \in Bool
  BY DEF Bool
<1>6. ServeFirst(v, k).committed = E /\ v.notes = z
  OBVIOUS
<1> HIDE DEF E, z
<1>4. Closed(v, k) = [in |-> none, out |-> none, txn |-> {}, skip |-> b, committed |-> E, notes |-> z]
  <2>1. Closed(v, k) = [NewSession EXCEPT !.committed = E, !.notes = z]
    BY <1>6 DEF Closed
  <2> QED
    BY <2>1 DEF NewSession
<1> HIDE DEF b, none
<1>5. /\ Closed(v, k) \in Server /\ Closed(v, k).in = none /\ Closed(v, k).out = none
      /\ Closed(v, k).txn = {} /\ Closed(v, k).skip = b
      /\ Closed(v, k).committed = E /\ Closed(v, k).notes = z
  BY <1>1, <1>2, <1>3, <1>4 DEF Server
<1> QED
  BY <1>5, <1>6 DEF b, none

\* What is left of an operation that ended, after the connection is closed.
LEMMA EffectedCloses ==
  ASSUME NEW n, NEW tc, NEW v, NEW log, NEW c, NEW s, NEW old, Link(n, tc, v, log, c, s, old),
         NEW k \in Nat, NEW w, NEW c2, Link(n, tc, w, log, c2, s + k, old),
         NEW z, z.committed = w.committed,
         NEW os, NEW l, Effected(log, s, v, os, l)
  PROVE  Effected(<<>>, 0, z, os, l)
<1> DEFINE i == Len(os)
           none == <<>>
           zero == 0
<1>1. SUFFICES ASSUME os # <<>>, os[i].what = "pipeline",
                      l.outcome \in {"success", "failed", "exception"}
               PROVE  /\ Finished(none, zero, i)
                      /\ OfOperation(z.committed, i) = OfOperation(v.committed, i)
  BY DEF Effected
<1>2. Finished(log, s, i)
  BY <1>1 DEF Effected
<1>3. /\ v.committed = old \union Kept(log, s) /\ w.committed = old \union Kept(log, s + k)
      /\ log \in Cmds /\ s \in 0 .. Len(log) /\ s + k \in 0 .. Len(log)
  BY LinkServed
<1>4. s + k <= Len(log)
  <2>1. Len(log) \in Nat
    BY <1>3, CmdsLen
  <2> QED
    BY <1>3, <2>1
<1>5. Finished(none, zero, i)
  <2>1. Len(none) = 0 /\ zero = 0
    BY EmptyTyped
  <2> HIDE DEF none, zero, i
  <2>2. \A p \in zero + 1 .. Len(none) : FALSE
    BY <2>1
  <2>3. \A p \in 1 .. zero : FALSE
    BY <2>1
  <2>4. OfOperation(Open(none, zero), i) = {}
    BY <2>3 DEF OfOperation, Open
  <2> QED
    BY <2>2, <2>4 DEF Finished
<1> HIDE DEF i, none, zero
<1>6. OfOperation(Kept(log, s + k), i) = OfOperation(Kept(log, s), i)
  BY <1>2, <1>3, <1>4, FinishedStays
<1>7. /\ OfOperation(v.committed, i) = OfOperation(old, i) \union OfOperation(Kept(log, s), i)
      /\ OfOperation(w.committed, i) = OfOperation(old, i) \union OfOperation(Kept(log, s + k), i)
  BY <1>3, OfUnion
<1> QED
  BY <1>5, <1>6, <1>7

LEMMA EmptyLogOk ==
  ASSUME NEW os \in Operations, NEW E, CommittedOk(E, os)
  PROVE  LogOk(<<>>, os) /\ OldOk(E, <<>>, os)
<1>1. \A p \in 1 .. Len(<<>>) : FALSE
  BY EmptyTyped
<1> QED
  BY <1>1 DEF LogOk, OldOk

LEMMA RecycleKeeps ==
  ASSUME Ind, Recycle
  PROVE  Ind'
<1>1. Fields /\ Waits(pq, srv, op, stale, rcv) /\ (op # "none" => last = NoEnd) /\ Reported(ops, last)
  BY DEF Ind
<1>2. PICK log, s, old : At(log, s, old)
  BY DEF Ind
<1>3. PICK c \in Nat : Link(pq, to_client, srv, log, c, s, old)
  BY <1>2 DEF At, Placed
<1>4. /\ pq \in PGconn /\ to_client \in Msgs /\ srv \in Server /\ ops \in Operations
  BY <1>1 DEF Fields
<1>5. /\ op = "none" /\ rcv = "none" /\ op' = op /\ phase' = phase /\ results' = results /\ ops' = ops
      /\ last' = last /\ rcv' = rcv
  BY DEF Recycle
<1> DEFINE t == FALSE
<1>6. stale' = t
  BY DEF Recycle
<1>7. t \in Bool /\ ~t
  BY DEF Bool
<1> HIDE DEF t
<1>8. Reported(ops', last')
  BY <1>1, <1>5
<1>9. IdleOk(pq, stale)
  BY <1>1, <1>5 DEF Waits
<1>10. CASE Keeps /\ UNCHANGED <<pq, to_client, srv>>
  <2>1. pq' = pq /\ to_client' = to_client /\ srv' = srv /\ pq.async = "idle"
    BY <1>10 DEF Keeps, PQtransactionStatusIdle
  <2>2. Fields'
    BY <1>1, <1>5, <1>6, <1>7, <2>1 DEF Fields
  <2>3. IdleOk(pq, t)
    BY <1>9, <2>1 DEF IdleOk
  <2>4. Waits(pq', srv', op', stale', rcv')
    BY <1>5, <1>6, <2>1, <2>3 DEF Waits
  <2>5. Placed(pq', to_client', srv', log, s, old, op', ops', phase', results', stale')
    BY <1>3, <1>5, <2>1 DEF Placed
  <2>6. LogOk(log, ops') /\ OldOk(old, log, ops') /\ Effected(log, s, srv', ops', last')
    BY <1>2, <1>5, <2>1 DEF At
  <2> QED
    BY <1>5, <1>8, <2>2, <2>4, <2>5, <2>6 DEF Ind, At
<1>11. CASE /\ pq' = Fresh /\ to_client' = <<>>
            /\ \E k \in 0 .. Len(srv.in) : srv' = Closed(srv, k)
  <2>1. PICK k \in 0 .. Len(srv.in) : srv' = Closed(srv, k)
    BY <1>11
  <2> DEFINE w == ServeFirst(srv, k)
             z == Closed(srv, k)
             none == <<>>
             E == z.committed
             zero == 0
  <2>2. k \in Nat
    <3>1. Len(srv.in) \in Nat
      BY <1>3, <1>4, LinkTyped, CmdsLen
    <3> QED
      BY <3>1
  <2>3. w \in Server /\ Link(pq, to_client, w, log, c, s + k, old)
    BY <1>3, <1>4, LinkServesFirst
  <2>4. /\ z \in Server /\ z.in = <<>> /\ z.out = <<>> /\ z.txn = {} /\ z.skip = FALSE
        /\ z.committed = w.committed /\ z.notes = srv.notes
    BY <1>4, <2>3, ClosedTyped
  <2> HIDE DEF w, z
  <2>5. srv.notes <= MaxNotes
    BY <1>3 DEF Link
  <2>6. Fresh \in PGconn /\ <<>> \in Msgs /\ Link(Fresh, <<>>, z, <<>>, 0, 0, z.committed)
    BY <2>4, <2>5, LinkFresh
  <2>7. CommittedOk(E, ops')
    <3>1. E = old \union Kept(log, s + k) /\ log \in Cmds /\ s + k \in 0 .. Len(log)
      BY <2>3, <2>4, LinkServed
    <3>2. LogOk(log, ops) /\ OldOk(old, log, ops)
      BY <1>2 DEF At
    <3> DEFINE x == s + k
    <3> HIDE DEF x, E
    <3>3. E = old \union Kept(log, x) /\ x \in 0 .. Len(log)
      BY <3>1 DEF x
    <3>4. CommittedOk(old \union Kept(log, x), ops)
      BY <1>4, <3>1, <3>2, <3>3, KeptOk
    <3> QED
      BY <1>5, <3>3, <3>4
  <2>8. ops' \in Operations
    BY <1>4, <1>5
  <2> HIDE DEF E
  <2>9. LogOk(<<>>, ops') /\ OldOk(E, <<>>, ops')
    BY <2>7, <2>8, EmptyLogOk
  <2>10. Effected(<<>>, 0, srv', ops', last')
    <3>1. Effected(log, s, srv, ops, last)
      BY <1>2 DEF At
    <3>2. Effected(<<>>, 0, z, ops, last)
      BY <1>3, <2>2, <2>3, <2>4, <3>1, EffectedCloses
    <3> QED
      BY <1>5, <2>1, <3>2 DEF z
  <2>11. pq' = Fresh /\ to_client' = <<>> /\ srv' = z
    BY <1>11, <2>1 DEF z
  <2>12. Fields'
    BY <1>1, <1>5, <1>6, <1>7, <2>4, <2>6, <2>11 DEF Fields
  <2>13. Waits(pq', srv', op', stale', rcv')
    <3>1. IdleOk(Fresh, t)
      BY FreshIs DEF IdleOk
    <3> QED
      BY <1>5, <1>6, <2>11, <3>1 DEF Waits
  <2>14. Placed(pq', to_client', srv', <<>>, 0, E, op', ops', phase', results', stale')
    <3>1. Link(pq', to_client', srv', <<>>, 0, 0, E)
      BY <2>6, <2>11 DEF E
    <3> QED
      BY <1>5, <3>1 DEF Placed
  <2> QED
    BY <1>5, <1>8, <2>9, <2>10, <2>12, <2>13, <2>14 DEF Ind, At
<1> QED
  BY <1>10, <1>11 DEF Recycle, Closed

-----------------------------------------------------------------------------
(* Every step keeps the invariant *)

LEMMA StutterKeeps ==
  ASSUME Ind, UNCHANGED vars
  PROVE  Ind'
<1>1. /\ pq' = pq /\ to_client' = to_client /\ srv' = srv /\ op' = op /\ phase' = phase /\ results' = results
      /\ ops' = ops /\ last' = last /\ stale' = stale /\ rcv' = rcv
  BY DEF vars, operation
<1>2. PICK log, s, old : At(log, s, old)
  BY DEF Ind
<1>3. /\ Placed(pq', to_client', srv', log, s, old, op', ops', phase', results', stale')
      /\ LogOk(log, ops') /\ OldOk(old, log, ops') /\ Effected(log, s, srv', ops', last')
  BY <1>1, <1>2 DEF At
<1>4. Fields'
  BY <1>1 DEF Ind, Fields
<1>5. Waits(pq', srv', op', stale', rcv') /\ (op' # "none" => last' = NoEnd) /\ Reported(ops', last')
  BY <1>1 DEF Ind
<1> QED
  BY <1>3, <1>4, <1>5 DEF Ind, At

LEMMA PipelineTyped ==
  ASSUME NEW items \in Scripts, NEW thrown \in BOOLEAN
  PROVE  [what |-> "pipeline", items |-> items, thrown |-> thrown] \in Operation
<1>1. items \in Items
  BY PipelineAssumption DEF Items, Item
<1>2. thrown \in Bool
  BY DEF Bool
<1> QED
  BY <1>1, <1>2 DEF Operation

LEMMA NextKeeps ==
  ASSUME Ind, [Next]_vars
  PROVE  Ind'
<1>1. ASSUME NEW items \in Scripts, NEW thrown \in BOOLEAN,
             StartPipeline([what |-> "pipeline", items |-> items, thrown |-> thrown])
      PROVE  Ind'
  <2> DEFINE o == [what |-> "pipeline", items |-> items, thrown |-> thrown]
  <2>1. o \in Operation /\ o.what = "pipeline" /\ StartPipeline(o)
    BY <1>1, PipelineTyped
  <2> HIDE DEF o
  <2> QED
    BY <2>1, StartPipelineKeeps
<1>2. ASSUME NEW k \in {"ok", "fail"}, StartQuery(k) PROVE Ind'
  BY <1>2, StartQueryKeeps
<1>3. CASE FlushWritable
  BY <1>3, FlushWritableKeeps
<1>4. CASE FlushReadable
  BY <1>4, FlushReadableKeeps
<1>5. CASE ReadReadable
  BY <1>5, ReadReadableKeeps
<1>6. CASE ResultPosted
  BY <1>6, ResultPostedKeeps
<1>7. CASE Cancel
  BY <1>7, CancelKeeps
<1>8. CASE StartReceive
  BY <1>8, StartReceiveKeeps
<1>9. CASE ReceiverRuns
  BY <1>9, ReceiverRunsKeeps
<1>10. CASE Readable
  BY <1>10, ReadableKeeps
<1>11. CASE Recycle
  BY <1>11, RecycleKeeps
<1>12. CASE ServerServes
  BY <1>12, ServerServesKeeps
<1>13. CASE ServerWrites
  BY <1>13, ServerWritesKeeps
<1>14. CASE ServerFlushes
  BY <1>14, ServerFlushesKeeps
<1>15. CASE ServerNotifies
  BY <1>15, ServerNotifiesKeeps
<1>16. CASE UNCHANGED vars
  BY <1>16, StutterKeeps
<1> QED
  BY <1>1, <1>2, <1>3, <1>4, <1>5, <1>6, <1>7, <1>8, <1>9, <1>10, <1>11, <1>12, <1>13, <1>14, <1>15, <1>16
  DEF Next

(* In every state there is a log of what was pushed on the session, and libpq,
   the server, the operation under way and the one that ended last are where
   that log says. *)
THEOREM Invariant == Spec => []Ind
<1>1. Init => Ind
  BY InitOk
<1>2. Ind /\ [Next]_vars => Ind'
  BY NextKeeps
<1> QED
  BY <1>1, <1>2, PTL DEF Spec

-----------------------------------------------------------------------------
(* What follows from it *)

LEMMA IndTypes == Ind => TypeOK
<1> SUFFICES ASSUME Ind PROVE TypeOK
  OBVIOUS
<1>1. Fields
  BY DEF Ind
<1>2. PICK log, s, old, c : Link(pq, to_client, srv, log, c, s, old)
  BY DEF Ind, At, Placed
<1>3. pq \in PGconn /\ to_client \in Msgs /\ srv \in Server
  BY <1>1 DEF Fields
<1>4. pq.notifies + NoteCount(pq.inbuf \o (to_client \o srv.out)) <= srv.notes /\ srv.notes <= MaxNotes
  BY <1>2 DEF Link
<1>5. NoteCount(pq.inbuf \o (to_client \o srv.out)) \in Nat
  <2>1. pq.inbuf \in Msgs /\ to_client \o srv.out \in Msgs
    BY <1>2, <1>3, LinkTyped
  <2> DEFINE x == pq.inbuf
             y == to_client \o srv.out
  <2> HIDE DEF x, y
  <2>2. x \in Msgs /\ y \in Msgs
    BY <2>1 DEF x, y
  <2>3. NoteCount(x \o y) \in Nat
    BY <2>2, LineConcat, LineTyped
  <2> QED
    BY <2>3 DEF x, y
<1>6. pq.notifies \in 0 .. MaxNotes
  <2> DEFINE z == NoteCount(pq.inbuf \o (to_client \o srv.out))
  <2> HIDE DEF z
  <2>1. z \in Nat /\ pq.notifies + z <= srv.notes
    BY <1>4, <1>5 DEF z
  <2>2. pq.notifies \in Nat /\ srv.notes \in Nat /\ MaxNotes \in Nat
    BY <1>3, PipelineAssumption DEF PGconn, Server
  <2> QED
    BY <1>4, <2>1, <2>2
<1>7. stale \in BOOLEAN
  BY <1>1 DEF Fields, Bool
<1>8. pq.mode \in {"off", "on", "aborted"} /\ pq.async \in {"idle", "busy", "ready", "copy", "pidle"}
  BY <1>3 DEF PGconn
<1>9. /\ op \in {"none", "flush", "flush_readable", "read", "read_readable", "posted"}
      /\ phase \in {"result", "null", "sync"} /\ rcv \in {"none", "waiting", "woken", "aborted"}
  BY <1>1 DEF Fields, Places, Phases
<1> QED
  BY <1>6, <1>7, <1>8, <1>9 DEF TypeOK

(* The model's types, and that libpq never holds more notifications than the
   server sent. *)
THEOREM TypeCorrect == Spec => []TypeOK
BY Invariant, IndTypes, PTL

LEMMA IndAllOrNothing == Ind => AllOrNothing
<1> SUFFICES ASSUME Ind, NEW i \in DOMAIN ops, IsPipeline(i)
             PROVE  \/ Effects(i) = {}
                    \/ /\ Effects(i) = AllOf(i)
                       /\ ~ops[i].thrown
                       /\ "fail" \notin Range(ops[i].items)
  BY DEF AllOrNothing
<1>1. ops \in Operations
  BY DEF Ind, Fields
<1>2. PICK log, s, old : At(log, s, old)
  BY DEF Ind
<1>3. PICK c : Link(pq, to_client, srv, log, c, s, old)
  BY <1>2 DEF At, Placed
<1>4. srv.committed = old \union Kept(log, s) /\ log \in Cmds /\ s \in 0 .. Len(log)
  BY <1>3, LinkServed
<1>5. CommittedOk(srv.committed, ops)
  <2>1. LogOk(log, ops) /\ OldOk(old, log, ops)
    BY <1>2 DEF At
  <2>2. CommittedOk(old \union Kept(log, s), ops)
    BY <1>1, <1>4, <2>1, KeptOk
  <2> QED
    BY <1>4, <2>2
<1>6. i \in 1 .. Len(ops) /\ ops[i].what = "pipeline"
  BY <1>1, OperationsTyped DEF IsPipeline
<1>7. AllOrNone(srv.committed, i, ops[i])
  BY <1>5, <1>6 DEF CommittedOk
<1> QED
  BY <1>7 DEF AllOrNone, OfOperation, Whole, NoFailure, Effects, AllOf

(* "Pipelines are implicit transactions": whatever ended early before one, and
   wherever it ends early itself, the server commits all it pushed or nothing. *)
THEOREM PipelinesAreAtomic == Spec => []AllOrNothing
BY Invariant, IndAllOrNothing, PTL

LEMMA LatestOperation ==
  ASSUME NEW os \in Operations, os # <<>>
  PROVE  Len(os) \in 1 .. Len(os) /\ os[Len(os)] \in Operation
BY DEF Operations

LEMMA IndOutcome == Ind => OutcomeTruthful
<1> DEFINE i == Len(ops)
<1> SUFFICES ASSUME Ind, ops # <<>>, IsPipeline(i)
             PROVE  /\ last.outcome = "success" => Effects(i) = AllOf(i)
                    /\ last.outcome \in {"failed", "exception"} =>
                         \A e \in srv.committed \union srv.txn : e[1] # i
  BY DEF OutcomeTruthful
<1>1. PICK log, s, old : At(log, s, old)
  BY DEF Ind
<1>2. PICK c : Link(pq, to_client, srv, log, c, s, old)
  BY <1>1 DEF At, Placed
<1>3. srv.txn = Open(log, s)
  BY <1>2, LinkServed
<1>4. /\ last.outcome \in {"success", "failed", "exception"} => Finished(log, s, i)
      /\ last.outcome = "success" => OfOperation(srv.committed, i) = Whole(i, ops[i])
      /\ last.outcome \in {"failed", "exception"} => OfOperation(srv.committed, i) = {}
  BY <1>1 DEF At, Effected, IsPipeline
<1> HIDE DEF i
<1>5. last.outcome = "success" => Effects(i) = AllOf(i)
  BY <1>4 DEF Effects, AllOf, OfOperation, Whole
<1>6. ASSUME last.outcome \in {"failed", "exception"}, NEW e \in srv.committed \union srv.txn
      PROVE  e[1] # i
  <2>1. OfOperation(srv.committed, i) = {} /\ OfOperation(srv.txn, i) = {}
    BY <1>3, <1>4, <1>6 DEF Finished
  <2> QED
    BY <1>6, <2>1 DEF OfOperation
<1> QED
  BY <1>5, <1>6

(* What a pipeline reports is what became of it: success after it was committed,
   a failed query or an exception only when nothing of it was or will be. *)
THEOREM OutcomesAreTruthful == Spec => []OutcomeTruthful
BY Invariant, IndOutcome, PTL

LEMMA IndReports == Ind => PipelineResultsOwn /\ QueryResultOwn /\ PipelineCompletes
<1>1. Ind => PipelineResultsOwn
  BY DEF Ind, Reported, PipelineResultsOwn, IsPipeline
<1>2. Ind => QueryResultOwn
  BY DEF Ind, Reported, QueryResultOwn, IsPipeline
<1>3. Ind => PipelineCompletes
  BY DEF Ind, Reported, PipelineCompletes
<1> QED
  BY <1>1, <1>2, <1>3

(* The results a pipeline delivers are its own, each at the index its push
   returned, also on a session where an operation ended early. *)
THEOREM PipelineResultsAreOwn == Spec => []PipelineResultsOwn
BY Invariant, IndReports, PTL

(* The result of a single query is its own, unless an operation ended early
   since the connection came from the pool. *)
THEOREM QueryResultsAreOwn == Spec => []QueryResultOwn
BY Invariant, IndReports, PTL

(* Without a COPY and where nothing ended early, a pipeline that nobody cancels
   never ends with an error of the protocol. *)
THEOREM PipelinesComplete == Spec => []PipelineCompletes
BY Invariant, IndReports, PTL

LEMMA IndNoStranded == Ind => NoStrandedNotification
<1> SUFFICES ASSUME Ind, rcv = "waiting", op = "none", ~stale
             PROVE  ~(Parsed(pq).notifies > 0)
  BY DEF NoStrandedNotification
<1> DEFINE m == Parsed(pq)
<1>1. pq \in PGconn
  BY DEF Ind, Fields
<1>2. pq.notifies = 0 /\ pq.inbuf = <<>>
  BY DEF Ind, Waits
<1>3. m \in PGconn /\ NotesKept(pq, m)
  BY <1>1, ParsedKeeps DEF Reaches
<1> HIDE DEF m
<1>4. NoteCount(pq.inbuf) = 0
  BY <1>2, LineEmpty
<1>5. m.notifies \in Nat /\ NoteCount(m.inbuf) \in Nat
  BY <1>3, LineTyped DEF PGconn
<1>6. m.notifies + NoteCount(m.inbuf) = 0
  BY <1>2, <1>3, <1>4 DEF NotesKept
<1>7. ~(m.notifies > 0)
  BY <1>5, <1>6
<1> QED
  BY <1>7 DEF m

(* The receiver does not sleep on a notification that libpq has already read,
   unless an operation is under way or ended early. *)
THEOREM NoneStranded == Spec => []NoStrandedNotification
BY Invariant, IndNoStranded, PTL

\* A command an operation waits for has a sync behind it.
LEMMA BusySynced ==
  ASSUME NEW n \in PGconn, NEW tc \in Msgs, NEW v \in Server, NEW log, NEW c, NEW s, NEW old,
         Link(n, tc, v, log, c, s, old), n.async = "busy",
         NEW os \in Operations, NEW ph, NEW rs \in Ress, NEW st, ~st,
         Running(n, log, c, os, ph, rs, st)
  PROVE  Kind(log, Len(log)) = "sync"
<1> DEFINE i == Len(os)
           o == os[i]
           N == Len(log)
<1>1. i >= 1 /\ i \in Nat /\ o \in Operation
  <2>1. i \in Nat /\ i >= 1 /\ \A x \in 1 .. i : os[x] \in Operation
    BY OperationsTyped DEF Running
  <2> QED
    BY <2>1
<1>2. log \in Cmds /\ N \in Nat
  BY LinkTyped
<1>3. CASE o.what = "pipeline"
  <2>1. Block(log, i, o, N - (Size(o) + 1))
    BY <1>3 DEF Running, InPipeline
  <2> DEFINE b == N - (Size(o) + 1)
  <2>2. Block(log, i, o, b)
    BY <2>1
  <2>3. Size(o) \in Nat
    BY <1>1, OperationTyped
  <2> HIDE DEF i, o, b
  <2>4. Size(o) + 1 \in 1 .. Size(o) + 1
    BY <2>3
  <2>5. Kind(log, b + (Size(o) + 1)) = "sync"
    BY <1>1, <1>2, <2>2, <2>3, BlockKinds
  <2>6. b + (Size(o) + 1) = N
    BY <1>2, <2>3 DEF b
  <2> QED
    BY <2>5, <2>6
<1>4. CASE o.what = "query"
  <2>1. InQuery(n, log, c, i, ph, rs, st)
    BY <1>4 DEF Running
  <2>2. CASE n.mode # "off"
    BY <2>1, <2>2 DEF InQuery, InQueryOn
  <2>3. CASE n.mode = "off"
    BY <2>3 DEF Link, Tracks, Off, On, Asked
  <2> QED
    BY <2>2, <2>3
<1>5. o.what = "pipeline" \/ o.what = "query"
  BY <1>1 DEF Operation
<1> QED
  BY <1>3, <1>4, <1>5

LEMMA IndAnswer == Ind => AnswerIsComing
<1> SUFFICES ASSUME Ind, op = "read", ~stale, rcv = "none", srv.notes = 0, to_client = <<>>
             PROVE  \E m \in Range(srv.in \o srv.out) : m[1] = "sync"
  BY DEF AnswerIsComing
<1>1. Fields /\ Waits(pq, srv, op, stale, rcv)
  BY DEF Ind
<1>2. PICK log, s, old : At(log, s, old)
  BY DEF Ind
<1>3. PICK c \in Nat : /\ Link(pq, to_client, srv, log, c, s, old)
                       /\ Running(pq, log, c, ops, phase, results, stale)
  BY <1>2 DEF At, Placed
<1>4. pq.out = <<>> /\ pq.async = "busy" /\ pq.inbuf = <<>>
  BY <1>1 DEF Waits
<1>5. pq \in PGconn /\ to_client \in Msgs /\ srv \in Server /\ ops \in Operations /\ results \in Ress
  BY <1>1 DEF Fields
<1>6. Kind(log, Len(log)) = "sync"
  BY <1>3, <1>4, <1>5, BusySynced
<1>7. Link(pq, <<>>, srv, log, c, s, old)
  BY <1>3
<1> QED
  BY <1>4, <1>5, <1>6, <1>7, AnswerInLine

(* On a session where nothing ended early and that has had no receiver and no
   notification, an operation does not wait for what nobody will send: the answer
   is on its way, and is one the server flushes.  Beside a receiver that is false:
   it may read the answer while the operation waits for the socket. *)
THEOREM AnswersAreComing == Spec => []AnswerIsComing
BY Invariant, IndAnswer, PTL
=============================================================================
