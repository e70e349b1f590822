-------------------------- MODULE SessionStoreProofs --------------------------
(***************************************************************************)
(* Four facts about the session store, for any number of agents, threads,    *)
(* messages and crashes: a session that was closed is not restored by the    *)
(* next start (ClosedStaysClosed), what a successful save left on disk stays *)
(* there (SavedSurvives), the store knows exactly what the shards hold of an *)
(* agent whenever the next save will append (FrontierExact), and the listed  *)
(* shards hold what each agent said once and in order (ListedInOrder).       *)
(*                                                                           *)
(* ClosedStaysClosed speaks of the moments when no operation holds the       *)
(* store's lock.  IInv says what holds in between: which operations run for  *)
(* a session that is open, being closed or closed, and that the store knows  *)
(* the base of every active index (Archive goes by the one, the next start   *)
(* by the other).                                                            *)
(*                                                                           *)
(* SavedSurvives needs the types (TypeOK), the agents of a save (Ready) and  *)
(* what the table in memory, the index and the files have to do with each    *)
(* other (FilesInv): the store knows the table of the active index, a save   *)
(* that appends works on a table at least that long, and no two indexes or   *)
(* unfinished renames compete for one shard.                                 *)
(*                                                                           *)
(* FrontierExact needs what holds in the middle of a save (FrontInv): which  *)
(* agents it has yet to read, what their lines, the shards and the recorded  *)
(* frontiers add up to, and that a transcript only grew since its epoch was  *)
(* recorded.                                                                 *)
(*                                                                           *)
(* ListedInOrder needs, besides, that what is still to be written is newer   *)
(* than what is, also across the two names of a shard, and that what an      *)
(* agent said beyond its frontier is newer than all its shards (OrderInv).   *)
(*                                                                           *)
(* The first part says of the recursive functions of the model what their    *)
(* recursion promises.                                                       *)
(***************************************************************************)
EXTENDS SessionStore, SequenceTheorems, WellFoundedInduction, TLAPS

\* The order of the numbers, as a set of pairs: a least number is found by it.
Below == {p \in Nat \X Nat : p[1] < p[2]}

\* The order of the numbers has no infinite descent.
LEMMA BelowWellFounded == IsWellFoundedOn(Below, Nat)
<1>1. OpToRel(<, Nat) = Below
  BY DEF OpToRel, Below
<1> QED
  BY <1>1, NatLessThanWellFounded

\* A set of numbers that is not empty has a least element.
LEMMA Least ==
  ASSUME NEW T \in SUBSET Nat, T # {}
  PROVE  \E x \in T : \A y \in T : x <= y
<1>1. \A x, y \in Nat : <<y, x>> \notin Below => x <= y
  BY DEF Below
<1>2. \E x \in T : \A y \in T : <<y, x>> \notin Below
  BY BelowWellFounded, WFMin
<1> QED
  BY <1>1, <1>2

\* what holds of zero and of the successor of each number it holds of
LEMMA Counting ==
  ASSUME NEW T \in SUBSET Nat, 0 \in T, \A n \in T : n + 1 \in T
  PROVE  T = Nat
<1> SUFFICES ASSUME Nat \ T # {} PROVE FALSE
  OBVIOUS
<1>1. PICK x \in Nat \ T : \A y \in Nat \ T : x <= y
  BY Least
<1>2. x - 1 \in Nat /\ x - 1 \notin Nat \ T
  BY <1>1
<1> QED
  BY <1>1, <1>2

\* the values of a function that is defined by recursion, up to n
Built(g, S, z, step, n) ==
    /\ g \in [0 .. n -> S]
    /\ g[0] = z
    /\ \A k \in 1 .. n : g[k] = step[k][g[k - 1]]

\* A function built from its value at the number before exists up to every n.
LEMMA StepByStep ==
  ASSUME NEW S, NEW z \in S, NEW step \in [Nat -> [S -> S]], NEW n \in Nat
  PROVE  \E g : Built(g, S, z, step, n)
<1> DEFINE T == {m \in Nat : \E g : Built(g, S, z, step, m)}
<1>1. 0 \in T
  <2>1. Built([k \in 0 .. 0 |-> z], S, z, step, 0)
    BY DEF Built
  <2> QED BY <2>1
<1>2. ASSUME NEW m \in T PROVE m + 1 \in T
  <2>1. PICK g : Built(g, S, z, step, m)
    OBVIOUS
  <2> DEFINE h == [k \in 0 .. m + 1 |-> IF k = m + 1 THEN step[m + 1][g[m]] ELSE g[k]]
  <2>2. m \in Nat /\ g[m] \in S /\ step[m + 1] \in [S -> S]
    BY <2>1 DEF Built
  <2>3. step[m + 1][g[m]] \in S
    BY <2>2
  <2>4. h \in [0 .. m + 1 -> S]
    BY <2>1, <2>2, <2>3 DEF Built
  <2>5. h[0] = z
    BY <2>1, <2>2 DEF Built
  <2>6. ASSUME NEW k \in 1 .. m + 1 PROVE h[k] = step[k][h[k - 1]]
    <3>1. CASE k = m + 1
      BY <3>1, <2>2
    <3>2. CASE k # m + 1
      <4>1. k \in 1 .. m /\ k - 1 \in 0 .. m + 1 /\ k - 1 # m + 1 /\ k \in 0 .. m + 1
        BY <3>2, <2>2
      <4>2. h[k] = g[k] /\ h[k - 1] = g[k - 1]
        BY <4>1, <3>2
      <4> QED BY <4>1, <4>2, <2>1 DEF Built
    <3> QED BY <3>1, <3>2
  <2> HIDE DEF h
  <2>7. Built(h, S, z, step, m + 1)
    BY <2>4, <2>5, <2>6 DEF Built
  <2> QED BY <2>2, <2>7
<1>3. T = Nat
  <2> HIDE DEF T
  <2>1. T \in SUBSET Nat
    BY DEF T
  <2> QED BY <1>1, <1>2, <2>1, Counting
<1> QED BY <1>3

\* A record names an agent and a message.
LEMMA RecordParts ==
  ASSUME NEW s \in Seq(Record), NEW n \in 1 .. Len(s)
  PROVE  s[n] \in Record /\ s[n].agent \in Agents /\ s[n].msg \in Nat
<1>1. s[n] \in Record
  BY ElementOfSeq
<1> QED BY <1>1 DEF Record

\* what one record adds to the messages of agent a
OfStep(a, r, before) == IF r.agent = a THEN Append(before, r.msg) ELSE before

\* Of goes through the records one by one: the messages of agent a up to record n are
\* those up to the record before, and record n's if it is one of a's.
LEMMA OfBuilt ==
  ASSUME NEW a, NEW s \in Seq(Record)
  PROVE  \E g \in [0 .. Len(s) -> Seq(Nat)] :
            /\ g[0] = <<>>
            /\ \A k \in 1 .. Len(s) : g[k] = OfStep(a, s[k], g[k - 1])
            /\ Of(a, s) = g[Len(s)]
<1> DEFINE e(n, g) == IF n = 0 THEN <<>>
            ELSE IF s[n].agent = a THEN Append(g[n - 1], s[n].msg)
            ELSE g[n - 1]
           step == [n \in Nat |-> [t \in Seq(Nat) |->
                      IF n \in 1 .. Len(s) THEN OfStep(a, s[n], t) ELSE t]]
           said == CHOOSE g : g = [n \in 0 .. Len(s) |-> e(n, g)]
<1>1. Len(s) \in Nat
  BY LenProperties
<1>2. ASSUME NEW n \in Nat, NEW t \in Seq(Nat)
      PROVE  (IF n \in 1 .. Len(s) THEN OfStep(a, s[n], t) ELSE t) \in Seq(Nat)
  <2>1. CASE n \in 1 .. Len(s)
    <3>1. Append(t, s[n].msg) \in Seq(Nat)
      BY <2>1, RecordParts, AppendProperties
    <3> QED BY <2>1, <3>1 DEF OfStep
  <2> QED BY <2>1
<1>3. step \in [Nat -> [Seq(Nat) -> Seq(Nat)]]
  BY <1>2
<1>4. <<>> \in Seq(Nat)
  BY EmptySeq
<1>5. PICK g : Built(g, Seq(Nat), <<>>, step, Len(s))
  <2> HIDE DEF step
  <2> QED BY <1>1, <1>3, <1>4, StepByStep
<1>b. /\ g \in [0 .. Len(s) -> Seq(Nat)] /\ g[0] = <<>>
      /\ \A k \in 1 .. Len(s) : g[k] = step[k][g[k - 1]]
  <2> HIDE DEF step
  <2> QED BY <1>5 DEF Built
<1>6. ASSUME NEW k \in 1 .. Len(s) PROVE g[k] = OfStep(a, s[k], g[k - 1])
  <2>1. k \in Nat /\ k - 1 \in 0 .. Len(s)
    BY <1>1
  <2>2. g[k - 1] \in Seq(Nat)
    BY <2>1, <1>b
  <2> QED BY <2>1, <2>2, <1>b
<1>7. ASSUME NEW n \in 0 .. Len(s) PROVE g[n] = e(n, g)
  <2>1. CASE n = 0
    BY <2>1, <1>b
  <2>2. CASE n # 0
    <3>1. n \in 1 .. Len(s)
      BY <2>2, <1>1
    <3> QED BY <3>1, <1>6, <2>2 DEF OfStep
  <2> QED BY <2>1, <2>2
<1>8. g = [n \in 0 .. Len(s) |-> e(n, g)]
  <2> HIDE DEF e, step
  <2> QED BY <1>7, <1>b
<1>9. said = [n \in 0 .. Len(s) |-> e(n, said)]
  <2> HIDE DEF e
  <2> QED BY <1>8
<1> DEFINE T == {n \in Nat : n <= Len(s) => said[n] = g[n]}
<1>10. T = Nat
  <2>1. 0 \in T
    <3> HIDE DEF said
    <3> QED BY <1>b, <1>9, <1>1
  <2>2. ASSUME NEW n \in T PROVE n + 1 \in T
    <3>1. CASE n + 1 <= Len(s)
      <4> HIDE DEF said
      <4>1. /\ n + 1 \in 1 .. Len(s) /\ (n + 1) - 1 = n /\ n \in Nat
            /\ n + 1 \in 0 .. Len(s) /\ said[n] = g[n] /\ n + 1 # 0
        BY <3>1, <1>1
      <4>2. said[n + 1] = e(n + 1, said)
        BY <4>1, <1>9
      <4>3. e(n + 1, said) = e(n + 1, g)
        BY <4>1
      <4>4. e(n + 1, g) = g[n + 1]
        BY <4>1, <1>7
      <4> QED BY <4>1, <4>2, <4>3, <4>4
    <3>2. CASE ~(n + 1 <= Len(s))
      BY <3>2
    <3> QED BY <3>1, <3>2
  <2> HIDE DEF T
  <2>3. T \in SUBSET Nat
    BY DEF T
  <2> QED BY <2>1, <2>2, <2>3, Counting
<1>11. said[Len(s)] = g[Len(s)]
  <2> HIDE DEF said
  <2> QED BY <1>1, <1>10
<1>12. Of(a, s) = said[Len(s)]
  BY DEF Of
<1> HIDE DEF said
<1> QED BY <1>b, <1>6, <1>11, <1>12

\* What an agent said is a sequence of messages.
LEMMA OfTyped ==
  ASSUME NEW a, NEW s \in Seq(Record)
  PROVE  Of(a, s) \in Seq(Nat)
BY OfBuilt, LenProperties

\* what Content takes for shard j, and files that are shards of records
Shard(f, j) == IF j \in DOMAIN f THEN f[j] ELSE <<>>

Files(f) == \A j \in DOMAIN f : f[j] \in Seq(Record)

\* A missing shard counts as an empty one.
LEMMA ShardTyped ==
  ASSUME NEW f, Files(f), NEW j
  PROVE  Shard(f, j) \in Seq(Record)
<1>1. <<>> \in Seq(Record)
  BY EmptySeq
<1> QED BY <1>1 DEF Shard, Files

\* Content puts the shards one after the other, from the first to the last.
LEMMA ContentBuilt ==
  ASSUME NEW f, Files(f), NEW i \in Nat \ {0}, NEW n \in Nat
  PROVE  \E g \in [0 .. n -> Seq(Record)] :
            /\ g[0] = <<>>
            /\ \A k \in 1 .. n : g[k] = IF k < i THEN <<>> ELSE g[k - 1] \o Shard(f, k)
            /\ Content(f, i, n) = g[n]
<1> DEFINE e(j, g) == IF j < i THEN <<>>
            ELSE g[j - 1] \o (IF j \in DOMAIN f THEN f[j] ELSE <<>>)
           step == [k \in Nat |-> [t \in Seq(Record) |->
                      IF k < i THEN <<>> ELSE t \o Shard(f, k)]]
           from == CHOOSE g : g = [j \in 0 .. n |-> e(j, g)]
<1>1. <<>> \in Seq(Record)
  BY EmptySeq
<1>2. ASSUME NEW k \in Nat, NEW t \in Seq(Record)
      PROVE  (IF k < i THEN <<>> ELSE t \o Shard(f, k)) \in Seq(Record)
  <2>1. t \o Shard(f, k) \in Seq(Record)
    BY ShardTyped, ConcatProperties
  <2> QED BY <1>1, <2>1
<1>3. step \in [Nat -> [Seq(Record) -> Seq(Record)]]
  BY <1>2
<1>4. PICK g : Built(g, Seq(Record), <<>>, step, n)
  <2> HIDE DEF step
  <2> QED BY <1>1, <1>3, StepByStep
<1>5. /\ g \in [0 .. n -> Seq(Record)] /\ g[0] = <<>>
      /\ \A k \in 1 .. n : g[k] = step[k][g[k - 1]]
  <2> HIDE DEF step
  <2> QED BY <1>4 DEF Built
<1>6. ASSUME NEW k \in 1 .. n
      PROVE  g[k] = IF k < i THEN <<>> ELSE g[k - 1] \o Shard(f, k)
  <2>1. k \in Nat /\ k - 1 \in 0 .. n
    OBVIOUS
  <2>2. g[k - 1] \in Seq(Record)
    BY <2>1, <1>5
  <2> QED BY <2>1, <2>2, <1>5
<1>7. ASSUME NEW j \in 0 .. n PROVE g[j] = e(j, g)
  <2>1. CASE j = 0
    BY <2>1, <1>5
  <2>2. CASE j # 0
    <3>1. j \in 1 .. n
      BY <2>2
    <3> QED BY <3>1, <1>6 DEF Shard
  <2> QED BY <2>1, <2>2
<1>8. g = [j \in 0 .. n |-> e(j, g)]
  <2> HIDE DEF e, step
  <2> QED BY <1>7, <1>5
<1>9. from = [j \in 0 .. n |-> e(j, from)]
  <2> HIDE DEF e
  <2> QED BY <1>8
<1> DEFINE T == {m \in Nat : m <= n => from[m] = g[m]}
<1>10. T = Nat
  <2>1. 0 \in T
    <3> HIDE DEF from
    <3> QED BY <1>5, <1>9
  <2>2. ASSUME NEW m \in T PROVE m + 1 \in T
    <3>1. CASE m + 1 <= n
      <4> HIDE DEF from
      <4>1. /\ (m + 1) - 1 = m /\ m \in Nat
            /\ m + 1 \in 0 .. n /\ from[m] = g[m]
        BY <3>1
      <4>2. from[m + 1] = e(m + 1, from)
        BY <4>1, <1>9
      <4>3. e(m + 1, from) = e(m + 1, g)
        BY <4>1
      <4>4. e(m + 1, g) = g[m + 1]
        BY <4>1, <1>7
      <4> QED BY <4>1, <4>2, <4>3, <4>4
    <3>2. CASE ~(m + 1 <= n)
      BY <3>2
    <3> QED BY <3>1, <3>2
  <2> HIDE DEF T
  <2>3. T \in SUBSET Nat
    BY DEF T
  <2> QED BY <2>1, <2>2, <2>3, Counting
<1>11. from[n] = g[n]
  <2> HIDE DEF from
  <2> QED BY <1>10
<1>12. Content(f, i, n) = from[n]
  BY DEF Content
<1> HIDE DEF from
<1> QED BY <1>5, <1>6, <1>11, <1>12

\* shards are read one after the other
LEMMA ContentSteps ==
  ASSUME NEW f, Files(f), NEW i \in Nat \ {0}, NEW n \in Nat
  PROVE  /\ Content(f, i, n) \in Seq(Record)
         /\ n < i => Content(f, i, n) = <<>>
         /\ n + 1 >= i => Content(f, i, n + 1) = Content(f, i, n) \o Shard(f, n + 1)
<1>1. PICK g \in [0 .. n -> Seq(Record)] :
            /\ g[0] = <<>>
            /\ \A k \in 1 .. n : g[k] = IF k < i THEN <<>> ELSE g[k - 1] \o Shard(f, k)
            /\ Content(f, i, n) = g[n]
  BY ContentBuilt
<1>2. PICK h \in [0 .. n + 1 -> Seq(Record)] :
            /\ h[0] = <<>>
            /\ \A k \in 1 .. n + 1 : h[k] = IF k < i THEN <<>> ELSE h[k - 1] \o Shard(f, k)
            /\ Content(f, i, n + 1) = h[n + 1]
  <2>1. n + 1 \in Nat
    OBVIOUS
  <2> QED BY <2>1, ContentBuilt
<1> DEFINE T == {m \in Nat : m <= n => h[m] = g[m]}
<1>3. T = Nat
  <2>1. 0 \in T
    BY <1>1, <1>2
  <2>2. ASSUME NEW m \in T PROVE m + 1 \in T
    <3>1. CASE m + 1 <= n
      <4>1. /\ (m + 1) - 1 = m /\ m \in Nat /\ m + 1 \in Nat
            /\ m + 1 \in 1 .. n /\ m + 1 \in 1 .. n + 1 /\ h[m] = g[m]
        BY <3>1
      <4>2. h[m + 1] = IF m + 1 < i THEN <<>> ELSE h[m] \o Shard(f, m + 1)
        BY <4>1, <1>2
      <4>3. g[m + 1] = IF m + 1 < i THEN <<>> ELSE g[m] \o Shard(f, m + 1)
        BY <4>1, <1>1
      <4> QED BY <4>1, <4>2, <4>3
    <3>2. CASE ~(m + 1 <= n)
      BY <3>2
    <3> QED BY <3>1, <3>2
  <2> HIDE DEF T
  <2>3. T \in SUBSET Nat
    BY DEF T
  <2> QED BY <2>1, <2>2, <2>3, Counting
<1>4. h[n] = g[n]
  <2>1. n \in T
    <3> HIDE DEF T
    <3> QED BY <1>3
  <2> QED BY <2>1
<1>5. Content(f, i, n) \in Seq(Record)
  BY <1>1
<1>6. ASSUME n < i PROVE Content(f, i, n) = <<>>
  <2>1. CASE n = 0
    BY <1>1, <2>1
  <2>2. CASE n # 0
    <3>1. n \in 1 .. n
      BY <2>2
    <3> QED BY <3>1, <1>1, <1>6
  <2> QED BY <2>1, <2>2
<1>7. ASSUME n + 1 >= i PROVE Content(f, i, n + 1) = Content(f, i, n) \o Shard(f, n + 1)
  <2>1. n + 1 \in 1 .. n + 1 /\ (n + 1) - 1 = n /\ ~(n + 1 < i)
    BY <1>7
  <2>2. h[n + 1] = h[n] \o Shard(f, n + 1)
    BY <2>1, <1>2
  <2> QED BY <2>2, <1>1, <1>2, <1>4
<1> QED BY <1>5, <1>6, <1>7

-----------------------------------------------------------------------------
(* What an agent said, of records put together.                              *)

\* Nobody said anything in an empty shard.
LEMMA OfEmpty == \A a : Of(a, <<>>) = <<>>
<1> TAKE a
<1>1. <<>> \in Seq(Record) /\ Len(<<>>) = 0
  BY EmptySeq
<1>2. PICK g \in [0 .. Len(<<>>) -> Seq(Nat)] : g[0] = <<>> /\ Of(a, <<>>) = g[Len(<<>>)]
  BY <1>1, OfBuilt
<1> QED BY <1>1, <1>2

\* A record more adds its message, when it is one of the agent's.
LEMMA OfAppend ==
  ASSUME NEW a, NEW s \in Seq(Record), NEW r \in Record
  PROVE  Of(a, Append(s, r)) = OfStep(a, r, Of(a, s))
<1> DEFINE t == Append(s, r)
<1>1. /\ Len(s) \in Nat /\ t \in Seq(Record) /\ Len(t) = Len(s) + 1
      /\ \A i \in 1 .. Len(s) : t[i] = s[i]
      /\ t[Len(s) + 1] = r
  BY LenProperties, AppendProperties
<1> HIDE DEF t
<1>2. PICK g \in [0 .. Len(s) -> Seq(Nat)] :
            /\ g[0] = <<>>
            /\ \A k \in 1 .. Len(s) : g[k] = OfStep(a, s[k], g[k - 1])
            /\ Of(a, s) = g[Len(s)]
  BY OfBuilt
<1>3. PICK h \in [0 .. Len(t) -> Seq(Nat)] :
            /\ h[0] = <<>>
            /\ \A k \in 1 .. Len(t) : h[k] = OfStep(a, t[k], h[k - 1])
            /\ Of(a, t) = h[Len(t)]
  BY <1>1, OfBuilt
<1> DEFINE T == {m \in Nat : m <= Len(s) => h[m] = g[m]}
<1>4. T = Nat
  <2>1. 0 \in T
    BY <1>2, <1>3
  <2>2. ASSUME NEW m \in T PROVE m + 1 \in T
    <3>1. CASE m + 1 <= Len(s)
      <4>1. /\ (m + 1) - 1 = m /\ m + 1 \in Nat
            /\ m + 1 \in 1 .. Len(s) /\ m + 1 \in 1 .. Len(t) /\ h[m] = g[m]
        BY <1>1, <3>1
      <4>2. h[m + 1] = OfStep(a, t[m + 1], h[m])
        BY <4>1, <1>3
      <4>3. g[m + 1] = OfStep(a, s[m + 1], g[m])
        BY <4>1, <1>2
      <4> QED BY <4>1, <4>2, <4>3, <1>1
    <3>2. CASE ~(m + 1 <= Len(s))
      BY <3>2, <1>1
    <3> QED BY <3>1, <3>2
  <2> HIDE DEF T
  <2>3. T \in SUBSET Nat
    BY DEF T
  <2> QED BY <2>1, <2>2, <2>3, Counting
<1>5. h[Len(s)] = g[Len(s)]
  <2>1. Len(s) \in T
    <3> HIDE DEF T
    <3> QED BY <1>1, <1>4
  <2> QED BY <2>1
<1>6. h[Len(s) + 1] = OfStep(a, r, h[Len(s)])
  <2>1. Len(s) + 1 \in 1 .. Len(t) /\ (Len(s) + 1) - 1 = Len(s)
    BY <1>1
  <2> QED BY <2>1, <1>1, <1>3
<1>7. Of(a, t) = OfStep(a, r, Of(a, s))
  BY <1>1, <1>2, <1>3, <1>5, <1>6
<1> QED BY <1>7 DEF t

\* The library's fact, in the form the leaves below use.
LEMMA Associative == \A S : \A x, y, z \in Seq(S) : (x \o y) \o z = x \o (y \o z)
<1> TAKE S
<1> TAKE x, y, z \in Seq(S)
<1> QED BY ConcatAssociative

\* An element is added at the end of what is put together.
LEMMA AppendAtEnd ==
  ASSUME NEW S, NEW x \in Seq(S), NEW y \in Seq(S), NEW e \in S
  PROVE  x \o Append(y, e) = Append(x \o y, e)
<1>1. <<e>> \in Seq(S) /\ Append(y, e) = y \o <<e>> /\ x \o y \in Seq(S)
  BY AppendIsConcat, ConcatProperties
<1>2. Append(x \o y, e) = (x \o y) \o <<e>>
  BY <1>1, AppendIsConcat
<1> QED BY <1>1, <1>2, Associative

\* What was said in two rows of records is what was said in the one, then the other.
LEMMA OfConcat ==
  ASSUME NEW a, NEW s \in Seq(Record), NEW t \in Seq(Record)
  PROVE  Of(a, s \o t) = Of(a, s) \o Of(a, t)
<1> DEFINE P(u) == Of(a, s \o u) = Of(a, s) \o Of(a, u)
           T == {n \in Nat : \A u \in Seq(Record) : Len(u) = n => P(u)}
<1>0. Of(a, s) \in Seq(Nat)
  BY OfTyped
<1>1. 0 \in T
  <2>1. ASSUME NEW u \in Seq(Record), Len(u) = 0 PROVE P(u)
    <3>1. u = <<>>
      BY <2>1, EmptySeq
    <3>2. s \o <<>> = s /\ Of(a, s) \o <<>> = Of(a, s) /\ Of(a, <<>>) = <<>>
      BY <1>0, ConcatEmptySeq, OfEmpty
    <3> QED BY <3>1, <3>2
  <2> QED BY <2>1
<1>2. ASSUME NEW n \in T PROVE n + 1 \in T
  <2>1. ASSUME NEW u \in Seq(Record), Len(u) = n + 1 PROVE P(u)
    <3>1. u # <<>>
      BY <2>1, EmptySeq
    <3>2. PICK v \in Seq(Record), r \in Record : u = Append(v, r)
      BY <3>1, SequenceEmptyOrAppend
    <3>3. Len(v) = n
      BY <2>1, <3>2, LenProperties, AppendProperties
    <3>4. P(v)
      BY <3>3
    <3>5. s \o v \in Seq(Record) /\ s \o u = Append(s \o v, r)
      BY <3>2, AppendAtEnd, ConcatProperties
    <3>6. Of(a, s \o u) = OfStep(a, r, Of(a, s \o v)) /\ Of(a, u) = OfStep(a, r, Of(a, v))
      BY <3>2, <3>5, OfAppend
    <3>7. Of(a, v) \in Seq(Nat) /\ r.msg \in Nat
      BY OfTyped DEF Record
    <3>8. Of(a, s) \o Append(Of(a, v), r.msg) = Append(Of(a, s) \o Of(a, v), r.msg)
      <4>1. \A x, y \in Seq(Nat) : \A m \in Nat : x \o Append(y, m) = Append(x \o y, m)
        BY AppendAtEnd, SMTT(30)
      <4> QED BY <4>1, <1>0, <3>7
    <3> QED BY <3>4, <3>6, <3>8 DEF OfStep
  <2> QED BY <2>1
<1>3. T = Nat
  <2> HIDE DEF T
  <2>1. T \in SUBSET Nat
    BY DEF T
  <2> QED BY <1>1, <1>2, <2>1, Counting
<1>4. Len(t) \in T
  <2> HIDE DEF T
  <2> QED BY <1>3, LenProperties
<1> QED BY <1>4

\* the lines encodeMessages makes of messages of agent b
Lines(b, new) == [i \in DOMAIN new |-> [agent |-> b, msg |-> new[i]]]

\* They hold exactly these messages of b, and nothing of another agent.
LEMMA OfLines ==
  ASSUME NEW a \in Agents, NEW b \in Agents, NEW new \in Seq(Nat)
  PROVE  /\ Lines(b, new) \in Seq(Record)
         /\ Of(a, Lines(b, new)) = IF a = b THEN new ELSE <<>>
<1> DEFINE P(u) == /\ Lines(b, u) \in Seq(Record)
                   /\ Of(a, Lines(b, u)) = IF a = b THEN u ELSE <<>>
           T == {n \in Nat : \A u \in Seq(Nat) : Len(u) = n => P(u)}
<1>1. 0 \in T
  <2>1. ASSUME NEW u \in Seq(Nat), Len(u) = 0 PROVE P(u)
    <3>1. u = <<>>
      BY <2>1, EmptySeq
    <3>2. Lines(b, <<>>) = <<>>
      BY DEF Lines
    <3> QED BY <3>1, <3>2, OfEmpty, EmptySeq
  <2> QED BY <2>1
<1>2. ASSUME NEW n \in T PROVE n + 1 \in T
  <2>1. ASSUME NEW u \in Seq(Nat), Len(u) = n + 1 PROVE P(u)
    <3>1. u # <<>>
      BY <2>1, EmptySeq
    <3>2. PICK v \in Seq(Nat), m \in Nat : u = Append(v, m)
      BY <3>1, SequenceEmptyOrAppend
    <3>3. Len(v) = n /\ n \in Nat
      BY <2>1, <3>2, LenProperties, AppendProperties
    <3>4. P(v)
      BY <3>3
    <3> DEFINE r == [agent |-> b, msg |-> m]
    <3>5. r \in Record /\ r.agent = b /\ r.msg = m
      BY DEF Record
    <3>6. Lines(b, u) = Append(Lines(b, v), r)
      <4>1. /\ Len(u) = n + 1 /\ DOMAIN u = 1 .. n + 1 /\ DOMAIN v = 1 .. n
            /\ \A i \in 1 .. n : u[i] = v[i]
            /\ u[n + 1] = m
        BY <2>1, <3>2, <3>3, LenProperties, AppendProperties
      <4>2. \A i \in 1 .. n + 1 : [agent |-> b, msg |-> u[i]] \in Record
        <5> SUFFICES ASSUME NEW i \in 1 .. n + 1 PROVE [agent |-> b, msg |-> u[i]] \in Record
          OBVIOUS
        <5>1. u[i] \in Nat
          BY <4>1, ElementOfSeq
        <5> QED BY <5>1 DEF Record
      <4>3. Lines(b, u) \in Seq(Record) /\ Len(Lines(b, u)) = n + 1
        <5>1. Lines(b, u) = [i \in 1 .. n + 1 |-> [agent |-> b, msg |-> u[i]]]
          BY <4>1 DEF Lines
        <5> QED BY <5>1, <4>2, <3>3
      <4>4. Lines(b, v) \in Seq(Record) /\ Len(Lines(b, v)) = n
        BY <3>4, <4>1, <3>3, LenProperties DEF Lines
      <4>5. /\ Append(Lines(b, v), r) \in Seq(Record) /\ Len(Append(Lines(b, v), r)) = n + 1
            /\ \A i \in 1 .. n : Append(Lines(b, v), r)[i] = Lines(b, v)[i]
            /\ Append(Lines(b, v), r)[n + 1] = r
        BY <3>5, <4>4, AppendProperties
      <4>6. \A i \in 1 .. n + 1 : Lines(b, u)[i] = Append(Lines(b, v), r)[i]
        <5> SUFFICES ASSUME NEW i \in 1 .. n + 1 PROVE Lines(b, u)[i] = Append(Lines(b, v), r)[i]
          OBVIOUS
        <5>1. CASE i = n + 1
          BY <5>1, <4>1, <4>5 DEF Lines
        <5>2. CASE i # n + 1
          <6>1. i \in 1 .. n
            BY <5>2, <3>3
          <6> QED BY <6>1, <4>1, <4>5 DEF Lines
        <5> QED BY <5>1, <5>2
      <4> HIDE DEF r
      <4> QED BY <4>3, <4>5, <4>6, SeqEqual
    <3> HIDE DEF r
    <3>7. Of(a, Lines(b, u)) = OfStep(a, r, Of(a, Lines(b, v)))
      BY <3>4, <3>5, <3>6, OfAppend
    <3>8. Lines(b, u) \in Seq(Record)
      BY <3>4, <3>5, <3>6, AppendProperties
    <3> QED BY <3>2, <3>4, <3>5, <3>7, <3>8 DEF OfStep
  <2> QED BY <2>1
<1>3. T = Nat
  <2> HIDE DEF T
  <2>1. T \in SUBSET Nat
    BY DEF T
  <2> QED BY <1>1, <1>2, <2>1, Counting
<1>4. Len(new) \in T
  <2> HIDE DEF T
  <2> QED BY <1>3, LenProperties
<1> QED BY <1>4

\* What the shards hold depends on the shards that are read, and on no other.
LEMMA ContentSame ==
  ASSUME NEW f, Files(f), NEW h, Files(h), NEW i \in Nat \ {0}, NEW n \in Nat,
         \A j \in i .. n : Shard(f, j) = Shard(h, j)
  PROVE  Content(f, i, n) = Content(h, i, n)
<1> DEFINE T == {m \in Nat : m <= n => Content(f, i, m) = Content(h, i, m)}
<1>1. 0 \in T
  <2>1. Content(f, i, 0) = <<>> /\ Content(h, i, 0) = <<>>
    BY ContentSteps
  <2> QED BY <2>1
<1>2. ASSUME NEW m \in T PROVE m + 1 \in T
  <2>1. CASE m + 1 <= n /\ m + 1 >= i
    <3>1. m + 1 \in i .. n /\ Content(f, i, m) = Content(h, i, m)
      BY <2>1
    <3>2. Content(f, i, m + 1) = Content(f, i, m) \o Shard(f, m + 1)
      BY <2>1, ContentSteps
    <3>3. Content(h, i, m + 1) = Content(h, i, m) \o Shard(h, m + 1)
      BY <2>1, ContentSteps
    <3>4. m + 1 \in Nat /\ Shard(f, m + 1) = Shard(h, m + 1)
      BY <3>1
    <3> QED BY <3>1, <3>2, <3>3, <3>4
  <2>2. CASE m + 1 < i
    <3>1. m + 1 \in Nat
      OBVIOUS
    <3>2. Content(f, i, m + 1) = <<>> /\ Content(h, i, m + 1) = <<>>
      BY <2>2, <3>1, ContentSteps
    <3> QED BY <3>1, <3>2
  <2>3. CASE ~(m + 1 <= n)
    BY <2>3
  <2> QED BY <2>1, <2>2, <2>3
<1>3. T = Nat
  <2> HIDE DEF T
  <2>1. T \in SUBSET Nat
    BY DEF T
  <2> QED BY <1>1, <1>2, <2>1, Counting
<1>4. n \in T
  <2> HIDE DEF T
  <2> QED BY <1>3
<1> QED BY <1>4

\* A new empty shard adds nothing.
LEMMA ContentRolled ==
  ASSUME NEW f, Files(f), NEW i \in Nat \ {0}, NEW n \in Nat, i <= n + 1
  PROVE  Content(With(f, n + 1, <<>>), i, n + 1) = Content(f, i, n)
<1> DEFINE h == With(f, n + 1, <<>>)
<1>1. Files(h)
  BY EmptySeq DEF Files, With
<1>2. \A j \in i .. n : Shard(f, j) = Shard(h, j)
  BY DEF Shard, With
<1>3. Shard(h, n + 1) = <<>>
  BY DEF Shard, With
<1> HIDE DEF h
<1>4. Content(h, i, n) = Content(f, i, n)
  BY <1>1, <1>2, ContentSame
<1>5. Content(h, i, n + 1) = Content(h, i, n) \o <<>> /\ Content(h, i, n) \in Seq(Record)
  BY <1>1, <1>3, ContentSteps
<1>6. Content(h, i, n + 1) = Content(f, i, n)
  BY <1>4, <1>5, ConcatEmptySeq
<1> QED BY <1>6 DEF h

\* The first of the lines goes to the end of the last shard.
LEMMA ContentAppended ==
  ASSUME NEW f, Files(f), NEW i \in Nat \ {0}, NEW n \in Nat \ {0}, i <= n, n \in DOMAIN f,
         NEW ls \in Seq(Record), ls # <<>>
  PROVE  Content(With(f, n, Append(f[n], Head(ls))), i, n) \o Tail(ls) = Content(f, i, n) \o ls
<1> DEFINE h == With(f, n, Append(f[n], Head(ls)))
           before == Content(f, i, n - 1)
<1>0. Head(ls) \in Record /\ Tail(ls) \in Seq(Record) /\ ls = <<Head(ls)>> \o Tail(ls)
  <2>1. Head(ls) \in Record /\ Tail(ls) \in Seq(Record)
    BY HeadTailProperties
  <2>2. Len(ls) \in Nat \ {0}
    BY EmptySeq
  <2>3. 1 \in 1 .. Len(ls) /\ Len(ls) \in 1 .. Len(ls)
    BY <2>2
  <2>4. SubSeq(ls, 1, Len(ls)) = <<ls[1]>> \o SubSeq(ls, 1 + 1, Len(ls))
    BY <2>3, SubSeqRecursiveFirst
  <2>5. SubSeq(ls, 1, Len(ls)) = ls /\ Tail(ls) = SubSeq(ls, 2, Len(ls)) /\ Head(ls) = ls[1]
    BY SubSeqFull, TailIsSubSeq, <2>2
  <2>6. 1 + 1 = 2
    OBVIOUS
  <2> QED BY <2>1, <2>4, <2>5, <2>6
<1> DEFINE r == Head(ls)
           rest == Tail(ls)
<1> HIDE DEF r, rest
<1>1. r \in Record /\ rest \in Seq(Record) /\ <<r>> \in Seq(Record) /\ ls = <<r>> \o rest
  BY <1>0 DEF r, rest
<1>2. f[n] \in Seq(Record) /\ Append(f[n], r) = f[n] \o <<r>> /\ f[n] \o <<r>> \in Seq(Record)
  BY <1>1, AppendIsConcat, ConcatProperties DEF Files
<1>3. h = With(f, n, f[n] \o <<r>>)
  BY <1>2 DEF r
<1>4. Files(h) /\ Shard(h, n) = f[n] \o <<r>> /\ Shard(f, n) = f[n]
      /\ \A j \in i .. n - 1 : Shard(f, j) = Shard(h, j)
  <2>1. DOMAIN h = DOMAIN f \cup {n} /\ \A j \in DOMAIN h : h[j] = IF j = n THEN f[n] \o <<r>> ELSE f[j]
    BY <1>3 DEF With
  <2> HIDE DEF h, r
  <2>2. Files(h)
    BY <2>1, <1>2 DEF Files
  <2>3. Shard(h, n) = f[n] \o <<r>> /\ Shard(f, n) = f[n]
    BY <2>1 DEF Shard
  <2>4. \A j \in i .. n - 1 : Shard(f, j) = Shard(h, j)
    <3> SUFFICES ASSUME NEW j \in i .. n - 1 PROVE Shard(f, j) = Shard(h, j)
      OBVIOUS
    <3>1. j # n
      OBVIOUS
    <3> QED BY <2>1, <3>1 DEF Shard
  <2> QED BY <2>2, <2>3, <2>4
<1> HIDE DEF h
<1>5. n - 1 \in Nat /\ (n - 1) + 1 = n
  OBVIOUS
<1>6. Content(h, i, n - 1) = before /\ before \in Seq(Record)
  BY <1>4, <1>5, ContentSame, ContentSteps
<1>7. Content(f, i, n) = before \o f[n]
  <2>1. Content(f, i, (n - 1) + 1) = Content(f, i, n - 1) \o Shard(f, (n - 1) + 1)
    <3>1. (n - 1) + 1 >= i
      OBVIOUS
    <3> QED BY <1>5, <3>1, ContentSteps
  <2> QED BY <2>1, <1>4, <1>5
<1>8. Content(h, i, n) = before \o (f[n] \o <<r>>)
  <2>1. Content(h, i, (n - 1) + 1) = Content(h, i, n - 1) \o Shard(h, (n - 1) + 1)
    <3>1. (n - 1) + 1 >= i
      OBVIOUS
    <3> QED BY <1>4, <1>5, <3>1, ContentSteps
  <2> QED BY <2>1, <1>4, <1>5, <1>6
<1> HIDE DEF before
<1>9. before \o (f[n] \o <<r>>) = (before \o f[n]) \o <<r>>
  BY <1>1, <1>2, <1>6, ConcatAssociative
<1>10. before \o f[n] \in Seq(Record)
  BY <1>2, <1>6, ConcatProperties
<1>11. ((before \o f[n]) \o <<r>>) \o rest = (before \o f[n]) \o (<<r>> \o rest)
  <2> HIDE DEF before
  <2> QED BY Associative, <1>1, <1>10, SMTT(30)
<1>12. Content(h, i, n) \o rest = Content(f, i, n) \o ls
  BY <1>1, <1>7, <1>8, <1>9, <1>11
<1> QED BY <1>12 DEF h, rest

\* the phases of the process, and the operations each allows
PhasesFit ==
    /\ up \in BOOLEAN /\ open \in BOOLEAN /\ closing \in BOOLEAN
    /\ ~(open /\ closing)
    /\ ~up => ~open /\ ~closing /\ pc = "free"
    /\ pc = "archive" => closing
    /\ pc = "unarchive" => ~open /\ ~closing

\* no active index is unknown to a running store, which registers a base before it
\* writes one; Archive takes the index away before the shards
BaseKnown ==
    /\ DOMAIN index = Base
    /\ Saving => based
    /\ up /\ ~based /\ pc # "unarchive" => index["active"] = None
    /\ pc = "archive" => index["active"] = None

\* a save of a session that is closed began after its removal
SaveIsLate == Saving /\ ~open /\ ~closing => "late" \in damage

IInv == PhasesFit /\ BaseKnown /\ SaveIsLate /\ ClosedStaysClosed

-----------------------------------------------------------------------------
\* A new process has no session on disk.
LEMMA InitIInv == Init => IInv
BY DEF Init, IInv, PhasesFit, BaseKnown, SaveIsLate, ClosedStaysClosed, Saving, Base

\* Agents that speak, are compacted or spawned, and threads that wait for the lock,
\* touch neither the index nor the phases.
LEMMA AgentsKeepIInv ==
    ASSUME IInv,
           \/ \E a \in Agents : Say(a) \/ Compact(a) \/ Spawn(a)
           \/ \E t \in Threads : Persist(t)
    PROVE  IInv'
<1>1. UNCHANGED <<up, open, closing, based, pc, index, damage>>
  BY DEF Say, Compact, Spawn, Persist, store, operation, disk, history
<1> QED
  BY <1>1 DEF IInv, PhasesFit, BaseKnown, SaveIsLate, ClosedStaysClosed, Saving

\* A save that begins notes when its session is gone.
LEMMA SaveBeginKeepsIInv ==
    ASSUME IInv, NEW t \in Threads, SaveBegin(t)
    PROVE  IInv'
<1>1. /\ pc = "free" /\ pc' = "encode" /\ based' = TRUE
      /\ UNCHANGED <<up, open, closing, index>>
      /\ damage' = IF open THEN damage ELSE damage \cup {"late"}
      /\ up
  BY DEF SaveBegin, memory, disk
<1> QED
  BY <1>1 DEF IInv, PhasesFit, BaseKnown, SaveIsLate, ClosedStaysClosed, Saving

-----------------------------------------------------------------------------
\* A step of a save keeps the session's phase, and writes an index only for a base
\* that the store knows.
LEMMA SaveStepKeepsIInv ==
    ASSUME IInv, SaveStep
    PROVE  IInv'
<1>1. /\ Saving /\ (Saving' \/ pc' = "free")
      /\ UNCHANGED <<up, open, closing, based>>
      /\ DOMAIN index' = DOMAIN index
      /\ "late" \in damage => "late" \in damage'
  <2>1. CASE Encode
    BY <2>1 DEF Encode, Saving, memory, store, disk, history
  <2>2. CASE Roll \/ WriteLine \/ RemoveOrphans
    BY <2>2 DEF Roll, WriteLine, RemoveOrphans, Saving, memory, store, history
  <2>3. CASE WriteIndex
    BY <2>3 DEF WriteIndex, Saving, memory
  <2>4. CASE RecordLength \/ RecordEpoch
    BY <2>4 DEF RecordLength, RecordEpoch, Idle, Saving, memory, disk, history
  <2>5. CASE SaveFails
    BY <2>5 DEF SaveFails, GivesUp, Idle, Saving, disk
  <2> QED
    BY <2>1, <2>2, <2>3, <2>4, <2>5 DEF SaveStep
<1>2. up /\ based
  BY <1>1 DEF IInv, PhasesFit, BaseKnown, Saving
<1>3. PhasesFit'
  BY <1>1, <1>2 DEF IInv, PhasesFit, Saving
<1>4. BaseKnown'
  BY <1>1, <1>2 DEF IInv, BaseKnown, Saving
<1>5. ~open /\ ~closing => "late" \in damage'
  BY <1>1 DEF IInv, SaveIsLate
<1> QED
  BY <1>1, <1>3, <1>4, <1>5 DEF IInv, SaveIsLate, ClosedStaysClosed

\* Archiving: the active index is the first thing to go, so that the session is
\* closed once its phase says so.
LEMMA ArchiveKeepsIInv ==
    ASSUME IInv, Remove \/ ArchiveBegin \/ ArchiveShard \/ ArchiveEnd
    PROVE  IInv'
<1>1. CASE Remove
  <2>1. /\ open /\ open' = FALSE /\ closing' = TRUE /\ up
        /\ UNCHANGED <<up, based, pc, index, damage>>
    BY <1>1 DEF Remove, store, operation, disk, history
  <2> QED
    BY <2>1 DEF IInv, PhasesFit, BaseKnown, SaveIsLate, ClosedStaysClosed, Saving
<1>2. CASE ArchiveBegin
  <2>1. /\ up /\ closing /\ pc = "free"
        /\ UNCHANGED <<up, open, based, damage>>
    BY <1>2 DEF ArchiveBegin, store, history
  <2>2. CASE ~based \/ index["active"] = None
    <3>1. index["active"] = None /\ UNCHANGED <<index, pc>> /\ closing' = FALSE
      BY <1>2, <2>1, <2>2 DEF ArchiveBegin, IInv, BaseKnown
    <3> QED
      BY <2>1, <3>1 DEF IInv, PhasesFit, BaseKnown, SaveIsLate, ClosedStaysClosed, Saving
  <2>3. CASE ~(~based \/ index["active"] = None)
    <3>1. /\ pc' = "archive" /\ closing' = closing
          /\ index' = [Renamed(index) EXCEPT !["archived"] = index["active"]]
      BY <1>2, <2>3 DEF ArchiveBegin
    <3>2. DOMAIN index' = Base /\ index'["active"] = None
      BY <3>1 DEF Renamed, IInv, BaseKnown, Base
    <3> QED
      BY <2>1, <3>1, <3>2
      DEF IInv, PhasesFit, BaseKnown, SaveIsLate, ClosedStaysClosed, Saving
  <2> QED
    BY <2>2, <2>3
<1>3. CASE ArchiveShard
  <2>1. UNCHANGED <<up, open, closing, based, pc, index, damage>>
    BY <1>3 DEF ArchiveShard, memory, store, history
  <2> QED
    BY <2>1 DEF IInv, PhasesFit, BaseKnown, SaveIsLate, ClosedStaysClosed, Saving
<1>4. CASE ArchiveEnd
  <2>1. /\ pc = "archive" /\ pc' = "free" /\ closing' = FALSE
        /\ UNCHANGED <<up, open, index, damage>>
    BY <1>4 DEF ArchiveEnd, Idle, disk
  <2> QED
    BY <2>1 DEF IInv, PhasesFit, BaseKnown, SaveIsLate, ClosedStaysClosed, Saving
<1> QED
  BY <1>1, <1>2, <1>3, <1>4

\* Reopening: the session is open before the lock is free again.
LEMMA ContinueKeepsIInv ==
    ASSUME IInv, Continue \/ UnarchiveShard \/ UnarchiveEnd
    PROVE  IInv'
<1>1. CASE Continue
  <2>1. up /\ ~open /\ ~closing /\ pc = "free" /\ UNCHANGED <<up, closing, damage>>
    BY <1>1 DEF Continue
  <2>2. CASE index["active"] # None
    <3>1. open' = TRUE /\ based' = TRUE /\ UNCHANGED <<index, pc>>
      BY <1>1, <2>2 DEF Continue, AdoptLoaded
    <3> QED
      BY <2>1, <3>1 DEF IInv, PhasesFit, BaseKnown, SaveIsLate, ClosedStaysClosed, Saving
  <2>3. CASE index["active"] = None
    <3>1. /\ pc' = "unarchive" /\ UNCHANGED <<open, based>>
          /\ DOMAIN index' = DOMAIN index
      BY <1>1, <2>3 DEF Continue, store, IInv, BaseKnown
    <3> QED
      BY <2>1, <3>1 DEF IInv, PhasesFit, BaseKnown, SaveIsLate, ClosedStaysClosed, Saving
  <2> QED
    BY <2>2, <2>3
<1>2. CASE UnarchiveShard
  <2>1. UNCHANGED <<up, open, closing, based, pc, index, damage>>
    BY <1>2 DEF UnarchiveShard, memory, store, history
  <2> QED
    BY <2>1 DEF IInv, PhasesFit, BaseKnown, SaveIsLate, ClosedStaysClosed, Saving
<1>3. CASE UnarchiveEnd
  <2>1. /\ pc = "unarchive" /\ pc' = "free" /\ open' = TRUE /\ based' = TRUE
        /\ UNCHANGED <<up, closing, index, damage>>
    BY <1>3 DEF UnarchiveEnd, AdoptLoaded, Idle, disk
  <2> QED
    BY <2>1 DEF IInv, PhasesFit, BaseKnown, SaveIsLate, ClosedStaysClosed, Saving
<1> QED
  BY <1>1, <1>2, <1>3

\* A new process opens exactly the session whose active index it finds.
LEMMA ProcessKeepsIInv ==
    ASSUME IInv, Crash \/ Restart
    PROVE  IInv'
<1>1. CASE Crash
  <2>1. /\ up' = FALSE /\ open' = FALSE /\ closing' = FALSE /\ pc' = "free"
        /\ UNCHANGED index
    BY <1>1 DEF Crash, Idle, disk
  <2> QED
    BY <2>1 DEF IInv, PhasesFit, BaseKnown, SaveIsLate, ClosedStaysClosed, Saving
<1>2. CASE Restart
  <2>1. ~up /\ up' = TRUE /\ UNCHANGED <<closing, pc, index, damage>>
    BY <1>2 DEF Restart, operation, disk
  <2>2. ~closing /\ pc = "free"
    BY <2>1 DEF IInv, PhasesFit
  <2>3. CASE index["active"] # None
    <3>1. open' = TRUE /\ based' = TRUE
      BY <1>2, <2>3 DEF Restart, AdoptLoaded
    <3> QED
      BY <2>1, <2>2, <3>1
      DEF IInv, PhasesFit, BaseKnown, SaveIsLate, ClosedStaysClosed, Saving
  <2>4. CASE index["active"] = None
    <3>1. UNCHANGED <<open, based>>
      BY <1>2, <2>4 DEF Restart, store
    <3> QED
      BY <2>1, <2>2, <2>4, <3>1
      DEF IInv, PhasesFit, BaseKnown, SaveIsLate, ClosedStaysClosed, Saving
  <2> QED
    BY <2>3, <2>4
<1> QED
  BY <1>1, <1>2

-----------------------------------------------------------------------------
\* Every step keeps the invariant.
LEMMA StepIInv == IInv /\ [Next]_vars => IInv'
<1> SUFFICES ASSUME IInv, [Next]_vars PROVE IInv'
  OBVIOUS
<1>1. CASE \/ \E a \in Agents : Say(a) \/ Compact(a) \/ Spawn(a)
           \/ \E t \in Threads : Persist(t)
  BY <1>1, AgentsKeepIInv
<1>2. ASSUME NEW t \in Threads, SaveBegin(t) PROVE IInv'
  BY <1>2, SaveBeginKeepsIInv
<1>3. CASE SaveStep
  BY <1>3, SaveStepKeepsIInv
<1>4. CASE Remove \/ ArchiveBegin \/ ArchiveShard \/ ArchiveEnd
  BY <1>4, ArchiveKeepsIInv
<1>5. CASE Continue \/ UnarchiveShard \/ UnarchiveEnd
  BY <1>5, ContinueKeepsIInv
<1>6. CASE Crash \/ Restart
  BY <1>6, ProcessKeepsIInv
<1>7. CASE UNCHANGED vars
  BY <1>7 DEF vars, memory, store, operation, disk, history,
              IInv, PhasesFit, BaseKnown, SaveIsLate, ClosedStaysClosed, Saving
<1> QED
  BY <1>1, <1>2, <1>3, <1>4, <1>5, <1>6, <1>7 DEF Next, ArchiveStep

\* Archive, RestoreSessions: once RemoveSession is done with a session, the store
\* holds no active index of it, so no later start restores it, however saves,
\* closings, reopenings and crashes interleave, unless a save of it began after its
\* removal.
THEOREM ClosedIsFinal == Spec => []ClosedStaysClosed
<1>1. IInv => ClosedStaysClosed
  BY DEF IInv
<1> QED
  BY InitIInv, StepIInv, <1>1, PTL DEF Spec
-----------------------------------------------------------------------------
(* Types.                                                                    *)

\* The elements of a sequence belong to what it is a sequence of.
LEMMA ElementsOf ==
  ASSUME NEW S, NEW s \in Seq(S)
  PROVE  SetOf(s) \subseteq S
BY LenProperties, ElementOfSeq DEF SetOf

\* what no step of a group touches keeps its type
LEMMA Untouched ==
  ASSUME TypeOK
  PROVE  /\ UNCHANGED <<up, memory, next, crashes>> => ProcessOK'
         /\ UNCHANGED store => StoreOK'
         /\ UNCHANGED operation => OperationOK'
         /\ UNCHANGED disk => DiskOK'
         /\ UNCHANGED history => HistoryOK'
<1>1. UNCHANGED <<up, memory, next, crashes>> => ProcessOK'
  BY DEF TypeOK, ProcessOK, memory
<1>2. UNCHANGED store => StoreOK'
  BY DEF TypeOK, StoreOK, store
<1>3. UNCHANGED operation => OperationOK'
  BY DEF TypeOK, OperationOK, operation
<1>4. UNCHANGED disk => DiskOK'
  BY DEF TypeOK, DiskOK, disk
<1>5. UNCHANGED history => HistoryOK'
  BY DEF TypeOK, HistoryOK, history
<1> QED
  BY <1>1, <1>2, <1>3, <1>4, <1>5

\* each step of an operation finds what the steps before it have prepared
Ready ==
    /\ open \/ call # {} => present # <<>>
    /\ Saving => agents # <<>> /\ todo # <<>>
    /\ pc = "write" => lines # <<>>
    /\ pc \in {"length", "epoch"} \/ (Saving /\ ~full) => st # None
    /\ ~Saving => ~full

\* The first state has its types.
LEMMA InitTypeOK == Init => TypeOK
<1> SUFFICES ASSUME Init PROVE TypeOK
  OBVIOUS
<1>1. \A S : <<>> \in Seq(S)
  BY EmptySeq
<1>2. ProcessOK
  <2>1. <<Root>> \in Seq(Agents)
    BY DEF Agents
  <2>2. tr \in [Agents -> Seq(Nat)] /\ epoch \in [Agents -> Nat]
    BY <1>1 DEF Init, Nothing, Zero
  <2>3. /\ up \in BOOLEAN /\ open \in BOOLEAN /\ closing \in BOOLEAN
        /\ next \in Nat /\ crashes \in Nat
    BY DEF Init
  <2>4. present \in Seq(Agents) /\ call \subseteq Threads
    BY <2>1 DEF Init
  <2> QED
    BY <2>2, <2>3, <2>4 DEF ProcessOK
<1>3. StoreOK
  BY <1>1 DEF Init, StoreOK
<1>4. OperationOK
  BY <1>1 DEF Init, OperationOK, PC
<1>5. DiskOK
  BY DEF Init, DiskOK
<1>6. HistoryOK
  BY DEF Init, HistoryOK
<1> QED
  BY <1>2, <1>3, <1>4, <1>5, <1>6 DEF TypeOK

\* Agents that speak, are compacted or spawned, and threads that wait, keep the types.
LEMMA AgentsKeepTypeOK ==
    ASSUME TypeOK, NEW a \in Agents, Say(a) \/ Compact(a) \/ Spawn(a)
    PROVE  TypeOK'
<1>1. CASE Say(a)
  <2>1. /\ tr' = [tr EXCEPT ![a] = Append(tr[a], next)]
        /\ next' = next + 1
        /\ racing' \subseteq racing \cup {a}
        /\ UNCHANGED <<up, open, closing, present, epoch, call, crashes>>
        /\ UNCHANGED <<store, operation, disk, raced, reused, first, reported, damage>>
    BY <1>1 DEF Say
  <2>2. Append(tr[a], next) \in Seq(Nat)
    BY AppendProperties DEF TypeOK, ProcessOK
  <2>3. ProcessOK'
    BY <2>1, <2>2 DEF TypeOK, ProcessOK
  <2>4. HistoryOK'
    BY <2>1 DEF TypeOK, HistoryOK
  <2> QED
    BY <2>1, <2>3, <2>4, Untouched DEF TypeOK
<1>2. CASE Compact(a)
  <2>1. /\ tr' = [tr EXCEPT ![a] = <<next>>]
        /\ epoch' = [epoch EXCEPT ![a] = epoch[a] + 1]
        /\ next' = next + 1
        /\ racing' \subseteq racing \cup {a}
        /\ UNCHANGED <<up, open, closing, present, call, crashes>>
        /\ UNCHANGED <<store, operation, disk, raced, reused, first, reported, damage>>
    BY <1>2 DEF Compact
  <2>2. <<next>> \in Seq(Nat)
    BY DEF TypeOK, ProcessOK
  <2>3. ProcessOK'
    BY <2>1, <2>2 DEF TypeOK, ProcessOK
  <2>4. HistoryOK'
    BY <2>1 DEF TypeOK, HistoryOK
  <2> QED
    BY <2>1, <2>3, <2>4, Untouched DEF TypeOK
<1>3. CASE Spawn(a)
  <2>1. /\ present' = Append(present, a)
        /\ UNCHANGED <<up, open, closing, tr, epoch, call, store, operation, disk,
                       next, crashes, history>>
    BY <1>3 DEF Spawn
  <2>2. present' \in Seq(Agents)
    BY <2>1, AppendProperties DEF TypeOK, ProcessOK
  <2>3. ProcessOK'
    BY <2>1, <2>2 DEF TypeOK, ProcessOK
  <2> QED
    BY <2>1, <2>3, Untouched DEF TypeOK
<1> QED
  BY <1>1, <1>2, <1>3

\* A save, an archiving or a removal that begins keeps the types.
LEMMA BeginningsKeepTypeOK ==
    ASSUME TypeOK, NEW t \in Threads, Persist(t) \/ SaveBegin(t)
    PROVE  TypeOK'
<1>1. CASE Persist(t)
  <2>1. /\ call' = call \cup {t}
        /\ UNCHANGED <<up, open, closing, present, tr, epoch, store, operation, disk,
                       next, crashes, history>>
    BY <1>1 DEF Persist
  <2>2. ProcessOK'
    BY <2>1 DEF TypeOK, ProcessOK
  <2> QED
    BY <2>1, <2>2, Untouched DEF TypeOK
<1>2. CASE SaveBegin(t)
  <2>1. /\ based' = TRUE /\ pc' = "encode" /\ holder' = t
        /\ full' = (st = None \/ Compacted)
        /\ agents' = present /\ todo' = present /\ lines' = <<>>
        /\ sms' \in {<<>>, shards}
        /\ racing' = {}
        /\ damage' \subseteq damage \cup {"late"}
        /\ UNCHANGED <<up, memory, st, shards, moved, disk, next, crashes, raced,
                       reused, first, reported>>
    BY <1>2 DEF SaveBegin
  <2>2. StoreOK'
    BY <2>1 DEF TypeOK, StoreOK
  <2>3. OperationOK'
    <3>1. lines' \in Seq(Record) /\ sms' \in Seq(Nat)
      BY <2>1, EmptySeq DEF TypeOK, StoreOK
    <3>2. full' \in BOOLEAN
      BY <2>1
    <3> QED
      BY <2>1, <3>1, <3>2 DEF TypeOK, OperationOK, ProcessOK, PC
  <2>4. HistoryOK'
    BY <2>1 DEF TypeOK, HistoryOK
  <2>5. UNCHANGED <<up, memory, next, crashes>> /\ UNCHANGED disk
    BY <2>1
  <2> QED
    BY <2>2, <2>3, <2>4, <2>5, Untouched DEF TypeOK
<1> QED
  BY <1>1, <1>2

\* the lock is free again
LEMMA IdleTyped ==
    ASSUME Idle
    PROVE  OperationOK' /\ racing' = {} /\ pc' = "free" /\ ~full' /\ ~Saving'
<1>1. <<>> \in Seq(Agents) /\ <<>> \in Seq(Record) /\ <<>> \in Seq(Nat)
  BY EmptySeq
<1>2. OperationOK'
  BY <1>1 DEF Idle, OperationOK, PC
<1> QED
  BY <1>2 DEF Idle, Saving

\* The rest of a sequence that is not empty is a sequence of the same set.
LEMMA TailTyped ==
  ASSUME NEW S, NEW s \in Seq(S), Len(s) > 1
  PROVE  s # <<>> /\ Tail(s) \in Seq(S) /\ Head(s) \in S /\ Tail(s) # <<>>
<1>1. s # <<>>
  BY EmptySeq
<1>2. Tail(s) \in Seq(S) /\ Head(s) \in S /\ Len(Tail(s)) = Len(s) - 1
  BY <1>1, HeadTailProperties
<1>3. Len(s) \in Nat /\ Len(s) > 1
  BY LenProperties
<1>4. Len(Tail(s)) # 0
  BY <1>2, <1>3
<1> QED
  BY <1>1, <1>2, <1>4, EmptySeq

\* the records that a step of encodeMessages adds
LEMMA EncodedTyped ==
    ASSUME TypeOK, Ready, pc = "encode"
    PROVE  LET a == Head(todo)
               new == SubSeq(tr[a], Offset(a) + 1, Len(tr[a]))
           IN /\ a \in Agents /\ Offset(a) \in Nat /\ new \in Seq(Nat)
              /\ [i \in DOMAIN new |-> [agent |-> a, msg |-> new[i]]] \in Seq(Record)
              /\ Len([i \in DOMAIN new |-> [agent |-> a, msg |-> new[i]]]) = Len(new)
<1> DEFINE a == Head(todo)
           new == SubSeq(tr[a], Offset(a) + 1, Len(tr[a]))
           said == [i \in DOMAIN new |-> [agent |-> a, msg |-> new[i]]]
<1>1. a \in Agents
  BY HeadTailProperties DEF TypeOK, OperationOK, Ready, Saving
<1>2. tr[a] \in Seq(Nat)
  BY <1>1 DEF TypeOK, ProcessOK
<1>3. Offset(a) \in Nat
  <2>1. CASE full
    BY <2>1 DEF Offset
  <2>2. CASE ~full
    <3>1. st \in Frontiers
      BY <2>2 DEF Ready, Saving, TypeOK, StoreOK
    <3>2. st.persisted \in [Agents -> Nat]
      BY <3>1 DEF Frontiers
    <3> QED
      BY <3>2, <2>2, <1>1 DEF Offset
  <2> QED
    BY <2>1, <2>2
<1>4. Len(tr[a]) \in Nat /\ \A i \in 1 .. Len(tr[a]) : tr[a][i] \in Nat
  BY <1>2, LenProperties, ElementOfSeq
<1>5. new \in Seq(Nat)
  <2>1. \A i \in Offset(a) + 1 .. Len(tr[a]) : tr[a][i] \in Nat
    BY <1>3, <1>4
  <2>2. Offset(a) + 1 \in Int /\ Len(tr[a]) \in Int
    BY <1>3, <1>4
  <2> QED
    BY <2>1, <2>2, SubSeqProperties
<1>6. said \in Seq(Record) /\ Len(said) = Len(new)
  <2>1. DOMAIN new = 1 .. Len(new) /\ Len(new) \in Nat
    BY <1>5, LenProperties
  <2>2. \A i \in 1 .. Len(new) : [agent |-> a, msg |-> new[i]] \in Record
    <3> HIDE DEF new, a
    <3> QED BY <1>1, <1>5, ElementOfSeq DEF Record
  <2> HIDE DEF new, a
  <2>3. said = [i \in 1 .. Len(new) |-> [agent |-> a, msg |-> new[i]]]
    BY <2>1
  <2> QED
    BY <2>1, <2>2, <2>3
<1> QED
  BY <1>1, <1>3, <1>5, <1>6

\* encodeMessages and removing orphans keep the types.
LEMMA EncodeKeepsTypeOK ==
    ASSUME TypeOK, Ready, Encode
    PROVE  TypeOK' /\ Ready'
<1> DEFINE a == Head(todo)
           new == SubSeq(tr[a], Offset(a) + 1, Len(tr[a]))
           said == [i \in DOMAIN new |-> [agent |-> a, msg |-> new[i]]]
<1>1. /\ pc = "encode" /\ lines' = lines \o said
      /\ \/ Len(todo) > 1 /\ pc' = "encode" /\ todo' = Tail(todo)
         \/ /\ todo' = agents
            /\ \/ lines' # <<>> /\ pc' = "write"
               \/ full /\ pc' = "orphans"
               \/ ~full /\ pc' \in {"index", "length"}
      /\ UNCHANGED <<up, memory, store, holder, full, agents, sms, moved, disk, next,
                     crashes, history>>
  BY DEF Encode
<1>2. said \in Seq(Record)
  BY <1>1, EncodedTyped
<1> HIDE DEF said
<1>3. lines' \in Seq(Record)
  BY <1>1, <1>2, ConcatProperties DEF TypeOK, OperationOK
<1>4. todo' \in Seq(Agents) /\ pc' \in PC
  BY <1>1, TailTyped DEF TypeOK, OperationOK, PC
<1>5. OperationOK'
  BY <1>1, <1>3, <1>4 DEF TypeOK, OperationOK
<1>6. TypeOK'
  BY <1>1, <1>5, Untouched DEF TypeOK
<1>7. todo' # <<>> /\ agents # <<>>
  BY <1>1, TailTyped DEF Ready, Saving, TypeOK, OperationOK
<1>8. Saving /\ Saving'
  BY <1>1 DEF Saving
<1>9. UNCHANGED <<open, call, present, agents, st, full>>
  BY <1>1 DEF memory, store
<1>10. /\ pc' = "write" => lines' # <<>>
       /\ pc' \in {"length", "epoch"} => ~full
  BY <1>1
<1> QED
  BY <1>6, <1>7, <1>8, <1>9, <1>10 DEF Ready

\* In the first state no save runs.
LEMMA InitReady == Init => Ready
BY DEF Init, Ready, Saving

\* Agents do not touch the agents of a save.
LEMMA AgentsKeepReady ==
    ASSUME TypeOK, Ready, NEW a \in Agents, Say(a) \/ Compact(a) \/ Spawn(a)
    PROVE  Ready'
<1>1. UNCHANGED <<open, call, store, operation>>
  BY DEF Say, Compact, Spawn
<1>2. present # <<>> => present' # <<>>
  <2>1. CASE present' = Append(present, a)
    <3>0. present \in Seq(Agents)
      BY DEF TypeOK, ProcessOK
    <3>1. Append(present, a) # <<>>
      BY <3>0, AppendProperties
    <3> QED
      BY <2>1, <3>1
  <2>2. CASE present' = present
    BY <2>2
  <2> QED
    BY <2>1, <2>2 DEF Say, Compact, Spawn
<1> QED
  BY <1>1, <1>2 DEF Ready, Saving, store, operation

\* A save begins with the agents it has to encode.
LEMMA BeginningsKeepReady ==
    ASSUME TypeOK, Ready, NEW t \in Threads, Persist(t) \/ SaveBegin(t)
    PROVE  Ready'
<1>1. CASE Persist(t)
  BY <1>1 DEF Persist, Ready, Saving, store, operation
<1>2. CASE SaveBegin(t)
  <2>1. /\ pc' = "encode" /\ t \in call
        /\ full' = (st = None \/ Compacted)
        /\ agents' = present /\ todo' = present
        /\ UNCHANGED <<open, present, call, st>>
    BY <1>2 DEF SaveBegin, memory
  <2>2. present # <<>>
    BY <2>1 DEF Ready
  <2> QED
    BY <2>1, <2>2 DEF Ready, Saving
<1> QED
  BY <1>1, <1>2

\* the lock is given back, or was free
LEMMA FreeReady ==
    ASSUME ~Saving', ~full', open' \/ call' # {} => present' # <<>>
    PROVE  Ready'
BY DEF Ready, Saving

\* the files of the active base get a shard
LEMMA ShardWritten ==
    ASSUME TypeOK, NEW i \in Nat \ {0}, NEW content \in Seq(Record),
           files' = [files EXCEPT !["active"] = With(files["active"], i, content)],
           index' = index
    PROVE  DiskOK'
<1>1. DOMAIN files = Base
  BY DEF TypeOK, DiskOK
<1>2. files'["active"] = With(files["active"], i, content) /\ files'["archived"] = files["archived"]
  BY <1>1 DEF Base
<1>3. ASSUME NEW j \in DOMAIN files'["active"]
      PROVE  j \in Nat \ {0} /\ files'["active"][j] \in Seq(Record)
  BY <1>2, <1>3 DEF With, TypeOK, DiskOK, Base
<1> QED
  BY <1>1, <1>2, <1>3 DEF TypeOK, DiskOK, Base

\* Writing lines and the index keeps the types.
LEMMA WriteKeepsTypeOK ==
    ASSUME TypeOK, Ready, Roll \/ WriteLine \/ RemoveOrphans
    PROVE  TypeOK' /\ Ready'
<1>0. Len(sms) \in Nat /\ sms \in Seq(Nat)
  BY LenProperties DEF TypeOK, OperationOK
<1>1. CASE Roll
  <2>1. /\ pc = "write"
        /\ files' = [files EXCEPT !["active"] = With(files["active"], Len(sms) + 1, <<>>)]
        /\ sms' = Append(sms, 0)
        /\ UNCHANGED <<up, memory, store, pc, holder, full, agents, todo, lines, moved,
                       index, next, crashes, history>>
    BY <1>1 DEF Roll, NextIndex
  <2>a. Len(sms) + 1 \in Nat \ {0} /\ <<>> \in Seq(Record)
    BY <1>0, EmptySeq
  <2>2. DiskOK'
    BY <2>1, <2>a, ShardWritten
  <2>3. OperationOK'
    BY <2>1, <1>0, AppendProperties DEF TypeOK, OperationOK
  <2>4. Ready'
    BY <2>1 DEF Ready, Saving, memory, store
  <2> QED
    BY <2>1, <2>2, <2>3, <2>4, Untouched DEF TypeOK
<1>2. CASE WriteLine
  <2>1. /\ pc = "write" /\ Len(sms) \in DOMAIN files["active"]
        /\ files' = [files EXCEPT !["active"] =
               With(files["active"], Len(sms), Append(files["active"][Len(sms)], Head(lines)))]
        /\ sms' = [sms EXCEPT ![Len(sms)] = sms[Len(sms)] + 1]
        /\ lines' = Tail(lines)
        /\ \/ Len(lines) > 1 /\ pc' = "write"
           \/ full /\ pc' = "orphans"
           \/ ~full /\ pc' = "index"
        /\ UNCHANGED <<up, memory, store, holder, full, agents, todo, moved, index, next,
                       crashes, history>>
    BY <1>2 DEF WriteLine
  <2>2. lines # <<>> /\ lines \in Seq(Record)
    BY <2>1 DEF Ready, TypeOK, OperationOK
  <2>3. Head(lines) \in Record /\ lines' \in Seq(Record)
    BY <2>1, <2>2, HeadTailProperties
  <2>4. Len(sms) \in Nat \ {0} /\ files["active"][Len(sms)] \in Seq(Record)
    BY <2>1 DEF TypeOK, DiskOK, Base
  <2>a. Append(files["active"][Len(sms)], Head(lines)) \in Seq(Record)
    BY <2>3, <2>4, AppendProperties
  <2>5. DiskOK'
    BY <2>1, <2>a, <2>4, ShardWritten
  <2>6. sms' \in Seq(Nat)
    <3>1. Len(sms) \in 1 .. Len(sms)
      BY <2>4
    <3>2. sms[Len(sms)] \in Nat
      BY <3>1, <1>0, ElementOfSeq
    <3> QED
      BY <3>1, <3>2, <1>0, <2>1, ExceptSeq
  <2>7. OperationOK'
    BY <2>1, <2>3, <2>6 DEF TypeOK, OperationOK, PC
  <2>8. pc' = "write" => lines' # <<>>
    BY <2>1, <2>2, TailTyped
  <2>9. Ready'
    BY <2>1, <2>8 DEF Ready, Saving, memory, store
  <2> QED
    BY <2>1, <2>5, <2>7, <2>9, Untouched DEF TypeOK
<1>3. CASE RemoveOrphans
  <2>1. /\ pc = "orphans" /\ pc' = "index"
        /\ files' = [files EXCEPT !["active"] = Without(files["active"], Orphans)]
        /\ UNCHANGED <<up, memory, store, holder, full, agents, todo, lines, sms, moved,
                       index, next, crashes, history>>
    BY <1>3 DEF RemoveOrphans
  <2>2. DiskOK'
    BY <2>1 DEF TypeOK, DiskOK, Base, Without
  <2>3. OperationOK'
    BY <2>1 DEF TypeOK, OperationOK, PC
  <2>4. Ready'
    BY <2>1 DEF Ready, Saving, memory, store
  <2> QED
    BY <2>1, <2>2, <2>3, <2>4, Untouched DEF TypeOK
<1> QED
  BY <1>1, <1>2, <1>3

\* What shards hold is messages.
LEMMA HeldTyped ==
    ASSUME NEW f, Files(f), NEW n \in Nat
    PROVE  Held(f, n) \subseteq Nat
<1>1. ASSUME NEW j \in DOMAIN f, NEW r \in SetOf(f[j]) PROVE r.msg \in Nat
  <2>1. r \in Record
    BY <1>1, ElementsOf DEF Files
  <2> QED
    BY <2>1 DEF Record
<1> QED
  BY <1>1 DEF Held

\* the frontier of one agent
LEMMA FrontierTyped ==
    ASSUME NEW s \in Frontiers, NEW a, NEW k \in Nat
    PROVE  /\ [s EXCEPT !.persisted = [@ EXCEPT ![a] = k]] \in Frontiers
           /\ [s EXCEPT !.epoch = [@ EXCEPT ![a] = k]] \in Frontiers
           /\ s # None
<1>1. s.persisted \in [Agents -> Nat] /\ s.epoch \in [Agents -> Nat \cup {None}]
  BY DEF Frontiers
<1> DEFINE p == [s.persisted EXCEPT ![a] = k]
           e == [s.epoch EXCEPT ![a] = k]
<1>2. p \in [Agents -> Nat] /\ e \in [Agents -> Nat \cup {None}]
  BY <1>1
<1> HIDE DEF p, e
<1>3. [s EXCEPT !.persisted = p] \in Frontiers /\ [s EXCEPT !.epoch = e] \in Frontiers
  BY <1>2 DEF Frontiers
<1>4. s # None
  BY StoreAssumption
<1> QED
  BY <1>3, <1>4 DEF p, e

\* A frontier with a new number of messages or epoch is a frontier.
LEMMA RecordedTyped ==
    ASSUME TypeOK, Ready, RecordLength \/ RecordEpoch
    PROVE  st' \in Frontiers /\ st' # None /\ todo # <<>> /\ agents # <<>>
<1>1. st \in Frontiers /\ todo # <<>> /\ agents # <<>>
  BY DEF TypeOK, StoreOK, Ready, Saving, RecordLength, RecordEpoch
<1>2. Head(todo) \in Agents
  BY <1>1, HeadTailProperties DEF TypeOK, OperationOK
<1>3. tr[Head(todo)] \in Seq(Nat) /\ epoch[Head(todo)] \in Nat
  BY <1>2 DEF TypeOK, ProcessOK
<1>4. Len(tr[Head(todo)]) \in Nat
  BY <1>3, LenProperties
<1>5. \/ st' = [st EXCEPT !.persisted = [@ EXCEPT ![Head(todo)] = Len(tr[Head(todo)])]]
      \/ st' = [st EXCEPT !.epoch = [@ EXCEPT ![Head(todo)] = epoch[Head(todo)]]]
  BY DEF RecordLength, RecordEpoch
<1>6. st' \in Frontiers
  <2>1. CASE st' = [st EXCEPT !.persisted = [@ EXCEPT ![Head(todo)] = Len(tr[Head(todo)])]]
    BY <1>1, <1>4, <2>1, FrontierTyped
  <2>2. CASE st' = [st EXCEPT !.epoch = [@ EXCEPT ![Head(todo)] = epoch[Head(todo)]]]
    BY <1>1, <1>3, <2>2, FrontierTyped
  <2> QED
    BY <1>5, <2>1, <2>2
<1> QED
  BY <1>1, <1>6, StoreAssumption

\* recordFrontier and a save that fails keep the types.
LEMMA RecordKeepsTypeOK ==
    ASSUME TypeOK, Ready, WriteIndex \/ RecordLength \/ RecordEpoch \/ SaveFails
    PROVE  TypeOK' /\ Ready'
<1>1. CASE WriteIndex
  <2>1. /\ pc = "index" /\ pc' = "length"
        /\ index' = [index EXCEPT !["active"] = sms]
        /\ shards' = sms
        /\ st' = IF st = None THEN [persisted |-> Zero, epoch |-> Unknown] ELSE st
        /\ damage' \subseteq damage
        /\ first' \in {1, first}
        /\ reported' = Held(files["active"], Len(sms))
        /\ reused' \in {{}, reused}
        /\ UNCHANGED <<up, memory, based, holder, full, agents, todo, lines, sms, moved,
                       files, next, crashes, racing, raced>>
    BY <1>1 DEF WriteIndex
  <2>2. Len(sms) \in Nat /\ sms \in Seq(Nat)
    BY LenProperties DEF TypeOK, OperationOK
  <2>3. st' \in Frontiers /\ st' # None
    <3>1. [persisted |-> Zero, epoch |-> Unknown] \in Frontiers
      BY DEF Frontiers, Zero, Unknown
    <3> QED
      BY <2>1, <3>1, StoreAssumption DEF TypeOK, StoreOK
  <2>4. StoreOK'
    BY <2>1, <2>2, <2>3 DEF TypeOK, StoreOK
  <2>5. OperationOK'
    BY <2>1 DEF TypeOK, OperationOK, PC
  <2>6. DiskOK'
    BY <2>1, <2>2 DEF TypeOK, DiskOK, Base
  <2>7. reported' \subseteq Nat
    <3>1. Files(files["active"])
      BY DEF TypeOK, DiskOK, Base, Files
    <3> QED
      BY <3>1, <2>1, <2>2, HeldTyped
  <2>8. HistoryOK'
    BY <2>1, <2>7 DEF TypeOK, HistoryOK
  <2>9. todo # <<>> /\ agents # <<>>
    BY <2>1 DEF Ready, Saving
  <2>10. Ready'
    BY <2>1, <2>3, <2>9 DEF Ready, Saving, memory
  <2> QED
    BY <2>1, <2>4, <2>5, <2>6, <2>8, <2>10, Untouched DEF TypeOK
<1>2. CASE RecordLength
  <2>1. /\ pc = "length" /\ pc' = "epoch"
        /\ st' = [st EXCEPT !.persisted = [@ EXCEPT ![Head(todo)] = Len(tr[Head(todo)])]]
        /\ UNCHANGED <<up, memory, based, shards, holder, full, agents, todo, lines, sms,
                       moved, disk, next, crashes, history>>
    BY <1>2 DEF RecordLength
  <2>2. st' \in Frontiers /\ st' # None /\ todo # <<>> /\ agents # <<>>
    BY <1>2, RecordedTyped
  <2>3. StoreOK'
    BY <2>1, <2>2 DEF TypeOK, StoreOK
  <2>4. OperationOK'
    BY <2>1 DEF TypeOK, OperationOK, PC
  <2>5. Ready'
    BY <2>1, <2>2 DEF Ready, Saving, memory
  <2> QED
    BY <2>1, <2>3, <2>4, <2>5, Untouched DEF TypeOK
<1>3. CASE RecordEpoch
  <2>1. /\ pc = "epoch"
        /\ st' = [st EXCEPT !.epoch = [@ EXCEPT ![Head(todo)] = epoch[Head(todo)]]]
        /\ UNCHANGED <<up, open, closing, present, tr, epoch, based, shards, disk,
                       next, crashes, first, reported, damage>>
        /\ \/ /\ Len(todo) > 1 /\ pc' = "length" /\ todo' = Tail(todo)
              /\ UNCHANGED <<call, holder, full, agents, lines, sms, moved, racing, raced,
                             reused>>
           \/ /\ Idle /\ Return
              /\ raced' \subseteq racing \cup raced
              /\ reused' \subseteq reused
    BY <1>3 DEF RecordEpoch
  <2>5. st' \in Frontiers /\ st' # None /\ todo # <<>> /\ agents # <<>>
    BY <1>3, RecordedTyped
  <2>6. StoreOK'
    BY <2>1, <2>5 DEF TypeOK, StoreOK
  <2>7. CASE Idle /\ Return /\ raced' \subseteq racing \cup raced /\ reused' \subseteq reused
    <3>1. ProcessOK'
      BY <2>1, <2>7 DEF TypeOK, ProcessOK, Return
    <3>2. HistoryOK'
      BY <2>1, <2>7 DEF TypeOK, HistoryOK, Idle
    <3>3. Ready'
      BY <2>1, <2>7, IdleTyped, FreeReady DEF Return, Ready
    <3> QED
      BY <2>1, <2>6, <2>7, <3>1, <3>2, <3>3, IdleTyped, Untouched DEF TypeOK
  <2>8. CASE /\ Len(todo) > 1 /\ pc' = "length" /\ todo' = Tail(todo)
             /\ UNCHANGED <<call, holder, full, agents, lines, sms, moved, racing, raced,
                            reused>>
    <3>1. todo' \in Seq(Agents) /\ todo' # <<>>
      BY <2>8, TailTyped DEF TypeOK, OperationOK
    <3>2. OperationOK'
      BY <2>8, <3>1 DEF TypeOK, OperationOK, PC
    <3>3. Ready'
      BY <2>1, <2>5, <2>8, <3>1 DEF Ready, Saving
    <3>4. UNCHANGED <<up, memory, next, crashes>> /\ UNCHANGED history
      BY <2>1, <2>8 DEF memory, history
    <3> QED
      BY <2>1, <2>6, <3>2, <3>3, <3>4, Untouched DEF TypeOK
  <2> QED
    BY <2>1, <2>7, <2>8
<1>4. CASE SaveFails
  <2>1. /\ Idle /\ Return
        /\ \/ UNCHANGED <<st, shards>>
           \/ st' = None /\ shards' = <<>>
        /\ damage' \subseteq damage \cup {"rewrite"}
        /\ UNCHANGED <<up, open, closing, present, tr, epoch, based, disk, next,
                       crashes, raced, reused, first, reported>>
    BY <1>4 DEF SaveFails, GivesUp
  <2>2. ProcessOK'
    BY <2>1 DEF TypeOK, ProcessOK, Return
  <2>3. StoreOK'
    BY <2>1, EmptySeq DEF TypeOK, StoreOK
  <2>4. HistoryOK'
    BY <2>1 DEF TypeOK, HistoryOK, Idle
  <2>5. Ready'
    BY <2>1, IdleTyped, FreeReady DEF Return, Ready
  <2> QED
    BY <2>1, <2>2, <2>3, <2>4, <2>5, IdleTyped, Untouched DEF TypeOK
<1> QED
  BY <1>1, <1>2, <1>3, <1>4

\* a shard changes its name
LEMMA MoveTyped ==
    ASSUME TypeOK, NEW i \in Nat \ {0}, NEW from \in Base, NEW to \in Base,
           Move(i, from, to), index' = index
    PROVE  DiskOK'
<1>1. CASE files' = files
  BY <1>1 DEF TypeOK, DiskOK
<1>2. CASE /\ i \in DOMAIN files[from]
           /\ files' = [b \in Base |-> IF b = from THEN Without(files[b], {i})
                                       ELSE With(files[b], i, files[from][i])]
  <2>1. files[from][i] \in Seq(Record)
    BY <1>2 DEF TypeOK, DiskOK
  <2>2. ASSUME NEW b \in Base, NEW j \in DOMAIN files'[b]
        PROVE  j \in Nat \ {0} /\ files'[b][j] \in Seq(Record)
    <3>1. CASE b = from
      BY <1>2, <2>2, <3>1 DEF Without, TypeOK, DiskOK
    <3>2. CASE b # from
      BY <1>2, <2>1, <2>2, <3>2 DEF With, TypeOK, DiskOK
    <3> QED
      BY <3>1, <3>2
  <2> QED
    BY <1>2, <2>2 DEF TypeOK, DiskOK
<1> QED
  BY <1>1, <1>2 DEF Move

\* Archive and the end of UnarchiveBase keep the types.
LEMMA ArchiveKeepsTypeOK ==
    ASSUME TypeOK, Ready, Remove \/ ArchiveBegin \/ ArchiveShard \/ ArchiveEnd
    PROVE  TypeOK' /\ Ready'
<1>1. CASE Remove
  <2>1. /\ open' = FALSE /\ closing' = TRUE
        /\ UNCHANGED <<up, present, tr, epoch, call, store, operation, disk, next,
                       crashes, history>>
    BY <1>1 DEF Remove
  <2>2. ProcessOK'
    BY <2>1 DEF TypeOK, ProcessOK
  <2>3. Ready'
    BY <2>1 DEF Ready, Saving, store, operation
  <2> QED
    BY <2>1, <2>2, <2>3, Untouched DEF TypeOK
<1>2. CASE ArchiveBegin
  <2>1. /\ pc = "free"
        /\ UNCHANGED <<up, open, present, tr, epoch, call, store, holder, full,
                       agents, todo, lines, sms, files, next, crashes, history>>
        /\ \/ closing' = FALSE /\ UNCHANGED <<index, pc, moved>>
           \/ /\ index' = [[index EXCEPT !["active"] = None]
                             EXCEPT !["archived"] = index["active"]]
              /\ pc' = "archive" /\ moved' = 0 /\ UNCHANGED closing
    BY <1>2 DEF ArchiveBegin, Renamed
  <2>2. ProcessOK'
    BY <2>1 DEF TypeOK, ProcessOK
  <2>3. OperationOK'
    BY <2>1 DEF TypeOK, OperationOK, PC
  <2>4. DiskOK'
    BY <2>1 DEF TypeOK, DiskOK, Base
  <2>5. Ready'
    BY <2>1, FreeReady DEF Ready, Saving
  <2> QED
    BY <2>1, <2>2, <2>3, <2>4, <2>5, Untouched DEF TypeOK
<1>3. CASE ArchiveShard
  <2>1. /\ pc = "archive" /\ Move(moved + 1, "active", "archived") /\ moved' = moved + 1
        /\ UNCHANGED <<up, memory, store, pc, holder, full, agents, todo, lines, sms,
                       index, next, crashes, history>>
    BY <1>3 DEF ArchiveShard
  <2>2. moved \in Nat
    BY DEF TypeOK, OperationOK
  <2>3. DiskOK'
    BY <2>1, <2>2, MoveTyped DEF Base
  <2>4. OperationOK'
    BY <2>1, <2>2 DEF TypeOK, OperationOK
  <2>5. Ready'
    BY <2>1 DEF Ready, Saving, memory, store
  <2> QED
    BY <2>1, <2>3, <2>4, <2>5, Untouched DEF TypeOK
<1>4. CASE ArchiveEnd
  <2>1. /\ Idle /\ based' = FALSE /\ st' = None /\ shards' = <<>> /\ closing' = FALSE
        /\ UNCHANGED <<up, open, present, tr, epoch, call, disk, next, crashes,
                       raced, reused, first, reported, damage>>
    BY <1>4 DEF ArchiveEnd
  <2>2. ProcessOK'
    BY <2>1 DEF TypeOK, ProcessOK
  <2>3. StoreOK'
    BY <2>1, EmptySeq DEF StoreOK
  <2>4. HistoryOK'
    BY <2>1 DEF TypeOK, HistoryOK, Idle
  <2>5. Ready'
    BY <2>1, IdleTyped, FreeReady DEF Ready
  <2> QED
    BY <2>1, <2>2, <2>3, <2>4, <2>5, IdleTyped, Untouched DEF TypeOK
<1> QED
  BY <1>1, <1>2, <1>3, <1>4

\* what is read back is what has been written
LEMMA LastShardTyped ==
    ASSUME TypeOK, NEW idx \in Seq(Nat)
    PROVE  LastShard(idx, files["active"]) \in Seq(Record)
<1>1. Files(files["active"])
  BY DEF TypeOK, DiskOK, Base, Files
<1>2. Len(idx) \in Nat
  BY LenProperties
<1>3. CASE Len(idx) = 0
  BY <1>3, EmptySeq DEF LastShard
<1>4. CASE Len(idx) # 0
  BY <1>1, <1>2, <1>4, ContentSteps DEF LastShard
<1> QED
  BY <1>3, <1>4

\* The agents and the frontier adoptLoaded makes of an index have their types.
LEMMA AdoptLoadedTyped ==
    ASSUME TypeOK, NEW idx \in Seq(Nat), AdoptLoaded(idx)
    PROVE  /\ open' \in BOOLEAN /\ present' \in Seq(Agents) /\ present' # <<>>
           /\ tr' \in [Agents -> Seq(Nat)] /\ epoch' \in [Agents -> Nat]
           /\ StoreOK' /\ raced' \subseteq Agents /\ reused' \subseteq Subs
           /\ first' \in Nat \ {0}
<1> DEFINE shard == LastShard(idx, files["active"])
<1>1. shard \in Seq(Record)
  BY LastShardTyped
<1> HIDE DEF shard
<1>2. /\ open' = TRUE /\ present' = <<Root>>
      /\ tr' = [Nothing EXCEPT ![Root] = Of(Root, shard)]
      /\ epoch' \in {[Zero EXCEPT ![Root] = 1], [Zero EXCEPT ![Root] = 0]}
      /\ based' = TRUE /\ shards' = idx
      /\ first' = IF idx = <<>> THEN 1 ELSE Len(idx)
      /\ raced' = {}
      /\ reused' \subseteq Subs
      /\ \/ st' = [persisted |-> Counted(shard), epoch |-> [Unknown EXCEPT ![Root] = 1]]
         \/ st' = [persisted |-> Counted(shard), epoch |-> [Unknown EXCEPT ![Root] = None]]
  BY DEF AdoptLoaded, shard
<1>3. Root \in Agents
  BY DEF Agents
<1>4. present' \in Seq(Agents) /\ present' # <<>>
  BY <1>2, <1>3
<1>5. tr' \in [Agents -> Seq(Nat)]
  BY <1>1, <1>2, OfTyped, EmptySeq DEF Nothing
<1>6. epoch' \in [Agents -> Nat]
  BY <1>2 DEF Zero
<1>7. Counted(shard) \in [Agents -> Nat]
  <2>1. \A a \in Agents : Len(Of(a, shard)) \in Nat
    BY <1>1, OfTyped, LenProperties
  <2> QED
    BY <2>1 DEF Counted
<1>8. st' \in Frontiers
  <2>1. /\ [Unknown EXCEPT ![Root] = 1] \in [Agents -> Nat \cup {None}]
        /\ [Unknown EXCEPT ![Root] = None] \in [Agents -> Nat \cup {None}]
    BY DEF Unknown
  <2> QED
    BY <1>2, <1>7, <2>1, SMTT(30) DEF Frontiers
<1>9. StoreOK'
  BY <1>2, <1>8 DEF StoreOK
<1>10. first' \in Nat \ {0}
  BY <1>2, EmptySeq
<1> QED
  BY <1>2, <1>4, <1>5, <1>6, <1>9, <1>10

\* ContinueSession keeps the types.
LEMMA ContinueKeepsTypeOK ==
    ASSUME TypeOK, Ready, Continue \/ UnarchiveShard \/ (UnarchiveEnd /\ index["active"] # None)
    PROVE  TypeOK' /\ Ready'
<1>1. CASE Continue
  <2>1. /\ pc = "free" /\ call = {}
        /\ index["archived"] # None
        /\ UNCHANGED <<up, closing, call, holder, full, agents, todo, lines, files, next,
                       crashes, racing, reported, damage>>
    BY <1>1 DEF Continue
  <2>2. CASE index["active"] # None
    <3>1. AdoptLoaded(index["active"]) /\ UNCHANGED <<index, pc, moved, sms>>
      BY <1>1, <2>2 DEF Continue
    <3>2. index["active"] \in Seq(Nat)
      BY <2>2 DEF TypeOK, DiskOK, Base
    <3>3. /\ ProcessOK' /\ StoreOK' /\ HistoryOK' /\ present' # <<>>
      BY <2>1, <3>1, <3>2, AdoptLoadedTyped DEF TypeOK, ProcessOK, HistoryOK
    <3>4. Ready'
      BY <2>1, <3>1, <3>3, FreeReady DEF Ready, Saving
    <3>5. UNCHANGED operation /\ UNCHANGED disk
      BY <2>1, <3>1 DEF operation, disk
    <3> QED
      BY <3>3, <3>4, <3>5, Untouched DEF TypeOK
  <2>3. CASE index["active"] = None
    <3>1. /\ index' = [b \in Base |-> IF b = "active" THEN index["archived"] ELSE None]
          /\ sms' = index["archived"] /\ pc' = "unarchive" /\ moved' = 0
          /\ UNCHANGED <<open, present, tr, epoch, store, raced, reused, first>>
      BY <1>1, <2>3 DEF Continue
    <3>2. index["archived"] \in Seq(Nat)
      BY <2>1 DEF TypeOK, DiskOK, Base
    <3>3. OperationOK'
      BY <2>1, <3>1, <3>2 DEF TypeOK, OperationOK, PC
    <3>4. DiskOK'
      BY <2>1, <3>1, <3>2 DEF TypeOK, DiskOK, Base
    <3>5. Ready'
      BY <2>1, <3>1, FreeReady DEF Ready, Saving
    <3>6. UNCHANGED <<up, memory, next, crashes>> /\ UNCHANGED history
      BY <2>1, <3>1 DEF memory, history
    <3> QED
      BY <3>1, <3>3, <3>4, <3>5, <3>6, Untouched DEF TypeOK
  <2> QED
    BY <2>2, <2>3
<1>2. CASE UnarchiveShard
  <2>1. /\ pc = "unarchive" /\ Move(moved + 1, "archived", "active") /\ moved' = moved + 1
        /\ UNCHANGED <<up, memory, store, pc, holder, full, agents, todo, lines, sms,
                       index, next, crashes, history>>
    BY <1>2 DEF UnarchiveShard
  <2>2. moved \in Nat
    BY DEF TypeOK, OperationOK
  <2>3. DiskOK'
    BY <2>1, <2>2, MoveTyped DEF Base
  <2>4. OperationOK'
    BY <2>1, <2>2 DEF TypeOK, OperationOK
  <2>5. Ready'
    BY <2>1 DEF Ready, Saving, memory, store
  <2> QED
    BY <2>1, <2>3, <2>4, <2>5, Untouched DEF TypeOK
<1>3. CASE UnarchiveEnd /\ index["active"] # None
  <2>1. /\ Idle /\ AdoptLoaded(index["active"])
        /\ UNCHANGED <<up, closing, call, disk, next, crashes, reported, damage>>
    BY <1>3 DEF UnarchiveEnd
  <2>2. index["active"] \in Seq(Nat)
    BY <1>3 DEF TypeOK, DiskOK, Base
  <2>3. /\ ProcessOK' /\ StoreOK' /\ HistoryOK' /\ present' # <<>>
    BY <2>1, <2>2, AdoptLoadedTyped, IdleTyped DEF TypeOK, ProcessOK, HistoryOK
  <2>4. Ready'
    BY <2>1, <2>3, IdleTyped, FreeReady
  <2> QED
    BY <2>1, <2>3, <2>4, IdleTyped, Untouched DEF TypeOK
<1> QED
  BY <1>1, <1>2, <1>3

\* A crash and a restart keep the types.
LEMMA ProcessKeepsTypeOK ==
    ASSUME TypeOK, Ready, Crash \/ (Restart /\ pc = "free")
    PROVE  TypeOK' /\ Ready'
<1>1. CASE Crash
  <2>1. /\ up' = FALSE /\ open' = FALSE /\ closing' = FALSE
        /\ crashes' = crashes + 1
        /\ present' = <<>> /\ tr' = Nothing /\ epoch' = Zero /\ call' = {}
        /\ based' = FALSE /\ st' = None /\ shards' = <<>>
        /\ Idle
        /\ damage' \subseteq damage \cup {"rewrite", "unarchive"}
        /\ raced' = {} /\ reused' = {}
        /\ UNCHANGED <<disk, next, first, reported>>
    BY <1>1 DEF Crash
  <2>2. ProcessOK'
    <3>1. tr' \in [Agents -> Seq(Nat)] /\ epoch' \in [Agents -> Nat] /\ present' \in Seq(Agents)
      BY <2>1, EmptySeq DEF Nothing, Zero
    <3>2. /\ up' \in BOOLEAN /\ open' \in BOOLEAN /\ closing' \in BOOLEAN
          /\ call' \subseteq Threads
      BY <2>1
    <3>3. next' \in Nat /\ crashes' \in Nat
      BY <2>1 DEF TypeOK, ProcessOK
    <3> QED
      BY <3>1, <3>2, <3>3 DEF ProcessOK
  <2>3. StoreOK'
    BY <2>1, EmptySeq DEF StoreOK
  <2>4. HistoryOK'
    BY <2>1 DEF TypeOK, HistoryOK, Idle
  <2>5. Ready'
    BY <2>1, IdleTyped, FreeReady
  <2> QED
    BY <2>1, <2>2, <2>3, <2>4, <2>5, IdleTyped, Untouched DEF TypeOK
<1>2. CASE Restart /\ pc = "free"
  <2>1. /\ up' = TRUE
        /\ UNCHANGED <<closing, call, operation, disk, next, crashes, racing, reported,
                       damage>>
    BY <1>2 DEF Restart
  <2>2. CASE index["active"] # None
    <3>1. AdoptLoaded(index["active"])
      BY <1>2, <2>2 DEF Restart
    <3>2. index["active"] \in Seq(Nat)
      BY <2>2 DEF TypeOK, DiskOK, Base
    <3>3. /\ ProcessOK' /\ StoreOK' /\ HistoryOK' /\ present' # <<>>
      BY <2>1, <3>1, <3>2, AdoptLoadedTyped DEF TypeOK, ProcessOK, HistoryOK
    <3>4. ~Saving' /\ ~full' /\ UNCHANGED <<operation, disk>>
      BY <1>2, <2>1 DEF operation, Saving, Ready
    <3> QED
      BY <2>1, <3>3, <3>4, FreeReady, Untouched DEF TypeOK
  <2>3. CASE index["active"] = None
    <3>1. UNCHANGED <<open, present, tr, epoch, store, raced, reused, first>>
      BY <1>2, <2>3 DEF Restart
    <3>2. ProcessOK'
      BY <2>1, <3>1 DEF TypeOK, ProcessOK
    <3>3. HistoryOK'
      BY <2>1, <3>1 DEF TypeOK, HistoryOK
    <3>4. Ready'
      BY <2>1, <3>1 DEF Ready, Saving, operation, store
    <3> QED
      BY <2>1, <3>1, <3>2, <3>3, <3>4, Untouched DEF TypeOK
  <2> QED
    BY <2>2, <2>3
<1> QED
  BY <1>1, <1>2
-----------------------------------------------------------------------------
(* What was saved survives.                                                  *)

\* an agent whose transcript was replaced has one
Spoken == st # None => \A a \in Agents : st.epoch[a] \notin {None, epoch[a]} => tr[a] # <<>>

\* what the store believes of the files
StoreKnows ==
    /\ st = None => shards = <<>>
    /\ st # None /\ pc # "archive" => index["active"] = shards
    /\ pc = "archive" =>
           index["archived"] # None /\ (shards = <<>> \/ shards = index["archived"])
    /\ pc = "unarchive" => index["active"] = sms

\* a delta adds to the shards; a rewrite that follows one has something to write
SaveGrows ==
    /\ Saving /\ ~full => Len(sms) >= Len(shards)
    /\ full /\ st # None /\ pc = "encode" =>
           lines # <<>> \/ \E a \in SetOf(todo) : tr[a] # <<>>
    /\ full /\ st # None /\ pc \in {"orphans", "index"} => sms # <<>>

\* no shard has both names, and a session is open under the active one
Apart ==
    LET archived == index["archived"]
        moving == DOMAIN files["archived"]
    IN {"unarchive", "late"} \cap damage = {} =>
        /\ archived # None => /\ index["active"] = None /\ ~open /\ ~Saving
                              /\ moving \subseteq 1 .. Len(archived)
        /\ pc = "unarchive" => archived = None /\ moving \subseteq moved + 1 .. Len(sms)
        /\ archived = None /\ pc # "unarchive" => moving = {}
        /\ DOMAIN files["active"] \cap moving = {}

\* a rewrite has touched the shards and not yet the index
Rewritten == full /\ sms # <<>> /\ pc \in {"write", "orphans", "index"}

\* what the last successful save left is in the files, unless a rewrite is under way
Kept == damage = {} /\ ~Rewritten => reported \subseteq Reachable

FilesInv == Spoken /\ StoreKnows /\ SaveGrows /\ Apart /\ Kept

\* Nothing has been reported in the first state.
LEMMA InitFilesInv == Init => FilesInv
<1> SUFFICES ASSUME Init PROVE FilesInv
  OBVIOUS
<1>1. Spoken /\ StoreKnows /\ SaveGrows /\ Kept
  BY DEF Init, Spoken, StoreKnows, SaveGrows, Kept, Saving
<1>2. Apart
  <2>1. files["archived"] = <<>> /\ files["active"] = <<>> /\ index["archived"] = None /\ pc = "free"
    BY DEF Init, Base
  <2>2. DOMAIN files["archived"] = {}
    BY <2>1
  <2> QED
    BY <2>1, <2>2 DEF Apart
<1> QED
  BY <1>1, <1>2 DEF FilesInv

-----------------------------------------------------------------------------
\* agents that speak or are compacted have said something
LEMMA AgentsKeepFilesInv ==
    ASSUME TypeOK, FilesInv, NEW a \in Agents, Say(a) \/ Compact(a) \/ Spawn(a)
    PROVE  FilesInv'
<1>1. UNCHANGED <<open, st, shards, operation, index, files, reported, damage>>
      /\ UNCHANGED Saving
  BY DEF Say, Compact, Spawn, store, disk, history, operation, Saving
<1>2. /\ \A b \in Agents : tr[b] # <<>> => tr'[b] # <<>>
      /\ \A b \in Agents : epoch'[b] = epoch[b] \/ tr'[b] # <<>>
  <2>0. tr \in [Agents -> Seq(Nat)] /\ epoch \in [Agents -> Nat] /\ next \in Nat
    BY DEF TypeOK, ProcessOK
  <2>1. CASE Say(a)
    <3>1. tr' = [tr EXCEPT ![a] = Append(tr[a], next)] /\ epoch' = epoch
      BY <2>1 DEF Say
    <3>0. tr[a] \in Seq(Nat)
      BY <2>0
    <3>2. Append(tr[a], next) # <<>>
      <4>1. \A s \in Seq(Nat), m \in Nat : Append(s, m) # <<>>
        BY AppendProperties, SMTT(30)
      <4> QED
        BY <2>0, <3>0, <4>1
    <3> QED
      BY <3>1, <3>2, <2>0
  <2>2. CASE Compact(a)
    <3>1. tr' = [tr EXCEPT ![a] = <<next>>] /\ epoch' = [epoch EXCEPT ![a] = epoch[a] + 1]
      BY <2>2 DEF Compact
    <3> QED
      BY <3>1, <2>0
  <2>3. CASE Spawn(a)
    BY <2>3 DEF Spawn
  <2> QED
    BY <2>1, <2>2, <2>3
<1>3. Spoken'
  BY <1>1, <1>2 DEF FilesInv, Spoken
<1>4. StoreKnows'
  BY <1>1 DEF FilesInv, StoreKnows, operation
<1>5. SaveGrows'
  <2>1. SetOf(todo) \subseteq Agents
    BY ElementsOf DEF TypeOK, OperationOK
  <2>2. (\E b \in SetOf(todo) : tr[b] # <<>>) => (\E b \in SetOf(todo) : tr'[b] # <<>>)
    BY <2>1, <1>2
  <2>3. UNCHANGED <<pc, full, todo, lines, sms, st, shards>>
    BY <1>1 DEF operation
  <2>4. SetOf(todo)' = SetOf(todo)
    BY <2>3 DEF SetOf
  <2> QED
    BY <2>2, <2>3, <2>4, <1>1 DEF FilesInv, SaveGrows
<1>6. Apart'
  BY <1>1 DEF FilesInv, Apart, operation
<1>7. Kept'
  BY <1>1 DEF FilesInv, Kept, Rewritten, Reachable, operation
<1> QED
  BY <1>3, <1>4, <1>5, <1>6, <1>7 DEF FilesInv

\* A save that begins takes the shard table the disk has; Archive takes an index that
\* lists what the store lists.
LEMMA BeginningsKeepFilesInv ==
    ASSUME TypeOK, FilesInv, NEW t \in Threads, Persist(t) \/ SaveBegin(t)
    PROVE  FilesInv'
<1>1. CASE Persist(t)
  <2>1. UNCHANGED <<open, tr, epoch, st, shards, operation, index, files, reported, damage>>
    BY <1>1 DEF Persist, store, disk, history
  <2> QED
    BY <2>1 DEF FilesInv, Spoken, StoreKnows, SaveGrows, Apart, Kept, Rewritten, Reachable,
                operation, Saving
<1>2. CASE SaveBegin(t)
  <2>1. /\ pc = "free" /\ pc' = "encode" /\ lines' = <<>> /\ todo' = present
        /\ full' = (st = None \/ Compacted)
        /\ sms' = IF full' THEN <<>> ELSE shards
        /\ damage' = IF open THEN damage ELSE damage \cup {"late"}
        /\ UNCHANGED <<open, present, tr, epoch, st, shards, moved, index, files, reported>>
    BY <1>2 DEF SaveBegin, memory, disk
  <2>2. Spoken'
    BY <2>1 DEF FilesInv, Spoken
  <2>3. StoreKnows'
    BY <2>1 DEF FilesInv, StoreKnows
  <2>4. SaveGrows'
    <3>1. Len(shards) \in Nat
      BY LenProperties DEF TypeOK, StoreOK
    <3>2. ~full' => Len(sms') >= Len(shards')
      BY <2>1, <3>1
    <3>3. full' /\ st' # None => \E a \in SetOf(todo)' : tr'[a] # <<>>
      <4>1. SetOf(present) \subseteq Agents
        BY ElementsOf DEF TypeOK, ProcessOK
      <4>2. Compacted /\ st # None => \E a \in SetOf(present) : tr[a] # <<>>
        BY <4>1 DEF Compacted, FilesInv, Spoken
      <4>3. SetOf(todo)' = SetOf(present)
        BY <2>1 DEF SetOf
      <4> QED
        BY <2>1, <4>2, <4>3
    <3> QED
      BY <2>1, <3>2, <3>3 DEF SaveGrows
  <2>5. Apart'
    BY <2>1 DEF FilesInv, Apart, Saving
  <2>6. Kept'
    BY <2>1 DEF FilesInv, Kept, Rewritten, Reachable
  <2> QED
    BY <2>2, <2>3, <2>4, <2>5, <2>6 DEF FilesInv
<1> QED
  BY <1>1, <1>2

-----------------------------------------------------------------------------
(* What the shards hold.                                                     *)

\* More shards hold at least what fewer hold.
LEMMA HeldGrows ==
    ASSUME NEW f, NEW g, NEW n,
           \A j \in DOMAIN f \cap 1 .. n : j \in DOMAIN g /\ SetOf(f[j]) \subseteq SetOf(g[j])
    PROVE  Held(f, n) \subseteq Held(g, n)
BY DEF Held

\* a shard that is added behind the listed ones, or gets a further record
LEMMA WithKeeps ==
    ASSUME NEW f, NEW n \in Nat, NEW k \in Nat, NEW content,
           \/ k > n
           \/ k \in DOMAIN f /\ SetOf(f[k]) \subseteq SetOf(content)
    PROVE  Held(f, n) \subseteq Held(With(f, k, content), n)
<1> DEFINE g == With(f, k, content)
<1>1. ASSUME NEW j \in DOMAIN f \cap 1 .. n
      PROVE  j \in DOMAIN g /\ SetOf(f[j]) \subseteq SetOf(g[j])
  <2>1. j \in DOMAIN g /\ g[j] = IF j = k THEN content ELSE f[j]
    BY <1>1 DEF With
  <2> QED
    BY <2>1
<1>2. Held(f, n) \subseteq Held(g, n)
  <2> HIDE DEF g
  <2> QED
    BY <1>1, HeldGrows
<1> QED
  BY <1>2

\* A line appended to a shard takes nothing away.
LEMMA AppendKeeps ==
    ASSUME NEW S, NEW s \in Seq(S), NEW e \in S
    PROVE  SetOf(s) \subseteq SetOf(Append(s, e))
<1>1. DOMAIN s = 1 .. Len(s) /\ Len(s) \in Nat
  BY LenProperties
<1>2. Append(s, e) \in Seq(S) /\ Len(Append(s, e)) = Len(s) + 1
      /\ \A i \in 1 .. Len(s) : Append(s, e)[i] = s[i]
  BY AppendProperties
<1>3. DOMAIN Append(s, e) = 1 .. Len(s) + 1
  BY <1>2, LenProperties
<1>4. ASSUME NEW i \in DOMAIN s PROVE i \in DOMAIN Append(s, e) /\ Append(s, e)[i] = s[i]
  BY <1>1, <1>2, <1>3
<1> QED
  BY <1>4 DEF SetOf

\* a shard that changes its name is still there
LEMMA MoveKeeps ==
    ASSUME TypeOK, NEW i \in Nat \ {0}, NEW from \in Base, NEW to \in Base, from # to,
           Move(i, from, to), DOMAIN files["active"] \cap DOMAIN files["archived"] = {},
           NEW n \in Nat
    PROVE  /\ Held(files["active"], n) \cup Held(files["archived"], n)
                \subseteq Held(files'["active"], n) \cup Held(files'["archived"], n)
           /\ DOMAIN files'["active"] \cap DOMAIN files'["archived"] = {}
           /\ DOMAIN files'[from] = DOMAIN files[from] \ {i}
           /\ DOMAIN files'[to] \subseteq DOMAIN files[to] \cup {i}
<1>1. CASE i \notin DOMAIN files[from]
  BY <1>1 DEF Move
<1>2. CASE i \in DOMAIN files[from]
  <2>1. files' = [b \in Base |-> IF b = from THEN Without(files[b], {i})
                                 ELSE With(files[b], i, files[from][i])]
    BY <1>2 DEF Move
  <2>2. /\ files'[from] = Without(files[from], {i})
        /\ files'[to] = With(files[to], i, files[from][i])
    BY <2>1
  <2>3. DOMAIN files[from] \cap DOMAIN files[to] = {}
    BY DEF Base
  <2>4. /\ DOMAIN files'[from] = DOMAIN files[from] \ {i}
        /\ \A j \in DOMAIN files[from] \ {i} : files'[from][j] = files[from][j]
    BY <2>2 DEF Without
  <2>5. /\ DOMAIN files'[to] = DOMAIN files[to] \cup {i}
        /\ files'[to][i] = files[from][i]
        /\ \A j \in DOMAIN files[to] : files'[to][j] = files[to][j]
    BY <2>2, <2>3, <1>2 DEF With
  <2>6. Held(files[to], n) \subseteq Held(files'[to], n)
    BY <2>5, HeldGrows
  <2>7. Held(files[from], n) \subseteq Held(files'[from], n) \cup Held(files'[to], n)
    <3>1. ASSUME NEW j \in DOMAIN files[from] \cap 1 .. n, NEW r \in SetOf(files[from][j])
          PROVE  r.msg \in Held(files'[from], n) \cup Held(files'[to], n)
      <4>1. CASE j = i
        <5>1. j \in DOMAIN files'[to] \cap 1 .. n /\ r \in SetOf(files'[to][j])
          BY <2>5, <3>1, <4>1
        <5> QED
          BY <5>1 DEF Held
      <4>2. CASE j # i
        <5>1. j \in DOMAIN files'[from] \cap 1 .. n /\ r \in SetOf(files'[from][j])
          BY <2>4, <3>1, <4>2
        <5> QED
          BY <5>1 DEF Held
      <4> QED
        BY <4>1, <4>2
    <3> QED
      BY <3>1 DEF Held
  <2>8. {from, to} = {"active", "archived"}
    BY DEF Base
  <2>9. CASE from = "active" /\ to = "archived"
    BY <2>3, <2>4, <2>5, <2>6, <2>7, <2>9
  <2>10. CASE from = "archived" /\ to = "active"
    BY <2>3, <2>4, <2>5, <2>6, <2>7, <2>10
  <2> QED
    BY <2>8, <2>9, <2>10
<1> QED
  BY <1>1, <1>2

\* what a step of a save leaves as it is
LEMMA SaveKeepsApart ==
    ASSUME FilesInv, Saving, pc' \notin {"unarchive"}, UNCHANGED open,
           index'["archived"] = index["archived"], files'["archived"] = files["archived"],
           "late" \in damage => "late" \in damage',
           "unarchive" \in damage => "unarchive" \in damage'
    PROVE  Apart'
BY DEF FilesInv, Apart, Saving

\* The number of listed shards is a number.
LEMMA ExtentTyped == ASSUME TypeOK PROVE Extent(index) \in Nat
<1>1. \A i \in Seq(Nat) : Len(i) \in Nat
  BY LenProperties
<1> QED
  BY <1>1 DEF Extent, TypeOK, DiskOK, Base

\* Encoding writes nothing; the orphans removed lie beyond the table of the rewrite.
LEMMA EncodeKeepsFilesInv ==
    ASSUME TypeOK, Ready, FilesInv, Encode
    PROVE  FilesInv'
<1> DEFINE a == Head(todo)
           new == SubSeq(tr[a], Offset(a) + 1, Len(tr[a]))
           said == [i \in DOMAIN new |-> [agent |-> a, msg |-> new[i]]]
<1>1. /\ pc = "encode" /\ lines' = lines \o said
      /\ \/ Len(todo) > 1 /\ pc' = "encode" /\ todo' = Tail(todo)
         \/ /\ ~(Len(todo) > 1) /\ todo' = agents
            /\ \/ lines' # <<>> /\ pc' = "write"
               \/ lines' = <<>> /\ full /\ pc' = "orphans"
               \/ ~full /\ pc' \in {"index", "length"}
      /\ UNCHANGED <<up, memory, store, holder, full, agents, sms, moved, disk, next,
                     crashes, history>>
  BY DEF Encode
<1>2. UNCHANGED <<open, tr, epoch, st, shards, full, sms, index, files, reported, damage>>
  BY <1>1 DEF memory, store, disk, history
<1>3. Saving /\ Saving' /\ pc' \in {"encode", "write", "orphans", "index", "length"}
  BY <1>1 DEF Saving
<1>4. Spoken'
  BY <1>2 DEF FilesInv, Spoken
<1>5. StoreKnows'
  BY <1>2, <1>3, <1>1 DEF FilesInv, StoreKnows
<1>6. SaveGrows'
  <2>1. /\ new \in Seq(Nat) /\ said \in Seq(Record) /\ Len(said) = Len(new) /\ a \in Agents
    BY <1>1, EncodedTyped
  <2>2. todo \in Seq(Agents) /\ todo # <<>> /\ lines \in Seq(Record)
    BY <1>3 DEF TypeOK, OperationOK, Ready
  <2>3. full /\ tr[a] # <<>> => said # <<>>
    <3>1. CASE full /\ tr[a] # <<>>
      <4>1. tr[a] \in Seq(Nat)
        BY <2>1 DEF TypeOK, ProcessOK
      <4>2. new = SubSeq(tr[a], 1, Len(tr[a]))
        BY <3>1 DEF Offset
      <4>3. new = tr[a]
        BY <4>1, <4>2, SubSeqFull
      <4>4. Len(said) # 0
        BY <2>1, <3>1, <4>1, <4>3, EmptySeq
      <4> QED
        BY <4>4, EmptySeq
    <3> QED
      BY <3>1
  <2> HIDE DEF said, new
  <2>4. lines # <<>> \/ said # <<>> => lines' # <<>>
    <3>1. Len(lines') = Len(lines) + Len(said)
      BY <1>1, <2>1, <2>2, ConcatProperties
    <3>2. Len(lines) \in Nat /\ Len(said) \in Nat
      BY <2>1, <2>2, LenProperties
    <3>3. (lines # <<>> => Len(lines) # 0) /\ (said # <<>> => Len(said) # 0)
      BY <2>1, <2>2, EmptySeq
    <3> QED
      BY <3>1, <3>2, <3>3, EmptySeq
  <2>5. ASSUME NEW b \in SetOf(todo), b # a
        PROVE  Len(todo) > 1 /\ b \in SetOf(Tail(todo))
    <3>1. Len(todo) \in Nat /\ DOMAIN todo = 1 .. Len(todo) /\ Head(todo) = todo[1]
      BY <2>2, LenProperties
    <3>2. PICK i \in 1 .. Len(todo) : b = todo[i]
      BY <3>1 DEF SetOf
    <3>3. i # 1
      BY <2>5, <3>1, <3>2
    <3>4. Tail(todo) \in Seq(Agents) /\ Len(Tail(todo)) = Len(todo) - 1
          /\ \A k \in 1 .. Len(Tail(todo)) : Tail(todo)[k] = todo[k + 1]
      BY <2>2, HeadTailProperties
    <3>5. i - 1 \in 1 .. Len(Tail(todo)) /\ (i - 1) + 1 = i
      BY <3>1, <3>2, <3>3, <3>4
    <3>6. b = Tail(todo)[i - 1]
      BY <3>2, <3>4, <3>5
    <3>7. DOMAIN Tail(todo) = 1 .. Len(Tail(todo))
      BY <3>4, LenProperties
    <3>8. b \in SetOf(Tail(todo))
      BY <3>5, <3>6, <3>7 DEF SetOf
    <3> QED
      BY <3>1, <3>2, <3>3, <3>8
  <2>6. full /\ st # None =>
            lines' # <<>> \/ (Len(todo) > 1 /\ \E b \in SetOf(Tail(todo)) : tr[b] # <<>>)
    BY <1>1, <2>3, <2>4, <2>5 DEF FilesInv, SaveGrows
  <2>7. pc' = "encode" => SetOf(todo)' = SetOf(Tail(todo))
    BY <1>1 DEF SetOf
  <2>8. full /\ st # None /\ pc' = "encode" => lines' # <<>> \/ \E b \in SetOf(todo)' : tr[b] # <<>>
    BY <2>6, <2>7
  <2>9. full /\ st # None => pc' \notin {"orphans", "index"}
    BY <1>1, <2>6
  <2>10. Saving /\ ~full => Len(sms) >= Len(shards)
    BY DEF FilesInv, SaveGrows
  <2> QED
    BY <1>2, <1>3, <2>8, <2>9, <2>10 DEF SaveGrows
<1>7. Apart'
  BY <1>2, <1>3, SaveKeepsApart
<1>8. Kept'
  BY <1>1, <1>2 DEF FilesInv, Kept, Rewritten, Reachable
<1> QED
  BY <1>4, <1>5, <1>6, <1>7, <1>8 DEF FilesInv

\* A new shard lies beyond the index, a line is added at the end, and the index written
\* lists exactly what is reported.
LEMMA WriteKeepsFilesInv ==
    ASSUME TypeOK, Ready, FilesInv, Roll \/ WriteLine \/ RemoveOrphans
    PROVE  FilesInv'
<1>0. /\ Len(sms) \in Nat /\ sms \in Seq(Nat) /\ Len(shards) \in Nat /\ Extent(index) \in Nat
      /\ DOMAIN files = Base
  BY LenProperties, ExtentTyped DEF TypeOK, OperationOK, StoreOK, DiskOK
<1>d. /\ Saving /\ Saving' /\ pc # "encode" /\ pc' # "encode"
      /\ pc' \in {"write", "orphans", "index"} /\ pc \in {"write", "orphans"}
      /\ UNCHANGED <<open, tr, epoch, st, shards, full, index, reported, damage>>
      /\ files'["archived"] = files["archived"]
  <2>1. CASE Roll
    BY <2>1, <1>0 DEF Roll, Saving, memory, store, history, Base
  <2>2. CASE WriteLine
    BY <2>2, <1>0 DEF WriteLine, Saving, memory, store, history, Base
  <2>3. CASE RemoveOrphans
    BY <2>3, <1>0 DEF RemoveOrphans, Saving, memory, store, history, Base
  <2> QED
    BY <2>1, <2>2, <2>3
<1>a. Apart'
  BY <1>d, SaveKeepsApart
<1>b. Spoken' /\ StoreKnows'
  BY <1>d DEF FilesInv, Spoken, StoreKnows
<1>k. ~full => Len(sms) >= Len(shards) /\ Extent(index) = Len(shards)
  <2>1. ~full => st # None /\ Len(sms) >= Len(shards) /\ index["active"] = shards
    BY <1>d DEF FilesInv, Ready, SaveGrows, StoreKnows
  <2>2. shards # None
    BY StoreAssumption DEF TypeOK, StoreOK
  <2> QED
    BY <2>1, <2>2 DEF Extent
<1>r. ASSUME Held(files["active"], Extent(index)) \subseteq Held(files'["active"], Extent(index)),
             ~Rewritten
      PROVE  Kept'
  <2>1. Reachable \subseteq Reachable'
    BY <1>r, <1>d DEF Reachable
  <2> QED
    BY <1>r, <2>1, <1>d DEF FilesInv, Kept
<1>1. CASE Roll
  <2>1. /\ pc = "write" /\ pc' = "write"
        /\ files' = [files EXCEPT !["active"] = With(files["active"], Len(sms) + 1, <<>>)]
        /\ sms' = Append(sms, 0)
    BY <1>1 DEF Roll, NextIndex
  <2>2. Len(sms') = Len(sms) + 1
    BY <2>1, <1>0, AppendProperties
  <2>3. SaveGrows'
    BY <2>1, <2>2, <1>0, <1>d DEF FilesInv, SaveGrows
  <2>4. CASE full
    <3>1. Rewritten'
      BY <2>1, <2>2, <2>4, <1>0, <1>d, EmptySeq DEF Rewritten
    <3> QED
      BY <1>a, <1>b, <2>3, <3>1 DEF FilesInv, Kept
  <2>5. CASE ~full
    <3>1. Len(sms) + 1 > Extent(index) /\ Len(sms) + 1 \in Nat
      BY <2>5, <1>k, <1>0
    <3>2. files'["active"] = With(files["active"], Len(sms) + 1, <<>>)
      BY <2>1, <1>0 DEF Base
    <3>3. Held(files["active"], Extent(index)) \subseteq Held(files'["active"], Extent(index))
      BY <3>1, <3>2, <1>0, WithKeeps
    <3>4. Kept'
      BY <1>r, <2>5, <3>3 DEF Rewritten
    <3> QED
      BY <1>a, <1>b, <2>3, <3>4 DEF FilesInv
  <2> QED
    BY <2>4, <2>5
<1>2. CASE WriteLine
  <2>1. /\ pc = "write" /\ ~MustRoll /\ Len(sms) \in DOMAIN files["active"]
        /\ files' = [files EXCEPT !["active"] =
               With(files["active"], Len(sms), Append(files["active"][Len(sms)], Head(lines)))]
        /\ sms' = [sms EXCEPT ![Len(sms)] = sms[Len(sms)] + 1]
        /\ pc' = "index" => ~full
    BY <1>2 DEF WriteLine
  <2>2. sms # <<>>
    BY <2>1 DEF MustRoll
  <2>3. Len(sms') = Len(sms) /\ sms' # <<>>
    <3>1. Len(sms) \in 1 .. Len(sms)
      BY <2>2, <1>0, EmptySeq
    <3>2. sms[Len(sms)] + 1 \in Nat
      BY <3>1, <1>0, ElementOfSeq
    <3>3. sms' \in Seq(Nat) /\ Len(sms') = Len(sms)
      BY <3>1, <3>2, <1>0, <2>1, ExceptSeq
    <3> QED
      BY <3>1, <3>3, EmptySeq
  <2>4. SaveGrows'
    BY <2>1, <2>3, <1>0, <1>d DEF FilesInv, SaveGrows
  <2>5. CASE full
    <3>1. Rewritten'
      BY <2>1, <2>3, <2>5, <1>d DEF Rewritten
    <3> QED
      BY <1>a, <1>b, <2>4, <3>1 DEF FilesInv, Kept
  <2>6. CASE ~full
    <3>1. lines # <<>> /\ lines \in Seq(Record)
      BY <2>1 DEF Ready, TypeOK, OperationOK
    <3>2. Head(lines) \in Record /\ files["active"][Len(sms)] \in Seq(Record)
      BY <3>1, <2>1, HeadTailProperties DEF TypeOK, DiskOK, Base
    <3>3. SetOf(files["active"][Len(sms)])
              \subseteq SetOf(Append(files["active"][Len(sms)], Head(lines)))
      BY <3>2, AppendKeeps
    <3>4. files'["active"] =
             With(files["active"], Len(sms), Append(files["active"][Len(sms)], Head(lines)))
      BY <2>1, <1>0 DEF Base
    <3>5. Held(files["active"], Extent(index)) \subseteq Held(files'["active"], Extent(index))
      BY <3>3, <3>4, <2>1, <1>0, WithKeeps
    <3>6. Kept'
      BY <1>r, <2>6, <3>5 DEF Rewritten
    <3> QED
      BY <1>a, <1>b, <2>4, <3>6 DEF FilesInv
  <2> QED
    BY <2>5, <2>6
<1>3. CASE RemoveOrphans
  <2>1. /\ pc = "orphans" /\ pc' = "index" /\ sms' = sms
        /\ files' = [files EXCEPT !["active"] = Without(files["active"], Orphans)]
    BY <1>3 DEF RemoveOrphans
  <2>2. SaveGrows'
    BY <2>1, <1>d DEF FilesInv, SaveGrows
  <2>3. CASE full /\ sms # <<>>
    <3>1. Rewritten'
      BY <2>1, <2>3, <1>d DEF Rewritten
    <3> QED
      BY <1>a, <1>b, <2>2, <3>1 DEF FilesInv, Kept
  <2>4. CASE ~(full /\ sms # <<>>)
    <3>1. Len(shards) <= Len(sms)
      <4>1. CASE ~full
        BY <4>1, <1>k, <1>0
      <4>2. CASE full
        <5>1. sms = <<>> /\ st = None
          BY <4>2, <2>4, <2>1 DEF FilesInv, SaveGrows
        <5>2. shards = <<>>
          BY <5>1 DEF FilesInv, StoreKnows
        <5> QED
          BY <5>1, <5>2, <1>0
      <4> QED
        BY <4>1, <4>2
    <3>2. Orphans = {}
      BY <3>1, <1>0 DEF Orphans
    <3>3. files'["active"] = Without(files["active"], {})
      BY <2>1, <3>2, <1>0 DEF Base
    <3>4. Held(files["active"], Extent(index)) \subseteq Held(files'["active"], Extent(index))
      BY <3>3, HeldGrows DEF Without
    <3>5. Kept'
      BY <1>r, <2>4, <3>4 DEF Rewritten
    <3> QED
      BY <1>a, <1>b, <2>2, <3>5 DEF FilesInv
  <2> QED
    BY <2>3, <2>4
<1> QED
  BY <1>1, <1>2, <1>3

\* Recording a frontier, and giving up a save, leave the files alone.
LEMMA RecordKeepsFilesInv ==
    ASSUME TypeOK, Ready, FilesInv, WriteIndex \/ RecordLength \/ RecordEpoch \/ SaveFails
    PROVE  FilesInv'
<1>0. DOMAIN index = Base
  BY DEF TypeOK, DiskOK
<1>1. CASE WriteIndex
  <2>1. /\ pc = "index" /\ pc' = "length"
        /\ index' = [index EXCEPT !["active"] = sms]
        /\ shards' = sms
        /\ st' = IF st = None THEN [persisted |-> Zero, epoch |-> Unknown] ELSE st
        /\ damage' = IF full THEN damage \ {"rewrite"} ELSE damage
        /\ reported' = Held(files["active"], Len(sms))
        /\ UNCHANGED <<open, tr, epoch, full, sms, files>>
    BY <1>1 DEF WriteIndex, memory
  <2>2. sms \in Seq(Nat) /\ Len(sms) \in Nat /\ sms # None
    BY LenProperties, StoreAssumption DEF TypeOK, OperationOK
  <2>3. Spoken'
    <3>1. CASE st = None
      BY <2>1, <3>1 DEF Spoken, Unknown
    <3>2. CASE st # None
      BY <2>1, <3>2 DEF FilesInv, Spoken
    <3> QED
      BY <3>1, <3>2
  <2>4. StoreKnows'
    <3>1. st' # None
      <4>1. [persisted |-> Zero, epoch |-> Unknown] \in Frontiers
        BY DEF Frontiers, Zero, Unknown
      <4> QED
        BY <2>1, <4>1, StoreAssumption
    <3>2. index'["active"] = sms
      BY <2>1, <1>0 DEF Base
    <3> QED
      BY <2>1, <3>1, <3>2 DEF StoreKnows
  <2>5. SaveGrows'
    BY <2>1, <2>2 DEF SaveGrows
  <2>6. Apart'
    <3>1. index'["archived"] = index["archived"]
      BY <2>1, <1>0 DEF Base
    <3> QED
      BY <2>1, <3>1, SaveKeepsApart DEF Saving
  <2>7. Kept'
    <3>1. index'["active"] = sms
      BY <2>1, <1>0 DEF Base
    <3>2. Extent(index') = Len(sms)
      BY <3>1, <2>2 DEF Extent
    <3> QED
      BY <2>1, <3>2 DEF Kept, Reachable
  <2> QED
    BY <2>3, <2>4, <2>5, <2>6, <2>7 DEF FilesInv
<1>2. CASE RecordLength
  <2>1. /\ pc = "length" /\ pc' = "epoch"
        /\ st' = [st EXCEPT !.persisted = [@ EXCEPT ![Head(todo)] = Len(tr[Head(todo)])]]
        /\ UNCHANGED <<open, tr, epoch, shards, full, lines, sms, index, files, reported,
                       damage>>
    BY <1>2 DEF RecordLength, memory, disk, history
  <2>2. st \in Frontiers /\ st # None /\ st' # None
    BY <2>1, <1>2, RecordedTyped DEF TypeOK, StoreOK, Ready
  <2>3. st'.epoch = st.epoch
    BY <2>1, <2>2 DEF Frontiers
  <2>4. Spoken'
    BY <2>1, <2>2, <2>3 DEF FilesInv, Spoken
  <2>5. StoreKnows'
    BY <2>1, <2>2 DEF FilesInv, StoreKnows
  <2>6. SaveGrows'
    BY <2>1 DEF FilesInv, SaveGrows, Saving
  <2>7. Apart'
    BY <2>1, SaveKeepsApart DEF Saving
  <2>8. Kept'
    BY <2>1 DEF FilesInv, Kept, Rewritten, Reachable
  <2> QED
    BY <2>4, <2>5, <2>6, <2>7, <2>8 DEF FilesInv
<1>3. CASE RecordEpoch
  <2>1. /\ pc = "epoch" /\ (pc' = "length" \/ pc' = "free")
        /\ st' = [st EXCEPT !.epoch = [@ EXCEPT ![Head(todo)] = epoch[Head(todo)]]]
        /\ (sms' = sms /\ full' = full /\ pc' = "length") \/ (~full' /\ pc' = "free")
        /\ UNCHANGED <<open, tr, epoch, shards, index, files, reported, damage>>
    BY <1>3 DEF RecordEpoch, Idle, disk
  <2>2. st \in Frontiers /\ st # None /\ st' # None
    BY <2>1, <1>3, RecordedTyped DEF TypeOK, StoreOK, Ready
  <2>3. st'.epoch = [st.epoch EXCEPT ![Head(todo)] = epoch[Head(todo)]]
    BY <2>1, <2>2 DEF Frontiers
  <2>4. Spoken'
    <3>1. DOMAIN st.epoch = Agents
      BY <2>2 DEF Frontiers
    <3> QED
      BY <2>1, <2>2, <2>3, <3>1 DEF FilesInv, Spoken
  <2>5. StoreKnows'
    BY <2>1, <2>2 DEF FilesInv, StoreKnows
  <2>6. SaveGrows'
    BY <2>1 DEF FilesInv, SaveGrows, Saving
  <2>7. Apart'
    BY <2>1, SaveKeepsApart DEF Saving
  <2>8. Kept'
    BY <2>1 DEF FilesInv, Kept, Rewritten, Reachable
  <2> QED
    BY <2>4, <2>5, <2>6, <2>7, <2>8 DEF FilesInv
<1>4. CASE SaveFails
  <2>1. /\ pc \in {"write", "index"} /\ pc' = "free" /\ ~full'
        /\ \/ full /\ UNCHANGED <<st, shards>>
           \/ ~full /\ st' = None /\ shards' = <<>>
        /\ damage' = IF full /\ sms # <<>> THEN damage \cup {"rewrite"} ELSE damage
        /\ UNCHANGED <<open, tr, epoch, index, files, reported>>
    BY <1>4 DEF SaveFails, GivesUp, Idle, disk
  <2>2. Spoken' /\ StoreKnows'
    BY <2>1 DEF FilesInv, Spoken, StoreKnows
  <2>3. SaveGrows'
    BY <2>1 DEF SaveGrows, Saving
  <2>4. Apart'
    BY <2>1, SaveKeepsApart DEF Saving
  <2>5. Kept'
    BY <2>1 DEF FilesInv, Kept, Rewritten, Reachable
  <2> QED
    BY <2>2, <2>3, <2>4, <2>5 DEF FilesInv
<1> QED
  BY <1>1, <1>2, <1>3, <1>4

\* A shard renamed is found under its other name.
LEMMA ArchiveKeepsFilesInv ==
    ASSUME TypeOK, Ready, IInv, FilesInv, Remove \/ ArchiveBegin \/ ArchiveShard \/ ArchiveEnd
    PROVE  FilesInv'
<1>0. DOMAIN index = Base /\ moved \in Nat
  BY DEF TypeOK, DiskOK, OperationOK
<1>1. CASE Remove
  <2>1. /\ open' = FALSE
        /\ UNCHANGED <<tr, epoch, st, shards, operation, index, files, reported, damage>>
    BY <1>1 DEF Remove, store, disk, history
  <2> QED
    BY <2>1 DEF FilesInv, Spoken, StoreKnows, SaveGrows, Apart, Kept, Rewritten, Reachable,
                operation, Saving
<1>2. CASE ArchiveBegin
  <2>1. /\ pc = "free" /\ closing /\ ~full
        /\ UNCHANGED <<open, tr, epoch, st, shards, full, sms, files, reported, damage>>
        /\ \/ UNCHANGED <<index, pc, moved>>
           \/ /\ index["active"] # None
              /\ index' = [[index EXCEPT !["active"] = None]
                             EXCEPT !["archived"] = index["active"]]
              /\ pc' = "archive"
    BY <1>2 DEF ArchiveBegin, Renamed, store, history, Ready, Saving
  <2>2. CASE UNCHANGED <<index, pc, moved>>
    BY <2>1, <2>2 DEF FilesInv, Spoken, StoreKnows, SaveGrows, Apart, Kept, Rewritten,
                      Reachable, Saving
  <2>3. CASE /\ index["active"] # None
             /\ index' = [[index EXCEPT !["active"] = None]
                             EXCEPT !["archived"] = index["active"]]
             /\ pc' = "archive"
    <3>1. index'["active"] = None /\ index'["archived"] = index["active"]
      BY <2>3, <1>0 DEF Base
    <3>2. ~open
      BY <2>1 DEF IInv, PhasesFit
    <3>3. Spoken' /\ SaveGrows'
      BY <2>1, <2>3 DEF FilesInv, Spoken, SaveGrows, Saving
    <3>4. StoreKnows'
      BY <2>1, <2>3, <3>1 DEF FilesInv, StoreKnows
    <3>5. Apart'
      BY <2>1, <2>3, <3>1, <3>2 DEF FilesInv, Apart, Saving
    <3>6. Extent(index') = Extent(index)
      BY <2>3, <3>1 DEF Extent
    <3>7. Kept'
      BY <2>1, <3>6 DEF FilesInv, Kept, Rewritten, Reachable
    <3> QED
      BY <3>3, <3>4, <3>5, <3>7 DEF FilesInv
  <2> QED
    BY <2>1, <2>2, <2>3
<1>3. CASE ArchiveShard
  <2>1. /\ pc = "archive" /\ pc' = "archive" /\ moved < Len(shards)
        /\ Move(moved + 1, "active", "archived")
        /\ UNCHANGED <<open, tr, epoch, st, shards, full, sms, index, reported, damage>>
    BY <1>3 DEF ArchiveShard, memory, store, history
  <2>2. Spoken' /\ SaveGrows' /\ StoreKnows'
    BY <2>1 DEF FilesInv, Spoken, StoreKnows, SaveGrows, Saving
  <2>3. index["archived"] # None /\ moved + 1 \in 1 .. Len(index["archived"])
    <3>1. shards # <<>>
      BY <2>1, <1>0, EmptySeq
    <3>2. shards \in Seq(Nat) /\ Len(shards) \in Nat
      BY LenProperties DEF TypeOK, StoreOK
    <3> QED
      BY <2>1, <1>0, <3>1, <3>2 DEF FilesInv, StoreKnows
  <2>4. CASE {"unarchive", "late"} \cap damage = {}
    <3>1. DOMAIN files["active"] \cap DOMAIN files["archived"] = {}
      BY <2>4 DEF FilesInv, Apart
    <3>2. moved + 1 \in Nat \ {0}
      BY <1>0
    <3>3. /\ Reachable \subseteq Reachable'
          /\ DOMAIN files'["active"] \cap DOMAIN files'["archived"] = {}
          /\ DOMAIN files'["archived"] \subseteq DOMAIN files["archived"] \cup {moved + 1}
      BY <2>1, <3>1, <3>2, MoveKeeps, ExtentTyped DEF Reachable, Base
    <3>4. Apart'
      BY <2>1, <2>3, <2>4, <3>3 DEF FilesInv, Apart, Saving
    <3>5. Kept'
      BY <2>1, <3>3 DEF FilesInv, Kept, Rewritten
    <3> QED
      BY <2>2, <3>4, <3>5 DEF FilesInv
  <2>5. CASE {"unarchive", "late"} \cap damage # {}
    <3>1. Apart' /\ Kept'
      BY <2>1, <2>5 DEF Apart, Kept
    <3> QED
      BY <2>2, <3>1 DEF FilesInv
  <2> QED
    BY <2>4, <2>5
<1>4. CASE ArchiveEnd
  <2>1. /\ pc = "archive" /\ pc' = "free" /\ ~full' /\ st' = None /\ shards' = <<>>
        /\ UNCHANGED <<open, index, files, reported, damage>>
    BY <1>4 DEF ArchiveEnd, Idle, disk
  <2>2. Spoken' /\ StoreKnows' /\ SaveGrows'
    BY <2>1 DEF Spoken, StoreKnows, SaveGrows, Saving
  <2>3. Apart'
    BY <2>1 DEF FilesInv, Apart, StoreKnows, Saving
  <2>4. Kept'
    BY <2>1 DEF FilesInv, Kept, Rewritten, Reachable
  <2> QED
    BY <2>2, <2>3, <2>4 DEF FilesInv
<1> QED
  BY <1>1, <1>2, <1>3, <1>4

\* what is adopted is what the index says
LEMMA AdoptedKnows ==
    ASSUME TypeOK, index["active"] # None, AdoptLoaded(index["active"]),
           UNCHANGED index, pc' \notin {"archive", "unarchive"}
    PROVE  Spoken' /\ StoreKnows' /\ open' = TRUE
<1>1. index["active"] \in Seq(Nat)
  BY DEF TypeOK, DiskOK, Base
<1> DEFINE shard == LastShard(index["active"], files["active"])
<1>2. /\ open' = TRUE
      /\ tr' = [Nothing EXCEPT ![Root] = Of(Root, shard)]
      /\ epoch' = [Zero EXCEPT ![Root] = IF Of(Root, shard) # <<>> THEN 1 ELSE 0]
      /\ shards' = index["active"]
      /\ st' = [persisted |-> Counted(shard),
                epoch |-> [Unknown EXCEPT ![Root] = IF Of(Root, shard) # <<>> THEN 1 ELSE None]]
  BY DEF AdoptLoaded
<1> HIDE DEF shard
<1>3. st'.epoch = [Unknown EXCEPT ![Root] = IF Of(Root, shard) # <<>> THEN 1 ELSE None]
  BY <1>2
<1>4. \A a \in Agents : st'.epoch[a] \in {None, epoch'[a]}
  BY <1>2, <1>3 DEF Unknown, Zero
<1>5. st' # None
  <2>1. Counted(shard) \in [Agents -> Nat]
    <3>1. \A a \in Agents : Len(Of(a, shard)) \in Nat
      BY <1>1, LastShardTyped, OfTyped, LenProperties DEF shard
    <3> QED
      BY <3>1 DEF Counted
  <2>2. [Unknown EXCEPT ![Root] = IF Of(Root, shard) # <<>> THEN 1 ELSE None]
            \in [Agents -> Nat \cup {None}]
    BY DEF Unknown
  <2>3. st' \in Frontiers
    BY <1>2, <2>1, <2>2 DEF Frontiers
  <2> QED
    BY <2>3, StoreAssumption
<1>6. Spoken'
  BY <1>4 DEF Spoken
<1>7. StoreKnows'
  BY <1>2, <1>5 DEF StoreKnows
<1> QED
  BY <1>2, <1>6, <1>7

\* UnarchiveBase takes the index first: its shards are found under either name.
LEMMA ContinueKeepsFilesInv ==
    ASSUME TypeOK, Ready, FilesInv, Continue \/ UnarchiveShard \/ UnarchiveEnd
    PROVE  FilesInv'
<1>0. DOMAIN index = Base /\ moved \in Nat /\ sms # None
  BY StoreAssumption DEF TypeOK, DiskOK, OperationOK
<1>1. CASE Continue
  <2>1. /\ pc = "free" /\ ~full /\ index["archived"] # None /\ ~open
        /\ UNCHANGED <<full, files, reported, damage>>
    BY <1>1 DEF Continue, Ready, Saving
  <2>2. CASE index["active"] # None
    <3>1. AdoptLoaded(index["active"]) /\ UNCHANGED <<index, pc, moved, sms>>
      BY <1>1, <2>2 DEF Continue
    <3>2. Spoken' /\ StoreKnows'
      BY <2>1, <2>2, <3>1, AdoptedKnows
    <3>3. SaveGrows'
      BY <2>1, <3>1 DEF SaveGrows, Saving
    <3>4. Apart'
      BY <2>1, <2>2 DEF FilesInv, Apart
    <3>5. Kept'
      BY <2>1, <3>1 DEF FilesInv, Kept, Rewritten, Reachable
    <3> QED
      BY <3>2, <3>3, <3>4, <3>5 DEF FilesInv
  <2>3. CASE index["active"] = None
    <3>1. /\ index' = [b \in Base |-> IF b = "active" THEN index["archived"] ELSE None]
          /\ sms' = index["archived"] /\ pc' = "unarchive" /\ moved' = 0
          /\ UNCHANGED <<open, tr, epoch, st, shards>>
      BY <1>1, <2>3 DEF Continue, store
    <3>2. index'["active"] = index["archived"] /\ index'["archived"] = None
      BY <3>1 DEF Base
    <3>3. st = None
      <4>1. shards # None
        BY StoreAssumption DEF TypeOK, StoreOK
      <4> QED
        BY <4>1, <2>1, <2>3 DEF FilesInv, StoreKnows
    <3>4. Spoken' /\ StoreKnows' /\ SaveGrows'
      BY <2>1, <3>1, <3>2, <3>3 DEF FilesInv, Spoken, StoreKnows, SaveGrows, Saving
    <3>5. Apart'
      BY <2>1, <2>3, <3>1, <3>2 DEF FilesInv, Apart
    <3>6. Extent(index') = Extent(index)
      BY <2>1, <2>3, <3>2 DEF Extent
    <3>7. Kept'
      BY <2>1, <3>6 DEF FilesInv, Kept, Rewritten, Reachable
    <3> QED
      BY <3>4, <3>5, <3>7 DEF FilesInv
  <2> QED
    BY <2>2, <2>3
<1>2. CASE UnarchiveShard
  <2>1. /\ pc = "unarchive" /\ pc' = "unarchive" /\ moved < Len(sms) /\ moved' = moved + 1
        /\ Move(moved + 1, "archived", "active")
        /\ UNCHANGED <<open, tr, epoch, st, shards, full, sms, index, reported, damage>>
    BY <1>2 DEF UnarchiveShard, memory, store, history
  <2>2. Spoken' /\ SaveGrows' /\ StoreKnows'
    BY <2>1 DEF FilesInv, Spoken, StoreKnows, SaveGrows, Saving
  <2>3. CASE {"unarchive", "late"} \cap damage = {}
    <3>1. /\ DOMAIN files["active"] \cap DOMAIN files["archived"] = {}
          /\ index["archived"] = None
          /\ DOMAIN files["archived"] \subseteq moved + 1 .. Len(sms)
      BY <2>1, <2>3 DEF FilesInv, Apart
    <3>2. moved + 1 \in Nat \ {0}
      BY <1>0
    <3>3. /\ Reachable \subseteq Reachable'
          /\ DOMAIN files'["active"] \cap DOMAIN files'["archived"] = {}
          /\ DOMAIN files'["archived"] = DOMAIN files["archived"] \ {moved + 1}
      BY <2>1, <3>1, <3>2, MoveKeeps, ExtentTyped DEF Reachable, Base
    <3>4. DOMAIN files'["archived"] \subseteq (moved + 1) + 1 .. Len(sms)
      <4>1. Len(sms) \in Nat
        BY LenProperties DEF TypeOK, OperationOK
      <4> QED
        BY <3>1, <3>3, <4>1, <1>0
    <3>5. Apart'
      BY <2>1, <3>1, <3>3, <3>4 DEF Apart
    <3>6. Kept'
      BY <2>1, <3>3 DEF FilesInv, Kept, Rewritten
    <3> QED
      BY <2>2, <3>5, <3>6 DEF FilesInv
  <2>4. CASE {"unarchive", "late"} \cap damage # {}
    <3>1. Apart' /\ Kept'
      BY <2>1, <2>4 DEF Apart, Kept
    <3> QED
      BY <2>2, <3>1 DEF FilesInv
  <2> QED
    BY <2>3, <2>4
<1>3. CASE UnarchiveEnd
  <2>1. /\ pc = "unarchive" /\ pc' = "free" /\ moved = Len(sms) /\ ~full'
        /\ AdoptLoaded(index["active"])
        /\ UNCHANGED <<index, files, reported, damage>>
    BY <1>3 DEF UnarchiveEnd, Idle, disk
  <2>2. index["active"] # None
    BY <2>1, <1>0 DEF FilesInv, StoreKnows
  <2>3. Spoken' /\ StoreKnows' /\ open' = TRUE
    BY <2>1, <2>2, AdoptedKnows
  <2>4. SaveGrows'
    BY <2>1 DEF SaveGrows, Saving
  <2>5. Apart'
    <3>1. moved + 1 .. Len(sms) = {}
      BY <2>1, <1>0
    <3> QED
      BY <2>1, <3>1 DEF FilesInv, Apart
  <2>6. Kept'
    BY <2>1 DEF FilesInv, Kept, Rewritten, Reachable
  <2> QED
    BY <2>3, <2>4, <2>5, <2>6 DEF FilesInv
<1> QED
  BY <1>1, <1>2, <1>3

\* A crash loses the memory and keeps the files.
LEMMA ProcessKeepsFilesInv ==
    ASSUME TypeOK, Ready, IInv, FilesInv, Crash \/ Restart
    PROVE  FilesInv'
<1>1. CASE Crash
  <2>1. /\ open' = FALSE /\ pc' = "free" /\ ~full' /\ st' = None /\ shards' = <<>>
        /\ damage' = damage \cup
               {d \in {"rewrite", "unarchive"} :
                   IF d = "unarchive" THEN pc = "unarchive"
                   ELSE full /\ sms # <<>> /\ pc \in {"write", "orphans", "index"}}
        /\ UNCHANGED <<index, files, reported>>
    BY <1>1 DEF Crash, Idle, disk
  <2>2. Spoken' /\ StoreKnows' /\ SaveGrows'
    BY <2>1 DEF Spoken, StoreKnows, SaveGrows, Saving
  <2>3. /\ damage \subseteq damage'
        /\ "unarchive" \notin damage' => pc # "unarchive"
        /\ damage' = {} => ~Rewritten
    BY <2>1 DEF Rewritten
  <2>4. Apart'
    BY <2>1, <2>3 DEF FilesInv, Apart, Saving
  <2>5. Kept'
    BY <2>1, <2>3 DEF FilesInv, Kept, Reachable
  <2> QED
    BY <2>2, <2>4, <2>5 DEF FilesInv
<1>2. CASE Restart
  <2>1. /\ ~up /\ UNCHANGED <<operation, index, files, reported, damage>>
    BY <1>2 DEF Restart, disk
  <2>2. pc = "free" /\ pc' = "free" /\ ~full /\ ~full' /\ ~open
    BY <2>1 DEF IInv, PhasesFit, Ready, Saving, operation
  <2>3. CASE index["active"] # None
    <3>1. AdoptLoaded(index["active"])
      BY <1>2, <2>3 DEF Restart
    <3>2. Spoken' /\ StoreKnows'
      BY <2>1, <2>2, <2>3, <3>1, AdoptedKnows
    <3>3. SaveGrows'
      BY <2>2 DEF SaveGrows, Saving
    <3>4. Apart'
      BY <2>1, <2>2, <2>3 DEF FilesInv, Apart, operation
    <3>5. Kept'
      BY <2>1, <2>2 DEF FilesInv, Kept, Rewritten, Reachable
    <3> QED
      BY <3>2, <3>3, <3>4, <3>5 DEF FilesInv
  <2>4. CASE index["active"] = None
    <3>1. UNCHANGED <<open, tr, epoch, st, shards>>
      BY <1>2, <2>4 DEF Restart, store
    <3> QED
      BY <2>1, <2>2, <3>1 DEF FilesInv, Spoken, StoreKnows, SaveGrows, Apart, Kept, Rewritten,
                              Reachable, operation, Saving
  <2> QED
    BY <2>3, <2>4
<1> QED
  BY <1>1, <1>2

-----------------------------------------------------------------------------
StoreInv == TypeOK /\ Ready /\ IInv /\ FilesInv

\* Every step keeps the invariant.
LEMMA StepStoreInv == StoreInv /\ [Next]_vars => StoreInv'
<1> SUFFICES ASSUME StoreInv, [Next]_vars PROVE StoreInv'
  OBVIOUS
<1> USE DEF StoreInv
<1>0. IInv'
  BY StepIInv
<1>1. ASSUME NEW a \in Agents, Say(a) \/ Compact(a) \/ Spawn(a)
      PROVE  TypeOK' /\ Ready' /\ FilesInv'
  BY <1>1, AgentsKeepTypeOK, AgentsKeepReady, AgentsKeepFilesInv
<1>2. ASSUME NEW t \in Threads, Persist(t) \/ SaveBegin(t)
      PROVE  TypeOK' /\ Ready' /\ FilesInv'
  BY <1>2, BeginningsKeepTypeOK, BeginningsKeepReady, BeginningsKeepFilesInv
<1>3. CASE Encode
  BY <1>0, <1>3, EncodeKeepsTypeOK, EncodeKeepsFilesInv
<1>4. CASE Roll \/ WriteLine \/ RemoveOrphans
  BY <1>0, <1>4, WriteKeepsTypeOK, WriteKeepsFilesInv
<1>5. CASE WriteIndex \/ RecordLength \/ RecordEpoch \/ SaveFails
  BY <1>0, <1>5, RecordKeepsTypeOK, RecordKeepsFilesInv
<1>6. CASE Remove \/ ArchiveBegin \/ ArchiveShard \/ ArchiveEnd
  BY <1>0, <1>6, ArchiveKeepsTypeOK, ArchiveKeepsFilesInv
<1>7. CASE Continue \/ UnarchiveShard \/ UnarchiveEnd
  <2>1. UnarchiveEnd => index["active"] # None
    BY StoreAssumption DEF UnarchiveEnd, FilesInv, StoreKnows, TypeOK, OperationOK
  <2> QED
    BY <1>0, <1>7, <2>1, ContinueKeepsTypeOK, ContinueKeepsFilesInv
<1>8. CASE Crash \/ Restart
  <2>1. Restart => pc = "free"
    BY DEF Restart, IInv, PhasesFit
  <2> QED
    BY <1>0, <1>8, <2>1, ProcessKeepsTypeOK, ProcessKeepsFilesInv
<1>9. CASE UNCHANGED vars
  <2>1. UNCHANGED <<up, memory, store, operation, disk, next, crashes, history>>
    BY <1>9 DEF vars
  <2>2. TypeOK'
    BY <2>1, Untouched DEF TypeOK
  <2>3. Ready'
    BY <2>1 DEF Ready, Saving, memory, store, operation
  <2>4. FilesInv'
    BY <2>1 DEF FilesInv, Spoken, StoreKnows, SaveGrows, Apart, Kept, Rewritten, Reachable,
                Saving, SetOf, memory, store, operation, disk, history
  <2> QED
    BY <1>0, <2>2, <2>3, <2>4
<1> QED
  BY <1>0, <1>1, <1>2, <1>3, <1>4, <1>5, <1>6, <1>7, <1>8, <1>9 DEF Next, SaveStep, ArchiveStep

\* The invariant holds of every behaviour.
LEMMA StoreInvHolds == Spec => []StoreInv
<1>1. Init => StoreInv
  BY InitTypeOK, InitReady, InitIInv, InitFilesInv DEF StoreInv
<1> QED
  BY <1>1, StepStoreInv, PTL DEF Spec

\* What a successful Save left on disk stays there, under the active or the archived
\* name, through later saves, their failures, closing, reopening and crashes, until a
\* rewrite replaces it: for any agents, threads, shard size and number of messages.
THEOREM SavedIsKept == Spec => []SavedSurvives
<1>1. StoreInv => SavedSurvives
  <2>1. Undisturbed => damage = {} /\ ~Rewritten
    BY DEF Undisturbed, Rewritten, Saving
  <2> QED
    BY <2>1 DEF StoreInv, FilesInv, Kept, SavedSurvives
<1> QED
  BY StoreInvHolds, <1>1, PTL

-----------------------------------------------------------------------------
(* The frontier is what the shards hold.                                     *)

\* no element occurs twice
Distinct(s) == \A i, j \in DOMAIN s : s[i] = s[j] => i = j

\* which agents a save takes in what order, and what it works on
Ordered ==
    /\ Distinct(present) /\ Distinct(agents) /\ Distinct(todo)
    /\ SetOf(todo) \subseteq SetOf(agents)
    /\ Saving => SetOf(agents) \subseteq SetOf(present)
    /\ pc \in {"write", "orphans", "index"} => todo = agents
    /\ pc \in {"orphans", "index", "length", "epoch"} => lines = <<>>
    /\ pc = "encode" => sms = IF full THEN <<>> ELSE shards
    /\ pc \in {"length", "epoch"} => sms = shards /\ (full => first = 1)
    /\ st # None => first = 1 \/ first <= Len(shards)

\* the agent whose length was recorded and whose epoch comes next
Current(a) == pc = "epoch" /\ a = Head(todo)

\* what the store remembers of an agent
Seen(a) ==
    /\ a \notin SetOf(present) => tr[a] = <<>>
    /\ st # None =>
        /\ a \notin SetOf(present) => st.epoch[a] = None
        /\ Saving /\ a \notin SetOf(agents) => st.epoch[a] = None
        /\ st.epoch[a] # None => st.epoch[a] <= epoch[a]
        /\ st.epoch[a] = None /\ a \notin reused /\ ~Current(a) => st.persisted[a] = 0
        /\ pc \in {"length", "epoch"} /\ a \in SetOf(agents) \ SetOf(todo) => st.epoch[a] # None

\* a rewrite that found the frontier out of date has not brought it up to date yet
Behind ==
    full /\ pc \in {"encode", "write", "orphans", "index"} /\ st # None => Compacted

\* the text holds the first n messages of an agent, and nothing else of it
Prefix(a, text, n) == Of(a, text) = SubSeq(tr[a], 1, n) /\ n <= Len(tr[a])

\* between two operations the frontier tells what the shards hold
FreeExact ==
    pc = "free" /\ st # None /\ ~Compacted =>
        \A a \in Agents \ (raced \cup reused) :
            Prefix(a, Content(files["active"], first, Len(shards)), st.persisted[a])

\* what the shards of a save hold and are going to hold
Start == IF full THEN 1 ELSE first
\* what is written and what is still to write
Text == Content(files["active"], Start, Len(sms)) \o lines

\* agents that spoke or were compacted in the wrong moment
Doubtful == IF full THEN racing ELSE racing \cup raced \cup reused

\* how much of an agent that is, as the save goes on
Saved(a) ==
    /\ a \notin SetOf(agents) => Of(a, Text) = <<>>
    /\ pc = "encode" /\ a \in SetOf(todo) => Prefix(a, Text, Offset(a))
    /\ Encoded(a) => Of(a, Text) = tr[a]
    /\ Current(a) => Prefix(a, Text, st.persisted[a])
    /\ /\ pc \in {"length", "epoch"} /\ a \in SetOf(agents) \ SetOf(todo)
       /\ st.epoch[a] = epoch[a]
       => Prefix(a, Text, st.persisted[a])

\* what the shards will hold of an agent is what its frontier will say
SavedExact == Saving => \A a \in Agents \ Doubtful : Saved(a)

\* the inductive invariant of FrontierExact
FrontInv ==
    /\ Ordered /\ (\A a \in Agents : Seen(a))
    /\ Behind /\ FreeExact /\ SavedExact

-----------------------------------------------------------------------------
\* An agent that is not yet there comes last.
LEMMA AppendDistinct ==
  ASSUME NEW s \in Seq(Agents), Distinct(s), NEW a \in Agents \ SetOf(s)
  PROVE  Distinct(Append(s, a)) /\ SetOf(Append(s, a)) = SetOf(s) \cup {a}
<1>1. /\ Len(s) \in Nat /\ DOMAIN s = 1 .. Len(s)
      /\ Append(s, a) \in Seq(Agents) /\ Len(Append(s, a)) = Len(s) + 1
      /\ \A i \in 1 .. Len(s) : Append(s, a)[i] = s[i]
      /\ Append(s, a)[Len(s) + 1] = a
  BY LenProperties, AppendProperties
<1> DEFINE t == Append(s, a)
<1>2. DOMAIN t = 1 .. Len(s) + 1
  BY <1>1, LenProperties
<1>3. \A i \in 1 .. Len(s) : t[i] # a
  BY <1>1 DEF SetOf
<1> HIDE DEF t
<1>4. Distinct(t)
  <2> SUFFICES ASSUME NEW i \in DOMAIN t, NEW j \in DOMAIN t, t[i] = t[j] PROVE i = j
    BY DEF Distinct
  <2>1. i \in 1 .. Len(s) \/ i = Len(s) + 1
    BY <1>1, <1>2
  <2>2. j \in 1 .. Len(s) \/ j = Len(s) + 1
    BY <1>1, <1>2
  <2>3. CASE i = Len(s) + 1
    BY <2>2, <2>3, <1>1, <1>3 DEF t
  <2>4. CASE i \in 1 .. Len(s) /\ j \in 1 .. Len(s)
    BY <2>4, <1>1 DEF Distinct, t
  <2>5. CASE i \in 1 .. Len(s) /\ j = Len(s) + 1
    BY <2>5, <1>1, <1>3 DEF t
  <2> QED BY <2>1, <2>2, <2>3, <2>4, <2>5
<1>5. SetOf(t) = SetOf(s) \cup {a}
  <2>1. ASSUME NEW e \in SetOf(t) PROVE e \in SetOf(s) \cup {a}
    <3>1. PICK i \in DOMAIN t : e = t[i]
      BY DEF SetOf
    <3>2. i \in 1 .. Len(s) \/ i = Len(s) + 1
      BY <1>1, <1>2
    <3> QED BY <3>1, <3>2, <1>1 DEF SetOf, t
  <2>2. ASSUME NEW e \in SetOf(s) \cup {a} PROVE e \in SetOf(t)
    <3>1. CASE e = a
      <4>1. Len(s) + 1 \in DOMAIN t /\ t[Len(s) + 1] = a
        BY <1>1, <1>2 DEF t
      <4> QED BY <4>1, <3>1 DEF SetOf
    <3>2. CASE e # a
      <4>1. PICK i \in 1 .. Len(s) : e = s[i]
        BY <3>2, <1>1 DEF SetOf
      <4>2. i \in DOMAIN t /\ t[i] = e
        BY <4>1, <1>1, <1>2 DEF t
      <4> QED BY <4>2 DEF SetOf
    <3> QED BY <3>1, <3>2
  <2> QED BY <2>1, <2>2
<1> QED BY <1>4, <1>5 DEF t

\* Every agent of the list but the first is in the rest of it.
LEMMA TailDistinct ==
  ASSUME NEW s \in Seq(Agents), Distinct(s), s # <<>>
  PROVE  /\ Distinct(Tail(s)) /\ SetOf(Tail(s)) = SetOf(s) \ {Head(s)}
         /\ Head(s) \in SetOf(s)
         /\ Len(s) <= 1 => SetOf(s) = {Head(s)}
<1>1. /\ Len(s) \in Nat \ {0} /\ DOMAIN s = 1 .. Len(s) /\ Head(s) = s[1]
      /\ Tail(s) \in Seq(Agents) /\ Len(Tail(s)) = Len(s) - 1
      /\ \A i \in 1 .. Len(s) - 1 : Tail(s)[i] = s[i + 1]
  BY LenProperties, EmptySeq, HeadTailProperties
<1> DEFINE t == Tail(s)
<1>2. DOMAIN t = 1 .. Len(s) - 1
  BY <1>1, LenProperties
<1> HIDE DEF t
<1>3. Distinct(t)
  <2> SUFFICES ASSUME NEW i \in DOMAIN t, NEW j \in DOMAIN t, t[i] = t[j] PROVE i = j
    BY DEF Distinct
  <2>1. i + 1 \in DOMAIN s /\ j + 1 \in DOMAIN s /\ s[i + 1] = s[j + 1]
    BY <1>1, <1>2 DEF t
  <2>2. i + 1 = j + 1
    BY <2>1 DEF Distinct
  <2> QED BY <2>2, <1>1, <1>2
<1>4. ASSUME NEW e \in SetOf(t) PROVE e \in SetOf(s) /\ e # Head(s)
  <2>1. PICK i \in DOMAIN t : e = t[i]
    BY DEF SetOf
  <2>2. i + 1 \in DOMAIN s /\ e = s[i + 1] /\ i + 1 # 1 /\ 1 \in DOMAIN s
    BY <1>1, <1>2, <2>1 DEF t
  <2>3. s[i + 1] # s[1]
    BY <2>2 DEF Distinct
  <2> QED BY <1>1, <2>2, <2>3 DEF SetOf
<1>5. ASSUME NEW e \in SetOf(s), e # Head(s) PROVE e \in SetOf(t)
  <2>1. PICK i \in DOMAIN s : e = s[i]
    BY DEF SetOf
  <2>2. i - 1 \in DOMAIN t /\ (i - 1) + 1 = i
    BY <1>1, <1>2, <1>5, <2>1
  <2>3. t[i - 1] = e
    BY <1>1, <1>2, <2>1, <2>2 DEF t
  <2> QED BY <2>2, <2>3 DEF SetOf
<1>6. Head(s) \in SetOf(s)
  BY <1>1 DEF SetOf
<1>7. Len(s) <= 1 => SetOf(s) = {Head(s)}
  BY <1>1 DEF SetOf
<1> QED BY <1>3, <1>4, <1>5, <1>6, <1>7 DEF t

\* What was said first stays first.
LEMMA PrefixStays ==
  ASSUME NEW s \in Seq(Nat), NEW m \in Nat, NEW n \in Nat, n <= Len(s)
  PROVE  SubSeq(Append(s, m), 1, n) = SubSeq(s, 1, n) /\ n <= Len(Append(s, m))
<1>1. /\ Len(s) \in Nat /\ Append(s, m) \in Seq(Nat) /\ Len(Append(s, m)) = Len(s) + 1
      /\ \A i \in 1 .. Len(s) : Append(s, m)[i] = s[i]
  BY LenProperties, AppendProperties
<1>2. \A i \in 1 .. n : s[i] \in Nat /\ Append(s, m)[i] = s[i]
  BY <1>1, ElementOfSeq
<1> DEFINE t == Append(s, m)
<1> HIDE DEF t
<1>3. /\ SubSeq(s, 1, n) \in Seq(Nat) /\ Len(SubSeq(s, 1, n)) = n
      /\ \A i \in 1 .. n : SubSeq(s, 1, n)[i] = s[i]
  <2>1. 1 \in Int /\ n \in Int /\ \A i \in 1 .. n : s[i] \in Nat
    BY <1>2
  <2>2. /\ SubSeq(s, 1, n) \in Seq(Nat) /\ Len(SubSeq(s, 1, n)) = IF 1 <= n THEN n - 1 + 1 ELSE 0
        /\ \A i \in 1 .. n - 1 + 1 : SubSeq(s, 1, n)[i] = s[1 + i - 1]
    BY <2>1, SubSeqProperties
  <2> QED BY <2>2
<1>4. /\ SubSeq(t, 1, n) \in Seq(Nat) /\ Len(SubSeq(t, 1, n)) = n
      /\ \A i \in 1 .. n : SubSeq(t, 1, n)[i] = t[i]
  <2>1. 1 \in Int /\ n \in Int /\ \A i \in 1 .. n : t[i] \in Nat
    BY <1>2 DEF t
  <2>2. /\ SubSeq(t, 1, n) \in Seq(Nat) /\ Len(SubSeq(t, 1, n)) = IF 1 <= n THEN n - 1 + 1 ELSE 0
        /\ \A i \in 1 .. n - 1 + 1 : SubSeq(t, 1, n)[i] = t[1 + i - 1]
    BY <2>1, SubSeqProperties
  <2> QED BY <2>2
<1>5. \A i \in 1 .. n : SubSeq(t, 1, n)[i] = SubSeq(s, 1, n)[i]
  BY <1>2, <1>3, <1>4 DEF t
<1>6. SubSeq(t, 1, n) = SubSeq(s, 1, n)
  BY <1>3, <1>4, <1>5, SeqEqual
<1> QED BY <1>1, <1>6 DEF t

\* The types, as the lemmas below use them.
LEMMA FrontTypes ==
  ASSUME StoreInv
  PROVE  /\ tr \in [Agents -> Seq(Nat)] /\ epoch \in [Agents -> Nat]
         /\ st # None => /\ st \in Frontiers /\ st.persisted \in [Agents -> Nat]
                         /\ st.epoch \in [Agents -> Nat \cup {None}]
         /\ present \in Seq(Agents) /\ agents \in Seq(Agents) /\ todo \in Seq(Agents)
         /\ Files(files["active"]) /\ DOMAIN files = Base
         /\ sms \in Seq(Nat) /\ shards \in Seq(Nat) /\ lines \in Seq(Record)
         /\ Len(sms) \in Nat /\ Len(shards) \in Nat /\ first \in Nat \ {0}
         /\ SetOf(present) \subseteq Agents /\ SetOf(agents) \subseteq Agents
         /\ None \notin Nat
         /\ Saving => todo # <<>> /\ agents # <<>> /\ Head(todo) \in SetOf(todo)
<1>1. /\ tr \in [Agents -> Seq(Nat)] /\ epoch \in [Agents -> Nat]
      /\ present \in Seq(Agents) /\ agents \in Seq(Agents) /\ todo \in Seq(Agents)
      /\ sms \in Seq(Nat) /\ shards \in Seq(Nat) /\ lines \in Seq(Record)
      /\ first \in Nat \ {0} /\ DOMAIN files = Base
  BY DEF StoreInv, TypeOK, ProcessOK, OperationOK, StoreOK, HistoryOK, DiskOK
<1>2. st # None => /\ st \in Frontiers /\ st.persisted \in [Agents -> Nat]
                   /\ st.epoch \in [Agents -> Nat \cup {None}]
  BY DEF StoreInv, TypeOK, StoreOK, Frontiers
<1>3. Files(files["active"])
  BY DEF StoreInv, TypeOK, DiskOK, Base, Files
<1>4. Len(sms) \in Nat /\ Len(shards) \in Nat
  BY <1>1, LenProperties
<1>5. SetOf(present) \subseteq Agents /\ SetOf(agents) \subseteq Agents
  BY <1>1, ElementsOf
<1>6. Head(todo) \in SetOf(todo) \/ todo = <<>>
  <2>1. todo # <<>> => 1 \in DOMAIN todo /\ Head(todo) = todo[1]
    BY <1>1, LenProperties, EmptySeq
  <2> QED BY <2>1 DEF SetOf
<1>7. Saving => todo # <<>> /\ agents # <<>>
  BY DEF StoreInv, Ready
<1>8. Saving => todo # <<>> /\ agents # <<>> /\ Head(todo) \in SetOf(todo)
  BY <1>6, <1>7
<1> QED BY <1>1, <1>2, <1>3, <1>4, <1>5, <1>8, StoreAssumption

\* The save begins to read no later than behind its last shard.
LEMMA StartFits ==
  ASSUME StoreInv, Ordered, Saving
  PROVE  Start \in Nat \ {0} /\ (Start = 1 \/ Start <= Len(sms)) /\ Text \in Seq(Record)
<1>1. ~full => st # None /\ Len(sms) >= Len(shards)
  BY DEF StoreInv, Ready, FilesInv, SaveGrows
<1>2. Start \in Nat \ {0} /\ (Start = 1 \/ Start <= Len(sms))
  BY <1>1, FrontTypes DEF Start, Ordered
<1>3. Content(files["active"], Start, Len(sms)) \in Seq(Record)
  BY <1>2, FrontTypes, ContentSteps
<1>4. Text \in Seq(Record)
  BY <1>3, FrontTypes, ConcatProperties DEF Text
<1> QED BY <1>2, <1>4

\* What none of these steps touches keeps the frontier.
LEMMA FrontUntouched ==
  ASSUME FrontInv,
         UNCHANGED <<present, tr, epoch, st, shards, pc, full, agents, todo, lines, sms,
                     files, racing, raced, reused, first>>
  PROVE  FrontInv'
<1>1. Ordered'
  <2>1. /\ Distinct(present)' /\ Distinct(agents)' /\ Distinct(todo)'
        /\ SetOf(present)' = SetOf(present) /\ SetOf(agents)' = SetOf(agents)
        /\ SetOf(todo)' = SetOf(todo)
    BY DEF FrontInv, Ordered, Distinct, SetOf
  <2> QED BY <2>1 DEF FrontInv, Ordered, Saving
<1>2. Compacted' <=> Compacted
  BY DEF Compacted, SetOf
<1>3. Behind'
  BY <1>2 DEF FrontInv, Behind
<1>4. ASSUME NEW a \in Agents PROVE Seen(a)'
  <2>1. Seen(a)
    BY DEF FrontInv
  <2> QED BY <2>1 DEF Seen, Saving, Current, SetOf
<1>5. FreeExact'
  BY <1>2 DEF FrontInv, FreeExact, Prefix
<1>6. SavedExact'
  <2>1. Text' = Text /\ (Doubtful' = Doubtful) /\ (Saving' <=> Saving)
    BY DEF Text, Start, Doubtful, Saving
  <2> SUFFICES ASSUME Saving', NEW a \in Agents \ Doubtful' PROVE Saved(a)'
    BY DEF SavedExact
  <2>2. Saved(a)
    BY <2>1 DEF FrontInv, SavedExact
  <2> QED BY <2>1, <2>2 DEF Saved, Current, Encoded, Prefix, Offset, SetOf, Saving
<1> QED BY <1>1, <1>3, <1>4, <1>5, <1>6 DEF FrontInv


-----------------------------------------------------------------------------
\* Every agent's transcript but one is left alone: what the invariant says of the
\* others stays.
LEMMA SayKeepsFront ==
  ASSUME StoreInv, FrontInv, NEW a \in Agents, Say(a)
  PROVE  FrontInv'
<1>1. /\ a \in SetOf(present) /\ next \in Nat
      /\ tr' = [tr EXCEPT ![a] = Append(tr[a], next)]
      /\ racing' = IF Encoded(a) THEN racing \cup {a} ELSE racing
      /\ UNCHANGED <<present, epoch, st, shards, pc, full, agents, todo, lines, sms, files,
                     raced, reused, first>>
  BY DEF Say, store, operation, disk, StoreInv, TypeOK, ProcessOK
<1>2. /\ tr'[a] = Append(tr[a], next) /\ tr[a] \in Seq(Nat)
      /\ \A b \in Agents \ {a} : tr'[b] = tr[b]
  BY <1>1, FrontTypes
<1>3. Ordered'
  <2>1. /\ Distinct(present)' /\ Distinct(agents)' /\ Distinct(todo)'
        /\ SetOf(present)' = SetOf(present) /\ SetOf(agents)' = SetOf(agents)
        /\ SetOf(todo)' = SetOf(todo)
    BY <1>1 DEF FrontInv, Ordered, Distinct, SetOf
  <2> QED BY <1>1, <2>1 DEF FrontInv, Ordered, Saving
<1>4. (Compacted' <=> Compacted) /\ Text' = Text /\ (Saving' <=> Saving)
  BY <1>1 DEF Compacted, SetOf, Text, Start, Saving
<1>5. Behind'
  BY <1>1, <1>4 DEF FrontInv, Behind
<1>6. ASSUME NEW b \in Agents PROVE Seen(b)'
  <2>1. Seen(b) /\ SetOf(present)' = SetOf(present) /\ (b # a => tr'[b] = tr[b])
    BY <1>1, <1>2 DEF FrontInv, SetOf
  <2> QED BY <1>1, <2>1 DEF Seen, Saving, Current, SetOf
<1>7. ASSUME NEW b \in Agents, NEW text, NEW n \in Nat, Prefix(b, text, n)
      PROVE  Of(b, text) = SubSeq(tr'[b], 1, n) /\ n <= Len(tr'[b])
  BY <1>1, <1>2, <1>7, PrefixStays DEF Prefix
<1>8. FreeExact'
  <2> SUFFICES ASSUME pc = "free", st # None, ~Compacted,
                      NEW b \in Agents \ (raced \cup reused)
               PROVE  LET text == Content(files["active"], first, Len(shards))
                      IN Of(b, text) = SubSeq(tr'[b], 1, st.persisted[b])
                         /\ st.persisted[b] <= Len(tr'[b])
    BY <1>1, <1>4 DEF FreeExact, Prefix
  <2>1. Prefix(b, Content(files["active"], first, Len(shards)), st.persisted[b])
    BY DEF FrontInv, FreeExact
  <2>2. st.persisted[b] \in Nat
    BY FrontTypes
  <2> QED BY <1>7, <2>1, <2>2
<1>9. SavedExact'
  <2> SUFFICES ASSUME Saving, NEW b \in Agents \ Doubtful' PROVE Saved(b)'
    BY <1>4 DEF SavedExact
  <2>1. b \notin Doubtful /\ (b = a => ~Encoded(a))
    BY <1>1 DEF Doubtful
  <2>2. Saved(b)
    BY <2>1 DEF FrontInv, SavedExact
  <2>3. /\ SetOf(agents)' = SetOf(agents) /\ SetOf(todo)' = SetOf(todo)
        /\ (Encoded(b)' <=> Encoded(b)) /\ (Current(b)' <=> Current(b))
        /\ Offset(b)' = Offset(b)
    BY <1>1, <1>4 DEF SetOf, Encoded, Current, Offset
  <2>4. Encoded(b) => tr'[b] = tr[b]
    BY <1>2, <2>1
  <2>5. pc = "encode" => Offset(b) \in Nat
    BY FrontTypes DEF Offset, StoreInv, Ready, Saving
  <2>6. pc \in {"length", "epoch"} => st.persisted[b] \in Nat
    BY FrontTypes DEF StoreInv, Ready
  <2>7. pc = "encode" /\ b \in SetOf(todo) => Prefix(b, Text, Offset(b))'
    <3> SUFFICES ASSUME pc = "encode", b \in SetOf(todo)
                 PROVE  Of(b, Text) = SubSeq(tr'[b], 1, Offset(b)) /\ Offset(b) <= Len(tr'[b])
      BY <1>4, <2>3 DEF Prefix
    <3> QED BY <1>7, <2>2, <2>5 DEF Saved
  <2>8. /\ Current(b) \/ (/\ pc \in {"length", "epoch"} /\ b \in SetOf(agents) \ SetOf(todo)
                          /\ st.epoch[b] = epoch[b])
        => Prefix(b, Text, st.persisted[b])'
    <3> SUFFICES ASSUME Current(b) \/ (/\ pc \in {"length", "epoch"}
                                       /\ b \in SetOf(agents) \ SetOf(todo)
                                       /\ st.epoch[b] = epoch[b])
                 PROVE  Of(b, Text) = SubSeq(tr'[b], 1, st.persisted[b])
                        /\ st.persisted[b] <= Len(tr'[b])
      BY <1>1, <1>4 DEF Prefix
    <3>1. Prefix(b, Text, st.persisted[b]) /\ pc \in {"length", "epoch"}
      BY <2>2 DEF Saved, Current
    <3> QED BY <1>7, <2>6, <3>1
  <2> QED BY <1>1, <1>4, <2>2, <2>3, <2>4, <2>7, <2>8 DEF Saved
<1> QED BY <1>3, <1>5, <1>6, <1>8, <1>9 DEF FrontInv

\* A compaction that a save may miss is one that the next save sees.
LEMMA CompactKeepsFront ==
  ASSUME StoreInv, FrontInv, NEW a \in Agents, Compact(a)
  PROVE  FrontInv'
<1>1. /\ a \in SetOf(present) /\ next \in Nat
      /\ tr' = [tr EXCEPT ![a] = <<next>>]
      /\ epoch' = [epoch EXCEPT ![a] = epoch[a] + 1]
      /\ racing' = IF EpochTrusted(a) THEN racing \cup {a} ELSE racing
      /\ UNCHANGED <<present, st, shards, pc, full, agents, todo, lines, sms, files,
                     raced, reused, first>>
  BY DEF Compact, store, operation, disk, StoreInv, TypeOK, ProcessOK
<1>2. /\ epoch'[a] = epoch[a] + 1 /\ epoch[a] \in Nat
      /\ tr'[a] \in Seq(Nat)
      /\ \A b \in Agents \ {a} : tr'[b] = tr[b] /\ epoch'[b] = epoch[b]
  <2>1. <<next>> \in Seq(Nat)
    BY <1>1
  <2> QED BY <1>1, <2>1, FrontTypes
<1>3. Ordered'
  <2>1. /\ Distinct(present)' /\ Distinct(agents)' /\ Distinct(todo)'
        /\ SetOf(present)' = SetOf(present) /\ SetOf(agents)' = SetOf(agents)
        /\ SetOf(todo)' = SetOf(todo)
    BY <1>1 DEF FrontInv, Ordered, Distinct, SetOf
  <2> QED BY <1>1, <2>1 DEF FrontInv, Ordered, Saving
<1>4. Text' = Text /\ (Saving' <=> Saving) /\ SetOf(present)' = SetOf(present)
      /\ SetOf(agents)' = SetOf(agents) /\ SetOf(todo)' = SetOf(todo)
  BY <1>1 DEF SetOf, Text, Start, Saving
<1>5. st # None /\ st.epoch[a] # None => st.epoch[a] \in Nat /\ st.epoch[a] # epoch'[a]
  <2> SUFFICES ASSUME st # None, st.epoch[a] # None
               PROVE  st.epoch[a] \in Nat /\ st.epoch[a] # epoch'[a]
    OBVIOUS
  <2>1. st.epoch[a] \in Nat
    BY FrontTypes
  <2>2. st.epoch[a] <= epoch[a]
    BY DEF FrontInv, Seen
  <2> QED BY <1>2, <2>1, <2>2
<1>6. /\ st # None /\ Compacted => Compacted'
      /\ st # None /\ ~Compacted' => st.epoch[a] = None
  <2>1. SetOf(present) \subseteq Agents
    BY FrontTypes
  <2>2. ASSUME st # None, Compacted PROVE Compacted'
    <3>1. PICK b \in SetOf(present) : st.epoch[b] \notin {None, epoch[b]}
      BY <2>2 DEF Compacted
    <3>2. st.epoch[b] \notin {None, epoch'[b]}
      BY <1>2, <1>5, <2>1, <2>2, <3>1
    <3> QED BY <1>1, <1>4, <3>1, <3>2 DEF Compacted
  <2>3. ASSUME st # None, ~Compacted' PROVE st.epoch[a] = None
    <3>1. a \in SetOf(present)' /\ st' = st
      BY <1>1, <1>4
    <3>2. st.epoch[a] \in {None, epoch'[a]}
      BY <2>3, <3>1 DEF Compacted
    <3> QED BY <1>5, <2>3, <3>2
  <2> QED BY <2>2, <2>3
<1>7. Behind'
  BY <1>1, <1>6 DEF FrontInv, Behind
<1>8. ASSUME NEW b \in Agents PROVE Seen(b)'
  <2>1. Seen(b) /\ (b # a => tr'[b] = tr[b] /\ epoch'[b] = epoch[b])
    BY <1>1, <1>2 DEF FrontInv
  <2>2. b = a => b \in SetOf(present)
    BY <1>1
  <2>3. ASSUME st # None, st.epoch[b] # None PROVE st.epoch[b] <= epoch'[b]
    <3>1. st.epoch[b] <= epoch[b] /\ st.epoch[b] \in Nat /\ epoch[b] \in Nat
      BY <2>1, <2>3, FrontTypes DEF Seen
    <3>2. epoch'[b] = epoch[b] \/ epoch'[b] = epoch[b] + 1
      BY <1>2
    <3> QED BY <3>1, <3>2
  <2>4. (Current(b)' <=> Current(b)) /\ (Saving' <=> Saving)
    BY <1>1, <1>4 DEF Current
  <2> QED BY <1>1, <1>4, <2>1, <2>2, <2>3, <2>4 DEF Seen
<1>9. ASSUME NEW text, Prefix(a, text, 0)
      PROVE  Of(a, text) = SubSeq(tr'[a], 1, 0) /\ 0 <= Len(tr'[a])
  <2>1. SubSeq(tr[a], 1, 0) = <<>> /\ SubSeq(tr'[a], 1, 0) = <<>>
    BY SubSeqEmpty
  <2> QED BY <1>2, <1>9, <2>1, LenProperties DEF Prefix
<1>10. FreeExact'
  <2> SUFFICES ASSUME pc = "free", st # None, ~Compacted',
                      NEW b \in Agents \ (raced \cup reused)
               PROVE  LET text == Content(files["active"], first, Len(shards))
                      IN Of(b, text) = SubSeq(tr'[b], 1, st.persisted[b])
                         /\ st.persisted[b] <= Len(tr'[b])
    BY <1>1 DEF FreeExact, Prefix
  <2>1. Prefix(b, Content(files["active"], first, Len(shards)), st.persisted[b])
    BY <1>6 DEF FrontInv, FreeExact
  <2>2. CASE b # a
    BY <1>2, <2>1, <2>2 DEF Prefix
  <2>3. CASE b = a
    <3>1. st.persisted[a] = 0
      BY <1>6, <2>3 DEF FrontInv, Seen, Current
    <3> QED BY <1>9, <2>1, <2>3, <3>1
  <2> QED BY <2>2, <2>3
<1>11. SavedExact'
  <2> SUFFICES ASSUME Saving, NEW b \in Agents \ Doubtful' PROVE Saved(b)'
    BY <1>4 DEF SavedExact
  <2>1. b \notin Doubtful /\ (b = a => ~EpochTrusted(a))
    BY <1>1 DEF Doubtful
  <2>2. Saved(b)
    BY <2>1 DEF FrontInv, SavedExact
  <2>3. /\ (Encoded(b)' <=> Encoded(b)) /\ (Current(b)' <=> Current(b))
        /\ Offset(b)' = Offset(b)
    BY <1>1, <1>4 DEF Encoded, Current, Offset
  <2>4. CASE b # a
    <3>1. tr'[b] = tr[b] /\ epoch'[b] = epoch[b]
      BY <1>2, <2>4
    <3> QED BY <1>1, <1>4, <2>2, <2>3, <3>1 DEF Saved, Prefix
  <2>5. CASE b = a
    <3>1. \/ a \notin SetOf(agents)
          \/ full /\ pc = "encode" /\ a \in SetOf(todo)
          \/ pc \in {"length", "epoch"} /\ a \in SetOf(agents) \ SetOf(todo)
      BY <2>1, <2>5 DEF EpochTrusted
    <3>2. SetOf(todo) \subseteq SetOf(agents) /\ (pc = "epoch" => Head(todo) \in SetOf(todo))
      BY FrontTypes DEF FrontInv, Ordered, Saving
    <3>3. ~Encoded(a) /\ ~Current(a)
      BY <3>1, <3>2 DEF Encoded, Current
    <3>4. CASE a \notin SetOf(agents)
      BY <1>1, <1>4, <2>2, <2>3, <2>5, <3>2, <3>3, <3>4 DEF Saved
    <3>5. CASE full /\ pc = "encode" /\ a \in SetOf(todo)
      <4>1. Offset(a) = 0 /\ Prefix(a, Text, 0)
        BY <2>2, <2>5, <3>5 DEF Offset, Saved
      <4>2. Prefix(a, Text, Offset(a))'
        BY <1>4, <1>9, <2>3, <2>5, <4>1 DEF Prefix
      <4> QED BY <1>1, <1>4, <2>2, <2>3, <2>5, <3>2, <3>3, <3>5, <4>2 DEF Saved
    <3>6. CASE pc \in {"length", "epoch"} /\ a \in SetOf(agents) \ SetOf(todo)
      <4>1. st.epoch[a] # epoch'[a]
        <5>1. st # None
          BY <3>6 DEF StoreInv, Ready
        <5>2. epoch'[a] \in Nat
          BY <1>2
        <5> QED BY <1>5, <5>1, <5>2, StoreAssumption
      <4> QED BY <1>1, <1>4, <2>2, <2>3, <2>5, <3>2, <3>3, <3>6, <4>1 DEF Saved
    <3> QED BY <3>1, <3>4, <3>5, <3>6
  <2> QED BY <2>4, <2>5
<1> QED BY <1>3, <1>7, <1>8, <1>10, <1>11 DEF FrontInv

\* A new agent has said nothing yet.
LEMMA SpawnKeepsFront ==
  ASSUME StoreInv, FrontInv, NEW a \in Agents, Spawn(a)
  PROVE  FrontInv'
<1>1. /\ a \notin SetOf(present) /\ present' = Append(present, a)
      /\ UNCHANGED <<tr, epoch, st, shards, pc, full, agents, todo, lines, sms, files,
                     racing, raced, reused, first>>
  BY DEF Spawn, store, operation, disk, history
<1>2. Distinct(present') /\ SetOf(present') = SetOf(present) \cup {a}
  BY <1>1, AppendDistinct, FrontTypes DEF FrontInv, Ordered
<1>3. SetOf(agents)' = SetOf(agents) /\ SetOf(todo)' = SetOf(todo) /\ SetOf(present)' = SetOf(present')
  BY <1>1 DEF SetOf
<1>4. Distinct(present)' /\ Distinct(agents)' /\ Distinct(todo)'
  BY <1>1, <1>2 DEF Distinct, FrontInv, Ordered
<1>5. Ordered'
  BY <1>1, <1>2, <1>3, <1>4 DEF FrontInv, Ordered, Saving
<1>6. st # None => (Compacted' <=> Compacted)
  <2> SUFFICES ASSUME st # None PROVE Compacted' <=> Compacted
    OBVIOUS
  <2>1. st.epoch[a] = None
    BY <1>1 DEF FrontInv, Seen
  <2> QED BY <1>1, <1>2, <1>3, <2>1 DEF Compacted
<1>7. Behind'
  BY <1>1, <1>6 DEF FrontInv, Behind
<1>8. ASSUME NEW b \in Agents PROVE Seen(b)'
  <2>1. Seen(b) /\ (Saving' <=> Saving) /\ (Current(b)' <=> Current(b))
    BY <1>1 DEF FrontInv, Saving, Current
  <2> QED BY <1>1, <1>2, <1>3, <2>1 DEF Seen
<1>9. FreeExact'
  BY <1>1, <1>6 DEF FrontInv, FreeExact, Prefix
<1>10. SavedExact'
  <2>1. Text' = Text /\ Doubtful' = Doubtful /\ (Saving' <=> Saving)
    BY <1>1 DEF Text, Start, Doubtful, Saving
  <2> SUFFICES ASSUME Saving, NEW b \in Agents \ Doubtful PROVE Saved(b)'
    BY <2>1 DEF SavedExact
  <2>2. Saved(b)
    BY DEF FrontInv, SavedExact
  <2>3. (Encoded(b)' <=> Encoded(b)) /\ (Current(b)' <=> Current(b)) /\ Offset(b)' = Offset(b)
    BY <1>1, <1>3, <2>1 DEF Encoded, Current, Offset
  <2> QED BY <1>1, <1>3, <2>1, <2>2, <2>3 DEF Saved, Prefix
<1> QED BY <1>5, <1>7, <1>8, <1>9, <1>10 DEF FrontInv


-----------------------------------------------------------------------------
\* Outside a save only the files and the table of another operation change.
LEMMA OutsideFront ==
  ASSUME FrontInv, ~Saving, ~full, pc' \in {"archive", "unarchive"},
         UNCHANGED <<present, tr, epoch, st, shards, full, agents, todo, reused, first>>
  PROVE  FrontInv'
<1>1. ~Saving' /\ \A a : ~Current(a) /\ ~Current(a)'
  BY DEF Saving, Current
<1>2. /\ Distinct(present)' /\ Distinct(agents)' /\ Distinct(todo)'
      /\ SetOf(present)' = SetOf(present) /\ SetOf(agents)' = SetOf(agents)
      /\ SetOf(todo)' = SetOf(todo)
  BY DEF FrontInv, Ordered, Distinct, SetOf
<1>3. Ordered'
  BY <1>1, <1>2 DEF FrontInv, Ordered
<1>4. ASSUME NEW a \in Agents PROVE Seen(a)'
  <2>1. Seen(a)
    BY DEF FrontInv
  <2> QED BY <1>1, <1>2, <2>1 DEF Seen
<1>5. Behind' /\ FreeExact' /\ SavedExact'
  BY <1>1 DEF Behind, FreeExact, SavedExact
<1> QED BY <1>3, <1>4, <1>5 DEF FrontInv

\* Without a frontier there is nothing to hold.
LEMMA ForgottenFront ==
  ASSUME FrontInv, Idle, st' = None,
         UNCHANGED <<present, tr>> \/ (present' = <<>> /\ tr' = Nothing)
  PROVE  FrontInv'
<1>1. pc' = "free" /\ agents' = <<>> /\ todo' = <<>> /\ full' = FALSE
  BY DEF Idle
<1>2. ~Saving'
  BY <1>1 DEF Saving
<1>3. Distinct(present)' /\ Distinct(agents)' /\ Distinct(todo)' /\ SetOf(todo)' = {}
  BY <1>1 DEF FrontInv, Ordered, Distinct, SetOf
<1>4. Ordered'
  BY <1>1, <1>2, <1>3 DEF Ordered
<1>5. ASSUME NEW a \in Agents PROVE Seen(a)'
  <2>1. Seen(a)
    BY DEF FrontInv
  <2>2. a \notin SetOf(present)' => tr'[a] = <<>>
    BY <2>1 DEF Seen, SetOf, Nothing
  <2> QED BY <2>2 DEF Seen
<1>6. Behind' /\ FreeExact' /\ SavedExact'
  BY <1>1, <1>2 DEF Behind, FreeExact, SavedExact
<1> QED BY <1>4, <1>5, <1>6 DEF FrontInv

\* A save that begins knows of each agent what the shards hold, or begins anew.
LEMMA SaveBeginKeepsFront ==
  ASSUME StoreInv, FrontInv, NEW t \in Threads, SaveBegin(t)
  PROVE  FrontInv'
<1>1. /\ pc = "free" /\ pc' = "encode"
      /\ full' = (st = None \/ Compacted)
      /\ agents' = present /\ todo' = present /\ lines' = <<>>
      /\ sms' = IF full' THEN <<>> ELSE shards
      /\ racing' = {}
      /\ UNCHANGED <<present, tr, epoch, st, shards, files, raced, reused, first>>
  BY DEF SaveBegin, memory, disk
<1>2. Saving' /\ \A a : ~Current(a) /\ ~Current(a)'
  BY <1>1 DEF Saving, Current
<1>3. /\ Distinct(present)' /\ Distinct(agents)' /\ Distinct(todo)'
      /\ SetOf(present)' = SetOf(present) /\ SetOf(agents)' = SetOf(present)
      /\ SetOf(todo)' = SetOf(present)
  BY <1>1 DEF FrontInv, Ordered, Distinct, SetOf
<1>4. Ordered'
  BY <1>1, <1>2, <1>3 DEF FrontInv, Ordered
<1>5. ASSUME NEW a \in Agents PROVE Seen(a)'
  <2>1. Seen(a)
    BY DEF FrontInv
  <2> QED BY <1>1, <1>2, <1>3, <2>1 DEF Seen
<1>6. Behind' /\ FreeExact'
  <2>1. Compacted' <=> Compacted
    BY <1>1 DEF Compacted, SetOf
  <2> QED BY <1>1, <2>1 DEF Behind, FreeExact
<1>7. SavedExact'
  <2> SUFFICES ASSUME NEW a \in Agents \ Doubtful' PROVE Saved(a)'
    BY DEF SavedExact
  <2>1. ~Encoded(a)'
    BY <1>1, <1>3 DEF Encoded
  <2>2. CASE full'
    <3>1. Content(files["active"], 1, 0) = <<>>
      BY FrontTypes, ContentSteps
    <3>2. Text' = <<>>
      BY <1>1, <2>2, <3>1, ConcatEmptySeq, EmptySeq DEF Text, Start
    <3>3. Offset(a)' = 0 /\ SubSeq(tr[a], 1, 0) = <<>> /\ Of(a, <<>>) = <<>>
      BY <2>2, OfEmpty, SubSeqEmpty DEF Offset
    <3>4. 0 <= Len(tr[a])
      BY FrontTypes, LenProperties
    <3> QED BY <1>1, <1>2, <2>1, <3>2, <3>3, <3>4 DEF Saved, Prefix
  <2>3. CASE ~full'
    <3> DEFINE text == Content(files["active"], first, Len(shards))
    <3>1. st # None /\ ~Compacted /\ a \notin raced \cup reused
      BY <1>1, <2>3 DEF Doubtful
    <3>2. text \in Seq(Record)
      BY FrontTypes, ContentSteps
    <3>3. Text' = text
      BY <1>1, <2>3, <3>2, ConcatEmptySeq DEF Text, Start
    <3>4. Prefix(a, text, st.persisted[a])
      BY <1>1, <3>1 DEF FrontInv, FreeExact
    <3>5. Offset(a)' = st.persisted[a]
      BY <1>1, <2>3 DEF Offset
    <3> HIDE DEF text
    <3>6. Prefix(a, Text, Offset(a))'
      BY <1>1, <3>3, <3>4, <3>5 DEF Prefix
    <3>7. a \notin SetOf(present) => Of(a, text) = <<>>
      <4> SUFFICES ASSUME a \notin SetOf(present) PROVE Of(a, text) = <<>>
        OBVIOUS
      <4>1. tr[a] = <<>> /\ st.persisted[a] = 0
        BY <1>2, <3>1 DEF FrontInv, Seen
      <4>2. SubSeq(tr[a], 1, 0) = <<>>
        BY SubSeqEmpty
      <4> QED BY <3>4, <4>1, <4>2 DEF Prefix
    <3> QED BY <1>1, <1>2, <1>3, <2>1, <3>3, <3>6, <3>7 DEF Saved
  <2> QED BY <2>2, <2>3
<1> QED BY <1>4, <1>5, <1>6, <1>7 DEF FrontInv

\* What encodeMessages takes of an agent continues what is known to be there.
LEMMA EncodeKeepsFront ==
  ASSUME StoreInv, FrontInv, Encode
  PROVE  FrontInv'
<1> DEFINE a == Head(todo)
           new == SubSeq(tr[a], Offset(a) + 1, Len(tr[a]))
<1>1. /\ pc = "encode" /\ Saving /\ lines' = lines \o Lines(a, new)
      /\ UNCHANGED <<present, tr, epoch, st, shards, full, agents, sms, files, racing,
                     raced, reused, first>>
  BY DEF Encode, Lines, memory, store, disk, history, Saving
<1>2. \/ Len(todo) > 1 /\ pc' = "encode" /\ todo' = Tail(todo)
      \/ /\ Len(todo) <= 1 /\ todo' = agents
         /\ \/ pc' = "write"
            \/ lines' = <<>> /\ pc' = "orphans" /\ full
            \/ lines' = <<>> /\ pc' \in {"index", "length"} /\ ~full
  <2>1. Len(todo) \in Nat
    BY FrontTypes, LenProperties
  <2> QED BY <2>1 DEF Encode
<1>3. /\ a \in Agents /\ Offset(a) \in Nat /\ new \in Seq(Nat)
      /\ Lines(a, new) \in Seq(Record)
  BY <1>1, EncodedTyped DEF StoreInv, Lines
<1>4. /\ a \in SetOf(todo) /\ Distinct(Tail(todo)) /\ SetOf(Tail(todo)) = SetOf(todo) \ {a}
      /\ Len(todo) <= 1 => SetOf(todo) = {a}
  BY <1>1, TailDistinct, FrontTypes DEF FrontInv, Ordered
<1> HIDE DEF a
<1>5. /\ Distinct(present)' /\ Distinct(agents)' /\ Distinct(todo)'
      /\ SetOf(present)' = SetOf(present) /\ SetOf(agents)' = SetOf(agents)
      /\ SetOf(todo)' = IF Len(todo) <= 1 THEN SetOf(agents) ELSE SetOf(todo) \ {a}
  <2>1. SetOf(todo)' = SetOf(todo') /\ (Distinct(todo)' <=> Distinct(todo'))
    BY DEF SetOf, Distinct
  <2>2. Len(todo) \in Nat
    BY FrontTypes, LenProperties
  <2>3. Distinct(todo')
    BY <1>2, <1>4 DEF FrontInv, Ordered
  <2>4. SetOf(todo') = IF Len(todo) <= 1 THEN SetOf(agents) ELSE SetOf(todo) \ {a}
    <3>1. CASE Len(todo) <= 1
      <4>1. todo' = agents
        BY <1>2, <2>2, <3>1
      <4> QED BY <3>1, <4>1
    <3>2. CASE ~(Len(todo) <= 1)
      <4>1. todo' = Tail(todo)
        BY <1>2, <2>2, <3>2
      <4> QED BY <1>4, <3>2, <4>1
    <3> QED BY <3>1, <3>2
  <2>5. Distinct(present)' /\ Distinct(agents)'
    BY <1>1 DEF FrontInv, Ordered, Distinct
  <2>6. SetOf(present)' = SetOf(present) /\ SetOf(agents)' = SetOf(agents)
    BY <1>1 DEF SetOf
  <2> QED BY <2>1, <2>3, <2>4, <2>5, <2>6
<1>6. Ordered'
  <2>1. Saving' /\ SetOf(todo)' \subseteq SetOf(agents)'
    BY <1>2, <1>5 DEF Saving, FrontInv, Ordered
  <2> QED BY <1>1, <1>2, <1>5, <2>1 DEF FrontInv, Ordered
<1>7. \A b : ~Current(b) /\ ~Current(b)'
  BY <1>1, <1>2 DEF Current
<1>8. ASSUME NEW b \in Agents PROVE Seen(b)'
  <2>1. Seen(b)
    BY DEF FrontInv
  <2>2. pc' \in {"length", "epoch"} => SetOf(todo)' = SetOf(agents)'
    BY <1>2, <1>5
  <2> QED BY <1>1, <1>5, <1>7, <2>1, <2>2 DEF Seen
<1>9. Behind' /\ FreeExact'
  <2>1. Compacted' <=> Compacted
    BY <1>1 DEF Compacted, SetOf
  <2> QED BY <1>1, <1>2, <2>1 DEF Behind, FreeExact, FrontInv
<1>10. Text \in Seq(Record) /\ Text' = Text \o Lines(a, new)
  <2> DEFINE c == Content(files["active"], Start, Len(sms))
  <2>1. Start \in Nat \ {0} /\ Text \in Seq(Record)
    BY <1>1, StartFits DEF FrontInv
  <2>2. c \in Seq(Record) /\ lines \in Seq(Record)
    BY <2>1, FrontTypes, ContentSteps
  <2>3. Text' = c \o (lines \o Lines(a, new)) /\ Text = c \o lines
    BY <1>1 DEF Text, Start
  <2> HIDE DEF c
  <2> QED BY <1>3, <2>1, <2>2, <2>3, Associative, SMTT(30)
<1>11. ASSUME NEW b \in Agents, b # a PROVE Of(b, Text') = Of(b, Text)
  <2>1. Of(b, Lines(a, new)) = <<>>
    BY <1>3, <1>11, OfLines
  <2>2. Of(b, Text') = Of(b, Text) \o <<>>
    <3>1. Of(b, Text \o Lines(a, new)) = Of(b, Text) \o Of(b, Lines(a, new))
      BY <1>3, <1>10, OfConcat
    <3> QED BY <1>10, <2>1, <3>1
  <2>3. Of(b, Text) \in Seq(Nat)
    BY <1>10, OfTyped
  <2> QED BY <2>2, <2>3, ConcatEmptySeq
<1>12. ASSUME a \notin Doubtful PROVE Of(a, Text') = tr[a]
  <2>1. Prefix(a, Text, Offset(a))
    BY <1>1, <1>3, <1>4, <1>12 DEF FrontInv, SavedExact, Saved
  <2>2. Of(a, Text') = SubSeq(tr[a], 1, Offset(a)) \o new
    <3>1. Of(a, Lines(a, new)) = new
      BY <1>3, OfLines
    <3> QED BY <1>3, <1>10, <2>1, <3>1, OfConcat DEF Prefix
  <2>3. tr[a] \in Seq(Nat) /\ Len(tr[a]) \in Nat /\ Offset(a) <= Len(tr[a])
    BY <1>3, <2>1, FrontTypes, LenProperties DEF Prefix
  <2>4. 1 \in 1 .. Len(tr[a]) + 1 /\ Offset(a) \in 1 - 1 .. Len(tr[a])
        /\ Len(tr[a]) \in Offset(a) .. Len(tr[a])
    BY <1>3, <2>3
  <2>5. SubSeq(tr[a], 1, Offset(a)) \o new = SubSeq(tr[a], 1, Len(tr[a]))
    BY <2>3, <2>4, ConcatAdjacentSubSeq
  <2> QED BY <2>2, <2>3, <2>5, SubSeqFull
<1> HIDE DEF new
<1>13. SavedExact'
  <2>1. Doubtful' = Doubtful
    BY <1>1 DEF Doubtful
  <2> SUFFICES ASSUME NEW b \in Agents \ Doubtful PROVE Saved(b)'
    BY <2>1 DEF SavedExact
  <2>2. Saved(b)
    BY <1>1 DEF FrontInv, SavedExact
  <2>3. SetOf(todo) \subseteq SetOf(agents)
    BY DEF FrontInv, Ordered
  <2>4. b \notin SetOf(agents)' => Of(b, Text)' = <<>>
    <3> SUFFICES ASSUME b \notin SetOf(agents) PROVE Of(b, Text') = <<>>
      BY <1>5
    <3>1. b # a
      BY <1>4, <2>3
    <3> QED BY <1>11, <2>2, <3>1 DEF Saved
  <2>5. Encoded(b)' => Of(b, Text)' = tr'[b]
    <3> SUFFICES ASSUME Encoded(b)', b # a PROVE Of(b, Text') = tr[b]
      BY <1>1, <1>12
    <3>1. b \in SetOf(agents) /\ b \notin SetOf(todo)
      BY <1>2, <1>4, <1>5 DEF Encoded
    <3>2. Encoded(b)
      BY <1>1, <3>1 DEF Encoded
    <3> QED BY <1>11, <2>2, <3>2 DEF Saved
  <2>6. (pc = "encode" /\ b \in SetOf(todo) => Prefix(b, Text, Offset(b)))'
    <3> SUFFICES ASSUME pc' = "encode", b \in SetOf(todo)'
                 PROVE  Prefix(b, Text, Offset(b))'
      OBVIOUS
    <3>1. b # a /\ b \in SetOf(todo)
      <4>1. ~(Len(todo) <= 1)
        BY <1>2, FrontTypes, LenProperties
      <4> QED BY <1>5, <4>1
    <3>2. Prefix(b, Text, Offset(b))
      BY <1>1, <2>2, <3>1 DEF Saved
    <3>3. Offset(b)' = Offset(b) /\ Of(b, Text)' = Of(b, Text)
      BY <1>1, <1>11, <3>1 DEF Offset
    <3> QED BY <1>1, <3>2, <3>3 DEF Prefix
  <2>7. ~(pc \in {"length", "epoch"} /\ b \in SetOf(agents) \ SetOf(todo))'
    BY <1>2, <1>5
  <2> QED BY <1>7, <2>4, <2>5, <2>6, <2>7 DEF Saved
<1> QED BY <1>6, <1>8, <1>9, <1>13 DEF FrontInv


\* Lines go from the list to the shards: together they stay what they are.
LEMMA WriteKeepsText ==
  ASSUME StoreInv, FrontInv, Roll \/ WriteLine \/ RemoveOrphans
  PROVE  /\ Saving /\ Text' = Text
         /\ pc' \in {"orphans", "index"} => lines' = <<>>
<1> DEFINE f == files["active"]
<1>0. /\ Saving /\ full' = full /\ first' = first /\ Start' = Start
  BY DEF Saving, Roll, WriteLine, RemoveOrphans, history, Start
<1>1. /\ Files(f) /\ DOMAIN files = Base /\ Len(sms) \in Nat /\ sms \in Seq(Nat)
      /\ lines \in Seq(Record) /\ "active" \in DOMAIN files
      /\ Start \in Nat \ {0} /\ (Start = 1 \/ Start <= Len(sms))
  BY <1>0, FrontTypes, StartFits DEF FrontInv, Base
<1>2. CASE Roll
  <2>1. /\ pc = "write" /\ pc' = pc /\ lines' = lines /\ sms' = Append(sms, 0)
        /\ files' = [files EXCEPT !["active"] = With(f, Len(sms) + 1, <<>>)]
    BY <1>2 DEF Roll, NextIndex
  <2>2. Len(sms') = Len(sms) + 1 /\ files'["active"] = With(f, Len(sms) + 1, <<>>)
    BY <1>1, <2>1, AppendProperties
  <2>3. Start <= Len(sms) + 1
    BY <1>1
  <2> HIDE DEF f
  <2>4. Content(With(f, Len(sms) + 1, <<>>), Start, Len(sms) + 1) = Content(f, Start, Len(sms))
    BY <1>1, <2>3, ContentRolled
  <2>5. Text' = Content(files'["active"], Start, Len(sms')) \o lines
    BY <1>0, <2>1 DEF Text
  <2>6. Text = Content(f, Start, Len(sms)) \o lines
    BY DEF Text, f
  <2> QED BY <1>0, <2>1, <2>2, <2>4, <2>5, <2>6
<1>3. CASE WriteLine
  <2>1. /\ pc = "write" /\ Len(sms) \in DOMAIN f /\ lines' = Tail(lines)
        /\ sms' = [sms EXCEPT ![Len(sms)] = sms[Len(sms)] + 1]
        /\ files' = [files EXCEPT !["active"] =
                         With(f, Len(sms), Append(f[Len(sms)], Head(lines)))]
        /\ pc' \in {"orphans", "index"} => ~(Len(lines) > 1)
    BY <1>3 DEF WriteLine
  <2>2. lines # <<>>
    BY <2>1 DEF StoreInv, Ready
  <2>3. Len(sms) \in Nat \ {0}
    BY <2>1 DEF StoreInv, TypeOK, DiskOK, Base
  <2>4. Start <= Len(sms)
    BY <1>1, <2>3
  <2>5. Len(sms') = Len(sms)
    <3>1. Len(sms) \in 1 .. Len(sms)
      BY <2>3
    <3>2. sms[Len(sms)] + 1 \in Nat
      BY <1>1, <3>1, ElementOfSeq
    <3> QED BY <1>1, <2>1, <3>1, <3>2, ExceptSeq
  <2>6. files'["active"] = With(f, Len(sms), Append(f[Len(sms)], Head(lines)))
    BY <1>1, <2>1
  <2> HIDE DEF f
  <2>7. Content(With(f, Len(sms), Append(f[Len(sms)], Head(lines))), Start, Len(sms))
            \o Tail(lines) = Content(f, Start, Len(sms)) \o lines
    BY <1>1, <2>1, <2>2, <2>3, <2>4, ContentAppended
  <2>8. Text' = Content(files'["active"], Start, Len(sms')) \o Tail(lines)
    BY <1>0, <2>1 DEF Text
  <2>9. Text = Content(f, Start, Len(sms)) \o lines
    BY DEF Text, f
  <2>10. pc' \in {"orphans", "index"} => lines' = <<>>
    <3>1. Len(lines) \in Nat \ {0} /\ lines' \in Seq(Record) /\ Len(lines') = Len(lines) - 1
      BY <1>1, <2>1, <2>2, EmptySeq, HeadTailProperties
    <3>2. pc' \in {"orphans", "index"} => Len(lines') = 0
      BY <2>1, <3>1
    <3> QED BY <3>1, <3>2, EmptySeq
  <2> QED BY <1>0, <2>5, <2>6, <2>7, <2>8, <2>9, <2>10
<1>4. CASE RemoveOrphans
  <2>1. /\ pc = "orphans" /\ lines' = lines /\ sms' = sms
        /\ files' = [files EXCEPT !["active"] = Without(f, Orphans)]
    BY <1>4 DEF RemoveOrphans
  <2>2. lines = <<>>
    BY <2>1 DEF FrontInv, Ordered
  <2>3. files'["active"] = Without(f, Orphans)
    BY <1>1, <2>1
  <2>4. Files(Without(f, Orphans))
    BY <1>1 DEF Files, Without
  <2>5. \A j \in Start .. Len(sms) : Shard(f, j) = Shard(Without(f, Orphans), j)
    <3> SUFFICES ASSUME NEW j \in Start .. Len(sms)
                 PROVE  Shard(f, j) = Shard(Without(f, Orphans), j)
      OBVIOUS
    <3>1. j \notin Orphans
      BY <1>1, FrontTypes DEF Orphans
    <3> HIDE DEF f
    <3> QED BY <3>1 DEF Shard, Without
  <2> HIDE DEF f
  <2>6. Content(f, Start, Len(sms)) = Content(Without(f, Orphans), Start, Len(sms))
    BY <1>1, <2>4, <2>5, ContentSame
  <2>7. Text' = Content(files'["active"], Start, Len(sms)) \o lines
    BY <1>0, <2>1 DEF Text
  <2>8. Text = Content(f, Start, Len(sms)) \o lines
    BY DEF Text, f
  <2> QED BY <1>0, <2>1, <2>2, <2>3, <2>6, <2>7, <2>8
<1> QED BY <1>2, <1>3, <1>4

\* Rolling a shard and writing a line move records from lines to the shards.
LEMMA WriteKeepsFront ==
  ASSUME StoreInv, FrontInv, Roll \/ WriteLine \/ RemoveOrphans
  PROVE  FrontInv'
<1>1. /\ pc \in {"write", "orphans"} /\ pc' \in {"write", "orphans", "index"}
      /\ UNCHANGED <<present, tr, epoch, st, shards, full, agents, todo, racing,
                     raced, reused, first>>
  BY DEF Roll, WriteLine, RemoveOrphans, memory, store, history
<1>2. Text' = Text /\ (pc' \in {"orphans", "index"} => lines' = <<>>)
  BY WriteKeepsText
<1>3. Saving /\ Saving' /\ \A b : ~Current(b) /\ ~Current(b)'
  BY <1>1 DEF Saving, Current
<1>4. /\ Distinct(present)' /\ Distinct(agents)' /\ Distinct(todo)'
      /\ SetOf(present)' = SetOf(present) /\ SetOf(agents)' = SetOf(agents)
      /\ SetOf(todo)' = SetOf(todo)
  BY <1>1 DEF FrontInv, Ordered, Distinct, SetOf
<1>5. Ordered'
  BY <1>1, <1>2, <1>3, <1>4 DEF FrontInv, Ordered
<1>6. ASSUME NEW b \in Agents PROVE Seen(b)'
  <2>1. Seen(b)
    BY DEF FrontInv
  <2> QED BY <1>1, <1>3, <1>4, <2>1 DEF Seen
<1>7. Behind' /\ FreeExact'
  <2>1. Compacted' <=> Compacted
    BY <1>1 DEF Compacted, SetOf
  <2> QED BY <1>1, <2>1 DEF Behind, FreeExact, FrontInv
<1>8. SavedExact'
  <2>1. Doubtful' = Doubtful
    BY <1>1 DEF Doubtful
  <2> SUFFICES ASSUME NEW b \in Agents \ Doubtful PROVE Saved(b)'
    BY <2>1 DEF SavedExact
  <2>2. Saved(b)
    BY <1>3 DEF FrontInv, SavedExact
  <2>3. Encoded(b)' => Encoded(b)
    BY <1>1, <1>3, <1>4 DEF Encoded
  <2>4. pc' # "encode" /\ pc' \notin {"length", "epoch"}
    BY <1>1
  <2> QED BY <1>1, <1>2, <1>3, <1>4, <2>2, <2>3, <2>4 DEF Saved
<1> QED BY <1>5, <1>6, <1>7, <1>8 DEF FrontInv

\* The index takes over the table of the save, and the store with it.
LEMMA IndexKeepsFront ==
  ASSUME StoreInv, FrontInv, WriteIndex
  PROVE  FrontInv'
<1>1. /\ pc = "index" /\ pc' = "length" /\ shards' = sms
      /\ st' = IF st = None THEN [persisted |-> Zero, epoch |-> Unknown] ELSE st
      /\ first' = IF full THEN 1 ELSE first
      /\ reused' = IF st = None THEN {} ELSE reused
      /\ UNCHANGED <<present, tr, epoch, full, agents, todo, lines, sms, files, racing, raced>>
  BY DEF WriteIndex, memory
<1>2. Saving /\ Saving' /\ \A b : ~Current(b) /\ ~Current(b)'
  BY <1>1 DEF Saving, Current
<1>3. ~full => st # None /\ Len(shards) <= Len(sms)
  BY <1>1, <1>2, FrontTypes DEF StoreInv, Ready, FilesInv, SaveGrows
<1>4. todo = agents /\ lines = <<>>
  BY <1>1 DEF FrontInv, Ordered
<1>5. /\ Distinct(present)' /\ Distinct(agents)' /\ Distinct(todo)'
      /\ SetOf(present)' = SetOf(present) /\ SetOf(agents)' = SetOf(agents)
      /\ SetOf(todo)' = SetOf(agents)
  BY <1>1, <1>4 DEF FrontInv, Ordered, Distinct, SetOf
<1>6. Ordered'
  <2>1. first' = 1 \/ first' <= Len(shards')
    <3>1. CASE full
      BY <1>1, <3>1
    <3>2. CASE ~full
      <4>1. first' = first /\ (first = 1 \/ first <= Len(shards))
        BY <1>1, <1>3, <3>2 DEF FrontInv, Ordered
      <4> QED BY <1>1, <1>3, <3>2, <4>1, FrontTypes
    <3> QED BY <3>1, <3>2
  <2> QED BY <1>1, <1>2, <1>4, <1>5, <2>1 DEF FrontInv, Ordered
<1>7. ASSUME NEW b \in Agents PROVE Seen(b)'
  <2>1. Seen(b)
    BY DEF FrontInv
  <2>2. CASE st = None
    <3>1. st'.epoch[b] = None /\ st'.persisted[b] = 0
      BY <1>1, <2>2 DEF Zero, Unknown
    <3> QED BY <1>1, <1>2, <1>5, <2>1, <3>1 DEF Seen
  <2>3. CASE st # None
    BY <1>1, <1>2, <1>5, <2>1, <2>3 DEF Seen
  <2> QED BY <2>2, <2>3
<1>8. Behind' /\ FreeExact'
  BY <1>1 DEF Behind, FreeExact
<1>9. SavedExact'
  <2>1. Doubtful' = Doubtful /\ Text' = Text
    BY <1>1, <1>3 DEF Doubtful, Text, Start
  <2> SUFFICES ASSUME NEW b \in Agents \ Doubtful PROVE Saved(b)'
    BY <2>1 DEF SavedExact
  <2>2. Saved(b)
    BY <1>2 DEF FrontInv, SavedExact
  <2>3. Encoded(b)' => Encoded(b)
    BY <1>1, <1>2, <1>5 DEF Encoded
  <2>4. pc' # "encode"
    BY <1>1
  <2> QED BY <1>1, <1>2, <1>5, <2>1, <2>2, <2>3, <2>4 DEF Saved
<1> QED BY <1>6, <1>7, <1>8, <1>9 DEF FrontInv

\* A length that is recorded is that of a transcript the shards hold.
LEMMA LengthKeepsFront ==
  ASSUME StoreInv, FrontInv, RecordLength
  PROVE  FrontInv'
<1> DEFINE a == Head(todo)
<1>1. /\ pc = "length" /\ pc' = "epoch"
      /\ st' = [st EXCEPT !.persisted = [@ EXCEPT ![a] = Len(tr[a])]]
      /\ UNCHANGED <<present, tr, epoch, shards, full, agents, todo, lines, sms, files,
                     racing, raced, reused, first>>
  BY DEF RecordLength, memory, disk, history
<1>2. Saving /\ Saving'
  BY <1>1 DEF Saving
<1>3. /\ st # None /\ st \in Frontiers /\ st.persisted \in [Agents -> Nat]
      /\ a \in SetOf(todo) /\ SetOf(todo) \subseteq SetOf(agents)
      /\ a \in Agents /\ tr[a] \in Seq(Nat) /\ Len(tr[a]) \in Nat
  <2>1. st # None
    BY <1>1 DEF StoreInv, Ready
  <2>2. a \in SetOf(todo) /\ SetOf(todo) \subseteq SetOf(agents) /\ SetOf(agents) \subseteq Agents
    BY <1>2, FrontTypes DEF FrontInv, Ordered
  <2>3. tr[a] \in Seq(Nat)
    BY <2>2, FrontTypes
  <2> QED BY <2>1, <2>2, <2>3, FrontTypes, LenProperties
<1>4. /\ st'.epoch = st.epoch /\ st' # None /\ st'.persisted[a] = Len(tr[a])
      /\ \A b \in Agents \ {a} : st'.persisted[b] = st.persisted[b]
  <2> HIDE DEF a
  <2>1. DOMAIN st = {"persisted", "epoch"}
    BY <1>3 DEF Frontiers
  <2>2. st'.epoch = st.epoch /\ st'.persisted = [st.persisted EXCEPT ![a] = Len(tr[a])]
    BY <1>1, <2>1
  <2>3. st' # None
    BY <1>1, <1>3, FrontierTyped
  <2> QED BY <1>3, <2>2, <2>3
<1>5. /\ \A b : Current(b)' <=> b = a
      /\ \A b : ~Current(b)
  BY <1>1 DEF Current
<1> HIDE DEF a
<1>6. /\ Distinct(present)' /\ Distinct(agents)' /\ Distinct(todo)'
      /\ SetOf(present)' = SetOf(present) /\ SetOf(agents)' = SetOf(agents)
      /\ SetOf(todo)' = SetOf(todo)
  BY <1>1 DEF FrontInv, Ordered, Distinct, SetOf
<1>7. Ordered'
  BY <1>1, <1>2, <1>3, <1>4, <1>6 DEF FrontInv, Ordered
<1>8. ASSUME NEW b \in Agents PROVE Seen(b)'
  <2>1. Seen(b)
    BY DEF FrontInv
  <2>2. st'.epoch[b] = st.epoch[b] /\ (b # a => st'.persisted[b] = st.persisted[b])
    BY <1>4
  <2> QED BY <1>1, <1>2, <1>3, <1>5, <1>6, <2>1, <2>2 DEF Seen
<1>9. Behind' /\ FreeExact'
  BY <1>1 DEF Behind, FreeExact
<1>10. SavedExact'
  <2>1. Doubtful' = Doubtful /\ Text' = Text
    BY <1>1 DEF Doubtful, Text, Start
  <2> SUFFICES ASSUME NEW b \in Agents \ Doubtful PROVE Saved(b)'
    BY <2>1 DEF SavedExact
  <2>2. Saved(b)
    BY <1>2 DEF FrontInv, SavedExact
  <2>3. (Encoded(b)' => Encoded(b)) /\ Encoded(a)
    BY <1>1, <1>2, <1>3, <1>6 DEF Encoded
  <2>4. (Current(b) => Prefix(b, Text, st.persisted[b]))'
    <3> SUFFICES ASSUME b = a
                 PROVE  Of(b, Text) = SubSeq(tr[b], 1, Len(tr[a])) /\ Len(tr[a]) <= Len(tr[b])
      BY <1>1, <1>4, <1>5, <2>1 DEF Prefix
    <3>1. Of(a, Text) = tr[a]
      BY <2>2, <2>3 DEF Saved
    <3> QED BY <1>3, <3>1, SubSeqFull
  <2>5. (/\ pc \in {"length", "epoch"} /\ b \in SetOf(agents) \ SetOf(todo)
         /\ st.epoch[b] = epoch[b]
         => Prefix(b, Text, st.persisted[b]))'
    <3> SUFFICES ASSUME b \in SetOf(agents) \ SetOf(todo), st.epoch[b] = epoch[b]
                 PROVE  Prefix(b, Text, st.persisted[b])'
      BY <1>1, <1>4, <1>6
    <3>1. b # a /\ st'.persisted[b] = st.persisted[b]
      BY <1>3, <1>4
    <3>2. Prefix(b, Text, st.persisted[b])
      BY <1>1, <2>2 DEF Saved
    <3> QED BY <1>1, <2>1, <3>1, <3>2 DEF Prefix
  <2>6. pc' # "encode"
    BY <1>1
  <2> QED BY <1>1, <1>6, <2>1, <2>2, <2>3, <2>4, <2>5, <2>6 DEF Saved
<1> QED BY <1>7, <1>8, <1>9, <1>10 DEF FrontInv


\* What an epoch recorded says of the agent it is recorded of.
LEMMA EpochRecorded ==
  ASSUME StoreInv, FrontInv, RecordEpoch
  PROVE  /\ Saving /\ st # None /\ st' # None /\ Head(todo) \in SetOf(todo)
         /\ SetOf(todo) \subseteq SetOf(agents) /\ SetOf(agents) \subseteq SetOf(present)
         /\ Head(todo) \in Agents /\ epoch[Head(todo)] \in Nat
         /\ st'.persisted = st.persisted /\ st'.epoch[Head(todo)] = epoch[Head(todo)]
         /\ \A b \in Agents \ {Head(todo)} : st'.epoch[b] = st.epoch[b]
         /\ SetOf(Tail(todo)) = SetOf(todo) \ {Head(todo)} /\ Distinct(Tail(todo))
         /\ Len(todo) <= 1 => SetOf(todo) = {Head(todo)}
<1> DEFINE a == Head(todo)
<1>1. /\ pc = "epoch" /\ Saving
      /\ st' = [st EXCEPT !.epoch = [@ EXCEPT ![a] = epoch[a]]]
  BY DEF RecordEpoch, Saving
<1>2. st # None /\ st \in Frontiers /\ st.epoch \in [Agents -> Nat \cup {None}]
  BY <1>1, FrontTypes DEF StoreInv, Ready
<1>3. /\ a \in SetOf(todo) /\ SetOf(todo) \subseteq SetOf(agents)
      /\ SetOf(agents) \subseteq SetOf(present) /\ SetOf(agents) \subseteq Agents
      /\ todo # <<>> /\ todo \in Seq(Agents) /\ Distinct(todo)
  BY <1>1, FrontTypes DEF FrontInv, Ordered
<1>4. a \in Agents /\ epoch[a] \in Nat
  BY <1>3, FrontTypes
<1>5. /\ st'.persisted = st.persisted /\ st' # None /\ st'.epoch[a] = epoch[a]
      /\ \A b \in Agents \ {a} : st'.epoch[b] = st.epoch[b]
  <2> HIDE DEF a
  <2>1. DOMAIN st = {"persisted", "epoch"}
    BY <1>2 DEF Frontiers
  <2>2. st'.persisted = st.persisted /\ st'.epoch = [st.epoch EXCEPT ![a] = epoch[a]]
    BY <1>1, <2>1
  <2>3. st' # None
    BY <1>1, <1>2, <1>4, FrontierTyped
  <2> QED BY <1>2, <1>4, <2>2, <2>3
<1>6. /\ SetOf(Tail(todo)) = SetOf(todo) \ {a} /\ Distinct(Tail(todo))
      /\ Len(todo) <= 1 => SetOf(todo) = {a}
  BY <1>3, TailDistinct
<1> QED BY <1>1, <1>2, <1>3, <1>4, <1>5, <1>6

\* recordFrontier goes on to the next agent.
LEMMA EpochKeepsFront ==
  ASSUME StoreInv, FrontInv, RecordEpoch, Len(todo) > 1
  PROVE  FrontInv'
<1> DEFINE a == Head(todo)
<1>1. /\ pc = "epoch" /\ pc' = "length" /\ todo' = Tail(todo)
      /\ UNCHANGED <<present, tr, epoch, shards, full, agents, lines, sms, files,
                     racing, raced, reused, first>>
  BY DEF RecordEpoch, disk
<1>2. Saving /\ Saving' /\ (\A b : ~Current(b)') /\ (\A b : Current(b) <=> b = a)
  BY <1>1 DEF Saving, Current
<1>3. /\ st # None /\ st' # None /\ a \in SetOf(todo)
      /\ SetOf(todo) \subseteq SetOf(agents) /\ SetOf(agents) \subseteq SetOf(present)
      /\ a \in Agents /\ epoch[a] \in Nat
      /\ st'.persisted = st.persisted /\ st'.epoch[a] = epoch[a]
      /\ \A b \in Agents \ {a} : st'.epoch[b] = st.epoch[b]
      /\ SetOf(Tail(todo)) = SetOf(todo) \ {a} /\ Distinct(Tail(todo))
  BY EpochRecorded
<1> HIDE DEF a
<1>4. /\ Distinct(present)' /\ Distinct(agents)' /\ Distinct(todo)'
      /\ SetOf(present)' = SetOf(present) /\ SetOf(agents)' = SetOf(agents)
      /\ SetOf(todo)' = SetOf(todo) \ {a}
  <2>1. SetOf(todo)' = SetOf(todo') /\ (Distinct(todo)' <=> Distinct(todo'))
    BY DEF SetOf, Distinct
  <2>2. Distinct(present)' /\ Distinct(agents)'
    BY <1>1 DEF FrontInv, Ordered, Distinct
  <2>3. SetOf(present)' = SetOf(present) /\ SetOf(agents)' = SetOf(agents)
    BY <1>1 DEF SetOf
  <2> QED BY <1>1, <1>3, <2>1, <2>2, <2>3
<1>5. Ordered'
  BY <1>1, <1>2, <1>3, <1>4 DEF FrontInv, Ordered
<1>6. ASSUME NEW b \in Agents PROVE Seen(b)'
  <2>1. Seen(b) /\ st'.persisted[b] = st.persisted[b]
    BY <1>3 DEF FrontInv
  <2>2. CASE b = a
    <3>1. a \in SetOf(agents)' /\ a \in SetOf(present)'
      BY <1>3, <1>4
    <3>2. st'.epoch[a] # None /\ st'.epoch[a] <= epoch'[a]
      BY <1>1, <1>3, StoreAssumption
    <3> QED BY <2>2, <3>1, <3>2 DEF Seen
  <2>3. CASE b # a
    <3>1. st'.epoch[b] = st.epoch[b]
      BY <1>3, <2>3
    <3> QED BY <1>1, <1>2, <1>3, <1>4, <2>1, <2>3, <3>1 DEF Seen
  <2> QED BY <2>2, <2>3
<1>7. Behind' /\ FreeExact'
  BY <1>1 DEF Behind, FreeExact
<1>8. SavedExact'
  <2>1. Doubtful' = Doubtful /\ Text' = Text
    BY <1>1 DEF Doubtful, Text, Start
  <2> SUFFICES ASSUME NEW b \in Agents \ Doubtful PROVE Saved(b)'
    BY <2>1 DEF SavedExact
  <2>2. Saved(b)
    BY <1>2 DEF FrontInv, SavedExact
  <2>3. Encoded(b)' => Encoded(b)
    <3>1. SetOf(todo)' = SetOf(todo) \ {Head(todo)}
      BY <1>4 DEF a
    <3> QED BY <1>1, <1>2, <1>4, <3>1 DEF Encoded
  <2>4. (/\ pc \in {"length", "epoch"} /\ b \in SetOf(agents) \ SetOf(todo)
         /\ st.epoch[b] = epoch[b]
         => Prefix(b, Text, st.persisted[b]))'
    <3> SUFFICES ASSUME b \in SetOf(agents), b \notin SetOf(todo) \/ b = a,
                        st'.epoch[b] = epoch[b]
                 PROVE  Prefix(b, Text, st.persisted[b])'
      BY <1>1, <1>4
    <3>1. b # a => st.epoch[b] = epoch[b]
      BY <1>3
    <3>2. Prefix(b, Text, st.persisted[b])
      BY <1>1, <1>2, <2>2, <3>1 DEF Saved
    <3> QED BY <1>1, <1>3, <2>1, <3>2 DEF Prefix
  <2>5. pc' # "encode"
    BY <1>1
  <2> QED BY <1>1, <1>2, <1>4, <2>1, <2>2, <2>3, <2>4, <2>5 DEF Saved
<1> QED BY <1>5, <1>6, <1>7, <1>8 DEF FrontInv

\* The save is done: what it knows of the agents is the new frontier.
LEMMA SavedKeepsFront ==
  ASSUME StoreInv, FrontInv, RecordEpoch, ~(Len(todo) > 1)
  PROVE  FrontInv'
<1> DEFINE a == Head(todo)
           text == Content(files["active"], first, Len(shards))
<1>1. /\ pc = "epoch" /\ pc' = "free" /\ agents' = <<>> /\ todo' = <<>> /\ full' = FALSE
      /\ raced' = IF full THEN racing ELSE raced \cup racing
      /\ reused' = IF full THEN reused \ SetOf(agents) ELSE reused
      /\ UNCHANGED <<present, tr, epoch, shards, files, first>>
  BY DEF RecordEpoch, Idle, disk
<1>2. Saving /\ ~Saving' /\ (\A b : ~Current(b)') /\ (\A b : Current(b) <=> b = a)
  BY <1>1 DEF Saving, Current
<1>3. /\ st # None /\ st' # None /\ a \in SetOf(todo)
      /\ SetOf(todo) \subseteq SetOf(agents) /\ SetOf(agents) \subseteq SetOf(present)
      /\ a \in Agents /\ epoch[a] \in Nat
      /\ st'.persisted = st.persisted /\ st'.epoch[a] = epoch[a]
      /\ \A b \in Agents \ {a} : st'.epoch[b] = st.epoch[b]
      /\ SetOf(todo) = {a}
  <2>1. Len(todo) <= 1
    BY FrontTypes, LenProperties
  <2> QED BY <2>1, EpochRecorded
<1> HIDE DEF a
<1>4. Distinct(present)' /\ Distinct(agents)' /\ Distinct(todo)' /\ SetOf(todo)' = {}
      /\ SetOf(present)' = SetOf(present)
  BY <1>1 DEF FrontInv, Ordered, Distinct, SetOf
<1>5. Ordered'
  BY <1>1, <1>2, <1>3, <1>4 DEF FrontInv, Ordered
<1>6. ASSUME NEW b \in Agents
      PROVE  b \in SetOf(agents) => st'.epoch[b] # None
  <2>1. CASE b = a
    BY <1>3, <2>1, StoreAssumption
  <2>2. CASE b # a
    <3>1. Seen(b) /\ st'.epoch[b] = st.epoch[b]
      BY <1>3, <2>2 DEF FrontInv
    <3> QED BY <1>1, <1>3, <2>2, <3>1 DEF Seen
  <2> QED BY <2>1, <2>2
<1>7. ASSUME NEW b \in Agents, st'.epoch[b] = None, b \notin reused'
      PROVE  b \notin SetOf(agents) /\ st.persisted[b] = 0
  <2>1. b \notin SetOf(agents)
    BY <1>6, <1>7
  <2>2. b # a /\ b \notin reused
    BY <1>1, <1>3, <1>7, <2>1
  <2>3. Seen(b) /\ st.epoch[b] = None
    BY <1>3, <1>7, <2>2 DEF FrontInv
  <2> QED BY <1>2, <1>3, <2>1, <2>2, <2>3 DEF Seen
<1>8. ASSUME NEW b \in Agents PROVE Seen(b)'
  <2>1. Seen(b) /\ st'.persisted[b] = st.persisted[b]
    BY <1>3 DEF FrontInv
  <2>2. st'.epoch[b] # None => st'.epoch[b] <= epoch[b]
    <3>1. CASE b = a
      BY <1>3, <3>1
    <3>2. CASE b # a
      BY <1>3, <2>1, <3>2 DEF Seen
    <3> QED BY <3>1, <3>2
  <2>3. b \notin SetOf(present) => st'.epoch[b] = None
    <3> SUFFICES ASSUME b \notin SetOf(present) PROVE st'.epoch[b] = None
      OBVIOUS
    <3>1. b # a
      BY <1>3
    <3> QED BY <1>3, <2>1, <3>1 DEF Seen
  <2> QED BY <1>1, <1>2, <1>4, <1>7, <2>1, <2>2, <2>3 DEF Seen
<1>9. Text = text
  <2>1. sms = shards /\ lines = <<>> /\ (full => first = 1)
    BY <1>1 DEF FrontInv, Ordered
  <2>2. text \in Seq(Record)
    BY FrontTypes, ContentSteps
  <2>3. Text = text \o <<>>
    BY <2>1 DEF Text, Start
  <2> QED BY <2>2, <2>3, ConcatEmptySeq
<1> HIDE DEF text
<1>10. ASSUME ~Compacted', NEW b \in Agents \ (raced' \cup reused')
       PROVE  Prefix(b, text, st.persisted[b])
  <2>1. CASE b \notin SetOf(agents)
    <3>1. b \notin Doubtful
      BY <1>1, <1>10, <2>1 DEF Doubtful
    <3>2. Of(b, text) = <<>>
      BY <1>2, <1>9, <2>1, <3>1 DEF FrontInv, SavedExact, Saved
    <3>3. st'.epoch[b] = None
      <4>1. Seen(b) /\ b # a
        BY <1>3, <2>1 DEF FrontInv
      <4> QED BY <1>2, <1>3, <2>1, <4>1 DEF Seen
    <3>4. st.persisted[b] = 0
      BY <1>7, <3>3
    <3>5. SubSeq(tr[b], 1, 0) = <<>> /\ 0 <= Len(tr[b])
      BY FrontTypes, LenProperties, SubSeqEmpty
    <3> QED BY <3>2, <3>4, <3>5 DEF Prefix
  <2>2. CASE b \in SetOf(agents)
    <3>1. st'.epoch[b] = epoch[b]
      <4>1. b \in SetOf(present)' /\ st'.epoch[b] # None
        BY <1>3, <1>4, <1>6, <2>2
      <4> QED BY <1>1, <1>10, <4>1 DEF Compacted
    <3>2. CASE b \notin Doubtful
      <4>1. Saved(b)
        BY <1>2, <3>2 DEF FrontInv, SavedExact
      <4>2. b # a => b \in SetOf(agents) \ SetOf(todo) /\ st.epoch[b] = epoch[b]
        BY <1>3, <2>2, <3>1
      <4>3. Prefix(b, Text, st.persisted[b])
        BY <1>1, <1>2, <4>1, <4>2 DEF Saved
      <4> QED BY <1>9, <4>3
    <3>3. CASE b \in Doubtful
      BY <1>1, <1>10, <3>3 DEF Doubtful
    <3> QED BY <3>2, <3>3
  <2> QED BY <2>1, <2>2
<1>11. FreeExact'
  <2> SUFFICES ASSUME ~Compacted', NEW b \in Agents \ (raced' \cup reused')
               PROVE  Prefix(b, text, st.persisted[b])
    BY <1>1, <1>3 DEF FreeExact, Prefix, text
  <2> QED BY <1>10
<1>12. Behind' /\ SavedExact'
  BY <1>1, <1>2 DEF Behind, SavedExact
<1> QED BY <1>5, <1>8, <1>11, <1>12 DEF FrontInv

\* A save that fails gives its frontier up, or leaves one that is known to be behind.
LEMMA FailKeepsFront ==
  ASSUME StoreInv, FrontInv, SaveFails
  PROVE  FrontInv'
<1>1. /\ pc \in {"write", "index"} /\ Idle
      /\ IF full THEN UNCHANGED <<st, shards>> ELSE st' = None /\ shards' = <<>>
      /\ UNCHANGED <<present, tr, epoch, files, raced, reused, first>>
  BY DEF SaveFails, GivesUp, disk
<1>2. CASE st' = None
  BY <1>1, <1>2, ForgottenFront
<1>3. CASE st' # None
  <2>1. full /\ st' = st /\ shards' = shards /\ st # None
    BY <1>1, <1>3
  <2>2. /\ pc' = "free" /\ agents' = <<>> /\ todo' = <<>> /\ full' = FALSE
    BY <1>1 DEF Idle
  <2>3. Saving /\ ~Saving' /\ (\A b : ~Current(b)') /\ (\A b : ~Current(b))
    BY <1>1, <2>2 DEF Saving, Current
  <2>4. Distinct(present)' /\ Distinct(agents)' /\ Distinct(todo)' /\ SetOf(todo)' = {}
        /\ SetOf(present)' = SetOf(present)
    BY <1>1, <2>2 DEF FrontInv, Ordered, Distinct, SetOf
  <2>5. Ordered'
    BY <1>1, <2>1, <2>2, <2>3, <2>4 DEF FrontInv, Ordered
  <2>6. Compacted'
    <3>1. Compacted
      BY <1>1, <2>1 DEF FrontInv, Behind
    <3> QED BY <1>1, <2>1, <2>4, <3>1 DEF Compacted
  <2>7. ASSUME NEW b \in Agents PROVE Seen(b)'
    <3>1. Seen(b)
      BY DEF FrontInv
    <3> QED BY <1>1, <2>1, <2>2, <2>3, <2>4, <3>1 DEF Seen
  <2>8. Behind' /\ FreeExact' /\ SavedExact'
    BY <2>2, <2>3, <2>6 DEF Behind, FreeExact, SavedExact
  <2> QED BY <2>5, <2>7, <2>8 DEF FrontInv
<1> QED BY <1>2, <1>3

\* adoptLoaded counts what the last shard holds, and begins to read there.
LEMMA AdoptKeepsFront ==
  ASSUME StoreInv, NEW idx \in Seq(Nat), AdoptLoaded(idx), pc' = "free", ~full',
         files' = files, Distinct(agents'), Distinct(todo'), SetOf(todo') \subseteq SetOf(agents')
  PROVE  FrontInv'
<1> DEFINE shard == LastShard(idx, files["active"])
           said == Of(Root, shard)
           seen == said # <<>>
<1>1. /\ present' = <<Root>>
      /\ tr' = [Nothing EXCEPT ![Root] = said]
      /\ epoch' = [Zero EXCEPT ![Root] = IF seen THEN 1 ELSE 0]
      /\ shards' = idx
      /\ st' = [persisted |-> Counted(shard),
                epoch |-> [Unknown EXCEPT ![Root] = IF seen THEN 1 ELSE None]]
      /\ first' = IF idx = <<>> THEN 1 ELSE Len(idx)
      /\ raced' = {}
      /\ reused' = {a \in Subs : Of(a, shard) # <<>>}
  BY DEF AdoptLoaded
<1>2. shard \in Seq(Record)
  BY LastShardTyped DEF StoreInv
<1> HIDE DEF shard
<1>3. ~Saving' /\ \A b : ~Current(b)'
  BY DEF Saving, Current
<1>4. Root \in Agents /\ \A a \in Agents : a = Root \/ a \in Subs
  BY DEF Agents
<1>5. /\ tr'[Root] = said /\ epoch'[Root] = IF seen THEN 1 ELSE 0
      /\ st'.epoch[Root] = IF seen THEN 1 ELSE None
      /\ \A a \in Agents \ {Root} : /\ tr'[a] = <<>> /\ epoch'[a] = 0 /\ st'.epoch[a] = None
      /\ \A a \in Agents : st'.persisted[a] = Len(Of(a, shard))
  BY <1>1, <1>4 DEF Nothing, Zero, Unknown, Counted
<1>6. ASSUME NEW a \in Agents, a # Root, a \notin reused'
      PROVE  Of(a, shard) = <<>> /\ st'.persisted[a] = 0
  <2>1. Of(a, shard) = <<>>
    BY <1>1, <1>4, <1>6
  <2> QED BY <1>5, <2>1, EmptySeq
<1>7. said \in Seq(Nat)
  BY <1>2, OfTyped
<1>8. SetOf(present)' = {Root} /\ Distinct(present)' /\ SetOf(agents)' = SetOf(agents')
      /\ SetOf(todo)' = SetOf(todo')
      /\ (Distinct(agents)' <=> Distinct(agents')) /\ (Distinct(todo)' <=> Distinct(todo'))
  <2>1. DOMAIN <<Root>> = {1} /\ <<Root>>[1] = Root
    OBVIOUS
  <2>2. SetOf(present)' = {Root} /\ Distinct(present)'
    BY <1>1, <2>1 DEF SetOf, Distinct
  <2>3. SetOf(agents)' = SetOf(agents') /\ SetOf(todo)' = SetOf(todo')
    BY DEF SetOf
  <2>4. (Distinct(agents)' <=> Distinct(agents')) /\ (Distinct(todo)' <=> Distinct(todo'))
    BY DEF Distinct
  <2> QED BY <2>2, <2>3, <2>4
<1>9. Ordered'
  <2>1. Len(idx) \in Nat
    BY LenProperties
  <2>2. first' = 1 \/ first' <= Len(shards')
    BY <1>1, <2>1
  <2>3. Distinct(agents)' /\ Distinct(todo)' /\ SetOf(todo)' \subseteq SetOf(agents)'
    BY <1>8
  <2>4. pc' \notin {"write", "orphans", "index", "length", "epoch", "encode"}
    OBVIOUS
  <2> QED BY <1>3, <1>8, <2>2, <2>3, <2>4 DEF Ordered
<1>10. ASSUME NEW a \in Agents PROVE Seen(a)'
  <2>1. CASE a # Root
    BY <1>3, <1>5, <1>6, <2>1 DEF Seen
  <2>2. CASE a = Root
    <3>1. ~seen => st'.persisted[Root] = 0
      BY <1>4, <1>5, EmptySeq
    <3>2. a \in SetOf(present)'
      BY <1>8, <2>2
    <3>3. st'.epoch[Root] # None => st'.epoch[Root] = 1 /\ epoch'[Root] = 1
      BY <1>5
    <3>4. st'.epoch[Root] = None => st'.persisted[Root] = 0
      BY <1>5, <3>1, StoreAssumption
    <3> QED BY <1>3, <2>2, <3>2, <3>3, <3>4 DEF Seen
  <2> QED BY <2>1, <2>2
<1>11. Content(files["active"], first', Len(shards')) = shard
  <2>1. CASE idx = <<>>
    <3>1. first' = 1 /\ Len(shards') = 0 /\ Len(idx) = 0
      BY <1>1, <2>1, EmptySeq
    <3>2. Content(files["active"], 1, 0) = <<>>
      <4>1. Files(files["active"]) /\ 1 \in Nat \ {0} /\ 0 \in Nat /\ 0 < 1
        BY FrontTypes
      <4> HIDE DEF shard
      <4> QED BY <4>1, ContentSteps
    <3> QED BY <3>1, <3>2 DEF shard, LastShard
  <2>2. CASE idx # <<>>
    <3>1. Len(idx) # 0
      BY <2>2, EmptySeq
    <3>2. first' = Len(idx) /\ shards' = idx
      BY <1>1, <2>2
    <3> QED BY <3>1, <3>2 DEF shard, LastShard
  <2> QED BY <2>1, <2>2
<1>12. ASSUME NEW a \in Agents \ reused'
       PROVE  Of(a, shard) = SubSeq(tr'[a], 1, st'.persisted[a]) /\ st'.persisted[a] <= Len(tr'[a])
  <2>1. CASE a # Root
    <3>1. Of(a, shard) = <<>> /\ st'.persisted[a] = 0 /\ tr'[a] = <<>>
      BY <1>5, <1>6, <2>1
    <3>2. SubSeq(<<>>, 1, 0) = <<>> /\ Len(<<>>) = 0
      BY SubSeqEmpty, EmptySeq
    <3> QED BY <3>1, <3>2
  <2>2. CASE a = Root
    <3>1. st'.persisted[a] = Len(said) /\ tr'[a] = said
      BY <1>4, <1>5, <2>2
    <3>2. SubSeq(said, 1, Len(said)) = said /\ Len(said) \in Nat
      BY <1>7, SubSeqFull, LenProperties
    <3> QED BY <2>2, <3>1, <3>2
  <2> QED BY <2>1, <2>2
<1>13. FreeExact'
  <2> SUFFICES ASSUME NEW a \in Agents \ reused'
               PROVE  Prefix(a, Content(files["active"], first, Len(shards)), st.persisted[a])'
    BY DEF FreeExact
  <2> QED BY <1>11, <1>12 DEF Prefix
<1>14. Behind' /\ SavedExact'
  BY <1>3 DEF Behind, SavedExact
<1> QED BY <1>9, <1>10, <1>13, <1>14 DEF FrontInv

\* Archive, UnarchiveBase, a crash and a restart begin with no frontier, or a fresh one.
LEMMA ClosingKeepsFront ==
  ASSUME StoreInv, FrontInv,
         \/ ArchiveBegin \/ ArchiveShard \/ ArchiveEnd
         \/ Continue \/ UnarchiveShard \/ UnarchiveEnd \/ Crash \/ Restart
  PROVE  FrontInv'
<1>0. ~Saving => ~full
  BY DEF StoreInv, Ready
<1>a. Distinct(agents) /\ Distinct(todo) /\ SetOf(todo) \subseteq SetOf(agents)
  BY DEF FrontInv, Ordered
<1>1. CASE ArchiveBegin
  <2>1. /\ pc = "free" /\ pc' \in {"free", "archive"}
        /\ UNCHANGED <<present, tr, epoch, st, shards, full, agents, todo, lines, sms,
                       files, racing, raced, reused, first>>
    BY <1>1 DEF ArchiveBegin, store, history
  <2>2. ~Saving
    BY <2>1 DEF Saving
  <2> QED BY <1>0, <2>1, <2>2, FrontUntouched, OutsideFront
<1>2. CASE ArchiveShard \/ UnarchiveShard
  <2>1. /\ pc \in {"archive", "unarchive"} /\ pc' = pc
        /\ UNCHANGED <<present, tr, epoch, st, shards, full, agents, todo, reused, first>>
    BY <1>2 DEF ArchiveShard, UnarchiveShard, memory, store, history
  <2>2. ~Saving
    BY <2>1 DEF Saving
  <2> QED BY <1>0, <2>1, <2>2, OutsideFront
<1>3. CASE ArchiveEnd \/ Crash
  <2>1. /\ Idle /\ st' = None
        /\ UNCHANGED <<present, tr>> \/ (present' = <<>> /\ tr' = Nothing)
    BY <1>3 DEF ArchiveEnd, Crash
  <2> QED BY <2>1, ForgottenFront
<1>4. CASE Continue
  <2>1. /\ pc = "free" /\ files' = files
        /\ UNCHANGED <<full, agents, todo, lines, racing>>
        /\ \/ index["active"] # None /\ AdoptLoaded(index["active"]) /\ pc' = pc
           \/ /\ pc' = "unarchive"
              /\ UNCHANGED <<present, tr, epoch, st, shards, reused, first>>
    BY <1>4 DEF Continue, store
  <2>2. ~Saving
    BY <2>1 DEF Saving
  <2>3. index["active"] # None => index["active"] \in Seq(Nat)
    BY DEF StoreInv, TypeOK, DiskOK, Base
  <2>4. CASE index["active"] # None /\ AdoptLoaded(index["active"]) /\ pc' = pc
    BY <1>0, <1>a, <2>1, <2>2, <2>3, <2>4, AdoptKeepsFront
  <2>5. CASE /\ pc' = "unarchive"
             /\ UNCHANGED <<present, tr, epoch, st, shards, reused, first>>
    BY <1>0, <2>1, <2>2, <2>5, OutsideFront
  <2> QED BY <2>1, <2>4, <2>5
<1>5. CASE UnarchiveEnd
  <2>1. /\ pc = "unarchive" /\ Idle /\ AdoptLoaded(index["active"]) /\ files' = files
    BY <1>5 DEF UnarchiveEnd, disk
  <2>2. index["active"] = sms /\ sms \in Seq(Nat)
    BY <2>1, FrontTypes DEF StoreInv, FilesInv, StoreKnows
  <2>3. pc' = "free" /\ ~full' /\ agents' = <<>> /\ todo' = <<>>
    BY <2>1 DEF Idle
  <2>4. Distinct(<<>>) /\ SetOf(<<>>) = {}
    BY DEF Distinct, SetOf
  <2>5. index["active"] \in Seq(Nat)
    BY <2>2
  <2> QED BY <2>1, <2>3, <2>4, <2>5, AdoptKeepsFront
<1>6. CASE Restart
  <2>1. /\ files' = files /\ UNCHANGED <<pc, full, agents, todo, lines, sms, racing>>
        /\ \/ index["active"] # None /\ AdoptLoaded(index["active"])
           \/ UNCHANGED <<present, tr, epoch, st, shards, raced, reused, first>>
    BY <1>6 DEF Restart, operation, disk, store
  <2>2. pc = "free" /\ ~Saving
    BY <1>6 DEF Restart, StoreInv, IInv, PhasesFit, Saving
  <2>3. index["active"] # None => index["active"] \in Seq(Nat)
    BY DEF StoreInv, TypeOK, DiskOK, Base
  <2>4. CASE index["active"] # None /\ AdoptLoaded(index["active"])
    BY <1>0, <1>a, <2>1, <2>2, <2>3, <2>4, AdoptKeepsFront
  <2>5. CASE UNCHANGED <<present, tr, epoch, st, shards, raced, reused, first>>
    BY <2>1, <2>5, FrontUntouched
  <2> QED BY <2>1, <2>4, <2>5
<1> QED BY <1>1, <1>2, <1>3, <1>4, <1>5, <1>6

\* In the first state nothing is saved and nothing is known.
LEMMA InitFront == Init => FrontInv
<1> SUFFICES ASSUME Init PROVE FrontInv
  OBVIOUS
<1>1. /\ present = <<Root>> /\ tr = Nothing /\ st = None /\ pc = "free"
      /\ agents = <<>> /\ todo = <<>> /\ first = 1 /\ ~full
  BY DEF Init
<1>2. ~Saving
  BY <1>1 DEF Saving
<1>3. Ordered
  <2>1. DOMAIN <<Root>> = {1}
    OBVIOUS
  <2>2. Distinct(present) /\ Distinct(agents) /\ Distinct(todo) /\ SetOf(todo) = {}
    BY <1>1, <2>1 DEF Distinct, SetOf
  <2> QED BY <1>1, <1>2, <2>2 DEF Ordered
<1>4. ASSUME NEW a \in Agents PROVE Seen(a)
  BY <1>1 DEF Seen, Nothing
<1>5. Behind /\ FreeExact /\ SavedExact
  BY <1>1, <1>2 DEF Behind, FreeExact, SavedExact
<1> QED BY <1>3, <1>4, <1>5 DEF FrontInv

\* Every step keeps the frontier.
LEMMA StepFront == StoreInv /\ FrontInv /\ [Next]_vars => FrontInv'
<1> SUFFICES ASSUME StoreInv, FrontInv, [Next]_vars PROVE FrontInv'
  OBVIOUS
<1>1. ASSUME NEW a \in Agents, Say(a) \/ Compact(a) \/ Spawn(a) PROVE FrontInv'
  BY <1>1, SayKeepsFront, CompactKeepsFront, SpawnKeepsFront
<1>2. ASSUME NEW t \in Threads, Persist(t) \/ SaveBegin(t) PROVE FrontInv'
  <2>1. CASE Persist(t)
    BY <2>1, FrontUntouched DEF Persist, store, operation, disk, history
  <2>2. CASE SaveBegin(t)
    BY <2>2, SaveBeginKeepsFront
  <2> QED BY <1>2, <2>1, <2>2
<1>3. CASE Encode \/ Roll \/ WriteLine \/ RemoveOrphans
  BY <1>3, EncodeKeepsFront, WriteKeepsFront
<1>4. CASE WriteIndex \/ RecordLength \/ RecordEpoch \/ SaveFails
  BY <1>4, IndexKeepsFront, LengthKeepsFront, EpochKeepsFront, SavedKeepsFront, FailKeepsFront
<1>5. CASE Remove
  BY <1>5, FrontUntouched DEF Remove, store, operation, disk, history
<1>6. CASE \/ ArchiveBegin \/ ArchiveShard \/ ArchiveEnd
           \/ Continue \/ UnarchiveShard \/ UnarchiveEnd \/ Crash \/ Restart
  BY <1>6, ClosingKeepsFront
<1>7. CASE UNCHANGED vars
  BY <1>7, FrontUntouched DEF vars, memory, store, operation, disk, history
<1> QED BY <1>1, <1>2, <1>3, <1>4, <1>5, <1>6, <1>7 DEF Next, SaveStep, ArchiveStep

\* Whenever no operation runs and the next save will append, the frontier the store
\* keeps of an agent is exactly what the shards hold of it: through saves that fail
\* half-way, compactions, closings, crashes and restarts, unless the agent's
\* transcript changed while a save looked at it, or its id was in use before a restart.
THEOREM FrontierIsExact == Spec => []FrontierExact
<1>1. Init => StoreInv /\ FrontInv
  BY InitTypeOK, InitReady, InitIInv, InitFilesInv, InitFront DEF StoreInv
<1>2. StoreInv /\ FrontInv /\ [Next]_vars => (StoreInv /\ FrontInv)'
  BY StepStoreInv, StepFront
<1>3. StoreInv /\ FrontInv => FrontierExact
  <2> SUFFICES ASSUME StoreInv, FrontInv, pc = "free", st # None, ~Compacted,
                      NEW a \in SetOf(present) \ (raced \cup reused)
               PROVE  Exact(a)
    BY DEF FrontierExact
  <2>1. a \in Agents
    BY FrontTypes
  <2>2. Prefix(a, Content(files["active"], first, Len(shards)), st.persisted[a])
    BY <2>1 DEF FrontInv, FreeExact
  <2> QED BY <2>2 DEF Exact, Prefix
<1> QED BY <1>1, <1>2, <1>3, PTL DEF Spec

-----------------------------------------------------------------------------
(* A conversation reads as it was held.                                      *)

\* nothing was restored half-way, and no save came after its session was removed
Clean == {"unarchive", "late"} \cap damage = {}

\* the messages of a row come in the order they were said, those of one agent in the
\* records of a row do, and those of one row before those of another
Growing(t) == \A i, j \in DOMAIN t : i < j => t[i] < t[j]
Rising(s) == \A i, j \in DOMAIN s : i < j /\ s[i].agent = s[j].agent => s[i].msg < s[j].msg
Follow(s, t) == \A r \in SetOf(s), q \in SetOf(t) : r.agent = q.agent => r.msg < q.msg

\* what an agent remembers
Speech ==
    \A a \in Agents : /\ \A i \in DOMAIN tr[a] : tr[a][i] < next
                      /\ Clean => Growing(tr[a])

\* what each shard holds
Stored ==
    \A b \in Base : \A j \in DOMAIN files[b] :
        /\ \A r \in SetOf(files[b][j]) : r.msg < next
        /\ Clean => Rising(files[b][j])

\* what a save has still to write comes after what it has written
Pending ==
    /\ \A r \in SetOf(lines) : r.msg < next
    /\ Clean => Rising(lines)
    /\ ~Saving => lines = <<>>
    /\ Saving => \A r \in SetOf(lines) :
           /\ r.agent \in SetOf(agents)
           /\ pc = "encode" => r.agent \notin SetOf(todo)
           /\ Clean => \A j \in DOMAIN files["active"] \cap 1 .. Len(sms) :
                           \A q \in SetOf(files["active"][j]) : q.agent = r.agent => q.msg < r.msg

\* message x is newer than everything the shards hold of agent a
Above(f, a, x) == \A j \in DOMAIN f : \A r \in SetOf(f[j]) : r.agent = a => r.msg < x

\* what an agent said beyond the frontier is newer than all the shards hold of it
New(a) == \A i \in DOMAIN tr[a] : i > st.persisted[a] => Above(files["active"], a, tr[a][i])

\* so it is when the next save begins, and as the save goes on
Fresh(a) ==
    Clean =>
        /\ pc = "free" /\ st # None /\ ~Compacted => New(a)
        /\ pc = "encode" /\ ~full /\ a \in SetOf(todo) => New(a)
        /\ pc \in {"length", "epoch"} /\ (a \in SetOf(agents) \ SetOf(todo) \/ Current(a)) => New(a)
        /\ Saving /\ a \notin SetOf(agents) => 
               \A i \in DOMAIN tr[a] : Above(files["active"], a, tr[a][i])

\* of the first n shards each comes after those before it
Before(f, g, n) ==
    \A i \in DOMAIN f \cap 1 .. n, j \in DOMAIN g \cap 1 .. n : i < j => Follow(f[i], g[j])

\* so do the listed ones, under either name
ListedAcross ==
    damage = {} /\ ~Rewritten =>
        \A b, c \in Base : Before(files[b], files[c], Extent(index))

\* and those a save works on
SavedAcross ==
    Clean /\ pc \in {"encode", "write", "orphans", "index"} /\ (full \/ damage = {})
        => Before(files["active"], files["active"], Len(sms))

\* the inductive invariant of ListedInOrder
OrderInv ==
    /\ Speech /\ Stored /\ Pending
    /\ (\A a \in Agents : Fresh(a))
    /\ ListedAcross /\ SavedAcross

-----------------------------------------------------------------------------
\* The elements of sequences put together.
LEMMA ElementsConcat ==
  ASSUME NEW S, NEW s \in Seq(S), NEW t \in Seq(S)
  PROVE  SetOf(s \o t) = SetOf(s) \cup SetOf(t)
<1>1. /\ Len(s) \in Nat /\ Len(t) \in Nat /\ DOMAIN s = 1 .. Len(s) /\ DOMAIN t = 1 .. Len(t)
      /\ s \o t \in Seq(S) /\ Len(s \o t) = Len(s) + Len(t)
      /\ \A i \in 1 .. Len(s) + Len(t) : (s \o t)[i] = IF i <= Len(s) THEN s[i] ELSE t[i - Len(s)]
  BY LenProperties, ConcatProperties
<1> DEFINE u == s \o t
<1>2. DOMAIN u = 1 .. Len(s) + Len(t)
  BY <1>1, LenProperties
<1>3. \A i \in 1 .. Len(s) + Len(t) : u[i] = IF i <= Len(s) THEN s[i] ELSE t[i - Len(s)]
  BY <1>1
<1> HIDE DEF u
<1>4. ASSUME NEW e \in SetOf(u) PROVE e \in SetOf(s) \cup SetOf(t)
  <2>1. PICK i \in 1 .. Len(s) + Len(t) : e = u[i]
    BY <1>2 DEF SetOf
  <2>2. CASE i <= Len(s)
    BY <1>1, <1>3, <2>1, <2>2 DEF SetOf
  <2>3. CASE ~(i <= Len(s))
    <3>1. i - Len(s) \in DOMAIN t /\ e = t[i - Len(s)]
      BY <1>1, <1>3, <2>1, <2>3
    <3> QED BY <3>1 DEF SetOf
  <2> QED BY <2>2, <2>3
<1>5. ASSUME NEW e \in SetOf(s) PROVE e \in SetOf(u)
  <2>1. PICK i \in 1 .. Len(s) : e = s[i]
    BY <1>1 DEF SetOf
  <2>2. i \in DOMAIN u /\ u[i] = e
    BY <1>1, <1>2, <1>3, <2>1
  <2> QED BY <2>2 DEF SetOf
<1>6. ASSUME NEW e \in SetOf(t) PROVE e \in SetOf(u)
  <2>1. PICK i \in 1 .. Len(t) : e = t[i]
    BY <1>1 DEF SetOf
  <2>2. i + Len(s) \in DOMAIN u /\ ~(i + Len(s) <= Len(s)) /\ (i + Len(s)) - Len(s) = i
    BY <1>1, <1>2, <2>1
  <2>3. u[i + Len(s)] = e
    BY <1>1, <1>2, <1>3, <2>1, <2>2
  <2> QED BY <2>2, <2>3 DEF SetOf
<1> QED BY <1>4, <1>5, <1>6 DEF u

\* The elements of a sequence with one more.
LEMMA ElementsAppend ==
  ASSUME NEW S, NEW s \in Seq(S), NEW e \in S
  PROVE  SetOf(Append(s, e)) = SetOf(s) \cup {e}
<1>1. <<e>> \in Seq(S) /\ Append(s, e) = s \o <<e>>
  BY AppendIsConcat
<1>2. SetOf(<<e>>) = {e}
  <2>1. DOMAIN <<e>> = {1} /\ <<e>>[1] = e
    OBVIOUS
  <2> QED BY <2>1 DEF SetOf
<1>3. SetOf(s \o <<e>>) = SetOf(s) \cup SetOf(<<e>>)
  BY <1>1, ElementsConcat, ZenonT(60)
<1> QED BY <1>1, <1>2, <1>3

\* An empty sequence has none.
LEMMA ElementsEmpty == SetOf(<<>>) = {} /\ Rising(<<>>) /\ Growing(<<>>)
BY DEF SetOf, Rising, Growing

\* Two rows, the second behind the first.
LEMMA RisingConcat ==
  ASSUME NEW s \in Seq(Record), NEW t \in Seq(Record), Rising(s), Rising(t), Follow(s, t)
  PROVE  Rising(s \o t)
<1>1. /\ Len(s) \in Nat /\ Len(t) \in Nat /\ DOMAIN s = 1 .. Len(s) /\ DOMAIN t = 1 .. Len(t)
      /\ s \o t \in Seq(Record) /\ Len(s \o t) = Len(s) + Len(t)
      /\ \A i \in 1 .. Len(s) + Len(t) : (s \o t)[i] = IF i <= Len(s) THEN s[i] ELSE t[i - Len(s)]
  BY LenProperties, ConcatProperties
<1> DEFINE u == s \o t
<1>2. DOMAIN u = 1 .. Len(s) + Len(t)
  BY <1>1, LenProperties
<1>3. \A i \in 1 .. Len(s) + Len(t) : u[i] = IF i <= Len(s) THEN s[i] ELSE t[i - Len(s)]
  BY <1>1
<1> HIDE DEF u
<1> SUFFICES ASSUME NEW i \in DOMAIN u, NEW j \in DOMAIN u, i < j, u[i].agent = u[j].agent
             PROVE  u[i].msg < u[j].msg
  BY DEF Rising, u
<1>4. CASE j <= Len(s)
  <2>1. i \in DOMAIN s /\ j \in DOMAIN s /\ u[i] = s[i] /\ u[j] = s[j]
    BY <1>1, <1>2, <1>3, <1>4
  <2> QED BY <2>1 DEF Rising
<1>5. CASE i <= Len(s) /\ ~(j <= Len(s))
  <2>1. i \in DOMAIN s /\ j - Len(s) \in DOMAIN t /\ u[i] = s[i] /\ u[j] = t[j - Len(s)]
    BY <1>1, <1>2, <1>3, <1>5
  <2>2. u[i] \in SetOf(s) /\ u[j] \in SetOf(t)
    BY <2>1 DEF SetOf
  <2> QED BY <2>2 DEF Follow
<1>6. CASE ~(i <= Len(s))
  <2>1. i \in 1 .. Len(s) + Len(t) /\ j \in 1 .. Len(s) + Len(t) /\ ~(j <= Len(s))
    BY <1>1, <1>2, <1>6
  <2>2. i - Len(s) \in DOMAIN t /\ j - Len(s) \in DOMAIN t /\ i - Len(s) < j - Len(s)
    BY <1>1, <1>6, <2>1
  <2>3. u[i] = t[i - Len(s)] /\ u[j] = t[j - Len(s)]
    BY <1>3, <1>6, <2>1
  <2> QED BY <2>2, <2>3 DEF Rising
<1> QED BY <1>1, <1>2, <1>4, <1>5, <1>6

\* A row and one record that is newer than those of its agent.
LEMMA RisingAppend ==
  ASSUME NEW s \in Seq(Record), NEW r \in Record, Rising(s),
         \A q \in SetOf(s) : q.agent = r.agent => q.msg < r.msg
  PROVE  Rising(Append(s, r))
<1>1. <<r>> \in Seq(Record) /\ Append(s, r) = s \o <<r>>
  BY AppendIsConcat
<1>2. SetOf(<<r>>) = {r} /\ Rising(<<r>>)
  <2>1. DOMAIN <<r>> = {1} /\ <<r>>[1] = r
    OBVIOUS
  <2> QED BY <2>1 DEF SetOf, Rising
<1>3. Follow(s, <<r>>)
  BY <1>2 DEF Follow
<1> QED BY <1>1, <1>2, <1>3, RisingConcat

\* The rest of a row is behind its head.
LEMMA RisingTail ==
  ASSUME NEW s \in Seq(Record), s # <<>>, Rising(s)
  PROVE  /\ Rising(Tail(s)) /\ Tail(s) \in Seq(Record) /\ Head(s) \in Record
         /\ Head(s) \in SetOf(s) /\ SetOf(Tail(s)) \subseteq SetOf(s)
         /\ \A q \in SetOf(Tail(s)) : q.agent = Head(s).agent => Head(s).msg < q.msg
<1>1. /\ Len(s) \in Nat \ {0} /\ DOMAIN s = 1 .. Len(s) /\ Head(s) = s[1] /\ Head(s) \in Record
      /\ Tail(s) \in Seq(Record) /\ Len(Tail(s)) = Len(s) - 1
      /\ \A i \in 1 .. Len(s) - 1 : Tail(s)[i] = s[i + 1]
  BY LenProperties, EmptySeq, HeadTailProperties
<1> DEFINE t == Tail(s)
<1>2. DOMAIN t = 1 .. Len(s) - 1 /\ \A i \in 1 .. Len(s) - 1 : t[i] = s[i + 1]
  BY <1>1, LenProperties
<1> HIDE DEF t
<1>3. Rising(t)
  <2> SUFFICES ASSUME NEW i \in DOMAIN t, NEW j \in DOMAIN t, i < j, t[i].agent = t[j].agent
               PROVE  t[i].msg < t[j].msg
    BY DEF Rising
  <2>1. i + 1 \in DOMAIN s /\ j + 1 \in DOMAIN s /\ i + 1 < j + 1 /\ t[i] = s[i + 1] /\ t[j] = s[j + 1]
    BY <1>1, <1>2
  <2> QED BY <2>1 DEF Rising
<1>4. ASSUME NEW q \in SetOf(t)
      PROVE  q \in SetOf(s) /\ (q.agent = Head(s).agent => Head(s).msg < q.msg)
  <2>1. PICK i \in 1 .. Len(s) - 1 : q = t[i]
    BY <1>2 DEF SetOf
  <2>2. i + 1 \in DOMAIN s /\ 1 \in DOMAIN s /\ 1 < i + 1 /\ q = s[i + 1]
    BY <1>1, <1>2, <2>1
  <2> QED BY <1>1, <2>2 DEF Rising, SetOf
<1>5. Head(s) \in SetOf(s)
  BY <1>1 DEF SetOf
<1> QED BY <1>1, <1>3, <1>4, <1>5 DEF t

\* What is left of a sequence from some place on.
LEMMA RestOf ==
  ASSUME NEW t \in Seq(Nat), NEW o \in Nat
  PROVE  /\ SubSeq(t, o + 1, Len(t)) \in Seq(Nat)
         /\ \A i \in DOMAIN SubSeq(t, o + 1, Len(t)) :
                o + i \in DOMAIN t /\ SubSeq(t, o + 1, Len(t))[i] = t[o + i]
<1> DEFINE n == Len(t)
           p == SubSeq(t, o + 1, n)
<1>1. n \in Nat /\ DOMAIN t = 1 .. n /\ \A i \in 1 .. n : t[i] \in Nat
  BY LenProperties, ElementOfSeq
<1> HIDE DEF n
<1>2. o + 1 \in Int /\ n \in Int /\ \A i \in o + 1 .. n : t[i] \in Nat
  BY <1>1
<1>3. /\ p \in Seq(Nat) /\ Len(p) = IF o + 1 <= n THEN n - (o + 1) + 1 ELSE 0
      /\ \A i \in 1 .. n - (o + 1) + 1 : p[i] = t[(o + 1) + i - 1]
  BY <1>2, SubSeqProperties
<1> HIDE DEF p
<1>4. DOMAIN p = 1 .. Len(p) /\ Len(p) \in Nat
  BY <1>3, LenProperties
<1>5. ASSUME NEW i \in DOMAIN p PROVE o + i \in DOMAIN t /\ p[i] = t[o + i]
  <2>2. i \in 1 .. Len(p)
    BY <1>4
  <2>3. o + 1 <= n /\ Len(p) = n - (o + 1) + 1
    BY <1>1, <1>3, <1>4, <2>2
  <2>1. i \in 1 .. n - (o + 1) + 1 /\ (o + 1) + i - 1 = o + i /\ o + i \in 1 .. n
    BY <1>1, <2>2, <2>3
  <2> QED BY <1>1, <1>3, <2>1
<1> QED BY <1>3, <1>5 DEF p, n

\* The lines made of what an agent said from some place on.
LEMMA RisingLines ==
  ASSUME NEW a \in Agents, NEW t \in Seq(Nat), NEW o \in Nat, NEW new \in Seq(Nat),
         \A i \in DOMAIN new : o + i \in DOMAIN t /\ new[i] = t[o + i]
  PROVE  /\ Growing(t) => Rising(Lines(a, new))
         /\ \A r \in SetOf(Lines(a, new)) :
                r.agent = a /\ \E i \in DOMAIN t : i > o /\ r.msg = t[i]
<1>1. Len(new) \in Nat /\ DOMAIN new = 1 .. Len(new)
  BY LenProperties
<1>3. \A i \in DOMAIN new : o + i \in DOMAIN t /\ o + i > o /\ new[i] = t[o + i]
  BY <1>1
<1> DEFINE u == Lines(a, new)
<1>4. DOMAIN u = DOMAIN new /\ \A i \in DOMAIN new : u[i].agent = a /\ u[i].msg = new[i]
  BY DEF Lines
<1> HIDE DEF u
<1>5. Growing(t) => Rising(u)
  <2> SUFFICES ASSUME Growing(t), NEW i \in DOMAIN u, NEW j \in DOMAIN u, i < j
               PROVE  u[i].msg < u[j].msg
    BY DEF Rising
  <2>1. /\ o + i \in DOMAIN t /\ o + j \in DOMAIN t
        /\ u[i].msg = t[o + i] /\ u[j].msg = t[o + j]
    BY <1>3, <1>4
  <2>2. o + i < o + j
    BY <1>1, <1>4
  <2> QED BY <2>1, <2>2 DEF Growing
<1>6. ASSUME NEW r \in SetOf(u)
      PROVE  r.agent = a /\ \E i \in DOMAIN t : i > o /\ r.msg = t[i]
  <2>1. PICK i \in DOMAIN new : r = u[i]
    BY <1>4 DEF SetOf
  <2> QED BY <1>3, <1>4, <2>1
<1> QED BY <1>5, <1>6 DEF u

\* What an agent said, of records in order, is in order and among the records.
LEMMA GrowingOf ==
  ASSUME NEW a, NEW s \in Seq(Record)
  PROVE  /\ \A i \in DOMAIN Of(a, s) : \E r \in SetOf(s) : r.agent = a /\ r.msg = Of(a, s)[i]
         /\ Rising(s) => Growing(Of(a, s))
<1> DEFINE In(u) == \A i \in DOMAIN Of(a, u) : \E r \in SetOf(u) : r.agent = a /\ r.msg = Of(a, u)[i]
           P(u) == In(u) /\ (Rising(u) => Growing(Of(a, u)))
           T == {n \in Nat : \A u \in Seq(Record) : Len(u) = n => P(u)}
<1>1. 0 \in T
  <2>1. ASSUME NEW u \in Seq(Record), Len(u) = 0 PROVE P(u)
    <3>1. u = <<>>
      BY <2>1, EmptySeq
    <3>2. Of(a, <<>>) = <<>> /\ DOMAIN <<>> = {}
      BY OfEmpty
    <3> QED BY <3>1, <3>2, ElementsEmpty
  <2> QED BY <2>1
<1>2. ASSUME NEW n \in T PROVE n + 1 \in T
  <2>1. ASSUME NEW u \in Seq(Record), Len(u) = n + 1 PROVE P(u)
    <3>1. PICK v \in Seq(Record), r \in Record : u = Append(v, r)
      <4>1. u # <<>>
        BY <2>1, EmptySeq
      <4> QED BY <4>1, SequenceEmptyOrAppend
    <3>2. Len(v) = n /\ n \in Nat /\ DOMAIN v = 1 .. n
          /\ DOMAIN u = 1 .. n + 1 /\ (\A i \in 1 .. n : u[i] = v[i]) /\ u[n + 1] = r
      BY <2>1, <3>1, LenProperties, AppendProperties
    <3>3. P(v)
      BY <3>2
    <3>4. SetOf(u) = SetOf(v) \cup {r}
      BY <3>1, ElementsAppend
    <3>5. Of(a, u) = OfStep(a, r, Of(a, v)) /\ Of(a, v) \in Seq(Nat) /\ r.msg \in Nat
      BY <3>1, OfAppend, OfTyped DEF Record
    <3>6. Rising(u) => Rising(v) /\ \A q \in SetOf(v) : q.agent = r.agent => q.msg < r.msg
      <4> SUFFICES ASSUME Rising(u)
                   PROVE  Rising(v) /\ \A q \in SetOf(v) : q.agent = r.agent => q.msg < r.msg
        OBVIOUS
      <4>1. Rising(v)
        <5> SUFFICES ASSUME NEW i \in DOMAIN v, NEW j \in DOMAIN v, i < j, v[i].agent = v[j].agent
                     PROVE  v[i].msg < v[j].msg
          BY DEF Rising
        <5>1. i \in DOMAIN u /\ j \in DOMAIN u /\ u[i] = v[i] /\ u[j] = v[j]
          BY <3>2
        <5> QED BY <5>1 DEF Rising
      <4>2. ASSUME NEW q \in SetOf(v), q.agent = r.agent PROVE q.msg < r.msg
        <5>1. PICK i \in 1 .. n : q = v[i]
          BY <3>2 DEF SetOf
        <5>2. i \in DOMAIN u /\ n + 1 \in DOMAIN u /\ i < n + 1 /\ u[i] = q /\ u[n + 1] = r
          BY <3>2, <5>1
        <5> QED BY <4>2, <5>2 DEF Rising
      <4> QED BY <4>1, <4>2
    <3>7. CASE r.agent # a
      <4>1. Of(a, u) = Of(a, v)
        BY <3>5, <3>7 DEF OfStep
      <4> QED BY <3>3, <3>4, <3>6, <4>1
    <3>8. CASE r.agent = a
      <4> DEFINE w == Of(a, v)
                 x == Of(a, u)
      <4>1. /\ x = Append(w, r.msg) /\ Len(w) \in Nat /\ DOMAIN w = 1 .. Len(w)
        BY <3>5, <3>8, LenProperties DEF OfStep
      <4>2. w \in Seq(Nat)
        BY <3>5
      <4>3. DOMAIN x = 1 .. Len(w) + 1 /\ (\A i \in 1 .. Len(w) : x[i] = w[i]) /\ x[Len(w) + 1] = r.msg
        <5> HIDE DEF w, x
        <5>1. Append(w, r.msg) \in Seq(Nat) /\ Len(Append(w, r.msg)) = Len(w) + 1
          BY <3>5, <4>2, AppendProperties
        <5>2. DOMAIN Append(w, r.msg) = 1 .. Len(w) + 1
          BY <5>1, LenProperties
        <5>3. (\A i \in 1 .. Len(w) : Append(w, r.msg)[i] = w[i]) /\ Append(w, r.msg)[Len(w) + 1] = r.msg
          BY <3>5, <4>2, AppendProperties
        <5> QED BY <4>1, <5>2, <5>3
      <4>4. \A i \in DOMAIN w : \E q \in SetOf(v) : q.agent = a /\ q.msg = w[i]
        BY <3>3
      <4>5. Rising(v) => Growing(w)
        BY <3>3
      <4> HIDE DEF w, x
      <4>6. ASSUME NEW i \in DOMAIN x PROVE \E q \in SetOf(u) : q.agent = a /\ q.msg = x[i]
        <5>1. CASE i = Len(w) + 1
          BY <3>4, <3>8, <4>3, <5>1
        <5>2. CASE i # Len(w) + 1
          <6>1. i \in DOMAIN w /\ x[i] = w[i]
            BY <4>1, <4>3, <5>2
          <6> QED BY <3>4, <4>4, <6>1
        <5> QED BY <5>1, <5>2
      <4>7. ASSUME Rising(u) PROVE Growing(x)
        <5> SUFFICES ASSUME NEW i \in DOMAIN x, NEW j \in DOMAIN x, i < j PROVE x[i] < x[j]
          BY DEF Growing
        <5>1. Growing(w)
          BY <3>6, <4>5, <4>7
        <5>2. CASE j = Len(w) + 1
          <6>1. i \in DOMAIN w /\ x[i] = w[i] /\ x[j] = r.msg
            BY <4>1, <4>3, <5>2
          <6>2. PICK q \in SetOf(v) : q.agent = a /\ q.msg = w[i]
            BY <4>4, <6>1
          <6> QED BY <3>6, <3>8, <4>7, <6>1, <6>2
        <5>3. CASE j # Len(w) + 1
          <6>1. i \in DOMAIN w /\ j \in DOMAIN w /\ x[i] = w[i] /\ x[j] = w[j]
            BY <4>1, <4>3, <5>3
          <6> QED BY <5>1, <6>1 DEF Growing
        <5> QED BY <5>2, <5>3
      <4> QED BY <4>6, <4>7 DEF x
    <3> QED BY <3>7, <3>8
  <2> QED BY <2>1
<1>3. T = Nat
  <2> HIDE DEF T
  <2>1. T \in SUBSET Nat
    BY DEF T
  <2> QED BY <1>1, <1>2, <2>1, Counting
<1>4. Len(s) \in T
  <2> HIDE DEF T
  <2> QED BY <1>3, LenProperties
<1> QED BY <1>4

\* Shards in order, each behind those before it, read as one row in order.
LEMMA RisingContent ==
  ASSUME NEW f, Files(f), NEW n \in Nat,
         \A j \in DOMAIN f : Rising(f[j]),
         \A i, j \in DOMAIN f \cap 1 .. n : i < j => Follow(f[i], f[j])
  PROVE  Rising(Content(f, 1, n)) /\ Content(f, 1, n) \in Seq(Record)
<1> DEFINE c(m) == Content(f, 1, m)
           T == {m \in Nat : m <= n =>
                    /\ c(m) \in Seq(Record) /\ Rising(c(m))
                    /\ \A r \in SetOf(c(m)) : \E i \in DOMAIN f \cap 1 .. m : r \in SetOf(f[i])}
<1>1. 0 \in T
  <2>1. c(0) = <<>>
    BY ContentSteps
  <2> QED BY <2>1, ElementsEmpty, EmptySeq
<1>2. ASSUME NEW m \in T PROVE m + 1 \in T
  <2> SUFFICES ASSUME m + 1 <= n
               PROVE  /\ c(m + 1) \in Seq(Record) /\ Rising(c(m + 1))
                      /\ \A r \in SetOf(c(m + 1)) :
                             \E i \in DOMAIN f \cap 1 .. m + 1 : r \in SetOf(f[i])
    OBVIOUS
  <2>1. /\ m \in Nat /\ c(m) \in Seq(Record) /\ Rising(c(m))
        /\ \A r \in SetOf(c(m)) : \E i \in DOMAIN f \cap 1 .. m : r \in SetOf(f[i])
    OBVIOUS
  <2>2. c(m + 1) = c(m) \o Shard(f, m + 1)
    <3>1. m + 1 >= 1 /\ 1 \in Nat \ {0}
      BY <2>1
    <3> QED BY <2>1, <3>1, ContentSteps
  <2>3. Shard(f, m + 1) \in Seq(Record)
    BY ShardTyped
  <2> HIDE DEF c
  <2>4. CASE m + 1 \notin DOMAIN f
    <3>1. c(m + 1) = c(m)
      BY <2>1, <2>2, <2>4, ConcatEmptySeq DEF Shard
    <3> QED BY <2>1, <3>1
  <2>5. CASE m + 1 \in DOMAIN f
    <3>1. Shard(f, m + 1) = f[m + 1] /\ Rising(f[m + 1]) /\ f[m + 1] \in Seq(Record)
      BY <2>3, <2>5 DEF Shard
    <3>2. Follow(c(m), f[m + 1])
      <4> SUFFICES ASSUME NEW r \in SetOf(c(m)), NEW q \in SetOf(f[m + 1]), r.agent = q.agent
                   PROVE  r.msg < q.msg
        BY DEF Follow
      <4>1. PICK i \in DOMAIN f \cap 1 .. m : r \in SetOf(f[i])
        BY <2>1
      <4>2. i \in DOMAIN f \cap 1 .. n /\ m + 1 \in DOMAIN f \cap 1 .. n /\ i < m + 1
        BY <2>1, <2>5
      <4>3. Follow(f[i], f[m + 1])
        BY <4>2
      <4> QED BY <4>1, <4>3 DEF Follow
    <3> DEFINE v == c(m)
               w == f[m + 1]
    <3>3. v \in Seq(Record) /\ w \in Seq(Record) /\ Rising(v) /\ Rising(w) /\ Follow(v, w)
      BY <2>1, <3>1, <3>2
    <3>4. c(m + 1) = v \o w
      BY <2>2, <3>1
    <3> HIDE DEF v, w
    <3>5. Rising(v \o w) /\ v \o w \in Seq(Record) /\ SetOf(v \o w) = SetOf(v) \cup SetOf(w)
      BY <3>3, RisingConcat, ElementsConcat, ConcatProperties
    <3>6. Rising(c(m + 1)) /\ c(m + 1) \in Seq(Record)
      BY <3>4, <3>5
    <3>7. SetOf(c(m + 1)) = SetOf(c(m)) \cup SetOf(f[m + 1])
      BY <3>4, <3>5 DEF v, w
    <3>8. ASSUME NEW r \in SetOf(c(m + 1))
          PROVE  \E i \in DOMAIN f \cap 1 .. m + 1 : r \in SetOf(f[i])
      <4>1. CASE r \in SetOf(c(m))
        <5>1. PICK i \in DOMAIN f \cap 1 .. m : r \in SetOf(f[i])
          BY <2>1, <4>1
        <5>2. i \in DOMAIN f \cap 1 .. m + 1
          BY <2>1
        <5> QED BY <5>1, <5>2
      <4>2. CASE r \in SetOf(f[m + 1])
        <5>1. m + 1 \in DOMAIN f \cap 1 .. m + 1
          BY <2>1, <2>5
        <5> QED BY <4>2, <5>1
      <4> QED BY <3>7, <4>1, <4>2
    <3> QED BY <3>6, <3>8
  <2> QED BY <2>4, <2>5
<1>3. T = Nat
  <2> HIDE DEF T
  <2>1. T \in SUBSET Nat
    BY DEF T
  <2> QED BY <1>1, <1>2, <2>1, Counting
<1>4. n \in T
  <2> HIDE DEF T
  <2> QED BY <1>3
<1> QED BY <1>4


-----------------------------------------------------------------------------
\* The types, as the lemmas below use them.
LEMMA OrderTypes ==
  ASSUME StoreInv
  PROVE  /\ next \in Nat /\ tr \in [Agents -> Seq(Nat)] /\ DOMAIN files = Base
         /\ \A b \in Base : \A j \in DOMAIN files[b] :
                /\ j \in Nat \ {0} /\ files[b][j] \in Seq(Record)
                /\ SetOf(files[b][j]) \subseteq Record
         /\ lines \in Seq(Record) /\ SetOf(lines) \subseteq Record
         /\ \A r \in Record : r.agent \in Agents /\ r.msg \in Nat
         /\ index \in [Base -> {None} \cup Seq(Nat)] /\ Extent(index) \in Nat
<1>1. /\ next \in Nat /\ tr \in [Agents -> Seq(Nat)] /\ DOMAIN files = Base
      /\ \A b \in Base : \A j \in DOMAIN files[b] :
             j \in Nat \ {0} /\ files[b][j] \in Seq(Record)
      /\ lines \in Seq(Record) /\ index \in [Base -> {None} \cup Seq(Nat)]
  BY DEF StoreInv, TypeOK, ProcessOK, OperationOK, DiskOK
<1>2. \A s \in Seq(Record) : SetOf(s) \subseteq Record
  BY ElementsOf
<1>3. \A r \in Record : r.agent \in Agents /\ r.msg \in Nat
  BY DEF Record
<1>4. Extent(index) \in Nat
  BY ExtentTyped DEF StoreInv
<1> QED BY <1>1, <1>2, <1>3, <1>4

\* The shards of a save lie under the active name alone, and its table covers what the
\* index lists.
LEMMA SavingAlone ==
  ASSUME StoreInv, Saving
  PROVE  /\ Clean => DOMAIN files["archived"] = {}
         /\ ~full => st # None /\ Extent(index) = Len(shards) /\ Len(sms) >= Len(shards)
<1>1. Clean => DOMAIN files["archived"] = {}
  BY DEF Clean, StoreInv, FilesInv, Apart, Saving
<1>2. ~full => st # None /\ Len(sms) >= Len(shards) /\ index["active"] = shards
  BY DEF StoreInv, FilesInv, Ready, SaveGrows, StoreKnows, Saving
<1>3. shards # None
  BY StoreAssumption DEF StoreInv, TypeOK, StoreOK
<1>4. ~full => Extent(index) = Len(shards)
  BY <1>2, <1>3 DEF Extent
<1> QED BY <1>1, <1>2, <1>4

\* Shards in order stay in order when fewer are looked at, and nothing is archived.
LEMMA AloneInOrder ==
  ASSUME NEW fs, NEW m \in Nat, NEW n \in Nat, n <= m,
         DOMAIN fs["archived"] = {}, Before(fs["active"], fs["active"], m)
  PROVE  \A b, c \in Base : Before(fs[b], fs[c], n)
BY DEF Before, Base

\* No order depends on what none of these steps touches.
LEMMA OrderUntouched ==
  ASSUME OrderInv,
         UNCHANGED <<tr, st, next, pc, full, agents, todo, lines, sms, index, files, damage>>,
         pc = "free" /\ st # None /\ ~Compacted' => ~Compacted
  PROVE  OrderInv'
<1>1. /\ (Saving' <=> Saving) /\ (Clean' <=> Clean) /\ (Rewritten' <=> Rewritten)
      /\ SetOf(agents)' = SetOf(agents) /\ SetOf(todo)' = SetOf(todo)
      /\ \A a : Current(a)' <=> Current(a)
  BY DEF Saving, Clean, Rewritten, SetOf, Current
<1>2. Speech' /\ Stored'
  BY <1>1 DEF OrderInv, Speech, Stored
<1>3. Pending'
  BY <1>1 DEF OrderInv, Pending
<1>4. ASSUME NEW a \in Agents PROVE Fresh(a)'
  <2>1. Fresh(a) /\ (New(a)' <=> New(a))
    BY DEF OrderInv, New
  <2> QED BY <1>1, <2>1 DEF Fresh
<1>5. ListedAcross' /\ SavedAcross'
  BY <1>1 DEF OrderInv, ListedAcross, SavedAcross
<1> QED BY <1>2, <1>3, <1>4, <1>5 DEF OrderInv

\* A message more is newer than everything there is.
LEMMA TalkKeepsOrder ==
  ASSUME StoreInv, OrderInv, NEW a \in Agents, next' = next + 1,
         UNCHANGED <<st, pc, full, agents, todo, lines, sms, index, files, damage>>,
         \A b \in Agents \ {a} : tr'[b] = tr[b],
         \A i \in DOMAIN tr'[a] :
             tr'[a][i] = next \/ (i \in DOMAIN tr[a] /\ tr'[a][i] = tr[a][i]),
         Growing(tr[a]) => Growing(tr'[a]),
         pc = "free" /\ st # None /\ ~Compacted' => ~Compacted
  PROVE  OrderInv'
<1>1. /\ (Saving' <=> Saving) /\ (Clean' <=> Clean) /\ (Rewritten' <=> Rewritten)
      /\ SetOf(agents)' = SetOf(agents) /\ SetOf(todo)' = SetOf(todo)
      /\ \A b : Current(b)' <=> Current(b)
  BY DEF Saving, Clean, Rewritten, SetOf, Current
<1>2. \A b \in Agents : \A i \in DOMAIN tr[b] : tr[b][i] \in Nat
  BY OrderTypes, ElementOfSeq, LenProperties
<1>3. Speech'
  <2> SUFFICES ASSUME NEW b \in Agents
               PROVE  /\ \A i \in DOMAIN tr'[b] : tr'[b][i] < next'
                      /\ Clean => Growing(tr'[b])
    BY <1>1 DEF Speech
  <2>1. (\A i \in DOMAIN tr[b] : tr[b][i] < next) /\ (Clean => Growing(tr[b]))
    BY DEF OrderInv, Speech
  <2>2. CASE b # a
    BY <1>2, <2>1, <2>2, OrderTypes
  <2>3. CASE b = a
    <3>1. \A i \in DOMAIN tr'[a] : tr'[a][i] = next \/ (tr'[a][i] < next /\ tr'[a][i] \in Nat)
      BY <1>2, <2>1, <2>3
    <3>2. \A i \in DOMAIN tr'[a] : tr'[a][i] < next'
      <4>1. next \in Nat /\ next' = next + 1
        BY OrderTypes
      <4>2. \A m \in Nat : m < next => m < next'
        BY <4>1
      <4>3. next < next'
        BY <4>1
      <4> QED BY <3>1, <4>2, <4>3
    <3>3. Clean => Growing(tr'[a])
      BY <2>1, <2>3
    <3> QED BY <2>3, <3>2, <3>3
  <2> QED BY <2>2, <2>3
<1>4. Stored'
  <2>1. \A r \in Record : r.msg < next => r.msg < next'
    BY OrderTypes
  <2> QED BY <1>1, <2>1, OrderTypes DEF OrderInv, Stored
<1>5. Pending'
  <2>1. \A r \in Record : r.msg < next => r.msg < next'
    BY OrderTypes
  <2>2. SetOf(lines)' = SetOf(lines) /\ SetOf(lines) \subseteq Record
    BY OrderTypes DEF SetOf
  <2>3. \A r \in SetOf(lines)' : r.msg < next'
    BY <2>1, <2>2 DEF OrderInv, Pending
  <2> QED BY <1>1, <2>2, <2>3 DEF OrderInv, Pending
<1>6. Above(files["active"], a, next)
  BY DEF OrderInv, Stored, Above, Base
<1>7. ASSUME NEW b \in Agents PROVE Fresh(b)'
  <2>1. Fresh(b)
    BY DEF OrderInv
  <2>2. New(b) => New(b)'
    <3> SUFFICES ASSUME New(b), NEW i \in DOMAIN tr'[b], i > st.persisted[b]
                 PROVE  Above(files["active"], b, tr'[b][i])
      BY DEF New
    <3>1. CASE b = a /\ tr'[a][i] = next
      BY <1>6, <3>1
    <3>2. CASE i \in DOMAIN tr[b] /\ tr'[b][i] = tr[b][i]
      BY <3>2 DEF New
    <3> QED BY <3>1, <3>2
  <2>3. (\A i \in DOMAIN tr[b] : Above(files["active"], b, tr[b][i]))
          => \A i \in DOMAIN tr'[b] : Above(files["active"], b, tr'[b][i])
    BY <1>6
  <2> QED BY <1>1, <2>1, <2>2, <2>3 DEF Fresh
<1>8. ListedAcross' /\ SavedAcross'
  BY <1>1 DEF OrderInv, ListedAcross, SavedAcross
<1> QED BY <1>3, <1>4, <1>5, <1>7, <1>8 DEF OrderInv

\* A message is appended to what an agent said.
LEMMA SayKeepsOrder ==
  ASSUME StoreInv, OrderInv, NEW a \in Agents, Say(a)
  PROVE  OrderInv'
<1>1. /\ tr' = [tr EXCEPT ![a] = Append(tr[a], next)] /\ next' = next + 1
      /\ UNCHANGED <<present, epoch, st, pc, full, agents, todo, lines, sms, index, files, damage>>
  BY DEF Say, store, operation, disk
<1> DEFINE s == tr[a]
           t == tr'[a]
<1>2. s \in Seq(Nat) /\ next \in Nat /\ t = Append(s, next)
      /\ \A b \in Agents \ {a} : tr'[b] = tr[b]
  BY <1>1, OrderTypes
<1>3. \A i \in DOMAIN s : s[i] < next
  BY DEF OrderInv, Speech
<1>4. Compacted' <=> Compacted
  BY <1>1 DEF Compacted, SetOf
<1> HIDE DEF s, t
<1>5. /\ Len(s) \in Nat /\ DOMAIN s = 1 .. Len(s) /\ DOMAIN t = 1 .. Len(s) + 1
      /\ (\A i \in 1 .. Len(s) : t[i] = s[i]) /\ t[Len(s) + 1] = next
  <2>1. Append(s, next) \in Seq(Nat) /\ Len(Append(s, next)) = Len(s) + 1
        /\ (\A i \in 1 .. Len(s) : Append(s, next)[i] = s[i])
        /\ Append(s, next)[Len(s) + 1] = next
    BY <1>2, AppendProperties
  <2>2. DOMAIN Append(s, next) = 1 .. Len(Append(s, next)) /\ DOMAIN s = 1 .. Len(s)
        /\ Len(s) \in Nat
    BY <1>2, <2>1, LenProperties
  <2> QED BY <1>2, <2>1, <2>2
<1>6. \A i \in DOMAIN t : t[i] = next \/ (i \in DOMAIN s /\ t[i] = s[i])
  <2> SUFFICES ASSUME NEW i \in DOMAIN t
               PROVE  t[i] = next \/ (i \in DOMAIN s /\ t[i] = s[i])
    OBVIOUS
  <2>1. i = Len(s) + 1 \/ i \in 1 .. Len(s)
    BY <1>5
  <2> QED BY <1>5, <2>1
<1>7. Growing(s) => Growing(t)
  <2> SUFFICES ASSUME Growing(s), NEW i \in DOMAIN t, NEW j \in DOMAIN t, i < j
               PROVE  t[i] < t[j]
    BY DEF Growing
  <2>1. i \in DOMAIN s /\ t[i] = s[i]
    BY <1>5
  <2>2. CASE j = Len(s) + 1
    BY <1>3, <1>5, <2>1, <2>2
  <2>3. CASE j # Len(s) + 1
    <3>1. j \in DOMAIN s /\ t[j] = s[j]
      BY <1>5, <2>3
    <3> QED BY <2>1, <3>1 DEF Growing
  <2> QED BY <2>2, <2>3
<1>8. \A i \in DOMAIN tr'[a] : tr'[a][i] = next \/ (i \in DOMAIN tr[a] /\ tr'[a][i] = tr[a][i])
  BY <1>6 DEF s, t
<1>9. Growing(tr[a]) => Growing(tr'[a])
  BY <1>7 DEF s, t
<1> QED BY <1>1, <1>2, <1>4, <1>8, <1>9, TalkKeepsOrder

\* A summary is newer than what it replaces, and the next save knows of it.
LEMMA CompactKeepsOrder ==
  ASSUME StoreInv, FrontInv, OrderInv, NEW a \in Agents, Compact(a)
  PROVE  OrderInv'
<1>1. /\ a \in SetOf(present) /\ tr' = [tr EXCEPT ![a] = <<next>>] /\ next' = next + 1
      /\ epoch' = [epoch EXCEPT ![a] = epoch[a] + 1]
      /\ UNCHANGED <<present, st, pc, full, agents, todo, lines, sms, index, files, damage>>
  BY DEF Compact, store, operation, disk
<1>2. tr'[a] = <<next>> /\ \A b \in Agents \ {a} : tr'[b] = tr[b]
  BY <1>1, OrderTypes
<1>3. DOMAIN <<next>> = {1} /\ <<next>>[1] = next
  OBVIOUS
<1>4. Growing(tr'[a]) /\ \A i \in DOMAIN tr'[a] : tr'[a][i] = next
  BY <1>2, <1>3 DEF Growing
<1>5. st # None /\ Compacted => Compacted'
  <2> SUFFICES ASSUME st # None, Compacted PROVE Compacted'
    OBVIOUS
  <2>1. PICK b \in SetOf(present) : st.epoch[b] \notin {None, epoch[b]}
    BY DEF Compacted
  <2>2. b \in Agents /\ epoch[b] \in Nat /\ epoch \in [Agents -> Nat]
        /\ st.epoch[b] \in Nat
    BY <2>1, FrontTypes
  <2>3. st.epoch[b] <= epoch[b]
    BY <2>1, <2>2 DEF FrontInv, Seen
  <2>4. epoch'[b] = IF b = a THEN epoch[b] + 1 ELSE epoch[b]
    BY <1>1, <2>2
  <2>5. st.epoch[b] \notin {None, epoch'[b]}
    BY <2>1, <2>2, <2>3, <2>4
  <2>6. b \in SetOf(present)' /\ st' = st
    BY <1>1, <2>1 DEF SetOf
  <2> QED BY <2>5, <2>6 DEF Compacted
<1> QED BY <1>1, <1>2, <1>4, <1>5, TalkKeepsOrder

\* A new agent changes nothing of what is known.
LEMMA SpawnKeepsOrder ==
  ASSUME StoreInv, FrontInv, OrderInv, NEW a \in Agents, Spawn(a)
  PROVE  OrderInv'
<1>1. /\ a \notin SetOf(present) /\ present' = Append(present, a)
      /\ UNCHANGED <<tr, epoch, st, next, pc, full, agents, todo, lines, sms, index, files, damage>>
  BY DEF Spawn, store, operation, disk, history
<1>2. SetOf(present)' = SetOf(present) \cup {a}
  <2>1. SetOf(present') = SetOf(present) \cup {a}
    BY <1>1, AppendDistinct, FrontTypes DEF FrontInv, Ordered
  <2> QED BY <2>1 DEF SetOf
<1>3. Compacted => Compacted'
  BY <1>1, <1>2 DEF Compacted
<1> QED BY <1>1, <1>3, OrderUntouched

-----------------------------------------------------------------------------
\* A save that begins has nothing to write yet, and looks at the shards the index lists.
LEMMA SaveBeginKeepsOrder ==
  ASSUME StoreInv, FrontInv, OrderInv, NEW t \in Threads, SaveBegin(t)
  PROVE  OrderInv'
<1>1. /\ pc = "free" /\ pc' = "encode"
      /\ full' = (st = None \/ Compacted)
      /\ agents' = present /\ todo' = present /\ lines' = <<>>
      /\ sms' = IF full' THEN <<>> ELSE shards
      /\ damage \subseteq damage'
      /\ UNCHANGED <<present, tr, epoch, st, next, index, files>>
  BY DEF SaveBegin, memory, disk
<1>2. /\ Saving' /\ (Clean' => Clean) /\ ~Rewritten /\ ~Rewritten'
      /\ SetOf(agents)' = SetOf(present) /\ SetOf(todo)' = SetOf(present)
      /\ \A a : ~Current(a)'
  BY <1>1 DEF Saving, Clean, Rewritten, SetOf, Current
<1>3. Speech' /\ Stored'
  BY <1>1, <1>2 DEF OrderInv, Speech, Stored
<1>4. Pending'
  <2>1. SetOf(lines)' = {} /\ Rising(lines)'
    BY <1>1, ElementsEmpty DEF SetOf, Rising
  <2> QED BY <1>1, <2>1 DEF Pending
<1>5. ASSUME NEW a \in Agents PROVE Fresh(a)'
  <2>1. ~full' => st # None /\ ~Compacted
    BY <1>1
  <2>2. Clean /\ st # None /\ ~Compacted => New(a)
    BY <1>1 DEF OrderInv, Fresh
  <2>3. New(a) => New(a)'
    BY <1>1 DEF New
  <2>4. a \notin SetOf(present) => DOMAIN tr'[a] = {}
    BY <1>1 DEF FrontInv, Seen
  <2> QED BY <1>1, <1>2, <2>1, <2>2, <2>3, <2>4 DEF Fresh
<1>6. damage' = {} => \A b, c \in Base : Before(files[b], files[c], Extent(index))
  BY <1>1, <1>2 DEF OrderInv, ListedAcross
<1>7. ListedAcross'
  BY <1>1, <1>6 DEF ListedAcross
<1>8. SavedAcross'
  <2>1. CASE full'
    <3>1. Len(sms') = 0
      BY <1>1, <2>1
    <3> QED BY <3>1 DEF SavedAcross, Before
  <2>2. CASE ~full'
    <3>1. index["active"] = shards /\ shards # None
      BY <1>1, <2>2, StoreAssumption DEF StoreInv, FilesInv, StoreKnows, TypeOK, StoreOK
    <3>2. Extent(index) = Len(sms')
      BY <1>1, <2>2, <3>1 DEF Extent
    <3>3. damage' = {} => Before(files["active"], files["active"], Len(sms'))
      BY <1>6, <3>2 DEF Base
    <3> QED BY <1>1, <2>2, <3>3 DEF SavedAcross
  <2> QED BY <2>1, <2>2
<1> QED BY <1>3, <1>4, <1>5, <1>7, <1>8 DEF OrderInv

\* What encodeMessages takes of an agent is newer than what the shards hold of it.
LEMMA EncodeKeepsOrder ==
  ASSUME StoreInv, FrontInv, OrderInv, Encode
  PROVE  OrderInv'
<1> DEFINE a == Head(todo)
           new == SubSeq(tr[a], Offset(a) + 1, Len(tr[a]))
<1>1. /\ pc = "encode" /\ Saving /\ lines' = lines \o Lines(a, new)
      /\ UNCHANGED <<present, tr, epoch, st, next, full, agents, sms, index, files, damage>>
  BY DEF Encode, Lines, memory, store, disk, history, Saving
<1>2. \/ Len(todo) > 1 /\ pc' = "encode" /\ todo' = Tail(todo)
      \/ todo' = agents /\ pc' \in {"write", "orphans", "index", "length"}
  BY DEF Encode
<1>3. /\ a \in Agents /\ Offset(a) \in Nat /\ new \in Seq(Nat)
      /\ Lines(a, new) \in Seq(Record)
  BY <1>1, EncodedTyped DEF StoreInv, Lines
<1>4. /\ a \in SetOf(todo) /\ SetOf(Tail(todo)) = SetOf(todo) \ {a}
      /\ SetOf(todo) \subseteq SetOf(agents)
  BY <1>1, TailDistinct, FrontTypes DEF FrontInv, Ordered
<1>5. /\ tr[a] \in Seq(Nat)
      /\ \A i \in DOMAIN new : Offset(a) + i \in DOMAIN tr[a] /\ new[i] = tr[a][Offset(a) + i]
  <2>1. tr[a] \in Seq(Nat)
    BY <1>3, OrderTypes
  <2> QED BY <1>3, <2>1, RestOf
<1> HIDE DEF new
<1>6. /\ Growing(tr[a]) => Rising(Lines(a, new))
      /\ \A r \in SetOf(Lines(a, new)) :
             r.agent = a /\ \E i \in DOMAIN tr[a] : i > Offset(a) /\ r.msg = tr[a][i]
  <2> DEFINE t == tr[a]
             o == Offset(a)
  <2>1. /\ a \in Agents /\ t \in Seq(Nat) /\ o \in Nat /\ new \in Seq(Nat)
        /\ \A i \in DOMAIN new : o + i \in DOMAIN t /\ new[i] = t[o + i]
    BY <1>3, <1>5
  <2> HIDE DEF a, t, o
  <2>2. /\ Growing(t) => Rising(Lines(a, new))
        /\ \A r \in SetOf(Lines(a, new)) :
               r.agent = a /\ \E i \in DOMAIN t : i > o /\ r.msg = t[i]
    BY <2>1, RisingLines
  <2> QED BY <2>2 DEF t, o
<1> DEFINE said == Lines(a, new)
<1> HIDE DEF a, said
<1>7. SetOf(lines') = SetOf(lines) \cup SetOf(said)
  BY <1>1, <1>3, FrontTypes, ElementsConcat DEF said
<1>8. /\ Saving' /\ (Clean' <=> Clean) /\ ~Rewritten
      /\ SetOf(agents)' = SetOf(agents) /\ SetOf(lines)' = SetOf(lines')
      /\ pc' = "encode" => SetOf(todo)' = SetOf(todo) \ {a}
      /\ pc' # "encode" => SetOf(todo)' = SetOf(agents)
      /\ \A b : ~Current(b)'
  BY <1>1, <1>2, <1>4 DEF Saving, Clean, Rewritten, SetOf, Current
<1>9. Speech' /\ Stored'
  BY <1>1, <1>8 DEF OrderInv, Speech, Stored
<1>10. Clean => \A r \in SetOf(said) : \A j \in DOMAIN files["active"] \cap 1 .. Len(sms) :
                    \A q \in SetOf(files["active"][j]) : q.agent = r.agent => q.msg < r.msg
  <2>1. CASE full
    <3>1. sms = <<>>
      BY <1>1, <2>1 DEF FrontInv, Ordered
    <3> QED BY <3>1
  <2>2. CASE ~full
    <3>1. Clean => New(a)
      BY <1>1, <1>3, <1>4, <2>2 DEF OrderInv, Fresh
    <3>2. Offset(a) = st.persisted[a]
      BY <2>2 DEF Offset
    <3> QED BY <1>6, <3>1, <3>2 DEF New, Above, said
  <2> QED BY <2>1, <2>2
<1>11. Pending'
  <2>1. \A r \in SetOf(lines') : r.msg < next
    <3>1. \A i \in DOMAIN tr[a] : tr[a][i] < next
      BY <1>3 DEF OrderInv, Speech
    <3> QED BY <1>6, <1>7, <3>1 DEF OrderInv, Pending, said
  <2>2. Clean => Rising(lines')
    <3> SUFFICES ASSUME Clean PROVE Rising(lines')
      OBVIOUS
    <3>1. Rising(lines) /\ Rising(said)
      BY <1>3, <1>6 DEF OrderInv, Pending, Speech, said
    <3>2. Follow(lines, said)
      BY <1>1, <1>4, <1>6 DEF OrderInv, Pending, Follow, said
    <3>3. lines \in Seq(Record) /\ said \in Seq(Record)
      BY <1>3, FrontTypes DEF said
    <3> QED BY <1>1, <3>1, <3>2, <3>3, RisingConcat DEF said
  <2>3. ASSUME NEW r \in SetOf(lines')
        PROVE  /\ r.agent \in SetOf(agents)
               /\ pc' = "encode" => r.agent \notin SetOf(todo) \ {a}
               /\ Clean => \A j \in DOMAIN files["active"] \cap 1 .. Len(sms) :
                               \A q \in SetOf(files["active"][j]) :
                                   q.agent = r.agent => q.msg < r.msg
    <3>1. CASE r \in SetOf(lines)
      BY <1>1, <3>1 DEF OrderInv, Pending
    <3>2. CASE r \in SetOf(said)
      BY <1>4, <1>6, <1>10, <3>2 DEF said
    <3> QED BY <1>7, <3>1, <3>2
  <2> QED BY <1>1, <1>8, <2>1, <2>2, <2>3 DEF Pending
<1>12. ASSUME NEW b \in Agents PROVE Fresh(b)'
  <2>1. Fresh(b) /\ (New(b)' <=> New(b))
    BY <1>1 DEF OrderInv, New
  <2> QED BY <1>1, <1>2, <1>8, <2>1 DEF Fresh
<1>13. ListedAcross' /\ SavedAcross'
  BY <1>1, <1>2, <1>8 DEF OrderInv, ListedAcross, SavedAcross
<1> QED BY <1>9, <1>11, <1>12, <1>13 DEF OrderInv

\* Shards that are new and empty, or gone, disturb no order.
LEMMA ShrunkKeepsOrder ==
  ASSUME StoreInv, OrderInv,
         \A j \in DOMAIN files'["active"] :
             \/ files'["active"][j] = <<>>
             \/ /\ j \in DOMAIN files["active"] /\ files'["active"][j] = files["active"][j]
                /\ j \in 1 .. Len(sms') => j \in 1 .. Len(sms),
         files'["archived"] = files["archived"], DOMAIN files' = Base,
         UNCHANGED <<tr, st, next, full, agents, todo, lines, index, damage>>,
         pc \in {"write", "orphans"}, pc' \in {"write", "orphans", "index"},
         Rewritten => Rewritten'
  PROVE  OrderInv'
<1>1. /\ Saving /\ Saving' /\ (Clean' <=> Clean)
      /\ SetOf(agents)' = SetOf(agents) /\ SetOf(lines)' = SetOf(lines)
      /\ \A a : ~Current(a)'
  BY DEF Saving, Clean, SetOf, Current
<1>2. SetOf(<<>>) = {} /\ Rising(<<>>)
  BY ElementsEmpty
<1>3. ASSUME NEW b \in Base, NEW j \in DOMAIN files'[b]
      PROVE  \/ files'[b][j] = <<>>
             \/ j \in DOMAIN files[b] /\ files'[b][j] = files[b][j]
  <2>1. CASE b = "active"
    BY <2>1
  <2>2. CASE b = "archived"
    BY <2>2
  <2> QED BY <2>1, <2>2 DEF Base
<1>4. Speech'
  BY <1>1 DEF OrderInv, Speech
<1>5. Stored'
  <2> SUFFICES ASSUME NEW b \in Base, NEW j \in DOMAIN files'[b]
               PROVE  /\ \A r \in SetOf(files'[b][j]) : r.msg < next
                      /\ Clean => Rising(files'[b][j])
    BY <1>1 DEF Stored, SetOf, Rising
  <2> QED BY <1>2, <1>3 DEF OrderInv, Stored
<1>6. Pending'
  <2>1. ASSUME Clean, NEW r \in SetOf(lines), NEW j \in DOMAIN files'["active"] \cap 1 .. Len(sms'),
               NEW q \in SetOf(files'["active"][j]), q.agent = r.agent
        PROVE  q.msg < r.msg
    BY <1>1, <1>2, <2>1 DEF OrderInv, Pending
  <2>2. \A r \in SetOf(lines) : r.msg < next /\ r.agent \in SetOf(agents)
    BY <1>1 DEF OrderInv, Pending
  <2>3. Clean => Rising(lines)
    BY DEF OrderInv, Pending
  <2> QED BY <1>1, <2>1, <2>2, <2>3 DEF Pending, SetOf
<1>7. ASSUME NEW a \in Agents PROVE Fresh(a)'
  <2>1. \A x : Above(files["active"], a, x) => Above(files'["active"], a, x)
    BY <1>2 DEF Above
  <2> QED BY <1>1, <2>1 DEF OrderInv, Fresh
<1>8. ListedAcross'
  <2> SUFFICES ASSUME damage = {}, ~Rewritten, NEW b \in Base, NEW c \in Base
               PROVE  Before(files'[b], files'[c], Extent(index))
    BY DEF ListedAcross
  <2>1. Before(files[b], files[c], Extent(index))
    BY DEF OrderInv, ListedAcross
  <2> QED BY <1>2, <1>3, <2>1 DEF Before, Follow
<1>9. SavedAcross'
  <2> SUFFICES ASSUME Clean, full \/ damage = {}
               PROVE  Before(files'["active"], files'["active"], Len(sms'))
    BY <1>1 DEF SavedAcross
  <2>1. Before(files["active"], files["active"], Len(sms))
    BY DEF OrderInv, SavedAcross
  <2> QED BY <1>2, <2>1 DEF Before, Follow
<1> QED BY <1>4, <1>5, <1>6, <1>7, <1>8, <1>9 DEF OrderInv

\* Rolling a shard and removing those of a larger layout.
LEMMA RollKeepsOrder ==
  ASSUME StoreInv, FrontInv, OrderInv, Roll \/ RemoveOrphans
  PROVE  OrderInv'
<1>0. DOMAIN files = Base /\ Len(sms) \in Nat /\ sms \in Seq(Nat)
  BY FrontTypes
<1>1. CASE Roll
  <2>1. /\ pc = "write" /\ pc' = "write"
        /\ files' = [files EXCEPT !["active"] = With(files["active"], Len(sms) + 1, <<>>)]
        /\ sms' = Append(sms, 0)
        /\ UNCHANGED <<tr, st, next, full, agents, todo, lines, index, damage>>
    BY <1>1 DEF Roll, NextIndex, memory, store, history
  <2>2. Len(sms') = Len(sms) + 1 /\ sms' # <<>>
    <3>1. sms' \in Seq(Nat) /\ Len(sms') = Len(sms) + 1
      BY <1>0, <2>1, AppendProperties
    <3> QED BY <1>0, <3>1, EmptySeq
  <2>3. files'["active"] = With(files["active"], Len(sms) + 1, <<>>)
        /\ files'["archived"] = files["archived"] /\ DOMAIN files' = Base
    BY <1>0, <2>1 DEF Base
  <2>4. ASSUME NEW j \in DOMAIN files'["active"]
        PROVE  \/ files'["active"][j] = <<>>
               \/ /\ j \in DOMAIN files["active"] /\ files'["active"][j] = files["active"][j]
                  /\ j \in 1 .. Len(sms') => j \in 1 .. Len(sms)
    <3>1. CASE j = Len(sms) + 1
      BY <2>3, <3>1 DEF With
    <3>2. CASE j # Len(sms) + 1
      <4>1. j \in DOMAIN files["active"] /\ files'["active"][j] = files["active"][j]
        BY <2>3, <3>2 DEF With
      <4>2. j \in 1 .. Len(sms') => j \in 1 .. Len(sms)
        BY <1>0, <2>2, <3>2
      <4> QED BY <4>1, <4>2
    <3> QED BY <3>1, <3>2
  <2>5. Rewritten => Rewritten'
    BY <2>1, <2>2 DEF Rewritten
  <2> QED BY <2>1, <2>3, <2>4, <2>5, ShrunkKeepsOrder
<1>2. CASE RemoveOrphans
  <2>1. /\ pc = "orphans" /\ pc' = "index" /\ sms' = sms
        /\ files' = [files EXCEPT !["active"] = Without(files["active"], Orphans)]
        /\ UNCHANGED <<tr, st, next, full, agents, todo, lines, index, damage>>
    BY <1>2 DEF RemoveOrphans, memory, store, history
  <2>2. files'["active"] = Without(files["active"], Orphans)
        /\ files'["archived"] = files["archived"] /\ DOMAIN files' = Base
    BY <1>0, <2>1 DEF Base
  <2>3. ASSUME NEW j \in DOMAIN files'["active"]
        PROVE  /\ j \in DOMAIN files["active"] /\ files'["active"][j] = files["active"][j]
               /\ j \in 1 .. Len(sms') => j \in 1 .. Len(sms)
    BY <2>1, <2>2 DEF Without
  <2>4. Rewritten => Rewritten'
    BY <2>1 DEF Rewritten
  <2> QED BY <2>1, <2>2, <2>3, <2>4, ShrunkKeepsOrder
<1> QED BY <1>1, <1>2

\* A line comes after everything that is written of its agent, and before what is not.
LEMMA WriteLineKeepsOrder ==
  ASSUME StoreInv, FrontInv, OrderInv, WriteLine
  PROVE  OrderInv'
<1> DEFINE n == Len(sms)
           f == files["active"]
           h == Head(lines)
<1>1. /\ pc = "write" /\ n \in DOMAIN f
      /\ files' = [files EXCEPT !["active"] = With(f, n, Append(f[n], h))]
      /\ sms' = [sms EXCEPT ![n] = sms[n] + 1]
      /\ lines' = Tail(lines)
      /\ pc' \in {"write", "orphans", "index"} /\ (full => pc' # "index")
      /\ UNCHANGED <<tr, st, next, full, agents, todo, index, damage>>
      /\ sms # <<>>
  BY DEF WriteLine, MustRoll, memory, store, history
<1>2. n \in Nat /\ sms \in Seq(Nat) /\ lines \in Seq(Record) /\ DOMAIN files = Base
      /\ f[n] \in Seq(Record) /\ lines # <<>>
  BY <1>1, FrontTypes, OrderTypes DEF Base, StoreInv, Ready
<1>3. Len(sms') = n /\ sms' # <<>>
  <2>1. n \in 1 .. Len(sms)
    BY <1>1, <1>2, EmptySeq
  <2>2. sms[n] + 1 \in Nat
    BY <1>2, <2>1, ElementOfSeq
  <2>3. sms' \in Seq(Nat) /\ Len(sms') = Len(sms)
    BY <1>1, <1>2, <2>1, <2>2, ExceptSeq
  <2> QED BY <2>1, <2>3, EmptySeq
<1>4. /\ files'["active"] = With(f, n, Append(f[n], h))
      /\ files'["archived"] = files["archived"] /\ DOMAIN files' = Base
  BY <1>1, <1>2 DEF Base
<1>5. h \in Record /\ h \in SetOf(lines)
  BY <1>2, HeadTailProperties, EmptySeq, LenProperties DEF SetOf
<1>6. SetOf(Append(f[n], h)) = SetOf(f[n]) \cup {h}
  BY <1>2, <1>5, ElementsAppend
<1> DEFINE g == files'["active"]
<1>7. /\ DOMAIN g = DOMAIN f /\ g[n] = Append(f[n], h) /\ SetOf(g[n]) = SetOf(f[n]) \cup {h}
      /\ \A j \in DOMAIN f \ {n} : g[j] = f[j]
  BY <1>1, <1>4, <1>6 DEF With
<1>8. \A j \in DOMAIN f : SetOf(g[j]) = SetOf(f[j]) \cup IF j = n THEN {h} ELSE {}
  BY <1>7
<1>9. /\ Saving /\ Saving' /\ (Clean' <=> Clean) /\ SetOf(agents)' = SetOf(agents)
      /\ SetOf(lines)' = SetOf(lines')
      /\ \A a : ~Current(a)'
  BY <1>1 DEF Saving, Clean, SetOf, Current
<1>10. /\ h.msg < next /\ h.agent \in SetOf(agents)
       /\ Clean => \A j \in DOMAIN f \cap 1 .. n :
                       \A q \in SetOf(f[j]) : q.agent = h.agent => q.msg < h.msg
  BY <1>5, <1>9 DEF OrderInv, Pending
<1>11. n \in DOMAIN f \cap 1 .. n
  BY <1>1, <1>2, EmptySeq
<1>12. Clean => Rising(g[n])
  <2> SUFFICES ASSUME Clean PROVE Rising(Append(f[n], h))
    BY <1>7
  <2>1. Rising(f[n])
    BY <1>1 DEF OrderInv, Stored, Base
  <2>2. \A q \in SetOf(f[n]) : q.agent = h.agent => q.msg < h.msg
    BY <1>10, <1>11
  <2> QED BY <1>2, <1>5, <2>1, <2>2, RisingAppend
<1>13. Clean => Rising(lines)
  BY DEF OrderInv, Pending
<1>14. /\ SetOf(lines') \subseteq SetOf(lines)
       /\ Clean => /\ Rising(lines')
                   /\ \A q \in SetOf(lines') : q.agent = h.agent => h.msg < q.msg
  <2>1. SetOf(Tail(lines)) \subseteq SetOf(lines)
    <3>1. Len(lines) \in Nat /\ DOMAIN lines = 1 .. Len(lines) /\ Tail(lines) \in Seq(Record)
          /\ Len(Tail(lines)) = Len(lines) - 1
          /\ \A i \in 1 .. Len(Tail(lines)) : Tail(lines)[i] = lines[i + 1]
      BY <1>2, LenProperties, HeadTailProperties
    <3>2. DOMAIN Tail(lines) = 1 .. Len(lines) - 1
      BY <3>1, LenProperties
    <3>3. \A i \in 1 .. Len(lines) - 1 : i + 1 \in DOMAIN lines /\ Tail(lines)[i] = lines[i + 1]
      BY <3>1
    <3> QED BY <3>2, <3>3 DEF SetOf
  <2>2. Clean => /\ Rising(Tail(lines))
                 /\ \A q \in SetOf(Tail(lines)) : q.agent = h.agent => h.msg < q.msg
    BY <1>2, <1>13, RisingTail
  <2> QED BY <1>1, <2>1, <2>2
<1> HIDE DEF n, f, h, g
<1>15. Speech'
  BY <1>1, <1>9 DEF OrderInv, Speech
<1>16. Stored'
  <2> SUFFICES ASSUME NEW b \in Base, NEW j \in DOMAIN files'[b]
               PROVE  /\ \A r \in SetOf(files'[b][j]) : r.msg < next
                      /\ Clean => Rising(files'[b][j])
    BY <1>1, <1>9 DEF Stored, SetOf, Rising
  <2>1. CASE b = "archived" \/ j # n
    <3>1. j \in DOMAIN files[b] /\ files'[b][j] = files[b][j]
      BY <1>4, <1>7, <2>1 DEF f, g, Base
    <3> QED BY <3>1 DEF OrderInv, Stored
  <2>2. CASE b = "active" /\ j = n
    <3>1. \A r \in SetOf(f[n]) : r.msg < next
      BY <1>7, <2>2 DEF OrderInv, Stored, f, g
    <3>2. files'[b][j] = g[n]
      BY <2>2 DEF g
    <3> QED BY <1>7, <1>10, <1>12, <3>1, <3>2
  <2> QED BY <2>1, <2>2 DEF Base
<1>17. Pending'
  <2>1. \A r \in SetOf(lines') : r.msg < next /\ r.agent \in SetOf(agents)
    BY <1>9, <1>14 DEF OrderInv, Pending
  <2>2. ASSUME Clean, NEW r \in SetOf(lines'), NEW j \in DOMAIN g \cap 1 .. n,
               NEW q \in SetOf(g[j]), q.agent = r.agent
        PROVE  q.msg < r.msg
    <3>1. CASE q \in SetOf(f[j])
      <4>1. r \in SetOf(lines) /\ j \in DOMAIN f \cap 1 .. n
        BY <1>7, <1>14, <2>2
      <4> QED BY <1>9, <2>2, <3>1, <4>1 DEF OrderInv, Pending, f, n
    <3>2. CASE q = h
      BY <1>14, <2>2, <3>2
    <3> QED BY <1>7, <1>8, <2>2, <3>1, <3>2
  <2> QED BY <1>1, <1>3, <1>9, <1>14, <2>1, <2>2 DEF Pending, g
<1>18. ASSUME NEW a \in Agents PROVE Fresh(a)'
  <2>1. Clean /\ a \notin SetOf(agents) => \A i \in DOMAIN tr[a] : Above(f, a, tr[a][i])
    BY <1>9 DEF OrderInv, Fresh, f
  <2>2. a \notin SetOf(agents) => \A x : Above(f, a, x) => Above(g, a, x)
    BY <1>7, <1>8, <1>10 DEF Above
  <2>3. Clean /\ a \notin SetOf(agents) => \A i \in DOMAIN tr[a] : Above(g, a, tr[a][i])
    BY <2>1, <2>2
  <2> QED BY <1>1, <1>9, <2>3 DEF Fresh, g
<1>19. Clean /\ (full \/ damage = {}) => Before(g, g, n)
  <2> SUFFICES ASSUME Clean, full \/ damage = {},
                      NEW i \in DOMAIN g \cap 1 .. n, NEW j \in DOMAIN g \cap 1 .. n, i < j
               PROVE  Follow(g[i], g[j])
    BY DEF Before
  <2>1. Before(f, f, n)
    BY <1>1 DEF OrderInv, SavedAcross, f, n
  <2>2. i \in DOMAIN f \cap 1 .. n /\ j \in DOMAIN f \cap 1 .. n /\ Follow(f[i], f[j])
    BY <1>7, <2>1 DEF Before
  <2>3. i # n /\ g[i] = f[i]
    BY <1>2, <1>7, <2>2
  <2>4. \A q \in SetOf(f[i]) : q.agent = h.agent => q.msg < h.msg
    BY <1>10, <2>2
  <2> QED BY <1>8, <2>2, <2>3, <2>4 DEF Follow
<1>20. SavedAcross'
  BY <1>1, <1>3, <1>9, <1>19 DEF SavedAcross, g
<1>21. ListedAcross'
  <2> SUFFICES ASSUME damage = {}, ~Rewritten'
               PROVE  \A b, c \in Base : Before(files'[b], files'[c], Extent(index))
    BY <1>1 DEF ListedAcross
  <2>1. Clean
    BY DEF Clean
  <2>2. ~full
    BY <1>1, <1>3 DEF Rewritten
  <2>3. DOMAIN files'["archived"] = {} /\ Extent(index) \in Nat /\ Extent(index) <= n
    BY <1>2, <1>4, <1>9, <2>1, <2>2, SavingAlone, OrderTypes, FrontTypes DEF n
  <2>4. Before(files'["active"], files'["active"], n)
    BY <1>19, <2>1 DEF g
  <2> QED BY <1>2, <2>3, <2>4, AloneInOrder DEF n
<1> QED BY <1>15, <1>16, <1>17, <1>18, <1>20, <1>21 DEF OrderInv


-----------------------------------------------------------------------------
\* What was said and what is stored is in order as long as nothing touches it.
LEMMA SettledInOrder ==
  ASSUME OrderInv, UNCHANGED <<tr, next, files>>, Clean' => Clean
  PROVE  Speech' /\ Stored'
BY DEF OrderInv, Speech, Stored

\* With nothing to write nothing is out of order.
LEMMA NothingPending == ASSUME lines' = <<>> PROVE Pending'
<1>1. SetOf(lines)' = {} /\ Rising(lines)'
  BY ElementsEmpty DEF SetOf, Rising
<1> QED BY <1>1 DEF Pending

\* Outside a save nobody looks at the frontier, unless the next save will.
LEMMA OutsideFresh ==
  ASSUME pc' \in {"free", "archive", "unarchive"},
         pc' = "free" => st' = None \/ Compacted'
  PROVE  (\A a \in Agents : Fresh(a)') /\ SavedAcross'
BY DEF Fresh, SavedAcross, Saving

\* Listed shards are in order as long as the same are listed.
LEMMA ListedInOrderStill ==
  ASSUME OrderInv, Extent(index') = Extent(index), files' = files,
         damage' = {} /\ ~Rewritten' => damage = {} /\ ~Rewritten
  PROVE  ListedAcross'
BY DEF OrderInv, ListedAcross

\* The index written lists the shards of the save, which are in order.
LEMMA IndexKeepsOrder ==
  ASSUME StoreInv, FrontInv, OrderInv, WriteIndex
  PROVE  OrderInv'
<1>1. /\ pc = "index" /\ pc' = "length" /\ todo = agents /\ lines = <<>>
      /\ index' = [index EXCEPT !["active"] = sms]
      /\ damage' = IF full THEN damage \ {"rewrite"} ELSE damage
      /\ UNCHANGED <<tr, next, full, agents, todo, lines, sms, files>>
  BY DEF WriteIndex, memory, FrontInv, Ordered
<1>2. /\ Saving /\ Saving' /\ (Clean' => Clean) /\ SetOf(agents)' = SetOf(agents)
      /\ SetOf(todo)' = SetOf(agents) /\ \A a : ~Current(a)'
  BY <1>1 DEF Saving, Clean, SetOf, Current
<1>3. Speech' /\ Stored' /\ Pending'
  BY <1>1, <1>2, SettledInOrder, NothingPending
<1>4. ASSUME NEW a \in Agents PROVE Fresh(a)'
  BY <1>1, <1>2 DEF OrderInv, Fresh
<1>5. SavedAcross'
  BY <1>1 DEF SavedAcross
<1>6. ListedAcross'
  <2> SUFFICES ASSUME damage' = {}
               PROVE  \A b, c \in Base : Before(files[b], files[c], Extent(index'))
    BY <1>1 DEF ListedAcross
  <2>1. Clean /\ (full \/ damage = {})
    BY <1>1 DEF Clean
  <2>2. Before(files["active"], files["active"], Len(sms))
    BY <1>1, <2>1 DEF OrderInv, SavedAcross
  <2>3. DOMAIN files["archived"] = {}
    BY <1>2, <2>1, SavingAlone
  <2>4. sms # None /\ index'["active"] = sms /\ Len(sms) \in Nat
    BY <1>1, FrontTypes, OrderTypes, StoreAssumption DEF Base
  <2>5. Extent(index') = Len(sms)
    BY <2>4 DEF Extent
  <2> QED BY <2>2, <2>3, <2>4, <2>5, AloneInOrder
<1> QED BY <1>3, <1>4, <1>5, <1>6 DEF OrderInv

\* Nothing is beyond a frontier that was just recorded.
LEMMA LengthKeepsOrder ==
  ASSUME StoreInv, FrontInv, OrderInv, RecordLength
  PROVE  OrderInv'
<1> DEFINE a == Head(todo)
<1>1. /\ pc = "length" /\ pc' = "epoch" /\ lines = <<>>
      /\ st' = [st EXCEPT !.persisted = [@ EXCEPT ![a] = Len(tr[a])]]
      /\ UNCHANGED <<tr, next, full, agents, todo, lines, sms, index, files, damage>>
  BY DEF RecordLength, memory, disk, history, FrontInv, Ordered
<1>2. /\ Saving /\ Saving' /\ (Clean' <=> Clean) /\ ~Rewritten /\ ~Rewritten'
      /\ SetOf(agents)' = SetOf(agents) /\ SetOf(todo)' = SetOf(todo)
      /\ (\A b : Current(b)' <=> b = a) /\ (\A b : ~Current(b))
  BY <1>1 DEF Saving, Clean, Rewritten, SetOf, Current
<1>3. st # None /\ st \in Frontiers /\ st.persisted \in [Agents -> Nat]
  BY <1>1, FrontTypes DEF StoreInv, Ready
<1>4. a \in Agents /\ tr[a] \in Seq(Nat)
  <2>1. a \in SetOf(todo) /\ SetOf(todo) \subseteq SetOf(agents) /\ SetOf(agents) \subseteq Agents
    BY <1>2, FrontTypes DEF FrontInv, Ordered
  <2> QED BY <2>1, FrontTypes
<1>a. a' = a
  BY <1>1
<1> HIDE DEF a
<1>5. st'.persisted = [st.persisted EXCEPT ![a] = Len(tr[a])]
  <2>1. DOMAIN st = {"persisted", "epoch"}
    BY <1>3 DEF Frontiers
  <2> QED BY <1>1, <2>1
<1>6. Speech' /\ Stored' /\ Pending'
  BY <1>1, <1>2, SettledInOrder, NothingPending
<1>7. New(a)'
  <2>1. st'.persisted[a] = Len(tr[a])
    BY <1>3, <1>4, <1>5
  <2>2. DOMAIN tr[a] = 1 .. Len(tr[a]) /\ Len(tr[a]) \in Nat
    BY <1>4, LenProperties
  <2>3. \A i \in DOMAIN tr[a] : ~(i > st'.persisted[a])
    BY <2>1, <2>2
  <2> QED BY <1>1, <1>a, <2>3 DEF New
<1>8. ASSUME NEW b \in Agents PROVE Fresh(b)'
  <2>1. CASE b = a
    <3>1. b \in SetOf(agents)
      <4>1. a \in SetOf(todo)
        BY <1>2, FrontTypes DEF a
      <4> QED BY <2>1, <4>1 DEF FrontInv, Ordered
    <3>2. New(b)'
      BY <1>7, <1>a, <2>1 DEF New
    <3> QED BY <1>1, <1>2, <3>1, <3>2 DEF Fresh
  <2>2. CASE b # a
    <3>1. New(b) => New(b)'
      <4>1. st'.persisted[b] = st.persisted[b]
        BY <1>3, <1>5, <2>2
      <4> QED BY <1>1, <4>1 DEF New
    <3> QED BY <1>1, <1>2, <2>2, <3>1 DEF OrderInv, Fresh
  <2> QED BY <2>1, <2>2
<1>9. ListedAcross' /\ SavedAcross'
  BY <1>1, <1>2, ListedInOrderStill DEF SavedAcross
<1> QED BY <1>6, <1>8, <1>9 DEF OrderInv

\* recordFrontier goes on to the next agent, or the save is done.
LEMMA EpochKeepsOrder ==
  ASSUME StoreInv, FrontInv, OrderInv, RecordEpoch
  PROVE  OrderInv'
<1> DEFINE a == Head(todo)
<1>1. /\ pc = "epoch" /\ lines = <<>> /\ lines' = <<>>
      /\ \/ /\ Len(todo) > 1 /\ pc' = "length" /\ todo' = Tail(todo)
            /\ UNCHANGED <<full, agents>>
         \/ ~(Len(todo) > 1) /\ pc' = "free"
      /\ UNCHANGED <<tr, next, index, files, damage>>
  BY DEF RecordEpoch, Idle, disk, FrontInv, Ordered
<1>2. /\ st'.persisted = st.persisted /\ SetOf(Tail(todo)) = SetOf(todo) \ {a}
      /\ ~(Len(todo) > 1) => SetOf(todo) = {a}
  <2>1. ~(Len(todo) > 1) => Len(todo) <= 1
    BY FrontTypes, LenProperties
  <2> QED BY <2>1, EpochRecorded
<1>3. /\ Saving /\ (Clean' <=> Clean) /\ ~Rewritten /\ ~Rewritten'
      /\ (\A b : Current(b) <=> b = a) /\ (\A b : ~Current(b)')
  BY <1>1 DEF Saving, Clean, Rewritten, Current
<1> HIDE DEF a
<1>4. ASSUME NEW b \in Agents PROVE New(b)' <=> New(b)
  BY <1>1, <1>2 DEF New
<1>5. Speech' /\ Stored' /\ Pending'
  BY <1>1, <1>3, SettledInOrder, NothingPending
<1>6. ASSUME NEW b \in Agents PROVE Fresh(b)'
  <2>1. CASE pc' = "length"
    <3>1. SetOf(agents)' = SetOf(agents) /\ SetOf(todo)' = SetOf(todo) \ {a}
      BY <1>1, <1>2, <2>1 DEF SetOf
    <3>2. Saving'
      BY <2>1 DEF Saving
    <3> QED BY <1>1, <1>3, <1>4, <2>1, <3>1, <3>2 DEF OrderInv, Fresh
  <2>2. CASE pc' = "free"
    <3>1. SetOf(todo) = {a}
      BY <1>1, <1>2, <2>2
    <3>2. Clean => New(b)
      <4>1. CASE b \in SetOf(agents)
        BY <1>1, <1>3, <3>1, <4>1 DEF OrderInv, Fresh
      <4>2. CASE b \notin SetOf(agents)
        BY <1>3, <4>2 DEF OrderInv, Fresh, New
      <4> QED BY <4>1, <4>2
    <3> QED BY <1>3, <1>4, <2>2, <3>2 DEF Fresh, Saving
  <2> QED BY <1>1, <2>1, <2>2
<1>7. ListedAcross' /\ SavedAcross'
  BY <1>1, <1>3, ListedInOrderStill DEF SavedAcross
<1> QED BY <1>5, <1>6, <1>7 DEF OrderInv

\* A save that fails gives its frontier up, or the next save knows that it is behind.
LEMMA FailKeepsOrder ==
  ASSUME StoreInv, FrontInv, OrderInv, SaveFails
  PROVE  OrderInv'
<1>1. /\ pc \in {"write", "index"} /\ pc' = "free" /\ lines' = <<>> /\ full' = FALSE
      /\ IF full THEN UNCHANGED <<st, shards>> ELSE st' = None /\ shards' = <<>>
      /\ damage' = IF full /\ sms # <<>> THEN damage \cup {"rewrite"} ELSE damage
      /\ UNCHANGED <<present, tr, epoch, next, index, files>>
  BY DEF SaveFails, GivesUp, Idle, disk
<1>2. (Clean' => Clean) /\ ~Rewritten' /\ (damage' = {} => damage = {} /\ ~Rewritten)
  BY <1>1 DEF Clean, Rewritten
<1>3. st' = None \/ Compacted'
  <2> SUFFICES ASSUME full, st # None PROVE Compacted'
    BY <1>1
  <2>1. Compacted
    BY <1>1 DEF FrontInv, Behind
  <2> QED BY <1>1, <2>1 DEF Compacted, SetOf
<1>4. (\A a \in Agents : Fresh(a)') /\ SavedAcross'
  BY <1>1, <1>3, OutsideFresh
<1>5. Speech' /\ Stored' /\ Pending'
  BY <1>1, <1>2, SettledInOrder, NothingPending
<1>6. ListedAcross'
  BY <1>1, <1>2, ListedInOrderStill
<1> QED BY <1>4, <1>5, <1>6 DEF OrderInv

-----------------------------------------------------------------------------
\* A shard renamed holds what it held, and is listed at the same place.
LEMMA MovedKeepsOrder ==
  ASSUME StoreInv, OrderInv, pc' \in {"archive", "unarchive"},
         NEW i \in Nat \ {0}, NEW from \in Base, NEW to \in Base, from # to, Move(i, from, to),
         UNCHANGED <<tr, next, lines, index, damage>>, lines = <<>>, ~Rewritten
  PROVE  OrderInv'
<1>1. Clean' <=> Clean
  BY DEF Clean
<1>2. ASSUME NEW b \in Base, NEW j \in DOMAIN files'[b]
      PROVE  \E c \in Base : j \in DOMAIN files[c] /\ files'[b][j] = files[c][j]
  <2>1. CASE i \notin DOMAIN files[from]
    BY <2>1 DEF Move
  <2>2. CASE i \in DOMAIN files[from]
    <3>1. files' = [d \in Base |-> IF d = from THEN Without(files[d], {i})
                                   ELSE With(files[d], i, files[from][i])]
      BY <2>2 DEF Move
    <3>2. CASE b = from
      <4>1. files'[b] = Without(files[b], {i})
        BY <3>1, <3>2
      <4> QED BY <4>1 DEF Without
    <3>3. CASE b # from
      <4>1. files'[b] = With(files[b], i, files[from][i])
        BY <3>1, <3>3
      <4>2. DOMAIN files'[b] = DOMAIN files[b] \cup {i}
            /\ files'[b][j] = IF j = i THEN files[from][i] ELSE files[b][j]
        BY <4>1 DEF With
      <4> QED BY <2>2, <4>2
    <3> QED BY <3>2, <3>3
  <2> QED BY <2>1, <2>2
<1>3. Speech'
  BY <1>1 DEF OrderInv, Speech
<1>4. Stored'
  <2> SUFFICES ASSUME NEW b \in Base, NEW j \in DOMAIN files'[b]
               PROVE  /\ \A r \in SetOf(files'[b][j]) : r.msg < next
                      /\ Clean => Rising(files'[b][j])
    BY <1>1 DEF Stored, SetOf, Rising
  <2>1. PICK c \in Base : j \in DOMAIN files[c] /\ files'[b][j] = files[c][j]
    BY <1>2
  <2> QED BY <2>1 DEF OrderInv, Stored
<1>5. Pending'
  BY NothingPending
<1>6. (\A a \in Agents : Fresh(a)') /\ SavedAcross'
  BY OutsideFresh
<1>7. ListedAcross'
  <2> SUFFICES ASSUME damage = {}, NEW b \in Base, NEW c \in Base,
                      NEW j \in DOMAIN files'[b] \cap 1 .. Extent(index),
                      NEW k \in DOMAIN files'[c] \cap 1 .. Extent(index), j < k
               PROVE  Follow(files'[b][j], files'[c][k])
    BY DEF ListedAcross, Before
  <2>1. PICK d \in Base : j \in DOMAIN files[d] /\ files'[b][j] = files[d][j]
    BY <1>2
  <2>2. PICK e \in Base : k \in DOMAIN files[e] /\ files'[c][k] = files[e][k]
    BY <1>2
  <2>3. Before(files[d], files[e], Extent(index))
    BY DEF OrderInv, ListedAcross
  <2> QED BY <2>1, <2>2, <2>3 DEF Before
<1> QED BY <1>3, <1>4, <1>5, <1>6, <1>7 DEF OrderInv

\* What the last shard of an index holds is in order.
LEMMA LastShardInOrder ==
  ASSUME StoreInv, OrderInv, NEW idx \in Seq(Nat)
  PROVE  LET shard == LastShard(idx, files["active"])
         IN /\ shard \in Seq(Record) /\ \A r \in SetOf(shard) : r.msg < next
            /\ Clean => Rising(shard)
<1> DEFINE f == files["active"]
           n == Len(idx)
<1>1. Files(f) /\ n \in Nat
  BY FrontTypes, LenProperties
<1>2. CASE n = 0
  <2>1. LastShard(idx, f) = <<>> /\ <<>> \in Seq(Record)
    BY <1>2, EmptySeq DEF LastShard
  <2> QED BY <2>1, ElementsEmpty
<1>3. CASE n # 0
  <2> DEFINE m == n - 1
             s == Shard(f, n)
  <2>1. n \in Nat \ {0} /\ m \in Nat /\ m < n /\ m + 1 = n /\ m + 1 >= n
    BY <1>1, <1>3
  <2>2. s \in Seq(Record)
    BY <1>1, <2>1, ShardTyped
  <2>3. Content(f, n, n) = s
    <3> HIDE DEF f, n, m
    <3>1. Content(f, n, m) = <<>> /\ Content(f, n, m + 1) = Content(f, n, m) \o Shard(f, m + 1)
      BY <1>1, <2>1, ContentSteps
    <3>2. Content(f, n, n) = <<>> \o s
      BY <2>1, <3>1
    <3> QED BY <2>2, <3>2, ConcatEmptySeq
  <2>4. LastShard(idx, f) = s
    BY <1>3, <2>3 DEF LastShard
  <2>5. (\A r \in SetOf(s) : r.msg < next) /\ (Clean => Rising(s))
    BY ElementsEmpty DEF Shard, OrderInv, Stored, Base
  <2> QED BY <2>2, <2>4, <2>5
<1> QED BY <1>2, <1>3

\* A session adopted says nothing that is not stored, in the order it is stored in.
LEMMA AdoptKeepsOrder ==
  ASSUME StoreInv, OrderInv, NEW idx \in Seq(Nat), AdoptLoaded(idx), pc' = "free",
         lines' = <<>>, UNCHANGED <<next, index, files, damage>>, ~Rewritten
  PROVE  OrderInv'
<1> DEFINE shard == LastShard(idx, files["active"])
           said == Of(Root, shard)
<1>1. /\ tr' = [Nothing EXCEPT ![Root] = said]
      /\ st' = [persisted |-> Counted(shard),
                epoch |-> [Unknown EXCEPT ![Root] = IF said # <<>> THEN 1 ELSE None]]
  BY DEF AdoptLoaded
<1>2. /\ shard \in Seq(Record) /\ (\A r \in SetOf(shard) : r.msg < next)
      /\ Clean => Rising(shard)
  BY LastShardInOrder
<1> HIDE DEF shard
<1>3. /\ \A i \in DOMAIN said : \E r \in SetOf(shard) : r.msg = said[i]
      /\ Rising(shard) => Growing(said)
  BY <1>2, GrowingOf
<1>4. said \in Seq(Nat)
  BY <1>2, OfTyped
<1>5. /\ Root \in Agents /\ tr'[Root] = said
      /\ \A a \in Agents \ {Root} : tr'[a] = <<>>
      /\ \A a \in Agents : st'.persisted[a] = Len(Of(a, shard))
  BY <1>1 DEF Nothing, Counted, Agents
<1> HIDE DEF said
<1>6. Clean' <=> Clean
  BY DEF Clean
<1>7. Speech'
  <2> SUFFICES ASSUME NEW a \in Agents
               PROVE  (\A i \in DOMAIN tr'[a] : tr'[a][i] < next) /\ (Clean => Growing(tr'[a]))
    BY <1>6 DEF Speech
  <2>1. CASE a = Root
    BY <1>2, <1>3, <1>5, <2>1
  <2>2. CASE a # Root
    BY <1>5, <2>2, ElementsEmpty
  <2> QED BY <2>1, <2>2
<1>8. Stored' /\ Pending'
  BY <1>6, NothingPending DEF OrderInv, Stored
<1>9. ASSUME NEW a \in Agents PROVE Fresh(a)'
  <2>1. New(a)'
    <3>1. CASE a = Root
      <4>1. st'.persisted[a] = Len(said) /\ DOMAIN said = 1 .. Len(said) /\ Len(said) \in Nat
        BY <1>4, <1>5, <3>1, LenProperties DEF said
      <4>2. \A i \in DOMAIN said : ~(i > st'.persisted[a])
        BY <4>1
      <4> QED BY <1>5, <3>1, <4>2 DEF New
    <3>2. CASE a # Root
      BY <1>5, <3>2 DEF New
    <3> QED BY <3>1, <3>2
  <2> QED BY <2>1 DEF Fresh, Saving
<1>10. ListedAcross' /\ SavedAcross'
  BY ListedInOrderStill DEF SavedAcross
<1> QED BY <1>7, <1>8, <1>9, <1>10 DEF OrderInv


\* Closing, reopening, and what happens to the process.
LEMMA ClosingKeepsOrder ==
  ASSUME StoreInv, FrontInv, OrderInv,
         \/ ArchiveBegin \/ ArchiveShard \/ ArchiveEnd
         \/ Continue \/ UnarchiveShard \/ UnarchiveEnd \/ Crash \/ Restart
  PROVE  OrderInv'
<1>0. ~Saving => ~full /\ ~Rewritten /\ lines = <<>>
  BY DEF StoreInv, Ready, OrderInv, Pending, Saving, Rewritten
<1>a. DOMAIN index = Base /\ moved \in Nat /\ moved + 1 \in Nat \ {0}
  BY OrderTypes DEF StoreInv, TypeOK, OperationOK
<1>b. index["active"] # None => index["active"] \in Seq(Nat)
  BY OrderTypes DEF Base
<1>1. CASE ArchiveBegin
  <2>1. /\ pc = "free" /\ ~Saving
        /\ \/ UNCHANGED <<index, pc>>
           \/ /\ index["active"] # None
              /\ index' = [[index EXCEPT !["active"] = None]
                             EXCEPT !["archived"] = index["active"]]
              /\ pc' = "archive"
        /\ UNCHANGED <<present, epoch, tr, st, next, full, agents, todo, lines, sms, files, damage>>
    BY <1>1 DEF ArchiveBegin, Renamed, store, history, Saving
  <2>2. CASE UNCHANGED <<index, pc>>
    <3>1. Compacted => Compacted'
      BY <2>1 DEF Compacted, SetOf
    <3> QED BY <2>1, <2>2, <3>1, OrderUntouched
  <2>3. CASE /\ index["active"] # None
             /\ index' = [[index EXCEPT !["active"] = None]
                            EXCEPT !["archived"] = index["active"]]
             /\ pc' = "archive"
    <3>1. index'["active"] = None /\ index'["archived"] = index["active"]
      BY <1>a, <2>3 DEF Base
    <3>2. Extent(index') = Extent(index)
      BY <2>3, <3>1 DEF Extent
    <3>3. (Clean' => Clean) /\ lines' = <<>>
      BY <1>0, <2>1 DEF Clean
    <3>4. Speech' /\ Stored' /\ Pending'
      BY <2>1, <3>3, SettledInOrder, NothingPending
    <3>5. ListedAcross'
      BY <1>0, <2>1, <3>2, ListedInOrderStill
    <3> QED BY <2>3, <3>4, <3>5, OutsideFresh DEF OrderInv
  <2> QED BY <2>1, <2>2, <2>3
<1>2. CASE ArchiveShard
  <2>1. /\ pc = "archive" /\ pc' = "archive" /\ Move(moved + 1, "active", "archived")
        /\ UNCHANGED <<tr, next, lines, index, damage>>
    BY <1>2 DEF ArchiveShard, memory, history
  <2>2. ~Saving
    BY <2>1 DEF Saving
  <2> QED BY <1>0, <1>a, <2>1, <2>2, MovedKeepsOrder DEF Base
<1>3. CASE UnarchiveShard
  <2>1. /\ pc = "unarchive" /\ pc' = "unarchive" /\ Move(moved + 1, "archived", "active")
        /\ UNCHANGED <<tr, next, lines, index, damage>>
    BY <1>3 DEF UnarchiveShard, memory, history
  <2>2. ~Saving
    BY <2>1 DEF Saving
  <2> QED BY <1>0, <1>a, <2>1, <2>2, MovedKeepsOrder DEF Base
<1>4. CASE ArchiveEnd
  <2>1. /\ pc = "archive" /\ pc' = "free" /\ lines' = <<>> /\ full' = FALSE /\ st' = None
        /\ UNCHANGED <<tr, next, index, files, damage>>
    BY <1>4 DEF ArchiveEnd, Idle, disk
  <2>2. ~Rewritten /\ ~Rewritten' /\ (Clean' => Clean)
    BY <2>1 DEF Rewritten, Clean
  <2>3. Speech' /\ Stored' /\ Pending'
    BY <2>1, <2>2, SettledInOrder, NothingPending
  <2>4. ListedAcross'
    BY <2>1, <2>2, ListedInOrderStill
  <2> QED BY <2>1, <2>3, <2>4, OutsideFresh DEF OrderInv
<1>5. CASE Crash
  <2>1. /\ pc' = "free" /\ lines' = <<>> /\ full' = FALSE /\ st' = None
        /\ tr' = Nothing
        /\ damage' = damage \cup
               {d \in {"rewrite", "unarchive"} :
                   IF d = "unarchive" THEN pc = "unarchive"
                   ELSE full /\ sms # <<>> /\ pc \in {"write", "orphans", "index"}}
        /\ UNCHANGED <<next, index, files>>
    BY <1>5 DEF Crash, Idle, disk
  <2>2. /\ ~Rewritten' /\ (Clean' => Clean)
        /\ damage' = {} => damage = {} /\ ~Rewritten
    BY <2>1 DEF Rewritten, Clean
  <2>3. Speech'
    BY <2>1, ElementsEmpty DEF Speech, Nothing
  <2>4. Stored' /\ Pending'
    BY <2>1, <2>2, NothingPending DEF OrderInv, Stored
  <2>5. ListedAcross'
    BY <2>1, <2>2, ListedInOrderStill
  <2> QED BY <2>1, <2>3, <2>4, <2>5, OutsideFresh DEF OrderInv
<1>6. CASE Continue
  <2>1. /\ pc = "free" /\ ~Saving
        /\ UNCHANGED <<next, lines, files, damage>>
        /\ \/ index["active"] # None /\ AdoptLoaded(index["active"]) /\ UNCHANGED <<index, pc>>
           \/ /\ index["active"] = None
              /\ index' = [b \in Base |-> IF b = "active" THEN index["archived"] ELSE None]
              /\ pc' = "unarchive" /\ tr' = tr
    BY <1>6 DEF Continue, Saving
  <2>2. CASE index["active"] # None /\ AdoptLoaded(index["active"]) /\ UNCHANGED <<index, pc>>
    BY <1>0, <1>b, <2>1, <2>2, AdoptKeepsOrder
  <2>3. CASE /\ index["active"] = None
             /\ index' = [b \in Base |-> IF b = "active" THEN index["archived"] ELSE None]
             /\ pc' = "unarchive" /\ tr' = tr
    <3>1. index'["active"] = index["archived"] /\ index'["archived"] = None
      BY <2>3 DEF Base
    <3>2. Extent(index') = Extent(index)
      BY <2>3, <3>1 DEF Extent
    <3>3. (Clean' => Clean) /\ lines' = <<>>
      BY <1>0, <2>1 DEF Clean
    <3>4. Speech' /\ Stored' /\ Pending'
      BY <2>1, <2>3, <3>3, SettledInOrder, NothingPending
    <3>5. ListedAcross'
      BY <1>0, <2>1, <3>2, ListedInOrderStill
    <3> QED BY <2>3, <3>4, <3>5, OutsideFresh DEF OrderInv
  <2> QED BY <2>1, <2>2, <2>3
<1>7. CASE UnarchiveEnd
  <2>1. /\ pc = "unarchive" /\ pc' = "free" /\ lines' = <<>> /\ AdoptLoaded(index["active"])
        /\ UNCHANGED <<next, index, files, damage>>
    BY <1>7 DEF UnarchiveEnd, Idle, disk
  <2>2. index["active"] \in Seq(Nat) /\ ~Rewritten
    BY <2>1, FrontTypes DEF StoreInv, FilesInv, StoreKnows, Rewritten
  <2> QED BY <2>1, <2>2, AdoptKeepsOrder
<1>8. CASE Restart
  <2>1. /\ UNCHANGED <<pc, full, agents, todo, lines, sms, next, index, files, damage>>
        /\ \/ index["active"] # None /\ AdoptLoaded(index["active"])
           \/ UNCHANGED <<present, tr, epoch, st>>
    BY <1>8 DEF Restart, operation, disk, store
  <2>2. pc = "free" /\ ~Saving
    BY <1>8 DEF Restart, StoreInv, IInv, PhasesFit, Saving
  <2>3. CASE index["active"] # None /\ AdoptLoaded(index["active"])
    BY <1>0, <1>b, <2>1, <2>2, <2>3, AdoptKeepsOrder
  <2>4. CASE UNCHANGED <<present, tr, epoch, st>>
    <3>1. Compacted => Compacted'
      BY <2>4 DEF Compacted, SetOf
    <3> QED BY <2>1, <2>4, <3>1, OrderUntouched
  <2> QED BY <2>1, <2>3, <2>4
<1> QED BY <1>1, <1>2, <1>3, <1>4, <1>5, <1>6, <1>7, <1>8

\* In the first state nothing was said.
LEMMA InitOrder == Init => OrderInv
<1> SUFFICES ASSUME Init PROVE OrderInv
  OBVIOUS
<1>1. /\ tr = Nothing /\ st = None /\ pc = "free" /\ lines = <<>>
      /\ files = [b \in Base |-> <<>>]
  BY DEF Init
<1>2. ~Saving /\ SetOf(lines) = {} /\ Rising(lines) /\ \A b \in Base : DOMAIN files[b] = {}
  BY <1>1, ElementsEmpty DEF Saving
<1>3. Speech
  BY <1>1, ElementsEmpty DEF Speech, Nothing
<1>4. Stored /\ Pending
  BY <1>1, <1>2 DEF Stored, Pending
<1>5. (\A a \in Agents : Fresh(a)) /\ SavedAcross
  BY <1>1, <1>2 DEF Fresh, SavedAcross
<1>6. ListedAcross
  BY <1>2 DEF ListedAcross, Before
<1> QED BY <1>3, <1>4, <1>5, <1>6 DEF OrderInv

\* Every step keeps the order.
LEMMA StepOrder == StoreInv /\ FrontInv /\ OrderInv /\ [Next]_vars => OrderInv'
<1> SUFFICES ASSUME StoreInv, FrontInv, OrderInv, [Next]_vars PROVE OrderInv'
  OBVIOUS
<1>0. UNCHANGED <<present, epoch>> => (Compacted' <=> Compacted) \/ st' # st
  BY DEF Compacted, SetOf
<1>1. ASSUME NEW a \in Agents, Say(a) \/ Compact(a) \/ Spawn(a) PROVE OrderInv'
  BY <1>1, SayKeepsOrder, CompactKeepsOrder, SpawnKeepsOrder
<1>2. ASSUME NEW t \in Threads, Persist(t) \/ SaveBegin(t) PROVE OrderInv'
  <2>1. CASE Persist(t)
    BY <1>0, <2>1, OrderUntouched DEF Persist, store, operation, disk, history
  <2>2. CASE SaveBegin(t)
    BY <2>2, SaveBeginKeepsOrder
  <2> QED BY <1>2, <2>1, <2>2
<1>3. CASE Encode \/ Roll \/ RemoveOrphans \/ WriteLine
  BY <1>3, EncodeKeepsOrder, RollKeepsOrder, WriteLineKeepsOrder
<1>4. CASE WriteIndex \/ RecordLength \/ RecordEpoch \/ SaveFails
  BY <1>4, IndexKeepsOrder, LengthKeepsOrder, EpochKeepsOrder, FailKeepsOrder
<1>5. CASE Remove
  BY <1>0, <1>5, OrderUntouched DEF Remove, store, operation, disk, history
<1>6. CASE \/ ArchiveBegin \/ ArchiveShard \/ ArchiveEnd
           \/ Continue \/ UnarchiveShard \/ UnarchiveEnd \/ Crash \/ Restart
  BY <1>6, ClosingKeepsOrder
<1>7. CASE UNCHANGED vars
  BY <1>0, <1>7, OrderUntouched DEF vars, memory, store, operation, disk, history
<1> QED BY <1>1, <1>2, <1>3, <1>4, <1>5, <1>6, <1>7 DEF Next, SaveStep, ArchiveStep

\* The shards an index lists hold every agent's messages once and in the order they
\* were said, through saves and their failures, compactions, closings, crashes and
\* restarts, except during a rewrite, after a rewrite or a reopening that stopped
\* half-way, and after a save of a session that was removed meanwhile.
THEOREM ListedIsInOrder == Spec => []ListedInOrder
<1>1. Init => StoreInv /\ FrontInv /\ OrderInv
  BY InitTypeOK, InitReady, InitIInv, InitFilesInv, InitFront, InitOrder DEF StoreInv
<1>2. StoreInv /\ FrontInv /\ OrderInv /\ [Next]_vars => (StoreInv /\ FrontInv /\ OrderInv)'
  BY StepStoreInv, StepFront, StepOrder
<1>3. StoreInv /\ OrderInv => ListedInOrder
  <2> SUFFICES ASSUME StoreInv, OrderInv, Undisturbed, NEW a \in Agents
               PROVE  Growing(Of(a, Listed("active")))
    BY DEF ListedInOrder, Growing
  <2>1. CASE index["active"] = None
    <3>1. Of(a, Listed("active")) = <<>>
      BY <2>1, OfEmpty DEF Listed
    <3> QED BY <3>1, ElementsEmpty
  <2>2. CASE index["active"] # None
    <3> DEFINE f == files["active"]
               n == Len(index["active"])
               text == Content(f, 1, n)
    <3>1. Files(f) /\ n \in Nat /\ Extent(index) = n /\ Listed("active") = text
      <4>1. index["active"] \in Seq(Nat)
        BY <2>2, OrderTypes DEF Base
      <4> QED BY <2>2, <4>1, FrontTypes, LenProperties DEF Extent, Listed
    <3>2. damage = {} /\ ~Rewritten /\ Clean
      BY DEF Undisturbed, Rewritten, Saving, Clean
    <3>3. \A j \in DOMAIN f : Rising(f[j])
      BY <3>2 DEF OrderInv, Stored, Base
    <3>4. Before(f, f, n)
      BY <3>1, <3>2 DEF OrderInv, ListedAcross, Base
    <3>5. \A i, j \in DOMAIN f \cap 1 .. n : i < j => Follow(f[i], f[j])
      BY <3>4 DEF Before
    <3>6. Rising(text) /\ text \in Seq(Record)
      <4> HIDE DEF f, n
      <4> QED BY <3>1, <3>3, <3>5, RisingContent
    <3> HIDE DEF text
    <3>7. Growing(Of(a, text))
      BY <3>6, GrowingOf
    <3> QED BY <3>1, <3>7
  <2> QED BY <2>1, <2>2
<1> QED BY <1>1, <1>2, <1>3, PTL DEF Spec
===============================================================================
