------------------------- MODULE Conversation_proofs -------------------------
(***************************************************************************)
(* What rendering a stored history as a request guarantees, for every      *)
(* history: by induction over the messages, which a least-number argument  *)
(* stands in for (the induction theorems of the library take an operator). *)
(***************************************************************************)
EXTENDS Conversation, FiniteSetTheorems, SequenceTheorems, WellFoundedInduction, TLAPS

-----------------------------------------------------------------------------
(* Induction over the naturals, and functions defined along them. *)

\* A set of naturals has a least element.
LEMMA LeastNatural ==
    ASSUME NEW T \in SUBSET Nat, T # {}
    PROVE  \E m \in T : \A k \in T : m <= k
<1> DEFINE R == {ss \in Nat \X Nat : ss[1] < ss[2]}
<1>1. OpToRel(<, Nat) = R
  BY DEF OpToRel
<1>2. IsWellFoundedOn(R, Nat)
  BY <1>1, NatLessThanWellFounded, Zenon
<1>3. \A y, x \in Nat : <<y, x>> \in R <=> y < x
  OBVIOUS
<1> HIDE DEF R
<1>4. \E x \in T : \A y \in T : ~ (<<y, x>> \in R)
  BY <1>2, WFMin, Zenon
<1>5. PICK x \in T : \A y \in T : ~ (<<y, x>> \in R)
  BY <1>4
<1>6. ASSUME NEW y \in T PROVE x <= y
  <2>1. ~ (y < x)
    BY <1>3, <1>5, Zenon
  <2>2. QED
    BY <2>1
<1>7. QED
  BY <1>6

\* Induction, over a set instead of a predicate.
LEMMA InductionOverNat ==
    ASSUME NEW S, 0 \in S, \A n \in Nat : n \in S => n + 1 \in S
    PROVE  Nat \subseteq S
<1> SUFFICES ASSUME Nat \ S # {} PROVE FALSE
  OBVIOUS
<1>1. PICK m \in Nat \ S : \A k \in Nat \ S : m <= k
  BY LeastNatural
<1>2. m # 0 /\ m - 1 \in Nat /\ m - 1 \in S
  BY <1>1
<1>3. QED
  BY <1>1, <1>2

\* f starts with base and goes on with step.
Follows(f, n, base, step) ==
    \A i \in 0 .. n : f[i] = IF i = 0 THEN base ELSE step[<<i, f[i - 1]>>]

LEMMA IterationExists ==
    ASSUME NEW V, NEW N \in Nat, NEW base \in V, NEW step \in [(1 .. N) \X V -> V]
    PROVE  \E f \in [0 .. N -> V] : Follows(f, N, base, step)
<1> DEFINE S == {n \in Nat : n <= N => \E f \in [0 .. n -> V] : Follows(f, n, base, step)}
<1>1. 0 \in S
  <2> DEFINE f == [i \in 0 .. 0 |-> base]
  <2>1. f \in [0 .. 0 -> V] /\ Follows(f, 0, base, step)
    BY DEF Follows
  <2>2. QED
    BY <2>1
<1>2. ASSUME NEW n \in Nat, n \in S PROVE n + 1 \in S
  <2> SUFFICES ASSUME n + 1 <= N
               PROVE  \E f \in [0 .. n + 1 -> V] : Follows(f, n + 1, base, step)
    OBVIOUS
  <2>1. PICK f \in [0 .. n -> V] : Follows(f, n, base, step)
    BY <1>2
  <2> DEFINE last == step[<<n + 1, f[n]>>]
             g == [i \in 0 .. n + 1 |-> IF i = n + 1 THEN last ELSE f[i]]
  <2>2. last \in V
    <3>1. <<n + 1, f[n]>> \in (1 .. N) \X V
      BY <2>1
    <3>2. QED
      BY <3>1
  <2>3. g \in [0 .. n + 1 -> V]
    BY <2>1, <2>2
  <2>4. ASSUME NEW i \in 0 .. n + 1
        PROVE  g[i] = IF i = 0 THEN base ELSE step[<<i, g[i - 1]>>]
    <3>1. CASE i = n + 1
      <4>1. g[i] = last /\ i - 1 = n /\ i # 0 /\ n \in 0 .. n + 1 /\ n # n + 1
        BY <3>1
      <4>2. g[i - 1] = f[n]
        BY <4>1
      <4> HIDE DEF g
      <4>3. QED
        BY <3>1, <4>1, <4>2
    <3>2. CASE i \in 0 .. n
      <4>1. f[i] = IF i = 0 THEN base ELSE step[<<i, f[i - 1]>>]
        BY <2>1, <3>2 DEF Follows
      <4>2. g[i] = f[i] /\ (i # 0 => g[i - 1] = f[i - 1])
        BY <3>2
      <4> HIDE DEF g
      <4>3. QED
        BY <4>1, <4>2
    <3>3. QED
      BY <3>1, <3>2
  <2> HIDE DEF g
  <2>5. QED
    BY <2>3, <2>4 DEF Follows
<1> HIDE DEF S
<1>3. N \in S
  BY <1>1, <1>2, InductionOverNat
<1>4. QED
  BY <1>3 DEF S

-----------------------------------------------------------------------------
(* Finite sets and sequences. *)

\* SetToSeq enumerates a finite set.
LEMMA SetToSeqHasAll ==
    ASSUME NEW S, IsFiniteSet(S)
    PROVE  SetToSeq(S) \in Seq(S) /\ ToSet(SetToSeq(S)) = S
<1>1. Cardinality(S) \in Nat /\ ExistsBijection(1 .. Cardinality(S), S)
  BY FS_CardinalityType
<1>2. PICK f \in Bijection(1 .. Cardinality(S), S) : TRUE
  BY <1>1 DEF ExistsBijection
<1>3. f \in [1 .. Cardinality(S) -> S] /\ IsInjective(f)
  BY <1>2 DEF Bijection, Injection
<1> DEFINE g == SetToSeq(S)
<1>4. g \in [1 .. Cardinality(S) -> S] /\ IsInjective(g)
  BY <1>3 DEF SetToSeq
<1> HIDE DEF g
<1>5. IsFiniteSet(1 .. Cardinality(S)) /\ Cardinality(1 .. Cardinality(S)) = Cardinality(S)
  BY <1>1, FS_Interval
<1>6. g \in Injection(1 .. Cardinality(S), S)
  BY <1>4 DEF Injection
<1>7. g \in Surjection(1 .. Cardinality(S), S)
  BY <1>5, <1>6, FS_Injection
<1>8. ToSet(g) = S
  BY <1>4, <1>7 DEF ToSet, Surjection
<1>9. g \in Seq(S)
  BY <1>1, <1>4
<1>10. QED
  BY <1>8, <1>9 DEF g

\* A sequence has finitely many elements.
LEMMA ToSetIsFinite ==
    ASSUME NEW S, NEW s \in Seq(S) PROVE IsFiniteSet(ToSet(s)) /\ ToSet(s) \subseteq S
<1>1. Len(s) \in Nat /\ s \in [1 .. Len(s) -> S]
  OBVIOUS
<1>2. IsFiniteSet(1 .. Len(s))
  BY <1>1, FS_Interval
<1>3. s \in Surjection(1 .. Len(s), ToSet(s)) /\ ToSet(s) \subseteq S
  BY <1>1 DEF ToSet, Surjection
<1>4. QED
  BY <1>2, <1>3, FS_Surjection

LEMMA ToSetOfConcat ==
    ASSUME NEW S, NEW s \in Seq(S), NEW t \in Seq(S)
    PROVE  s \o t \in Seq(S) /\ ToSet(s \o t) = ToSet(s) \union ToSet(t)
<1>1. /\ s \o t \in Seq(S) /\ Len(s) \in Nat /\ Len(t) \in Nat
      /\ DOMAIN s = 1 .. Len(s) /\ DOMAIN t = 1 .. Len(t)
      /\ DOMAIN (s \o t) = 1 .. (Len(s) + Len(t))
      /\ \A i \in 1 .. Len(s) : (s \o t)[i] = s[i]
      /\ \A i \in 1 .. Len(t) : (s \o t)[Len(s) + i] = t[i]
  OBVIOUS
<1> DEFINE st == s \o t
<1> HIDE DEF st
<1>2. ASSUME NEW e \in ToSet(st) PROVE e \in ToSet(s) \union ToSet(t)
  <2>1. PICK i \in 1 .. (Len(s) + Len(t)) : e = st[i]
    BY <1>1 DEF ToSet, st
  <2>2. CASE i \in 1 .. Len(s)
    BY <1>1, <2>1, <2>2 DEF ToSet, st
  <2>3. CASE i - Len(s) \in 1 .. Len(t)
    <3>1. st[Len(s) + (i - Len(s))] = t[i - Len(s)] /\ Len(s) + (i - Len(s)) = i
      BY <1>1, <2>1, <2>3 DEF st
    <3>2. QED
      BY <1>1, <2>1, <2>3, <3>1 DEF ToSet
  <2>4. QED
    BY <1>1, <2>1, <2>2, <2>3
<1>3. ASSUME NEW e \in ToSet(s) \union ToSet(t) PROVE e \in ToSet(st)
  <2>1. CASE e \in ToSet(s)
    BY <1>1, <2>1 DEF ToSet, st
  <2>2. CASE e \in ToSet(t)
    <3>1. PICK i \in 1 .. Len(t) : e = t[i]
      BY <1>1, <2>2 DEF ToSet
    <3>2. Len(s) + i \in DOMAIN st /\ st[Len(s) + i] = e
      BY <1>1, <3>1 DEF st
    <3>3. QED
      BY <3>2 DEF ToSet
  <2>3. QED
    BY <2>1, <2>2
<1>4. QED
  BY <1>1, <1>2, <1>3 DEF st

-----------------------------------------------------------------------------
(* Messages about the calls of a set Ids, and what they answer. *)

BlocksOf(Ids) == [kind : {"text"}] \union [kind : {"tool_use", "tool_result"}, id : Ids]

MessagesOf(Ids) == [role : {"user", "assistant"}, content : Seq(BlocksOf(Ids))]

LEMMA UserMessages ==
    ASSUME NEW Ids, NEW c \in Seq(BlocksOf(Ids))
    PROVE  /\ UserMessage(c) \in MessagesOf(Ids)
           /\ UserMessage(c).role = "user" /\ UserMessage(c).content = c
BY DEF UserMessage, MessagesOf

\* A message answers what each part of its content answers.
LEMMA AnswersOfConcat ==
    ASSUME NEW Ids, NEW c \in Seq(BlocksOf(Ids)), NEW d \in Seq(BlocksOf(Ids))
    PROVE  AnsweredIn(UserMessage(c \o d)) =
           AnsweredIn(UserMessage(c)) \union AnsweredIn(UserMessage(d))
<1>1. c \o d \in Seq(BlocksOf(Ids)) /\ ToSet(c \o d) = ToSet(c) \union ToSet(d)
  BY ToSetOfConcat
<1>2. \A s \in Seq(BlocksOf(Ids)) :
         AnsweredIn(UserMessage(s)) = {b.id : b \in {y \in ToSet(s) : y.kind = "tool_result"}}
  BY UserMessages DEF AnsweredIn
<1> DEFINE answers(B) == {b.id : b \in {y \in B : y.kind = "tool_result"}}
<1>3. \A B, C : answers(B \union C) = answers(B) \union answers(C)
  OBVIOUS
<1>4. /\ AnsweredIn(UserMessage(c \o d)) = answers(ToSet(c \o d))
      /\ AnsweredIn(UserMessage(c)) = answers(ToSet(c))
      /\ AnsweredIn(UserMessage(d)) = answers(ToSet(d))
  BY <1>1, <1>2
<1> HIDE DEF answers
<1>5. QED
  BY <1>1, <1>3, <1>4

\* A message only depends on its content for what it answers.
LEMMA AnswersOfMessage ==
    ASSUME NEW m PROVE AnsweredIn(UserMessage(m.content)) = AnsweredIn(m)
BY DEF AnsweredIn, UserMessage

\* A message made of results answers those, and nothing else.
LEMMA ResultsAnswer ==
    ASSUME NEW Ids, NEW ids \in SUBSET Ids, IsFiniteSet(ids)
    PROVE  LET results == SetToSeq({Result(id) : id \in ids})
           IN  /\ results \in Seq(BlocksOf(Ids))
               /\ AnsweredIn(UserMessage(results)) = ids
               /\ ids # {} => results # <<>>
<1> DEFINE blocks == {Result(id) : id \in ids}
           results == SetToSeq(blocks)
           f == [id \in ids |-> Result(id)]
<1>1. f \in Surjection(ids, blocks)
  BY DEF Surjection
<1>2. IsFiniteSet(blocks)
  BY <1>1, FS_Surjection
<1>3. results \in Seq(blocks) /\ ToSet(results) = blocks
  BY <1>2, SetToSeqHasAll
<1>4. blocks \in SUBSET BlocksOf(Ids)
  BY DEF Result, BlocksOf
<1>5. results \in Seq(BlocksOf(Ids))
  BY <1>3, <1>4
<1>6. AnsweredIn(UserMessage(results)) = {b.id : b \in {y \in blocks : y.kind = "tool_result"}}
  <2>1. ToSet(UserMessage(results).content) = blocks
    BY <1>3, <1>5, UserMessages
  <2> HIDE DEF blocks
  <2>2. QED
    BY <2>1, Zenon DEF AnsweredIn
<1>7. \A id \in ids : Result(id).kind = "tool_result" /\ Result(id).id = id
  BY DEF Result
<1>8. {y \in blocks : y.kind = "tool_result"} = blocks
  BY <1>7
<1>9. {b.id : b \in blocks} = ids
  <2>1. ASSUME NEW id \in ids PROVE id \in {b.id : b \in blocks}
    BY <1>7
  <2>2. ASSUME NEW b \in blocks PROVE b.id \in ids
    BY <1>7
  <2>3. QED
    BY <2>1, <2>2
<1>10. ids # {} => results # <<>>
  <2>1. ids # {} => blocks # {}
    OBVIOUS
  <2>2. ToSet(<<>>) = {}
    BY DEF ToSet
  <2> HIDE DEF blocks
  <2>3. QED
    BY <1>3, <2>1, <2>2
<1>11. QED
  BY <1>5, <1>6, <1>8, <1>9, <1>10

\* The calls of a message are finitely many.
LEMMA CallsAreFinite ==
    ASSUME NEW Ids, NEW m \in MessagesOf(Ids)
    PROVE  IsFiniteSet(CallsOf(m)) /\ CallsOf(m) \subseteq Ids
<1> DEFINE calls == {b \in ToSet(m.content) : b.kind = "tool_use"}
           f == [b \in calls |-> b.id]
<1>1. IsFiniteSet(ToSet(m.content)) /\ ToSet(m.content) \subseteq BlocksOf(Ids)
  BY ToSetIsFinite DEF MessagesOf
<1>2. IsFiniteSet(calls)
  BY <1>1, FS_Subset
<1>3. CallsOf(m) = {b.id : b \in calls}
  BY DEF CallsOf
<1>4. f \in Surjection(calls, CallsOf(m))
  BY <1>3 DEF Surjection
<1>5. \A b \in calls : b.id \in Ids
  BY <1>1 DEF BlocksOf
<1> HIDE DEF calls
<1>6. QED
  BY <1>2, <1>3, <1>4, <1>5, FS_Surjection

-----------------------------------------------------------------------------
(* repairUnansweredToolCalls. *)

AnsweredAfter(messages, i) ==
    IF IsUserAt(messages, i + 1) THEN AnsweredIn(messages[i + 1]) ELSE {}

\* The made-up answers are those the next turn leaves out.
LEMMA MadeUpAnswers ==
    ASSUME NEW Ids, NEW messages \in Seq(MessagesOf(Ids)), NEW i \in DOMAIN messages
    PROVE  /\ MadeUp(messages, i) \in Seq(BlocksOf(Ids))
           /\ AnsweredIn(UserMessage(MadeUp(messages, i))) =
              CallsOf(messages[i]) \ AnsweredAfter(messages, i)
           /\ MadeUp(messages, i) = <<>> =>
              CallsOf(messages[i]) \subseteq AnsweredAfter(messages, i)
<1> DEFINE missing == CallsOf(messages[i]) \ AnsweredAfter(messages, i)
<1>1. messages[i] \in MessagesOf(Ids)
  OBVIOUS
<1>2. IsFiniteSet(missing) /\ missing \in SUBSET Ids
  BY <1>1, CallsAreFinite, FS_Subset
<1>3. MadeUp(messages, i) = SetToSeq({Result(id) : id \in missing})
  BY DEF MadeUp, AnsweredAfter
<1>4. QED
  BY <1>2, <1>3, ResultsAnswer

-----------------------------------------------------------------------------
(* FlattenSeq, as the sequence of its stages. *)

\* g starts empty and takes up one sequence after the other.
Flattens(g, seqs) ==
    /\ g[0] = <<>>
    /\ \A i \in 1 .. Len(seqs) : g[i] = g[i - 1] \o seqs[i]

LEMMA FlattenStages ==
    ASSUME NEW S, NEW seqs \in Seq(Seq(S))
    PROVE  \E g \in [0 .. Len(seqs) -> Seq(S)] :
               Flattens(g, seqs) /\ FlattenSeq(seqs) = g[Len(seqs)]
<1> DEFINE N == Len(seqs)
           step == [p \in (1 .. N) \X Seq(S) |-> p[2] \o seqs[p[1]]]
<1>1. N \in Nat /\ \A i \in 1 .. N : seqs[i] \in Seq(S)
  OBVIOUS
<1>2. step \in [(1 .. N) \X Seq(S) -> Seq(S)]
  <2>1. ASSUME NEW p \in (1 .. N) \X Seq(S) PROVE p[2] \o seqs[p[1]] \in Seq(S)
    <3>1. seqs[p[1]] \in Seq(S) /\ p[2] \in Seq(S)
      BY <1>1
    <3>2. QED
      BY <3>1
  <2>2. QED
    BY <2>1
<1>3. PICK g \in [0 .. N -> Seq(S)] : Follows(g, N, <<>>, step)
  <2>1. <<>> \in Seq(S)
    OBVIOUS
  <2> HIDE DEF step
  <2>2. QED
    BY <1>1, <1>2, <2>1, IterationExists
<1> HIDE DEF step
<1>4. ASSUME NEW i \in 1 .. N PROVE g[i] = g[i - 1] \o seqs[i]
  <2>1. g[i] = step[<<i, g[i - 1]>>]
    <3>1. i \in 0 .. N /\ i # 0
      BY <1>1
    <3>2. QED
      BY <1>3, <3>1 DEF Follows
  <2>2. i - 1 \in 0 .. N /\ g[i - 1] \in Seq(S)
    <3>1. i - 1 \in 0 .. N
      BY <1>1
    <3>2. QED
      BY <3>1
  <2>3. <<i, g[i - 1]>> \in (1 .. N) \X Seq(S)
    BY <2>2
  <2>4. QED
    BY <2>1, <2>3 DEF step
<1>5. g[0] = <<>>
  <2>1. 0 \in 0 .. N
    BY <1>1
  <2>2. QED
    BY <1>3, <2>1 DEF Follows
<1>6. FlattenSeq(seqs) = g[N]
  <2>1. CASE N = 0
    BY <1>5, <2>1 DEF FlattenSeq
  <2>2. CASE N # 0
    <3> DEFINE F == CHOOSE F : F = [i \in 1 .. Len(seqs) |->
                                       IF i = 1 THEN seqs[i] ELSE F[i - 1] \o seqs[i]]
               h == [i \in 1 .. Len(seqs) |-> g[i]]
    <3>1. FlattenSeq(seqs) = F[Len(seqs)]
      BY <2>2 DEF FlattenSeq
    <3>2. h = [i \in 1 .. Len(seqs) |-> IF i = 1 THEN seqs[i] ELSE h[i - 1] \o seqs[i]]
      <4>1. ASSUME NEW i \in 1 .. N
            PROVE  g[i] = IF i = 1 THEN seqs[i] ELSE h[i - 1] \o seqs[i]
        <5>1. CASE i = 1
          <6>1. seqs[1] \in Seq(S) /\ <<>> \o seqs[1] = seqs[1]
            BY <1>1, <5>1
          <6>2. g[1] = g[0] \o seqs[1]
            <7>1. 1 \in 1 .. N /\ 1 - 1 = 0
              BY <5>1
            <7>2. g[1] = g[1 - 1] \o seqs[1]
              BY <1>4, <7>1
            <7>3. QED
              BY <7>1, <7>2
          <6>3. QED
            BY <1>5, <5>1, <6>1, <6>2
        <5>2. CASE i # 1
          <6>1. i - 1 \in 1 .. N /\ h[i - 1] = g[i - 1]
            BY <1>1, <5>2
          <6>2. QED
            BY <1>4, <5>2, <6>1
        <5>3. QED
          BY <5>1, <5>2
      <4>2. QED
        BY <4>1
    <3>3. F = [i \in 1 .. Len(seqs) |-> IF i = 1 THEN seqs[i] ELSE F[i - 1] \o seqs[i]]
      <4> HIDE DEF h
      <4>1. QED
        BY <3>2
    <3> HIDE DEF F
    <3> DEFINE T == {n \in Nat : n \in 1 .. N => F[n] = g[n]}
    <3>4. 0 \in T
      OBVIOUS
    <3>5. ASSUME NEW n \in Nat, n \in T PROVE n + 1 \in T
      <4> SUFFICES ASSUME n + 1 \in 1 .. N PROVE F[n + 1] = g[n + 1]
        OBVIOUS
      <4>1. F[n + 1] = IF n + 1 = 1 THEN seqs[n + 1] ELSE F[(n + 1) - 1] \o seqs[n + 1]
        BY <3>3
      <4>2. h[n + 1] = IF n + 1 = 1 THEN seqs[n + 1] ELSE h[(n + 1) - 1] \o seqs[n + 1]
        BY <3>2
      <4>3. CASE n = 0
        BY <4>1, <4>2, <4>3
      <4>4. CASE n \in 1 .. N
        BY <3>5, <4>1, <4>2, <4>4
      <4>5. QED
        BY <4>3, <4>4
    <3> HIDE DEF T
    <3>6. N \in T
      BY <1>1, <3>4, <3>5, InductionOverNat
    <3>7. F[N] = g[N]
      BY <1>1, <2>2, <3>6 DEF T
    <3>8. QED
      BY <3>1, <3>7
  <2>3. QED
    BY <2>1, <2>2
<1>7. QED
  BY <1>3, <1>4, <1>5, <1>6 DEF Flattens

-----------------------------------------------------------------------------
(* The repair, one message after the other. *)

\* The calls of the message at i are answered by the user message after it.
CallsMet(s, i) ==
    s[i].role = "assistant" /\ CallsOf(s[i]) # {} =>
        /\ i < Len(s) /\ s[i + 1].role = "user"
        /\ CallsOf(s[i]) \subseteq AnsweredIn(s[i + 1])

\* A message that answers the last one's calls can follow.
LEMMA AppendMeets ==
    ASSUME NEW M, NEW s \in Seq(M), NEW m \in M,
           \A i \in 1 .. Len(s) - 1 : CallsMet(s, i),
           s # <<>> /\ Last(s).role = "assistant" /\ CallsOf(Last(s)) # {} =>
               m.role = "user" /\ CallsOf(Last(s)) \subseteq AnsweredIn(m)
    PROVE  /\ Append(s, m) \in Seq(M) /\ Append(s, m) # <<>> /\ Last(Append(s, m)) = m
           /\ \A i \in 1 .. Len(Append(s, m)) - 1 : CallsMet(Append(s, m), i)
<1> DEFINE t == Append(s, m)
<1>1. /\ Len(s) \in Nat /\ t \in Seq(M) /\ t # <<>> /\ Len(t) = Len(s) + 1
      /\ t[Len(s) + 1] = m /\ \A i \in 1 .. Len(s) : t[i] = s[i]
  OBVIOUS
<1>2. s # <<>> <=> Len(s) > 0
  OBVIOUS
<1> HIDE DEF t
<1>3. Last(t) = m
  BY <1>1 DEF Last
<1>4. ASSUME NEW i \in 1 .. Len(t) - 1 PROVE CallsMet(t, i)
  <2>1. CASE i = Len(s)
    <3>1. s # <<>> /\ Last(s) = s[i] /\ t[i] = s[i] /\ t[i + 1] = m /\ i < Len(t)
      BY <1>1, <1>2, <2>1 DEF Last
    <3>2. QED
      BY <3>1 DEF CallsMet
  <2>2. CASE i \in 1 .. Len(s) - 1
    <3>1. /\ CallsMet(s, i) /\ t[i] = s[i] /\ t[i + 1] = s[i + 1] /\ i < Len(t)
      BY <1>1, <2>2
    <3>2. QED
      BY <3>1 DEF CallsMet
  <2>3. QED
    BY <1>1, <2>1, <2>2
<1>5. QED
  BY <1>1, <1>3, <1>4 DEF t

\* s is what the repair makes of the first n messages: every call is met but those of
\* the last message, which the message after it is about to answer.
RepairedUpTo(messages, n, s) ==
    /\ n > 0 => s # <<>>
    /\ \A i \in 1 .. Len(s) - 1 : CallsMet(s, i)
    /\ s # <<>> /\ Last(s).role = "assistant" =>
          /\ n > 0 /\ Last(s) = messages[n]
          /\ CallsOf(messages[n]) = {} \/ IsUserAt(messages, n + 1)

LEMMA RepairOfOne ==
    ASSUME NEW Ids, NEW messages \in Seq(MessagesOf(Ids)), NEW n \in Nat,
           n + 1 \in DOMAIN messages, NEW s \in Seq(MessagesOf(Ids)),
           RepairedUpTo(messages, n, s)
    PROVE  /\ RepairedAt(messages, n + 1) \in Seq(MessagesOf(Ids))
           /\ RepairedUpTo(messages, n + 1, s \o RepairedAt(messages, n + 1))
<1> DEFINE m == messages[n + 1]
           made == MadeUp(messages, n + 1)
           u == UserMessage(made)
<1>1. /\ m \in MessagesOf(Ids) /\ m.role \in {"user", "assistant"}
      /\ m.content \in Seq(BlocksOf(Ids))
  <2>1. m \in MessagesOf(Ids)
    OBVIOUS
  <2> HIDE DEF m
  <2>2. QED
    BY <2>1 DEF MessagesOf
<1>2. /\ made \in Seq(BlocksOf(Ids))
      /\ AnsweredIn(u) = CallsOf(m) \ AnsweredAfter(messages, n + 1)
      /\ made = <<>> => CallsOf(m) \subseteq AnsweredAfter(messages, n + 1)
  BY MadeUpAnswers
<1>3. u \in MessagesOf(Ids) /\ u.role = "user"
  BY <1>2, UserMessages
<1> HIDE DEF m, made, u
<1>4. /\ \A x : s \o <<x>> = Append(s, x)
      /\ \A x, y \in MessagesOf(Ids) : s \o <<x, y>> = Append(Append(s, x), y)
  OBVIOUS
<1>5. CASE m.role = "assistant"
  <2>1. RepairedAt(messages, n + 1) = IF made = <<>> \/ IsUserAt(messages, n + 2)
                                      THEN <<m>> ELSE <<m, u>>
    BY <1>5 DEF RepairedAt, m, made, u
  <2>2. ~IsUserAt(messages, n + 1)
    BY <1>5 DEF IsUserAt, m
  <2>3. s # <<>> /\ Last(s).role = "assistant" => CallsOf(Last(s)) = {}
    BY <2>2, Zenon DEF RepairedUpTo
  <2> DEFINE t == Append(s, m)
  <2>4. /\ t \in Seq(MessagesOf(Ids)) /\ t # <<>> /\ Last(t) = m
        /\ \A i \in 1 .. Len(t) - 1 : CallsMet(t, i)
    <3>1. \A i \in 1 .. Len(s) - 1 : CallsMet(s, i)
      BY DEF RepairedUpTo
    <3> HIDE DEF t
    <3>2. QED
      BY <1>1, <2>3, <3>1, AppendMeets, Zenon DEF t
  <2> HIDE DEF t
  <2>5. CASE IsUserAt(messages, n + 2)
    <3>1. (n + 1) + 1 = n + 2
      OBVIOUS
    <3>2. RepairedUpTo(messages, n + 1, t)
      BY <2>4, <2>5, <3>1 DEF RepairedUpTo, m
    <3>3. RepairedAt(messages, n + 1) = <<m>>
      BY <2>1, <2>5
    <3>4. <<m>> \in Seq(MessagesOf(Ids))
      BY <1>1
    <3>5. QED
      BY <1>4, <3>2, <3>3, <3>4 DEF t
  <2>6. CASE ~IsUserAt(messages, n + 2)
    <3>1. AnsweredAfter(messages, n + 1) = {}
      <4>1. (n + 1) + 1 = n + 2
        OBVIOUS
      <4>2. QED
        BY <2>6, <4>1 DEF AnsweredAfter
    <3>2. CASE made = <<>>
      <4>1. CallsOf(m) = {}
        BY <1>2, <3>1, <3>2
      <4>2. RepairedUpTo(messages, n + 1, t)
        BY <2>4, <4>1 DEF RepairedUpTo, m
      <4>3. RepairedAt(messages, n + 1) = <<m>>
        BY <2>1, <3>2
      <4>4. <<m>> \in Seq(MessagesOf(Ids))
        BY <1>1
      <4>5. QED
        BY <1>4, <4>2, <4>3, <4>4 DEF t
    <3>3. CASE made # <<>>
      <4>1. CallsOf(m) \subseteq AnsweredIn(u)
        BY <1>2, <3>1
      <4> DEFINE v == Append(t, u)
      <4>2. /\ v # <<>> /\ Last(v) = u /\ \A i \in 1 .. Len(v) - 1 : CallsMet(v, i)
        <5>1. t # <<>> /\ Last(t).role = "assistant" /\ CallsOf(Last(t)) # {} =>
                  u.role = "user" /\ CallsOf(Last(t)) \subseteq AnsweredIn(u)
          BY <1>3, <2>4, <4>1
        <5> HIDE DEF v
        <5>2. QED
          BY <1>3, <2>4, <5>1, AppendMeets, Zenon DEF v
      <4> HIDE DEF v
      <4>3. RepairedUpTo(messages, n + 1, v)
        BY <1>3, <4>2 DEF RepairedUpTo
      <4>4. RepairedAt(messages, n + 1) = <<m, u>>
        BY <2>1, <2>6, <3>3
      <4>5. <<m, u>> \in Seq(MessagesOf(Ids))
        BY <1>1, <1>3
      <4>6. s \o <<m, u>> = v
        BY <1>1, <1>3, <1>4 DEF v, t
      <4>7. QED
        BY <4>3, <4>4, <4>5, <4>6
    <3>4. QED
      BY <3>2, <3>3
  <2>7. QED
    BY <2>5, <2>6
<1>6. CASE m.role = "user"
  <2>1. ASSUME NEW x \in MessagesOf(Ids), x.role = "user", RepairedAt(messages, n + 1) = <<x>>,
               s # <<>> /\ Last(s).role = "assistant" => CallsOf(Last(s)) \subseteq AnsweredIn(x)
        PROVE  /\ RepairedAt(messages, n + 1) \in Seq(MessagesOf(Ids))
               /\ RepairedUpTo(messages, n + 1, s \o RepairedAt(messages, n + 1))
    <3> DEFINE t == Append(s, x)
    <3>1. /\ t \in Seq(MessagesOf(Ids)) /\ t # <<>> /\ Last(t) = x
          /\ \A i \in 1 .. Len(t) - 1 : CallsMet(t, i)
      <4>1. \A i \in 1 .. Len(s) - 1 : CallsMet(s, i)
        BY DEF RepairedUpTo
      <4>2. s # <<>> /\ Last(s).role = "assistant" /\ CallsOf(Last(s)) # {} =>
                x.role = "user" /\ CallsOf(Last(s)) \subseteq AnsweredIn(x)
        BY <2>1
      <4> HIDE DEF t
      <4>3. QED
        BY <2>1, <4>1, <4>2, AppendMeets, Zenon DEF t
    <3> HIDE DEF t
    <3>2. RepairedUpTo(messages, n + 1, t)
      BY <2>1, <3>1 DEF RepairedUpTo
    <3>3. s \o RepairedAt(messages, n + 1) = t
      BY <1>4, <2>1 DEF t
    <3>4. <<x>> \in Seq(MessagesOf(Ids))
      OBVIOUS
    <3>5. QED
      BY <2>1, <3>2, <3>3, <3>4
  <2>2. CASE n > 0 /\ messages[n].role = "assistant"
    <3> DEFINE before == MadeUp(messages, n)
               x == UserMessage(before \o m.content)
    <3>1. n \in DOMAIN messages /\ (n + 1) - 1 = n /\ IsUserAt(messages, n + 1)
      BY <1>6, <2>2 DEF IsUserAt, m
    <3>2. /\ before \in Seq(BlocksOf(Ids))
          /\ AnsweredIn(UserMessage(before)) = CallsOf(messages[n]) \ AnsweredIn(m)
      BY <3>1, MadeUpAnswers DEF AnsweredAfter, m
    <3> HIDE DEF before
    <3>3. before \o m.content \in Seq(BlocksOf(Ids))
      BY <1>1, <3>2
    <3>4. x \in MessagesOf(Ids) /\ x.role = "user"
      BY <3>3, UserMessages
    <3>5. AnsweredIn(x) = AnsweredIn(UserMessage(before)) \union AnsweredIn(m)
      BY <1>1, <3>2, AnswersOfConcat, AnswersOfMessage
    <3>6. CallsOf(messages[n]) \subseteq AnsweredIn(x)
      BY <3>2, <3>5
    <3>7. RepairedAt(messages, n + 1) = <<x>>
      BY <1>6, <2>2, <3>1 DEF RepairedAt, m, before
    <3> HIDE DEF x
    <3>8. s # <<>> /\ Last(s).role = "assistant" => CallsOf(Last(s)) \subseteq AnsweredIn(x)
      BY <3>6 DEF RepairedUpTo
    <3>9. QED
      BY <2>1, <3>4, <3>7, <3>8
  <2>3. CASE ~(n > 0 /\ messages[n].role = "assistant")
    <3>1. RepairedAt(messages, n + 1) = <<m>>
      <4>1. ~(n + 1 > 1 /\ messages[(n + 1) - 1].role = "assistant")
        BY <2>3
      <4>2. QED
        BY <1>6, <4>1 DEF RepairedAt, m
    <3>2. ~(s # <<>> /\ Last(s).role = "assistant")
      BY <2>3 DEF RepairedUpTo
    <3>3. QED
      BY <1>1, <1>6, <2>1, <3>1, <3>2
  <2>4. QED
    BY <2>2, <2>3
<1>7. QED
  BY <1>1, <1>5, <1>6

\* The whole repair: every call is met by the user message right after its turn.
LEMMA RepairMeetsCalls ==
    ASSUME NEW Ids, NEW messages \in Seq(MessagesOf(Ids))
    PROVE  LET repaired == RepairUnansweredToolCalls(messages)
           IN  /\ repaired \in Seq(MessagesOf(Ids))
               /\ \A i \in DOMAIN repaired : CallsMet(repaired, i)
<1> DEFINE M == MessagesOf(Ids)
           N == Len(messages)
           seqs == [i \in DOMAIN messages |-> RepairedAt(messages, i)]
<1>1. N \in Nat /\ DOMAIN messages = 1 .. N
  OBVIOUS
<1>2. RepairUnansweredToolCalls(messages) = FlattenSeq(seqs)
  BY DEF RepairUnansweredToolCalls
\* Every message is rendered as messages: a step of the repair can be taken after any.
<1>3. ASSUME NEW i \in 1 .. N PROVE RepairedAt(messages, i) \in Seq(M)
  <2> DEFINE made(k) == MadeUp(messages, k)
             m == messages[i]
  <2>1. m \in M /\ m.content \in Seq(BlocksOf(Ids)) /\ made(i) \in Seq(BlocksOf(Ids))
    <3>1. m \in M
      BY <1>1
    <3>2. made(i) \in Seq(BlocksOf(Ids))
      BY <1>1, MadeUpAnswers
    <3> HIDE DEF m, made
    <3>3. QED
      BY <3>1, <3>2 DEF MessagesOf
  <2>2. UserMessage(made(i)) \in M
    BY <2>1, UserMessages
  <2>3. i > 1 => UserMessage(made(i - 1) \o m.content) \in M
    <3> SUFFICES ASSUME i > 1 PROVE UserMessage(made(i - 1) \o m.content) \in M
      OBVIOUS
    <3>1. i - 1 \in DOMAIN messages
      BY <1>1
    <3>2. made(i - 1) \in Seq(BlocksOf(Ids))
      BY <3>1, MadeUpAnswers
    <3> HIDE DEF made, m
    <3>3. made(i - 1) \o m.content \in Seq(BlocksOf(Ids))
      BY <2>1, <3>2
    <3>4. QED
      BY <3>3, UserMessages
  <2>4. \/ RepairedAt(messages, i) = <<m>>
        \/ RepairedAt(messages, i) = <<m, UserMessage(made(i))>>
        \/ i > 1 /\ RepairedAt(messages, i) = <<UserMessage(made(i - 1) \o m.content)>>
    BY DEF RepairedAt
  <2> HIDE DEF m, made, M
  <2>5. \A x, y \in M : <<x>> \in Seq(M) /\ <<x, y>> \in Seq(M)
    OBVIOUS
  <2>6. QED
    BY <2>1, <2>2, <2>3, <2>4, <2>5
<1>4. seqs \in Seq(Seq(M)) /\ Len(seqs) = N /\ \A i \in 1 .. N : seqs[i] = RepairedAt(messages, i)
  BY <1>1, <1>3
<1> HIDE DEF seqs, M
<1>5. PICK g \in [0 .. N -> Seq(M)] : Flattens(g, seqs) /\ FlattenSeq(seqs) = g[N]
  BY <1>4, FlattenStages
<1> DEFINE T == {n \in Nat : n <= N => RepairedUpTo(messages, n, g[n])}
<1>6. 0 \in T
  <2>1. g[0] = <<>>
    BY <1>5 DEF Flattens
  <2>2. Len(<<>>) = 0 /\ 1 .. 0 - 1 = {}
    OBVIOUS
  <2>3. RepairedUpTo(messages, 0, g[0])
    BY <2>1, <2>2 DEF RepairedUpTo
  <2>4. QED
    BY <2>3
<1>7. ASSUME NEW n \in Nat, n \in T PROVE n + 1 \in T
  <2> SUFFICES ASSUME n + 1 <= N PROVE RepairedUpTo(messages, n + 1, g[n + 1])
    OBVIOUS
  <2>1. n \in 0 .. N /\ n + 1 \in 1 .. N /\ (n + 1) - 1 = n
    BY <1>1
  <2>2. RepairedUpTo(messages, n, g[n]) /\ g[n] \in Seq(M)
    BY <1>5, <1>7, <2>1
  <2>3. g[n + 1] = g[n] \o RepairedAt(messages, n + 1)
    BY <1>4, <1>5, <2>1 DEF Flattens
  <2>4. QED
    BY <1>1, <2>1, <2>2, <2>3, RepairOfOne DEF M
<1>8. RepairedUpTo(messages, N, g[N])
  <2> HIDE DEF T
  <2>1. N \in T
    BY <1>1, <1>6, <1>7, InductionOverNat
  <2>2. QED
    BY <1>1, <2>1 DEF T
<1> DEFINE r == g[N]
<1>9. r \in Seq(M) /\ Len(r) \in Nat
  BY <1>1, <1>5
<1> HIDE DEF r
<1>10. ASSUME NEW i \in DOMAIN r PROVE CallsMet(r, i)
  <2>1. CASE i \in 1 .. Len(r) - 1
    BY <1>8, <2>1 DEF RepairedUpTo, r
  <2>2. CASE i = Len(r)
    <3>1. r # <<>> /\ Last(r) = r[i]
      BY <1>9, <2>2 DEF Last
    <3>2. ~IsUserAt(messages, N + 1)
      BY <1>1 DEF IsUserAt
    <3>3. r[i].role = "assistant" => CallsOf(r[i]) = {}
      BY <1>8, <3>1, <3>2, Zenon DEF RepairedUpTo, r
    <3>4. QED
      BY <3>3 DEF CallsMet
  <2>3. QED
    BY <1>9, <2>1, <2>2
<1>11. QED
  BY <1>2, <1>5, <1>9, <1>10 DEF r, M

-----------------------------------------------------------------------------
(* coalesceUserTurns. *)

\* out is what has been made of the first n messages of s: no two user turns in a row,
\* and every call met but those of the last message, which is still as it was.
CoalescedUpTo(s, n, out) ==
    /\ NoAdjacentUserTurns(out)
    /\ \A i \in 1 .. Len(out) - 1 : CallsMet(out, i)
    /\ n > 0 => /\ out # <<>> /\ Last(out).role = s[n].role
                /\ s[n].role = "assistant" => Last(out) = s[n]
    /\ n = 0 => out = <<>>

LEMMA AddTurnIsMessage ==
    ASSUME NEW Ids, NEW out \in Seq(MessagesOf(Ids)), NEW m \in MessagesOf(Ids)
    PROVE  AddTurn(out, m) \in Seq(MessagesOf(Ids))
<1>1. CASE out # <<>> /\ m.role = "user" /\ Last(out).role = "user"
  <2>1. Last(out) \in MessagesOf(Ids) /\ Front(out) \in Seq(MessagesOf(Ids))
    BY <1>1 DEF Last, Front
  <2>2. Last(out).content \o m.content \in Seq(BlocksOf(Ids))
    <3>1. /\ Last(out).content \in Seq(BlocksOf(Ids)) /\ m.content \in Seq(BlocksOf(Ids))
      BY <2>1 DEF MessagesOf
    <3>2. QED
      BY <3>1
  <2>3. UserMessage(Last(out).content \o m.content) \in MessagesOf(Ids)
    BY <2>2, UserMessages
  <2>4. QED
    BY <1>1, <2>1, <2>3 DEF AddTurn
<1>2. CASE ~(out # <<>> /\ m.role = "user" /\ Last(out).role = "user")
  BY <1>2 DEF AddTurn
<1>3. QED
  BY <1>1, <1>2

LEMMA CoalesceOne ==
    ASSUME NEW Ids, NEW s \in Seq(MessagesOf(Ids)), \A i \in DOMAIN s : CallsMet(s, i),
           NEW n \in Nat, n + 1 \in DOMAIN s, NEW out \in Seq(MessagesOf(Ids)),
           CoalescedUpTo(s, n, out)
    PROVE  CoalescedUpTo(s, n + 1, AddTurn(out, s[n + 1]))
<1> DEFINE m == s[n + 1]
           N == Len(out)
<1>1. m \in MessagesOf(Ids) /\ N \in Nat /\ (out # <<>> <=> N > 0)
  OBVIOUS
<1>2. m.role \in {"user", "assistant"} /\ m.content \in Seq(BlocksOf(Ids))
  <2> HIDE DEF m
  <2>1. QED
    BY <1>1 DEF MessagesOf
<1>3. out # <<>> => n > 0 /\ Last(out).role = s[n].role /\ (s[n].role = "assistant" => Last(out) = s[n])
  BY DEF CoalescedUpTo
<1>4. CASE out # <<>> /\ m.role = "user" /\ Last(out).role = "user"
  <2> DEFINE c == Last(out).content
             x == UserMessage(c \o m.content)
             t == Append(Front(out), x)
  <2>1. Last(out) \in MessagesOf(Ids) /\ Last(out) = out[N]
    BY <1>1, <1>4 DEF Last
  <2>2. c \in Seq(BlocksOf(Ids))
    BY <2>1 DEF MessagesOf
  <2>3. x \in MessagesOf(Ids) /\ x.role = "user"
    <3> HIDE DEF c, m
    <3>1. c \o m.content \in Seq(BlocksOf(Ids))
      BY <1>2, <2>2
    <3>2. QED
      BY <3>1, UserMessages
  <2>4. AnsweredIn(out[N]) \subseteq AnsweredIn(x)
    <3>1. AnsweredIn(UserMessage(c)) \subseteq AnsweredIn(x)
      <4> HIDE DEF c, m
      <4>1. QED
        BY <1>2, <2>2, AnswersOfConcat
    <3>2. AnsweredIn(UserMessage(c)) = AnsweredIn(Last(out))
      BY AnswersOfMessage
    <3>3. QED
      BY <2>1, <3>1, <3>2
  <2>5. AddTurn(out, m) = t
    BY <1>4 DEF AddTurn
  <2> HIDE DEF x, c, m
  <2>6. /\ t \in Seq(MessagesOf(Ids)) /\ Len(t) = N /\ t # <<>> /\ t[N] = x
        /\ \A i \in 1 .. N - 1 : t[i] = out[i]
    <3> DEFINE f == Front(out)
    <3>1. N - 1 \in Nat /\ N - 1 <= N /\ f = SubSeq(out, 1, N - 1)
      BY <1>1, <1>4 DEF Front
    <3>2. f \in Seq(MessagesOf(Ids)) /\ Len(f) = N - 1 /\ \A i \in 1 .. N - 1 : f[i] = out[i]
      <4>1. \A i \in 1 .. N - 1 : out[i] \in MessagesOf(Ids)
        BY <1>1
      <4>2. /\ f \in Seq(MessagesOf(Ids))
            /\ Len(f) = IF 1 <= N - 1 THEN (N - 1) - 1 + 1 ELSE 0
            /\ \A i \in 1 .. (N - 1) - 1 + 1 : f[i] = out[1 + i - 1]
        BY <3>1, <4>1, SubSeqProperties
      <4> HIDE DEF f
      <4>3. Len(f) = N - 1
        <5>1. Len(f) = IF 1 <= N - 1 THEN (N - 1) - 1 + 1 ELSE 0
          BY <4>2
        <5>2. N - 1 \in Nat
          BY <3>1
        <5> HIDE DEF N
        <5>3. QED
          BY <5>1, <5>2
      <4>4. ASSUME NEW i \in 1 .. N - 1 PROVE f[i] = out[i]
        <5>1. i \in 1 .. (N - 1) - 1 + 1 /\ 1 + i - 1 = i
          BY <1>1
        <5>2. f[i] = out[1 + i - 1]
          BY <4>2, <5>1
        <5>3. QED
          BY <5>1, <5>2
      <4>5. QED
        BY <4>2, <4>3, <4>4
    <3> HIDE DEF f
    <3>3. t = Append(f, x)
      BY DEF f
    <3>4. QED
      BY <1>1, <2>3, <3>1, <3>2, <3>3
  <2> HIDE DEF t
  <2>7. Last(t) = x
    BY <2>6 DEF Last
  <2>8. ASSUME NEW i \in 1 .. Len(t) - 1 PROVE CallsMet(t, i)
    <3>1. CallsMet(out, i) /\ t[i] = out[i] /\ i \in 1 .. N - 1
      BY <2>6, <2>8 DEF CoalescedUpTo
    <3>2. CASE i + 1 = N
      BY <2>3, <2>4, <2>6, <3>1, <3>2 DEF CallsMet
    <3>3. CASE i + 1 # N
      <4>1. i + 1 \in 1 .. N - 1
        BY <1>1, <3>1, <3>3
      <4>2. t[i + 1] = out[i + 1]
        BY <2>6, <4>1
      <4>3. QED
        BY <2>6, <3>1, <4>2 DEF CallsMet
    <3>4. QED
      BY <3>2, <3>3
  <2>9. NoAdjacentUserTurns(t)
    <3>1. ASSUME NEW i \in 1 .. Len(t) - 1 PROVE ~(t[i].role = "user" /\ t[i + 1].role = "user")
      <4>1. i \in 1 .. N - 1 /\ i \in DOMAIN out /\ i + 1 \in DOMAIN out
        BY <1>1, <2>6
      <4>2. ~(out[i].role = "user" /\ out[i + 1].role = "user")
        BY <4>1 DEF CoalescedUpTo, NoAdjacentUserTurns, IsUserAt
      <4>3. t[i] = out[i]
        BY <2>6, <4>1
      <4>4. CASE i + 1 = N
        BY <1>4, <2>1, <4>2, <4>3, <4>4
      <4>5. CASE i + 1 # N
        <5>1. t[i + 1] = out[i + 1]
          BY <1>1, <2>6, <4>1, <4>5
        <5>2. QED
          BY <4>2, <4>3, <5>1
      <4>6. QED
        BY <4>4, <4>5
    <3>2. QED
      BY <3>1 DEF NoAdjacentUserTurns, IsUserAt
  <2>10. QED
    BY <1>4, <2>3, <2>5, <2>6, <2>7, <2>8, <2>9 DEF CoalescedUpTo, m
<1>5. CASE ~(out # <<>> /\ m.role = "user" /\ Last(out).role = "user")
  <2> DEFINE t == Append(out, m)
  <2>1. AddTurn(out, m) = t
    BY <1>5 DEF AddTurn
  <2>2. out # <<>> /\ Last(out).role = "assistant" /\ CallsOf(Last(out)) # {} =>
            m.role = "user" /\ CallsOf(Last(out)) \subseteq AnsweredIn(m)
    <3> SUFFICES ASSUME out # <<>>, Last(out).role = "assistant", CallsOf(Last(out)) # {}
                 PROVE  m.role = "user" /\ CallsOf(Last(out)) \subseteq AnsweredIn(m)
      OBVIOUS
    <3>1. n > 0 /\ n \in DOMAIN s /\ Last(out) = s[n] /\ s[n].role = "assistant"
      BY <1>3
    <3>2. CallsMet(s, n)
      BY <3>1
    <3>3. QED
      BY <3>1, <3>2 DEF CallsMet
  <2>3. \A i \in 1 .. Len(out) - 1 : CallsMet(out, i)
    BY DEF CoalescedUpTo
  <2> HIDE DEF m
  <2>4. /\ t \in Seq(MessagesOf(Ids)) /\ t # <<>> /\ Last(t) = m
        /\ \A i \in 1 .. Len(t) - 1 : CallsMet(t, i)
    <3> HIDE DEF t
    <3>1. QED
      BY <1>1, <2>2, <2>3, AppendMeets, Zenon DEF t
  <2>5. /\ Len(t) = N + 1 /\ t[N + 1] = m /\ \A i \in 1 .. N : t[i] = out[i]
    BY <1>1
  <2> HIDE DEF t
  <2>6. NoAdjacentUserTurns(t)
    <3>1. ASSUME NEW i \in 1 .. Len(t) - 1 PROVE ~(t[i].role = "user" /\ t[i + 1].role = "user")
      <4>1. i \in 1 .. N /\ t[i] = out[i]
        BY <1>1, <2>5
      <4>2. CASE i = N
        <5>1. Last(out) = out[i] /\ out # <<>> /\ t[i + 1] = m
          BY <1>1, <2>5, <4>1, <4>2 DEF Last
        <5>2. QED
          BY <1>5, <4>1, <5>1
      <4>3. CASE i # N
        <5>1. i \in 1 .. N - 1 /\ i \in DOMAIN out /\ i + 1 \in DOMAIN out /\ t[i + 1] = out[i + 1]
          BY <1>1, <2>5, <4>1, <4>3
        <5>2. ~(out[i].role = "user" /\ out[i + 1].role = "user")
          BY <5>1 DEF CoalescedUpTo, NoAdjacentUserTurns, IsUserAt
        <5>3. QED
          BY <4>1, <5>1, <5>2
      <4>4. QED
        BY <4>2, <4>3
    <3>2. QED
      BY <3>1 DEF NoAdjacentUserTurns, IsUserAt
  <2>7. QED
    BY <2>1, <2>4, <2>6 DEF CoalescedUpTo, m
<1>6. QED
  BY <1>4, <1>5

\* The whole pass: no two user turns in a row, and every call still met.
LEMMA CoalesceKeepsCallsMet ==
    ASSUME NEW Ids, NEW s \in Seq(MessagesOf(Ids)), \A i \in DOMAIN s : CallsMet(s, i)
    PROVE  LET request == CoalesceUserTurns(s)
           IN  /\ request \in Seq(MessagesOf(Ids)) /\ NoAdjacentUserTurns(request)
               /\ \A i \in DOMAIN request : CallsMet(request, i)
<1> DEFINE M == MessagesOf(Ids)
           N == Len(s)
           step == [p \in (1 .. N) \X Seq(M) |-> AddTurn(p[2], s[p[1]])]
           F == CHOOSE F : F = [n \in 0 .. Len(s) |->
                                  IF n = 0 THEN <<>> ELSE AddTurn(F[n - 1], s[n])]
<1>1. N \in Nat /\ DOMAIN s = 1 .. N /\ <<>> \in Seq(M) /\ \A i \in 1 .. N : s[i] \in M
  OBVIOUS
<1>2. CoalesceUserTurns(s) = F[N]
  BY DEF CoalesceUserTurns
<1>3. step \in [(1 .. N) \X Seq(M) -> Seq(M)]
  <2> HIDE DEF M
  <2>1. ASSUME NEW p \in (1 .. N) \X Seq(M) PROVE AddTurn(p[2], s[p[1]]) \in Seq(M)
    <3>1. p[2] \in Seq(M) /\ s[p[1]] \in M
      BY <1>1
    <3>2. QED
      BY <3>1, AddTurnIsMessage DEF M
  <2>2. QED
    BY <2>1
<1> HIDE DEF M, F
<1>4. PICK h \in [0 .. N -> Seq(M)] : Follows(h, N, <<>>, step)
  <2> HIDE DEF step
  <2>1. QED
    BY <1>1, <1>3, IterationExists
<1>5. ASSUME NEW n \in 1 .. N PROVE h[n] = AddTurn(h[n - 1], s[n])
  <2> HIDE DEF step
  <2>1. n \in 0 .. N /\ n # 0 /\ n - 1 \in 0 .. N
    BY <1>1
  <2>2. h[n] = step[<<n, h[n - 1]>>] /\ h[n - 1] \in Seq(M)
    BY <1>4, <2>1 DEF Follows
  <2>3. <<n, h[n - 1]>> \in (1 .. N) \X Seq(M)
    BY <2>2
  <2>4. QED
    BY <2>2, <2>3 DEF step
<1> HIDE DEF step
<1>6. h[0] = <<>>
  <2>1. 0 \in 0 .. N
    BY <1>1
  <2>2. QED
    BY <1>4, <2>1 DEF Follows
<1>7. F = [n \in 0 .. Len(s) |-> IF n = 0 THEN <<>> ELSE AddTurn(F[n - 1], s[n])]
  <2>1. h = [n \in 0 .. Len(s) |-> IF n = 0 THEN <<>> ELSE AddTurn(h[n - 1], s[n])]
    <3>1. ASSUME NEW n \in 0 .. N
          PROVE  h[n] = IF n = 0 THEN <<>> ELSE AddTurn(h[n - 1], s[n])
      <4>1. n = 0 \/ n \in 1 .. N
        BY <1>1
      <4>2. QED
        BY <1>5, <1>6, <4>1
    <3>2. QED
      BY <3>1
  <2>2. QED
    BY <2>1 DEF F
<1> DEFINE T == {n \in Nat : n <= N => F[n] \in Seq(M) /\ CoalescedUpTo(s, n, F[n])}
<1>8. 0 \in T
  <2>1. F[0] = <<>>
    BY <1>1, <1>7
  <2>2. Len(<<>>) = 0 /\ 1 .. 0 - 1 = {}
    OBVIOUS
  <2>3. CoalescedUpTo(s, 0, <<>>)
    BY <2>2 DEF CoalescedUpTo, NoAdjacentUserTurns
  <2>4. QED
    BY <1>1, <2>1, <2>3
<1>9. ASSUME NEW n \in Nat, n \in T PROVE n + 1 \in T
  <2> SUFFICES ASSUME n + 1 <= N
               PROVE  F[n + 1] \in Seq(M) /\ CoalescedUpTo(s, n + 1, F[n + 1])
    OBVIOUS
  <2>1. n + 1 \in 0 .. N /\ n + 1 \in 1 .. N /\ n + 1 # 0 /\ (n + 1) - 1 = n
    BY <1>1
  <2>2. F[n] \in Seq(M) /\ CoalescedUpTo(s, n, F[n])
    BY <1>1, <1>9, <2>1
  <2>3. F[n + 1] = AddTurn(F[n], s[n + 1])
    BY <1>7, <2>1
  <2>4. s[n + 1] \in M /\ n + 1 \in DOMAIN s
    BY <1>1, <2>1
  <2>5. F[n + 1] \in Seq(M)
    BY <2>2, <2>3, <2>4, AddTurnIsMessage DEF M
  <2>6. CoalescedUpTo(s, n + 1, F[n + 1])
    BY <2>2, <2>3, <2>4, CoalesceOne DEF M
  <2>7. QED
    BY <2>5, <2>6
<1>10. F[N] \in Seq(M) /\ CoalescedUpTo(s, N, F[N])
  <2> HIDE DEF T
  <2>1. N \in T
    BY <1>1, <1>8, <1>9, InductionOverNat
  <2>2. QED
    BY <1>1, <2>1 DEF T
<1> DEFINE r == F[N]
<1> HIDE DEF r
<1>11. r \in Seq(M) /\ Len(r) \in Nat
  BY <1>10 DEF r
<1>12. ASSUME NEW i \in DOMAIN r PROVE CallsMet(r, i)
  <2>1. CASE i \in 1 .. Len(r) - 1
    BY <1>10, <2>1 DEF CoalescedUpTo, r
  <2>2. CASE i = Len(r)
    <3>1. r # <<>> /\ Last(r) = r[i]
      BY <1>11, <2>2 DEF Last
    <3>2. N > 0 /\ r[i].role = s[N].role /\ (s[N].role = "assistant" => r[i] = s[N])
      BY <1>1, <1>10, <3>1 DEF CoalescedUpTo, r
    <3>3. CallsMet(s, N)
      BY <1>1, <3>2
    <3>4. ~(N < Len(s))
      BY <1>1
    <3>5. s[N].role = "assistant" => CallsOf(s[N]) = {}
      BY <3>3, <3>4, Zenon DEF CallsMet
    <3>6. QED
      BY <3>2, <3>5 DEF CallsMet
  <2>3. QED
    BY <1>11, <2>1, <2>2
<1>13. NoAdjacentUserTurns(r)
  BY <1>10 DEF CoalescedUpTo, r
<1>14. QED
  BY <1>2, <1>11, <1>12, <1>13 DEF r, M

-----------------------------------------------------------------------------

\* The request rendered from any history, whatever was stored or lost, answers every
\* tool call in the turn right after the one that makes it, and its user turns do not
\* follow one another (conversation, repairUnansweredToolCalls, coalesceUserTurns).
THEOREM RenderAnswersEveryCall ==
    ASSUME NEW Ids, NEW messages \in Seq(MessagesOf(Ids))
    PROVE  /\ EveryCallAnswered(Render(messages))
           /\ NoAdjacentUserTurns(Render(messages))
<1> DEFINE repaired == RepairUnansweredToolCalls(messages)
           request == CoalesceUserTurns(repaired)
<1>1. Render(messages) = request
  BY DEF Render
<1>2. repaired \in Seq(MessagesOf(Ids)) /\ \A i \in DOMAIN repaired : CallsMet(repaired, i)
  BY RepairMeetsCalls
<1> HIDE DEF repaired
<1>3. /\ request \in Seq(MessagesOf(Ids)) /\ NoAdjacentUserTurns(request)
      /\ \A i \in DOMAIN request : CallsMet(request, i)
  BY <1>2, CoalesceKeepsCallsMet
<1> HIDE DEF request
<1>4. EveryCallAnswered(request)
  <2> SUFFICES ASSUME NEW i \in DOMAIN request, request[i].role = "assistant",
                      NEW id \in CallsOf(request[i])
               PROVE  i < Len(request) /\ id \in AnsweredIn(request[i + 1])
    BY DEF EveryCallAnswered
  <2>1. CallsMet(request, i)
    BY <1>3
  <2>2. QED
    BY <2>1 DEF CallsMet
<1>5. QED
  BY <1>1, <1>3, <1>4
=============================================================================
