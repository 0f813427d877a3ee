------------------------ MODULE RunnerStreamProofs ------------------------
(***************************************************************************)
(* Proofs about two components that share no name.                         *)
(*                                                                         *)
(* RunnerStream, for any kinds of messages, any capacity of the channels   *)
(* and any number of messages: it implements AnswerStream, and a final     *)
(* message comes after all that the runner has said.                       *)
(*                                                                         *)
(* ToolLoop, for any context, prompts, numbers of rounds and tools, and    *)
(* lengths of results: what the tools do is on record, the client hears    *)
(* how its turn ended, and the runner gets an unbroken end of the          *)
(* conversation with the last round whole, of which no more is cut than    *)
(* the context needs.                                                      *)
(***************************************************************************)
EXTENDS RunnerStream, ToolLoop, Integers, SequenceTheorems, WellFoundedInduction, TLAPS

-----------------------------------------------------------------------------
(* Induction over numbers, by the set of those a statement holds for *)

LEMMA Induct ==
    ASSUME NEW S \in SUBSET Nat, 0 \in S, \A n \in S : n + 1 \in S
    PROVE  S = Nat
<1> SUFFICES ASSUME S # Nat PROVE FALSE
  OBVIOUS
<1>1. IsWellFoundedOn(OpToRel(<,Nat), Nat)
  BY NatLessThanWellFounded
<1>2. \E x \in Nat \ S : \A y \in Nat \ S : ~ (<<y, x>> \in OpToRel(<,Nat))
  BY <1>1, WFMin
<1>3. PICK x \in Nat \ S : \A y \in Nat \ S : ~(y < x)
  BY <1>2 DEF OpToRel
<1>4. x - 1 \in Nat /\ x - 1 < x
  BY <1>3
<1> QED
  BY <1>3, <1>4

-----------------------------------------------------------------------------
(* FlattenSeq: f is the function that it is defined by, up to n *)

Joins(f, q, n) ==
  f = [i \in 1 .. n |-> IF i = 1 THEN q[i] ELSE f[i-1] \o q[i]]

LEMMA JoinsAre ==
    ASSUME NEW f, NEW q, NEW n \in Nat
    PROVE  Joins(f, q, n) <=> /\ f = [i \in 1 .. n |-> f[i]]
                           /\ \A i \in 1 .. n : f[i] = IF i = 1 THEN q[i] ELSE f[i-1] \o q[i]
<1>1. ASSUME Joins(f, q, n) PROVE \A i \in 1 .. n : f[i] = IF i = 1 THEN q[i] ELSE f[i-1] \o q[i]
  <2> DEFINE F(i) == IF i = 1 THEN q[i] ELSE f[i-1] \o q[i]
  <2>1. f = [i \in 1 .. n |-> F(i)]
    BY <1>1 DEF Joins
  <2> HIDE DEF F
  <2>2. \A i \in 1 .. n : f[i] = F(i)
    BY <2>1
  <2> QED
    BY <2>2 DEF F
<1>2. Joins(f, q, n) => f = [i \in 1 .. n |-> f[i]]
  BY DEF Joins
<1>3. ASSUME f = [i \in 1 .. n |-> f[i]], \A i \in 1 .. n : f[i] = IF i = 1 THEN q[i] ELSE f[i-1] \o q[i]
      PROVE Joins(f, q, n)
  BY <1>3 DEF Joins
<1> QED
  BY <1>1, <1>2, <1>3

LEMMA JoinsExists ==
    ASSUME NEW q, NEW n \in Nat
    PROVE  \E f : Joins(f, q, n)
<1> DEFINE S == {m \in Nat : \E f : Joins(f, q, m)}
<1>1. 0 \in S
  <2>1. Joins(<<>>, q, 0)
    BY DEF Joins
  <2> QED
    BY <2>1
<1>2. ASSUME NEW m \in S
      PROVE m + 1 \in S
  <2>1. PICK f : Joins(f, q, m)
    OBVIOUS
  <2>0. m \in Nat
    OBVIOUS
  <2> DEFINE last == IF m = 0 THEN q[m + 1] ELSE f[m] \o q[m + 1]
  <2> DEFINE g == [i \in 1 .. (m + 1) |-> IF i = m + 1 THEN last ELSE f[i]]
  <2>2. \A i \in 1 .. m : f[i] = IF i = 1 THEN q[i] ELSE f[i-1] \o q[i]
    BY <2>0, <2>1, JoinsAre
  <2> HIDE DEF last
  <2>3. /\ g = [i \in 1 .. (m + 1) |-> g[i]]
        /\ \A i \in 1 .. m : g[i] = f[i]
        /\ g[m + 1] = last
    BY <2>0
  <2> HIDE DEF g
  <2>4. \A i \in 1 .. (m + 1) : i = m + 1 \/ (i \in 1 .. m /\ (i # 1 => i - 1 \in 1 .. m))
    BY <2>0
  <2>5. ASSUME m # 0
        PROVE  g[m + 1] = g[m] \o q[m + 1] /\ m + 1 # 1 /\ m + 1 - 1 = m
    <3>1. m \in 1 .. m /\ m + 1 # 1 /\ m + 1 - 1 = m
      BY <2>0, <2>5
    <3> QED
      BY <2>3, <2>5, <3>1 DEF last
  <2>6. m = 0 => g[m + 1] = q[m + 1]
    BY <2>0, <2>3 DEF last
  <2>7. ASSUME NEW i \in 1 .. (m + 1)
        PROVE  g[i] = IF i = 1 THEN q[i] ELSE g[i-1] \o q[i]
    <3>1. CASE i = m + 1
      <4>1. CASE m = 0
        <5>1. i = 1 /\ m + 1 = 1
          BY <3>1, <4>1
        <5> QED
          BY <2>6, <3>1, <4>1, <5>1
      <4>2. CASE m # 0
        <5>1. i # 1 /\ i - 1 = m
          BY <2>0, <3>1, <4>2
        <5> QED
          BY <2>5, <3>1, <4>2, <5>1
      <4> QED
        BY <4>1, <4>2
    <3>2. CASE i # m + 1
      <4>1. i \in 1 .. m /\ (i # 1 => i - 1 \in 1 .. m)
        BY <2>4, <3>2
      <4> QED
        BY <2>2, <2>3, <4>1
    <3> QED
      BY <3>1, <3>2
  <2>8. Joins(g, q, m + 1)
    <3>1. m + 1 \in Nat
      BY <2>0
    <3> QED
      BY <2>3, <2>7, <3>1, JoinsAre
  <2> QED
    BY <2>8
<1> HIDE DEF S
<1>3. S = Nat 
  BY <1>1, <1>2, Induct DEF S
<1> QED
  BY <1>3 DEF S

LEMMA FlattenIs ==
    ASSUME NEW q, Len(q) \in Nat \ {0}
    PROVE  \E f : Joins(f, q, Len(q)) /\ FlattenSeq(q) = f[Len(q)]
BY JoinsExists DEF FlattenSeq, Joins

LEMMA JoinsAgree ==
    ASSUME NEW f, NEW q, NEW n \in Nat, Joins(f, q, n),
           NEW g, NEW r, NEW m \in Nat, Joins(g, r, m),
           n <= m, \A i \in 1 .. n : r[i] = q[i]
    PROVE  \A i \in 1 .. n : g[i] = f[i]
<1> DEFINE S == {j \in Nat : j \in 1 .. n => g[j] = f[j]}
<1>1. 0 \in S
  OBVIOUS
<1>2. ASSUME NEW j \in S
      PROVE  j + 1 \in S
  <2> SUFFICES ASSUME j + 1 \in 1 .. n
               PROVE  f[j + 1] = g[j + 1]
    OBVIOUS
  <2>1. /\ f[j + 1] = IF j + 1 = 1 THEN q[j + 1] ELSE f[j + 1 - 1] \o q[j + 1]
        /\ g[j + 1] = IF j + 1 = 1 THEN r[j + 1] ELSE g[j + 1 - 1] \o r[j + 1]
    BY JoinsAre
  <2>2. j + 1 # 1 => j \in 1 .. n /\ j + 1 - 1 = j
    OBVIOUS
  <2>3. j + 1 # 1 => f[j + 1 - 1] = g[j + 1 - 1]
    BY <2>2
  <2> QED
    BY <2>1, <2>3
<1> HIDE DEF S
<1>3. S = Nat
  BY <1>1, <1>2, Induct DEF S
<1> QED
  BY <1>3 DEF S

LEMMA JoinsSeq ==
    ASSUME NEW A, NEW q \in Seq(Seq(A)), NEW f, Joins(f, q, Len(q))
    PROVE  \A i \in 1 .. Len(q) : f[i] \in Seq(A)
<1> DEFINE S == {j \in Nat : j \in 1 .. Len(q) => f[j] \in Seq(A)}
<1>0. Len(q) \in Nat /\ \A i \in 1 .. Len(q) : q[i] \in Seq(A)
  BY LenProperties, ElementOfSeq
<1>1. 0 \in S
  OBVIOUS
<1>2. ASSUME NEW j \in S
      PROVE  j + 1 \in S
  <2> SUFFICES ASSUME j + 1 \in 1 .. Len(q)
               PROVE  f[j + 1] \in Seq(A)
    OBVIOUS
  <2>1. f[j + 1] = IF j + 1 = 1 THEN q[j + 1] ELSE f[j + 1 - 1] \o q[j + 1]
    BY <1>0, JoinsAre
  <2>2. j + 1 # 1 => j \in 1 .. Len(q) /\ j + 1 - 1 = j
    BY <1>0
  <2>3. j + 1 # 1 => f[j + 1 - 1] \in Seq(A)
    BY <2>2
  <2> QED
    BY <1>0, <2>1, <2>3, ConcatProperties
<1> HIDE DEF S
<1>3. S = Nat
  BY <1>1, <1>2, Induct DEF S
<1>4. \A i \in 1 .. Len(q) : i \in S
  BY <1>0, <1>3
<1> QED
  BY <1>4 DEF S

LEMMA FlattenEmpty == FlattenSeq(<<>>) = <<>>
BY EmptySeq DEF FlattenSeq

LEMMA FlattenAppend ==
    ASSUME NEW A, NEW q \in Seq(Seq(A)), NEW x \in Seq(A)
    PROVE  FlattenSeq(q) \in Seq(A) /\ FlattenSeq(Append(q, x)) = FlattenSeq(q) \o x
<1> DEFINE r == Append(q, x)
<1>1. /\ Len(q) \in Nat /\ r \in Seq(Seq(A)) /\ Len(r) = Len(q) + 1 /\ r[Len(q) + 1] = x
      /\ \A i \in 1 .. Len(q) : r[i] = q[i]
  BY AppendProperties, LenProperties
<1> HIDE DEF r
<1>2. PICK g : Joins(g, r, Len(r)) /\ FlattenSeq(r) = g[Len(r)]
  BY <1>1, FlattenIs
<1>3. g[Len(q) + 1] = IF Len(q) + 1 = 1 THEN x ELSE g[Len(q) + 1 - 1] \o x
  <2>1. Len(r) \in Nat /\ Len(q) + 1 \in 1 .. Len(r)
    BY <1>1
  <2>2. g[Len(q) + 1] = IF Len(q) + 1 = 1 THEN r[Len(q) + 1] ELSE g[Len(q) + 1 - 1] \o r[Len(q) + 1]
    BY <1>2, <2>1, JoinsAre
  <2> QED
    BY <1>1, <2>2
<1>4. CASE Len(q) = 0
  <2>1. q = <<>> /\ FlattenSeq(q) = <<>>
    BY <1>4, EmptySeq, FlattenEmpty
  <2>2. <<>> \o x = x /\ <<>> \in Seq(A)
    BY ConcatEmptySeq, EmptySeq
  <2>3. FlattenSeq(r) = x
    BY <1>1, <1>2, <1>3, <1>4
  <2> QED
    BY <2>1, <2>2, <2>3 DEF r
<1>5. CASE Len(q) # 0
  <2>1. PICK f : Joins(f, q, Len(q)) /\ FlattenSeq(q) = f[Len(q)]
    BY <1>1, <1>5, FlattenIs
  <2>2. \A i \in 1 .. Len(q) : g[i] = f[i]
    <3>1. /\ Len(q) \in Nat /\ Len(r) \in Nat /\ Len(q) <= Len(r)
          /\ \A i \in 1 .. Len(q) : r[i] = q[i]
      BY <1>1
    <3>2. Joins(f, q, Len(q)) /\ Joins(g, r, Len(r))
      BY <1>2, <2>1
    <3> QED
      BY <3>1, <3>2, JoinsAgree
  <2>3. f[Len(q)] = g[Len(q)] /\ f[Len(q)] \in Seq(A) /\ Len(q) + 1 # 1 /\ Len(q) + 1 - 1 = Len(q)
    BY <1>1, <1>5, <2>1, <2>2, JoinsSeq
  <2> QED
    BY <1>1, <1>2, <1>3, <2>1, <2>3 DEF r
<1> QED
  BY <1>4, <1>5

LEMMA Assoc ==
    ASSUME NEW A, NEW q \in Seq(A), NEW s \in Seq(A), NEW x \in Seq(A)
    PROVE  (q \o s) \o x = q \o (s \o x)
BY ConcatAssociative

LEMMA FlattenGrows ==
    ASSUME NEW A, NEW q \in Seq(Seq(A)), NEW s \in Seq(Seq(A)), NEW x \in Seq(A),
           FlattenSeq(q \o s) = FlattenSeq(q) \o FlattenSeq(s)
    PROVE  FlattenSeq(q \o Append(s, x)) = FlattenSeq(q) \o FlattenSeq(Append(s, x))
<1>1. q \o s \in Seq(Seq(A)) /\ <<x>> \in Seq(Seq(A))
  BY ConcatProperties, IsASeq
<1>2. Append(s, x) = s \o <<x>> /\ Append(q \o s, x) = (q \o s) \o <<x>>
  BY <1>1, AppendIsConcat
<1>3. (q \o s) \o <<x>> = q \o (s \o <<x>>)
  BY <1>1, Assoc
<1>4. FlattenSeq(Append(q \o s, x)) = FlattenSeq(q \o s) \o x
      /\ FlattenSeq(Append(s, x)) = FlattenSeq(s) \o x
  BY <1>1, FlattenAppend
<1>5. FlattenSeq(q) \in Seq(A) /\ FlattenSeq(s) \in Seq(A)
  BY FlattenAppend
<1>6. (FlattenSeq(q) \o FlattenSeq(s)) \o x = FlattenSeq(q) \o (FlattenSeq(s) \o x)
  BY <1>5, Assoc
<1> QED
  BY <1>2, <1>3, <1>4, <1>6

LEMMA FlattenConcat ==
    ASSUME NEW A, NEW q \in Seq(Seq(A)), NEW r \in Seq(Seq(A))
    PROVE  FlattenSeq(q \o r) = FlattenSeq(q) \o FlattenSeq(r)
<1> DEFINE S == {n \in Nat : \A t \in Seq(Seq(A)) :
                    Len(t) = n => FlattenSeq(q \o t) = FlattenSeq(q) \o FlattenSeq(t)}
<1> HIDE DEF S
<1>0. <<>> \in Seq(A) /\ FlattenSeq(q) \in Seq(A)
  BY FlattenAppend, EmptySeq
<1>1. 0 \in S
  <2> SUFFICES ASSUME NEW t \in Seq(Seq(A)), Len(t) = 0
               PROVE  FlattenSeq(q \o t) = FlattenSeq(q) \o FlattenSeq(t)
    BY DEF S
  <2>1. t = <<>>
    BY EmptySeq
  <2> QED
    BY <1>0, <2>1, FlattenEmpty, ConcatEmptySeq
<1>2. ASSUME NEW n \in S
      PROVE  n + 1 \in S
  <2> SUFFICES ASSUME NEW t \in Seq(Seq(A)), Len(t) = n + 1
               PROVE  FlattenSeq(q \o t) = FlattenSeq(q) \o FlattenSeq(t)
    BY DEF S
  <2>0. n \in Nat /\ t # <<>>
    BY EmptySeq DEF S
  <2>1. PICK s \in Seq(Seq(A)), x \in Seq(A) : t = Append(s, x)
    BY <2>0, SequenceEmptyOrAppend
  <2>2. Len(s) = n
    BY <2>0, <2>1, AppendProperties, LenProperties
  <2>3. FlattenSeq(q \o s) = FlattenSeq(q) \o FlattenSeq(s)
    BY <2>2 DEF S
  <2> QED
    BY <2>1, <2>3, FlattenGrows
<1>3. S = Nat
  BY <1>1, <1>2, Induct DEF S
<1> QED
  BY <1>3, LenProperties DEF S

-----------------------------------------------------------------------------
(* What g makes of the elements of a sequence, one after the other: the text
   of an answer, an answer without notices, the pieces of messages *)

Each(s, g) == [i \in DOMAIN s |-> g[s[i]]]
Through(s, g) == FlattenSeq(Each(s, g))

LEMMA FunctionSeq ==
    ASSUME NEW B, NEW n \in Nat, NEW q \in [1 .. n -> B]
    PROVE  q \in Seq(B) /\ Len(q) = n
OBVIOUS

LEMMA EachLen ==
    ASSUME NEW A, NEW s \in Seq(A), NEW g
    PROVE  Len(Each(s, g)) = Len(s) /\ Len(s) \in Nat
<1>1. Len(s) \in Nat /\ DOMAIN s = 1 .. Len(s)
  BY LenProperties
<1>2. Each(s, g) \in [1 .. Len(s) -> {g[s[i]] : i \in 1 .. Len(s)}]
  BY <1>1 DEF Each
<1> QED
  BY <1>1, <1>2

LEMMA EachIn ==
    ASSUME NEW A, NEW B, NEW g \in [A -> Seq(B)], NEW s \in Seq(A)
    PROVE  Each(s, g) \in Seq(Seq(B))
<1>1. Len(s) \in Nat /\ DOMAIN s = 1 .. Len(s) /\ \A i \in 1 .. Len(s) : s[i] \in A
  BY LenProperties, ElementOfSeq
<1>2. Each(s, g) \in [1 .. Len(s) -> Seq(B)]
  BY <1>1 DEF Each
<1> QED
  BY <1>1, <1>2, FunctionSeq

LEMMA EachAt ==
    ASSUME NEW A, NEW g, NEW s \in Seq(A), NEW i \in 1 .. Len(s)
    PROVE  Each(s, g)[i] = g[s[i]]
<1>1. i \in DOMAIN s
  BY LenProperties
<1> QED
  BY <1>1 DEF Each

LEMMA ThroughSeq ==
    ASSUME NEW A, NEW B, NEW g \in [A -> Seq(B)], NEW s \in Seq(A)
    PROVE  Through(s, g) \in Seq(B)
<1>1. Each(s, g) \in Seq(Seq(B)) /\ <<>> \in Seq(B)
  BY EachIn, EmptySeq
<1> QED
  BY <1>1, FlattenAppend DEF Through

LEMMA ThroughConcat ==
    ASSUME NEW A, NEW B, NEW g \in [A -> Seq(B)], NEW s \in Seq(A), NEW t \in Seq(A)
    PROVE  Through(s \o t, g) = Through(s, g) \o Through(t, g)
<1> DEFINE q == Each(s, g)
<1> DEFINE r == Each(t, g)
<1> DEFINE both == Each(s \o t, g)
<1>1. /\ s \o t \in Seq(A) /\ Len(s \o t) = Len(s) + Len(t)
      /\ \A i \in 1 .. Len(s) + Len(t) : (s \o t)[i] = IF i <= Len(s) THEN s[i] ELSE t[i - Len(s)]
  BY ConcatProperties
<1>2. q \in Seq(Seq(B)) /\ Len(q) = Len(s) /\ Len(s) \in Nat
  BY EachIn, EachLen
<1>3. r \in Seq(Seq(B)) /\ Len(r) = Len(t) /\ Len(t) \in Nat
  BY EachIn, EachLen
<1>4. both \in Seq(Seq(B)) /\ Len(both) = Len(s) + Len(t)
  BY <1>1, EachIn, EachLen
<1> HIDE DEF q, r, both
<1>5. /\ q \o r \in Seq(Seq(B)) /\ Len(q \o r) = Len(q) + Len(r)
      /\ \A i \in 1 .. Len(q) + Len(r) : (q \o r)[i] = IF i <= Len(q) THEN q[i] ELSE r[i - Len(q)]
  BY <1>2, <1>3, ConcatProperties
<1>6. ASSUME NEW i \in 1 .. Len(s) + Len(t)
      PROVE  both[i] = (q \o r)[i]
  <2>1. both[i] = g[(s \o t)[i]]
    <3> DEFINE u == s \o t
    <3>1. u \in Seq(A) /\ i \in 1 .. Len(u) /\ both = Each(u, g)
      BY <1>1 DEF both
    <3> HIDE DEF u
    <3>2. Each(u, g)[i] = g[u[i]]
      BY <3>1, EachAt
    <3> QED
      BY <3>1, <3>2 DEF u
  <2>2. CASE i <= Len(s)
    <3>1. i \in 1 .. Len(s)
      BY <1>2, <2>2
    <3>2. q[i] = g[s[i]]
      BY <3>1, EachAt DEF q
    <3> QED
      BY <1>1, <1>2, <1>3, <1>5, <2>1, <2>2, <3>2
  <2>3. CASE ~(i <= Len(s))
    <3>1. i - Len(s) \in 1 .. Len(t)
      BY <1>2, <1>3, <2>3
    <3>2. \A j \in 1 .. Len(t) : r[j] = g[t[j]]
      BY EachAt DEF r
    <3>3. r[i - Len(s)] = g[t[i - Len(s)]]
      BY <3>1, <3>2
    <3> QED
      BY <1>1, <1>2, <1>3, <1>5, <2>1, <2>3, <3>3
  <2> QED
    BY <2>2, <2>3
<1>7. both = q \o r
  BY <1>2, <1>3, <1>4, <1>5, <1>6, SeqEqual
<1> QED
  BY <1>2, <1>3, <1>7, FlattenConcat DEF Through, q, r, both

LEMMA ThroughEmpty == ASSUME NEW g PROVE Through(<<>>, g) = <<>>
<1>1. Each(<<>>, g) = <<>>
  BY DEF Each
<1> QED
  BY <1>1, FlattenEmpty DEF Through

LEMMA ThroughOne ==
    ASSUME NEW A, NEW B, NEW g \in [A -> Seq(B)], NEW x \in A
    PROVE  Through(<<x>>, g) = g[x]
<1>1. Each(<<x>>, g) = <<g[x]>>
  BY DEF Each
<1>2. <<>> \in Seq(Seq(B)) /\ g[x] \in Seq(B)
  BY EmptySeq
<1>3. Append(<<>>, g[x]) = <<g[x]>>
  OBVIOUS
<1>4. FlattenSeq(<<g[x]>>) = <<>> \o g[x]
  BY <1>2, <1>3, FlattenAppend, FlattenEmpty
<1> QED
  BY <1>1, <1>2, <1>4, ConcatEmptySeq DEF Through

-----------------------------------------------------------------------------
(* The pieces of messages, the text and the body of an answer *)

Piece == (0 .. MaxMsgs) \X {"notice", "reasoning", "text"}
TextPieces == {<<n, "text">> : n \in 1 .. MaxMsgs}

\* The messages that are forwarded.
Voiced == {m \in Msgs : m.kind # "blank"}

AllOf == [m \in Voiced |-> Pieces(m)]
ItsText == [p \in Piece |-> IF p \in TextPieces THEN <<p>> ELSE <<>>]
NoNotice == [p \in Piece |-> IF p # Notice THEN <<p>> ELSE <<>>]

Flat(q) == Through(q, AllOf)
TextOf(s) == Relay!Texts(s)

LEMMA PieceFacts ==
    ASSUME NEW n \in 1 .. MaxMsgs
    PROVE  /\ <<n, "text">> \in Piece /\ <<n, "reasoning">> \in Piece
           /\ <<n, "text">> \in TextPieces /\ <<n, "reasoning">> \notin TextPieces
           /\ <<n, "text">> # Notice /\ <<n, "reasoning">> # Notice
BY MsgsAssumption DEF Piece, TextPieces, Notice

LEMMA NoticeFacts == Notice \in Piece /\ Notice \notin TextPieces
BY MsgsAssumption DEF Piece, TextPieces, Notice

LEMMA OneSeq == ASSUME NEW A, NEW x \in A PROVE <<x>> \in Seq(A)
OBVIOUS

LEMMA PiecesAre ==
    ASSUME NEW m \in Msgs
    PROVE  /\ m.no \in 1 .. MaxMsgs
           /\ Reasons(m) /\ Speaks(m) => Pieces(m) = <<<<m.no, "reasoning">>>> \o <<<<m.no, "text">>>>
           /\ Reasons(m) /\ ~Speaks(m) => Pieces(m) = <<<<m.no, "reasoning">>>> \o <<>>
           /\ ~Reasons(m) /\ Speaks(m) => Pieces(m) = <<<<m.no, "text">>>>
           /\ ~Reasons(m) /\ ~Speaks(m) => Pieces(m) = <<>>
           /\ m.kind # "blank" => Reasons(m) \/ Speaks(m)
           /\ m.kind = "blank" => Pieces(m) = <<>>
<1>1. /\ m.no \in 1 .. MaxMsgs /\ m.kind \in {"text", "reasoning", "both", "blank"}
      /\ m.kind # "blank" => Reasons(m) \/ Speaks(m)
      /\ m.kind = "blank" => ~Reasons(m) /\ ~Speaks(m)
  BY KindsAssumption DEF Msgs, Reasons, Speaks
<1>2. <<>> \o <<>> = <<>> /\ <<>> \o <<<<m.no, "text">>>> = <<<<m.no, "text">>>>
  OBVIOUS
<1>3. CASE Reasons(m)
  BY <1>1, <1>3 DEF Pieces
<1>4. CASE ~Reasons(m)
  BY <1>1, <1>2, <1>4 DEF Pieces
<1> QED
  BY <1>3, <1>4

LEMMA PiecesSeq ==
    ASSUME NEW m \in Msgs
    PROVE  Pieces(m) \in Seq(Piece)
<1>1. /\ <<<<m.no, "reasoning">>>> \in Seq(Piece) /\ <<<<m.no, "text">>>> \in Seq(Piece)
      /\ <<>> \in Seq(Piece)
  BY PiecesAre, PieceFacts, OneSeq, EmptySeq
<1>2. /\ <<<<m.no, "reasoning">>>> \o <<<<m.no, "text">>>> \in Seq(Piece)
      /\ <<<<m.no, "reasoning">>>> \o <<>> \in Seq(Piece)
  BY <1>1, ConcatProperties
<1> QED
  BY <1>1, <1>2, PiecesAre

LEMMA AllOfIs == AllOf \in [Voiced -> Seq(Piece)]
BY PiecesSeq DEF AllOf, Voiced

LEMMA ItsTextIs == ItsText \in [Piece -> Seq(Piece)]
BY EmptySeq DEF ItsText

LEMMA NoNoticeIs == NoNotice \in [Piece -> Seq(Piece)]
BY EmptySeq DEF NoNotice

LEMMA FlatSeq == ASSUME NEW q \in Seq(Voiced) PROVE Flat(q) \in Seq(Piece)
BY AllOfIs, ThroughSeq DEF Flat

LEMMA FlatConcat ==
    ASSUME NEW q \in Seq(Voiced), NEW r \in Seq(Voiced)
    PROVE  Flat(q \o r) = Flat(q) \o Flat(r)
BY AllOfIs, ThroughConcat DEF Flat

LEMMA FlatEmpty == Flat(<<>>) = <<>>
BY ThroughEmpty DEF Flat

LEMMA FlatOne == ASSUME NEW m \in Voiced PROVE Flat(<<m>>) = Pieces(m)
<1>1. Flat(<<m>>) = AllOf[m]
  BY AllOfIs, ThroughOne DEF Flat
<1> QED
  BY <1>1 DEF AllOf

LEMMA TextIs ==
    ASSUME NEW s \in Seq(Piece)
    PROVE  TextOf(s) = Through(s, ItsText)
<1>1. \A i \in DOMAIN s : s[i] \in Piece
  BY ElementOfSeq, LenProperties
<1>2. [i \in DOMAIN s |-> IF s[i] \in {<<n, "text">> : n \in 1 .. MaxMsgs} THEN <<s[i]>> ELSE <<>>]
      = Each(s, ItsText)
  BY <1>1 DEF Each, ItsText, TextPieces
<1>3. \A q : Relay!FlattenSeq(q) = FlattenSeq(q)
  BY DEF Relay!FlattenSeq, FlattenSeq
<1> QED
  BY <1>2, <1>3 DEF TextOf, Relay!Texts, Through

LEMMA TextSeq == ASSUME NEW s \in Seq(Piece) PROVE TextOf(s) \in Seq(Piece)
BY ItsTextIs, ThroughSeq, TextIs

LEMMA TextConcat ==
    ASSUME NEW s \in Seq(Piece), NEW t \in Seq(Piece)
    PROVE  TextOf(s \o t) = TextOf(s) \o TextOf(t)
<1>1. Through(s \o t, ItsText) = Through(s, ItsText) \o Through(t, ItsText)
  BY ItsTextIs, ThroughConcat
<1>2. s \o t \in Seq(Piece)
  BY ConcatProperties
<1> QED
  BY <1>1, <1>2, TextIs

LEMMA TextEmpty == TextOf(<<>>) = <<>>
<1>1. <<>> \in Seq(Piece)
  BY EmptySeq
<1> QED
  BY <1>1, ThroughEmpty, TextIs

LEMMA TextOne ==
    ASSUME NEW p \in Piece
    PROVE  TextOf(<<p>>) = IF p \in TextPieces THEN <<p>> ELSE <<>>
<1>1. Through(<<p>>, ItsText) = ItsText[p]
  BY ItsTextIs, ThroughOne
<1>2. <<p>> \in Seq(Piece)
  BY OneSeq
<1> QED
  BY <1>1, <1>2, TextIs DEF ItsText

LEMMA BodyIs ==
    ASSUME NEW s \in Seq(Piece)
    PROVE  Body(s) = Through(s, NoNotice)
<1>1. \A i \in DOMAIN s : s[i] \in Piece
  BY ElementOfSeq, LenProperties
<1>2. [i \in DOMAIN s |-> IF s[i] # Notice THEN <<s[i]>> ELSE <<>>] = Each(s, NoNotice)
  BY <1>1 DEF Each, NoNotice
<1> QED
  BY <1>2 DEF Body, Through

LEMMA BodySeq == ASSUME NEW s \in Seq(Piece) PROVE Body(s) \in Seq(Piece)
BY NoNoticeIs, ThroughSeq, BodyIs

LEMMA BodyConcat ==
    ASSUME NEW s \in Seq(Piece), NEW t \in Seq(Piece)
    PROVE  Body(s \o t) = Body(s) \o Body(t)
<1>1. Through(s \o t, NoNotice) = Through(s, NoNotice) \o Through(t, NoNotice)
  BY NoNoticeIs, ThroughConcat
<1>2. s \o t \in Seq(Piece)
  BY ConcatProperties
<1> QED
  BY <1>1, <1>2, BodyIs

LEMMA BodyEmpty == Body(<<>>) = <<>>
<1>1. <<>> \in Seq(Piece)
  BY EmptySeq
<1> QED
  BY <1>1, ThroughEmpty, BodyIs

LEMMA BodyOne ==
    ASSUME NEW p \in Piece
    PROVE  Body(<<p>>) = IF p # Notice THEN <<p>> ELSE <<>>
<1>1. Through(<<p>>, NoNotice) = NoNotice[p]
  BY NoNoticeIs, ThroughOne
<1>2. <<p>> \in Seq(Piece)
  BY OneSeq
<1> QED
  BY <1>1, <1>2, BodyIs DEF NoNotice

-----------------------------------------------------------------------------
(* The inductive invariant *)

ReaderRec == [at : {"put", "recv", "gone"}, msg : Msgs, done : BOOLEAN]
FwdRec == [at : {"take", "put", "gone"}, msg : Msgs \cup {NoMsg}]
TurnRec == [at : {"notice", "take", "reason", "text", "close", "save", "gone"},
            msg : Msgs \cup {NoMsg}]
HandlerRec == [at : {"take", "send", "ok", "failed"}, piece : Piece]

\* What each of the four goroutines and the three channels can hold.
Types ==
    /\ ctx \in {"live", "cancelled", "returned"} /\ msgs \in 1 .. MaxMsgs
    /\ reader \in ReaderRec /\ (reader.at = "put" => reader.msg \in Voiced)
    /\ output \in Seq(Voiced) /\ Len(output) <= Cap
    /\ out \in Seq(Voiced) /\ Len(out) <= Cap
    /\ fwd \in FwdRec /\ (fwd.at = "put" => fwd.msg \in Voiced)
    /\ turn \in TurnRec /\ (turn.at \in {"reason", "text"} => turn.msg \in Voiced)
    /\ clientChan \in Seq(Piece) /\ Len(clientChan) <= Cap
    /\ said \in Seq(Piece) /\ written \in Seq(Piece)
    /\ row \in Seq(Piece) /\ shown \in Seq(Piece)
    /\ handler \in HandlerRec

\* The turn still reads the answer.
Alive == turn.at \in {"notice", "take", "reason", "text"}

\* Who ends after whom.
Control ==
    /\ fwd.at = "gone" => output = <<>> /\ reader.at = "gone"
    /\ ctx = "live" /\ ~Alive => reader.at = "gone" /\ fwd.at = "gone" /\ out = <<>>
    /\ turn.at = "reason" => Reasons(turn.msg)
    /\ turn.at = "text" => Speaks(turn.msg)
    /\ turn.at # "gone" => row = <<>>
    /\ turn.at = "gone" => row = written \/ row = <<>>
    /\ handler.at = "ok" => clientChan = <<>> /\ ~Alive /\ ctx # "live"
    /\ ctx = "returned" => handler.at = "ok" /\ reader.at = "gone"
    /\ handler.at = "failed" => ctx = "cancelled"

\* The messages between the runner and the turn, the next one first.
InFwd == IF fwd.at = "put" THEN <<fwd.msg>> ELSE <<>>
InReader == IF reader.at = "put" THEN <<reader.msg>> ELSE <<>>
Pending == out \o (InFwd \o (output \o InReader))

\* What the turn has in hand: a text it has collected and not sent, and a
\* message of which it has sent nothing.
ThisText == IF turn.at = "text" THEN <<<<turn.msg.no, "text">>>> ELSE <<>>
Ahead == IF turn.at = "reason" THEN Pieces(turn.msg) ELSE <<>>

\* The answer up to the pieces that have reached the client's channel, fell
\* being one that the handler holds, or could not send.
Sent(fell) == Body(shown \o (fell \o clientChan))

(* Where the pieces of the answer are: it is what was sent, then early, which
   the row has or will have unless its write fails, then later; and only a
   cancelled call loses any. *)
Account(fell, early, later, lost) ==
    /\ said = (Sent(fell) \o early) \o later
    /\ written = TextOf(Sent(fell) \o early)
    /\ Alive => early = ThisText /\ later = Ahead \o (Flat(Pending) \o lost)
    /\ ctx = "live" \/ (Alive /\ reader.at # "gone") => lost = <<>>
    /\ ctx = "live" /\ ~Alive => early = <<>> /\ later = <<>>
    /\ handler.at = "send" => fell = <<handler.piece>>
    /\ handler.at \in {"take", "ok"} => fell = <<>>

Accounts == \E fell, early, later, lost \in Seq(Piece) : Account(fell, early, later, lost)

IInv == Types /\ Control /\ Accounts /\ FinalIsWhole

-----------------------------------------------------------------------------
(* Types *)

LEMMA Queues ==
    ASSUME NEW A, NEW s \in Seq(A), NEW x \in A
    PROVE  /\ Append(s, x) \in Seq(A) /\ Len(Append(s, x)) = Len(s) + 1 /\ Len(s) \in Nat
           /\ s # <<>> => Head(s) \in A /\ Tail(s) \in Seq(A) /\ Len(Tail(s)) = Len(s) - 1
BY AppendProperties, HeadTailProperties, LenProperties

LEMMA TypesInit == Init => Types
<1> SUFFICES ASSUME Init PROVE Types
  OBVIOUS
<1>1. PICK k \in Kinds, done \in BOOLEAN :
          /\ said = Pieces([no |-> 1, kind |-> k])
          /\ reader = [at |-> IF k = "blank" /\ done THEN "gone" ELSE Received([no |-> 1, kind |-> k]),
                       msg |-> [no |-> 1, kind |-> k], done |-> done]
  BY DEF Init
<1> DEFINE m == [no |-> 1, kind |-> k]
<1>2. m \in Msgs /\ m.kind = k
  BY MsgsAssumption DEF Msgs
<1> HIDE DEF m
<1>3. said = Pieces(m) /\ reader = [at |-> IF k = "blank" /\ done THEN "gone" ELSE Received(m),
                                    msg |-> m, done |-> done]
  BY <1>1 DEF m
<1>4. said \in Seq(Piece) /\ reader \in ReaderRec /\ (reader.at = "put" => reader.msg \in Voiced)
  BY <1>2, <1>3, PiecesSeq DEF ReaderRec, Received, Voiced
<1>5. Len(<<>>) <= Cap /\ <<>> \in Seq(Voiced) /\ <<>> \in Seq(Piece)
  BY CapAssumption, EmptySeq
<1>6. /\ ctx \in {"live", "cancelled", "returned"} /\ msgs \in 1 .. MaxMsgs
      /\ fwd \in FwdRec /\ fwd.at # "put" /\ turn \in TurnRec /\ turn.at \notin {"reason", "text"}
      /\ handler \in HandlerRec
  BY MsgsAssumption, NoticeFacts DEF Init, FwdRec, TurnRec, HandlerRec
<1> QED
  BY <1>4, <1>5, <1>6 DEF Init, Types

LEMMA TypesReader == ASSUME Types, Reader PROVE Types'
<1>1. ASSUME ReaderPut PROVE Types'
  <2>1. /\ Append(output, reader.msg) \in Seq(Voiced)
        /\ Len(Append(output, reader.msg)) = Len(output) + 1 /\ Len(output) \in Nat
    BY <1>1, Queues DEF ReaderPut, Types
  <2>2. output' \in Seq(Voiced) /\ Len(output') <= Cap
    BY <1>1, <2>1, CapAssumption DEF ReaderPut
  <2>3. reader' \in ReaderRec /\ reader'.at # "put"
    BY <1>1 DEF ReaderPut, Types, ReaderRec
  <2> QED
    BY <1>1, <2>2, <2>3 DEF ReaderPut, Types
<1>2. ASSUME ReaderQuit PROVE Types'
  BY <1>2 DEF ReaderQuit, Types, ReaderRec
<1>3. ASSUME NEW k \in Kinds, NEW done \in BOOLEAN, Recv(k, done) PROVE Types'
  <2> DEFINE m == [no |-> msgs + 1, kind |-> k]
  <2>1. m \in Msgs /\ m.kind = k /\ msgs' \in 1 .. MaxMsgs
    BY <1>3, MsgsAssumption DEF Msgs, Recv, Types
  <2>2. /\ said' = said \o Pieces(m)
        /\ reader' = [at |-> IF k = "blank" /\ done THEN "gone" ELSE Received(m),
                      msg |-> m, done |-> done]
        /\ UNCHANGED <<ctx, output, fwd, out, turn, written, clientChan, row, handler, shown>>
    BY <1>3 DEF Recv
  <2> HIDE DEF m
  <2>3. said \o Pieces(m) \in Seq(Piece)
    BY <2>1, PiecesSeq, ConcatProperties DEF Types
  <2>4. reader' \in ReaderRec /\ (reader'.at = "put" => reader'.msg \in Voiced)
    BY <2>1, <2>2 DEF ReaderRec, Received, Voiced
  <2> QED
    BY <2>1, <2>2, <2>3, <2>4 DEF Types
<1>4. ASSUME RecvErr PROVE Types'
  BY <1>4 DEF RecvErr, Types, ReaderRec
<1> QED
  BY <1>1, <1>2, <1>3, <1>4 DEF Reader

LEMMA TypesForwarder == ASSUME Types, Forwarder PROVE Types'
<1>1. ASSUME FwdTake PROVE Types'
  <2>1. /\ Head(output) \in Voiced /\ Tail(output) \in Seq(Voiced)
        /\ Len(Tail(output)) = Len(output) - 1 /\ Len(output) \in Nat
    BY <1>1, HeadTailProperties, LenProperties DEF FwdTake, Types
  <2>2. output' \in Seq(Voiced) /\ Len(output') <= Cap
    BY <1>1, <2>1, CapAssumption DEF FwdTake, Types
  <2>3. fwd' \in FwdRec /\ fwd'.msg \in Voiced
    BY <1>1, <2>1 DEF FwdTake, FwdRec, Voiced
  <2> QED
    BY <1>1, <2>2, <2>3 DEF FwdTake, Types
<1>2. ASSUME FwdPut PROVE Types'
  <2>1. /\ Append(out, fwd.msg) \in Seq(Voiced)
        /\ Len(Append(out, fwd.msg)) = Len(out) + 1 /\ Len(out) \in Nat
    BY <1>2, Queues DEF FwdPut, Types
  <2>2. out' \in Seq(Voiced) /\ Len(out') <= Cap
    BY <1>2, <2>1, CapAssumption DEF FwdPut
  <2>3. fwd' \in FwdRec /\ fwd'.at # "put"
    BY <1>2 DEF FwdPut, FwdRec
  <2> QED
    BY <1>2, <2>2, <2>3 DEF FwdPut, Types
<1>3. ASSUME FwdEnd PROVE Types'
  BY <1>3 DEF FwdEnd, Types, FwdRec
<1> QED
  BY <1>1, <1>2, <1>3 DEF Forwarder

LEMMA Sends ==
    ASSUME Types, NEW p \in Piece, Len(clientChan) < Cap
    PROVE  Append(clientChan, p) \in Seq(Piece) /\ Len(Append(clientChan, p)) <= Cap
<1>1. /\ Append(clientChan, p) \in Seq(Piece)
      /\ Len(Append(clientChan, p)) = Len(clientChan) + 1 /\ Len(clientChan) \in Nat
  BY Queues DEF Types
<1> QED
  BY <1>1, CapAssumption

LEMMA Collects ==
    ASSUME Types, NEW m \in Msgs, Collect(m)
    PROVE  written' \in Seq(Piece)
<1>1. <<m.no, "text">> \in Piece
  BY PiecesAre, PieceFacts
<1>2. Append(written, <<m.no, "text">>) \in Seq(Piece)
  BY <1>1, Queues DEF Types
<1> QED
  BY <1>2 DEF Collect, Types

LEMMA TypesTurn == ASSUME Types, Turn PROVE Types'
<1>1. ASSUME TurnNotice PROVE Types'
  <2>1. Append(clientChan, Notice) \in Seq(Piece) /\ Len(Append(clientChan, Notice)) <= Cap
    BY <1>1, Sends, NoticeFacts DEF TurnNotice
  <2>2. turn' \in TurnRec /\ turn'.at = "take"
    BY <1>1 DEF TurnNotice, Types, TurnRec
  <2> QED
    BY <1>1, <2>1, <2>2 DEF TurnNotice, Types
<1>2. ASSUME TurnTake PROVE Types'
  <2> DEFINE m == Head(out)
  <2>1. /\ m \in Voiced /\ Tail(out) \in Seq(Voiced)
        /\ Len(Tail(out)) = Len(out) - 1 /\ Len(out) \in Nat
    BY <1>2, HeadTailProperties, LenProperties DEF TurnTake, Types
  <2>2. out' \in Seq(Voiced) /\ Len(out') <= Cap
    BY <1>2, <2>1, CapAssumption DEF TurnTake, Types
  <2> HIDE DEF m
  <2>3. \/ turn' = [at |-> "reason", msg |-> m] /\ UNCHANGED written
        \/ turn' = [at |-> "text", msg |-> m] /\ Collect(m)
    BY <1>2 DEF TurnTake, m
  <2>4. turn' \in TurnRec /\ turn'.msg \in Voiced
    BY <2>1, <2>3 DEF TurnRec, Voiced
  <2>5. written' \in Seq(Piece)
    BY <2>1, <2>3, Collects DEF Types, Voiced
  <2> QED
    BY <1>2, <2>2, <2>4, <2>5 DEF TurnTake, Types
<1>3. ASSUME TurnReason PROVE Types'
  <2>1. turn.msg \in Voiced /\ turn.msg \in Msgs
    BY <1>3 DEF TurnReason, Types, Voiced
  <2>2. <<turn.msg.no, "reasoning">> \in Piece
    BY <2>1, PiecesAre, PieceFacts
  <2>3. /\ Append(clientChan, <<turn.msg.no, "reasoning">>) \in Seq(Piece)
        /\ Len(Append(clientChan, <<turn.msg.no, "reasoning">>)) <= Cap
    BY <1>3, <2>2, Sends DEF TurnReason
  <2>4. turn' \in TurnRec /\ turn'.msg \in Voiced
    BY <1>3, <2>1 DEF TurnReason, Types, TurnRec
  <2>5. written' \in Seq(Piece)
    BY <1>3, <2>1, Collects DEF TurnReason
  <2> QED
    BY <1>3, <2>3, <2>4, <2>5 DEF TurnReason, Types
<1>4. ASSUME TurnText PROVE Types'
  <2>1. turn.msg \in Msgs
    BY <1>4 DEF TurnText, Types, Voiced
  <2>2. <<turn.msg.no, "text">> \in Piece
    BY <2>1, PiecesAre, PieceFacts
  <2>3. /\ Append(clientChan, <<turn.msg.no, "text">>) \in Seq(Piece)
        /\ Len(Append(clientChan, <<turn.msg.no, "text">>)) <= Cap
    BY <1>4, <2>2, Sends DEF TurnText
  <2>4. turn' \in TurnRec /\ turn'.at = "take"
    BY <1>4 DEF TurnText, Types, TurnRec
  <2> QED
    BY <1>4, <2>3, <2>4 DEF TurnText, Types
<1>5. ASSUME TurnQuit PROVE Types'
  BY <1>5 DEF TurnQuit, Types, TurnRec
<1>6. ASSUME TurnEnd PROVE Types'
  BY <1>6 DEF TurnEnd, Types, TurnRec
<1>7. ASSUME TurnClose PROVE Types'
  BY <1>7 DEF TurnClose, Types, TurnRec
<1>8. ASSUME TurnSave PROVE Types'
  BY <1>8 DEF TurnSave, Types, TurnRec
<1>9. ASSUME TurnSaveFails PROVE Types'
  BY <1>9 DEF TurnSaveFails, Types, TurnRec
<1> QED
  BY <1>1, <1>2, <1>3, <1>4, <1>5, <1>6, <1>7, <1>8, <1>9 DEF Turn

LEMMA TypesHandler == ASSUME Types, Handler PROVE Types'
<1>1. ASSUME HandlerTake PROVE Types'
  <2>1. /\ Head(clientChan) \in Piece /\ Tail(clientChan) \in Seq(Piece)
        /\ Len(Tail(clientChan)) = Len(clientChan) - 1 /\ Len(clientChan) \in Nat
    BY <1>1, HeadTailProperties, LenProperties DEF HandlerTake, Types
  <2>2. clientChan' \in Seq(Piece) /\ Len(clientChan') <= Cap
    BY <1>1, <2>1, CapAssumption DEF HandlerTake, Types
  <2>3. handler' \in HandlerRec
    BY <1>1, <2>1 DEF HandlerTake, HandlerRec
  <2> QED
    BY <1>1, <2>2, <2>3 DEF HandlerTake, Types
<1>2. ASSUME HandlerSend PROVE Types'
  <2>1. handler.piece \in Piece
    BY DEF Types, HandlerRec
  <2>2. Append(shown, handler.piece) \in Seq(Piece)
    BY <2>1, Queues DEF Types
  <2>3. handler' \in HandlerRec
    BY <1>2 DEF HandlerSend, Types, HandlerRec
  <2> QED
    BY <1>2, <2>2, <2>3 DEF HandlerSend, Types
<1>3. ASSUME HandlerFinal PROVE Types'
  BY <1>3 DEF HandlerFinal, Types, HandlerRec
<1>4. ASSUME HandlerFail PROVE Types'
  BY <1>4 DEF HandlerFail, Types, HandlerRec
<1> QED
  BY <1>1, <1>2, <1>3, <1>4 DEF Handler

LEMMA TypesNext == ASSUME Types, [Next]_vars PROVE Types'
<1>1. ASSUME Cancel PROVE Types'
  BY <1>1 DEF Cancel, Types
<1>2. ASSUME UNCHANGED vars PROVE Types'
  BY <1>2 DEF vars, Types
<1> QED
  BY <1>1, <1>2, TypesReader, TypesForwarder, TypesTurn, TypesHandler DEF Next, Over

-----------------------------------------------------------------------------
(* Control *)

LEMMA ControlInit == Init => Control
BY DEF Init, Control, Alive, Received

LEMMA ControlReader == ASSUME Types, Control, Reader PROVE Control'
<1>1. ASSUME ReaderPut PROVE Control'
  BY <1>1 DEF ReaderPut, Types, ReaderRec, Control, Alive
<1>2. ASSUME ReaderQuit PROVE Control'
  BY <1>2 DEF ReaderQuit, Types, ReaderRec, Control, Alive
<1>3. ASSUME NEW k \in Kinds, NEW done \in BOOLEAN, Recv(k, done) PROVE Control'
  <2>1. /\ reader.at = "recv"
        /\ UNCHANGED <<ctx, output, fwd, out, turn, written, clientChan, row, handler, shown>>
    BY <1>3 DEF Recv
  <2> QED
    BY <2>1 DEF Control, Alive
<1>4. ASSUME RecvErr PROVE Control'
  BY <1>4 DEF RecvErr, Types, ReaderRec, Control, Alive
<1> QED
  BY <1>1, <1>2, <1>3, <1>4 DEF Reader

LEMMA ControlForwarder == ASSUME Types, Control, Forwarder PROVE Control'
<1>1. ASSUME FwdTake PROVE Control'
  BY <1>1 DEF FwdTake, Control, Alive
<1>2. ASSUME FwdPut PROVE Control'
  BY <1>2 DEF FwdPut, Control, Alive
<1>3. ASSUME FwdEnd PROVE Control'
  BY <1>3 DEF FwdEnd, Control, Alive
<1> QED
  BY <1>1, <1>2, <1>3 DEF Forwarder

LEMMA ControlTurn == ASSUME Types, Control, Turn PROVE Control'
<1>1. ASSUME TurnNotice PROVE Control'
  BY <1>1 DEF TurnNotice, Types, TurnRec, Control, Alive
<1>2. ASSUME TurnTake PROVE Control'
  <2> DEFINE m == Head(out)
  <2>1. m \in Voiced /\ m \in Msgs
    BY <1>2, HeadTailProperties DEF TurnTake, Types, Voiced
  <2> HIDE DEF m
  <2>2. \/ turn' = [at |-> "reason", msg |-> m] /\ Reasons(m)
        \/ turn' = [at |-> "text", msg |-> m] /\ ~Reasons(m)
    BY <1>2 DEF TurnTake, m
  <2>3. ~Reasons(m) => Speaks(m)
    BY <2>1, PiecesAre DEF Voiced
  <2>4. /\ Alive /\ Alive'
        /\ turn'.at = "reason" => Reasons(turn'.msg)
        /\ turn'.at = "text" => Speaks(turn'.msg)
        /\ turn'.at # "gone"
    BY <1>2, <2>2, <2>3 DEF TurnTake, Alive
  <2> QED
    BY <1>2, <2>4 DEF TurnTake, Control
<1>3. ASSUME TurnReason PROVE Control'
  <2>1. /\ Alive /\ Alive' /\ turn'.at \in {"text", "take"}
        /\ turn'.at = "text" => Speaks(turn'.msg)
    BY <1>3 DEF TurnReason, Types, TurnRec, Alive
  <2> QED
    BY <1>3, <2>1 DEF TurnReason, Control
<1>4. ASSUME TurnText PROVE Control'
  BY <1>4 DEF TurnText, Types, TurnRec, Control, Alive
<1>5. ASSUME TurnQuit PROVE Control'
  BY <1>5 DEF TurnQuit, Types, TurnRec, Control, Alive
<1>6. ASSUME TurnEnd PROVE Control'
  BY <1>6 DEF TurnEnd, Types, TurnRec, Control, Alive
<1>7. ASSUME TurnClose PROVE Control'
  BY <1>7 DEF TurnClose, Types, TurnRec, Control, Alive
<1>8. ASSUME TurnSave PROVE Control'
  BY <1>8 DEF TurnSave, Types, TurnRec, Control, Alive
<1>9. ASSUME TurnSaveFails PROVE Control'
  BY <1>9 DEF TurnSaveFails, Types, TurnRec, Control, Alive
<1> QED
  BY <1>1, <1>2, <1>3, <1>4, <1>5, <1>6, <1>7, <1>8, <1>9 DEF Turn

LEMMA ControlHandler == ASSUME Types, Control, Handler PROVE Control'
<1>1. ASSUME HandlerTake PROVE Control'
  BY <1>1 DEF HandlerTake, Control, Alive
<1>2. ASSUME HandlerSend PROVE Control'
  BY <1>2 DEF HandlerSend, Types, HandlerRec, Control, Alive
<1>3. ASSUME HandlerFinal PROVE Control'
  BY <1>3 DEF HandlerFinal, Types, HandlerRec, Control, Alive
<1>4. ASSUME HandlerFail PROVE Control'
  BY <1>4 DEF HandlerFail, Types, HandlerRec, Control, Alive
<1> QED
  BY <1>1, <1>2, <1>3, <1>4 DEF Handler

LEMMA ControlNext == ASSUME Types, Control, [Next]_vars PROVE Control'
<1>1. ASSUME Cancel PROVE Control'
  BY <1>1 DEF Cancel, Types, Control, Alive
<1>2. ASSUME UNCHANGED vars PROVE Control'
  BY <1>2 DEF vars, Control, Alive
<1> QED
  BY <1>1, <1>2, ControlReader, ControlForwarder, ControlTurn, ControlHandler DEF Next, Over

-----------------------------------------------------------------------------
(* Accounts *)

LEMMA Kept ==
    ASSUME NEW fell \in Seq(Piece), NEW early \in Seq(Piece), NEW later \in Seq(Piece),
           NEW lost \in Seq(Piece), Account(fell, early, later, lost),
           UNCHANGED <<said, written>>, Sent(fell)' = Sent(fell),
           Alive' => Alive /\ ThisText' = ThisText /\ Ahead' = Ahead /\ Flat(Pending') = Flat(Pending),
           ctx' = "live" => ctx = "live",
           Alive' /\ reader'.at # "gone" => reader.at # "gone",
           ctx' = "live" /\ ~Alive' => early = <<>> /\ later = <<>>,
           handler'.at = "send" => fell = <<handler'.piece>>,
           handler'.at \in {"take", "ok"} => fell = <<>>
    PROVE  Accounts'
<1>1. /\ said' = (Sent(fell)' \o early) \o later
      /\ written' = TextOf(Sent(fell)' \o early)
  BY DEF Account
<1>2. /\ Alive' => early = ThisText' /\ later = Ahead' \o (Flat(Pending') \o lost)
      /\ ctx' = "live" \/ (Alive' /\ reader'.at # "gone") => lost = <<>>
  BY DEF Account
<1>3. Account(fell, early, later, lost)'
  BY <1>1, <1>2 DEF Account
<1> QED
  BY <1>3 DEF Accounts

LEMMA PendingSeq ==
    ASSUME Types
    PROVE  /\ InFwd \in Seq(Voiced) /\ InReader \in Seq(Voiced) /\ Pending \in Seq(Voiced)
           /\ output \o InReader \in Seq(Voiced) /\ InFwd \o (output \o InReader) \in Seq(Voiced)
<1>1. <<>> \in Seq(Voiced)
  BY EmptySeq
<1>2. InFwd \in Seq(Voiced) /\ InReader \in Seq(Voiced)
  BY <1>1, OneSeq DEF InFwd, InReader, Types
<1>3. output \in Seq(Voiced) /\ out \in Seq(Voiced)
  BY DEF Types
<1>4. output \o InReader \in Seq(Voiced)
  BY <1>2, <1>3, ConcatProperties
<1>5. InFwd \o (output \o InReader) \in Seq(Voiced)
  BY <1>2, <1>4, ConcatProperties
<1>6. out \o (InFwd \o (output \o InReader)) \in Seq(Voiced)
  BY <1>3, <1>5, ConcatProperties
<1> QED
  BY <1>2, <1>4, <1>5, <1>6 DEF Pending

\* Named, so that a step can cite an equation for the sequences it has at hand.
Regroups(a, b, c) == (a \o b) \o c = a \o (b \o c)
Regroups4(a, b, c, d) == a \o (b \o (c \o d)) = (a \o (b \o c)) \o d
PutsOne(s, x, t) == Append(s, x) \o t = s \o (<<x>> \o t)
TakesOne(s, t) == s \o t = <<Head(s)>> \o (Tail(s) \o t)

LEMMA Assoc4 ==
    ASSUME NEW A, NEW a \in Seq(A), NEW b \in Seq(A), NEW c \in Seq(A), NEW d \in Seq(A)
    PROVE  Regroups4(a, b, c, d)
<1>1. b \o (c \o d) = (b \o c) \o d
  BY Assoc
<1>2. PICK e \in Seq(A) : e = b \o c
  BY ConcatProperties
<1>3. a \o (e \o d) = (a \o e) \o d
  BY SMTT(30)
<1> QED
  BY <1>1, <1>2, <1>3 DEF Regroups4

LEMMA MsgsAssoc4 ==
    ASSUME NEW a \in Seq(Voiced), NEW b \in Seq(Voiced), NEW c \in Seq(Voiced),
           NEW d \in Seq(Voiced)
    PROVE  Regroups4(a, b, c, d)
BY Assoc4

LEMMA PiecesAssoc4 ==
    ASSUME NEW a \in Seq(Piece), NEW b \in Seq(Piece), NEW c \in Seq(Piece),
           NEW d \in Seq(Piece)
    PROVE  Regroups4(a, b, c, d)
BY Assoc4

LEMMA PiecesAssoc ==
    ASSUME NEW a \in Seq(Piece), NEW b \in Seq(Piece), NEW c \in Seq(Piece)
    PROVE  Regroups(a, b, c)
BY Assoc DEF Regroups

LEMMA PutOne ==
    ASSUME NEW A, NEW s \in Seq(A), NEW x \in A, NEW t \in Seq(A)
    PROVE  PutsOne(s, x, t)
<1>1. <<x>> \in Seq(A) /\ Append(s, x) = s \o <<x>>
  BY OneSeq, AppendIsConcat
<1>2. (s \o <<x>>) \o t = s \o (<<x>> \o t)
  BY <1>1, Assoc
<1> QED
  BY <1>1, <1>2 DEF PutsOne

LEMMA MsgsPut ==
    ASSUME NEW s \in Seq(Voiced), NEW x \in Voiced, NEW t \in Seq(Voiced)
    PROVE  PutsOne(s, x, t)
BY PutOne

LEMMA PiecesPut ==
    ASSUME NEW s \in Seq(Piece), NEW x \in Piece, NEW t \in Seq(Piece)
    PROVE  PutsOne(s, x, t)
BY PutOne

LEMMA MsgsTaken ==
    ASSUME NEW s \in Seq(Voiced), s # <<>>, NEW t \in Seq(Voiced)
    PROVE  TakesOne(s, t)
<1>1. Head(s) \in Voiced /\ Tail(s) \in Seq(Voiced) /\ s = <<Head(s)>> \o Tail(s)
  BY HeadTailProperties
<1>2. <<Head(s)>> \in Seq(Voiced)
  BY <1>1, OneSeq
<1>3. (<<Head(s)>> \o Tail(s)) \o t = <<Head(s)>> \o (Tail(s) \o t)
  BY <1>1, <1>2, Assoc
<1> QED
  BY <1>1, <1>3 DEF TakesOne

LEMMA SentSeq ==
    ASSUME Types, NEW fell \in Seq(Piece)
    PROVE  Sent(fell) \in Seq(Piece)
<1>1. shown \in Seq(Piece) /\ clientChan \in Seq(Piece) /\ fell \o clientChan \in Seq(Piece)
  BY ConcatProperties DEF Types
<1>2. shown \o (fell \o clientChan) \in Seq(Piece)
  BY <1>1, ConcatProperties
<1> QED
  BY <1>2, BodySeq DEF Sent

\* The parts of Account, after a step.
LEMMA Accounted ==
    ASSUME NEW fell \in Seq(Piece), NEW early \in Seq(Piece), NEW later \in Seq(Piece),
           NEW lost \in Seq(Piece),
           said' = (Sent(fell)' \o early) \o later,
           written' = TextOf(Sent(fell)' \o early),
           Alive' => early = ThisText' /\ later = Ahead' \o (Flat(Pending') \o lost),
           ctx' = "live" \/ (Alive' /\ reader'.at # "gone") => lost = <<>>,
           ctx' = "live" /\ ~Alive' => early = <<>> /\ later = <<>>,
           handler'.at = "send" => fell = <<handler'.piece>>,
           handler'.at \in {"take", "ok"} => fell = <<>>
    PROVE  Accounts'
<1>1. Account(fell, early, later, lost)'
  BY DEF Account
<1> QED
  BY <1>1 DEF Accounts

LEMMA ReaderPutAccounts == ASSUME Types, Control, Accounts, ReaderPut PROVE Accounts'
<1>1. PICK fell, early, later, lost \in Seq(Piece) : Account(fell, early, later, lost)
  BY DEF Accounts
<1>2. Pending' = Pending
  <2>1. Append(output, reader.msg) \o <<>> = output \o <<reader.msg>>
    <3>1. output \in Seq(Voiced) /\ reader.msg \in Voiced
      BY DEF ReaderPut, Types
    <3>2. Append(output, reader.msg) \in Seq(Voiced)
          /\ Append(output, reader.msg) = output \o <<reader.msg>>
      BY <3>1, AppendProperties, AppendIsConcat
    <3> QED
      BY <3>2, ConcatEmptySeq
  <2>2. InFwd' = InFwd /\ InReader = <<reader.msg>> /\ InReader' = <<>>
    BY DEF ReaderPut, InFwd, InReader, Types, ReaderRec
  <2> QED
    BY <2>1, <2>2 DEF Pending, ReaderPut
<1>3. Sent(fell)' = Sent(fell)
  BY DEF Sent, ReaderPut
<1>4. ctx = "live" => Alive
  BY DEF Control, ReaderPut
<1>5. Alive' <=> Alive
  BY DEF Alive, ReaderPut
<1>6. ThisText' = ThisText /\ Ahead' = Ahead
  BY DEF ThisText, Ahead, ReaderPut
<1> QED
  BY <1>1, <1>2, <1>3, <1>4, <1>5, <1>6, Kept DEF ReaderPut, Account

LEMMA ReaderQuitAccounts == ASSUME Types, Control, Accounts, ReaderQuit PROVE Accounts'
<1>1. PICK fell, early, later, lost \in Seq(Piece) : Account(fell, early, later, lost)
  BY DEF Accounts
<1> DEFINE gone == Pieces(reader.msg)
<1>2. reader.msg \in Voiced /\ gone \in Seq(Piece) /\ Flat(<<reader.msg>>) = gone
  BY PiecesSeq, FlatOne DEF Types, ReaderQuit, Voiced
<1> HIDE DEF gone
<1>3. Flat(Pending) = Flat(Pending') \o gone /\ Flat(Pending') \in Seq(Piece)
  <2> DEFINE rest == out \o (InFwd \o output)
  <2>1. InFwd' = InFwd /\ InReader = <<reader.msg>> /\ InReader' = <<>> /\ output' = output /\ out' = out
    BY DEF ReaderQuit, InFwd, InReader, Types, ReaderRec
  <2>2. /\ InFwd \in Seq(Voiced) /\ output \in Seq(Voiced) /\ out \in Seq(Voiced)
        /\ <<reader.msg>> \in Seq(Voiced) /\ InFwd \o output \in Seq(Voiced)
    BY <1>2, PendingSeq, OneSeq, ConcatProperties DEF Types
  <2>3. output \o <<>> = output /\ rest \in Seq(Voiced)
    BY <2>2, ConcatEmptySeq, ConcatProperties
  <2>4. Pending' = rest
    BY <2>1, <2>3 DEF Pending
  <2>5. out \o (InFwd \o (output \o <<reader.msg>>)) = rest \o <<reader.msg>>
    <3>1. Regroups4(out, InFwd, output, <<reader.msg>>)
      BY <2>2, MsgsAssoc4
    <3> QED
      BY <3>1 DEF Regroups4
  <2> HIDE DEF rest
  <2>6. Pending = rest \o <<reader.msg>>
    BY <2>1, <2>5 DEF Pending
  <2> QED
    BY <1>2, <2>2, <2>3, <2>4, <2>6, FlatConcat, FlatSeq
<1>4. Sent(fell)' = Sent(fell)
  BY DEF Sent, ReaderQuit
<1>5. ThisText' = ThisText /\ Ahead' = Ahead /\ (Alive' <=> Alive) /\ reader'.at = "gone"
  BY DEF ThisText, Ahead, Alive, ReaderQuit, Types, ReaderRec
<1>6. CASE Alive
  <2>1. lost = <<>> /\ early = ThisText /\ later = Ahead \o (Flat(Pending) \o lost)
    BY <1>1, <1>6 DEF Account, ReaderQuit
  <2>2. Flat(Pending) \o <<>> = Flat(Pending)
    BY <1>2, <1>3, ConcatEmptySeq, ConcatProperties
  <2>3. later = Ahead \o (Flat(Pending') \o gone)
    BY <1>3, <2>1, <2>2
  <2>4. /\ said' = (Sent(fell)' \o early) \o later
        /\ written' = TextOf(Sent(fell)' \o early)
        /\ handler'.at = "send" => fell = <<handler'.piece>>
        /\ handler'.at \in {"take", "ok"} => fell = <<>>
    BY <1>1, <1>4 DEF Account, ReaderQuit
  <2>5. /\ early = ThisText' /\ later = Ahead' \o (Flat(Pending') \o gone)
        /\ ctx' # "live" /\ reader'.at = "gone"
    BY <1>5, <2>1, <2>3 DEF ReaderQuit
  <2> QED
    BY <1>2, <2>4, <2>5, Accounted
<1>7. CASE ~Alive
  <2>1. /\ said' = (Sent(fell)' \o early) \o later
        /\ written' = TextOf(Sent(fell)' \o early)
        /\ handler'.at = "send" => fell = <<handler'.piece>>
        /\ handler'.at \in {"take", "ok"} => fell = <<>>
    BY <1>1, <1>4 DEF Account, ReaderQuit
  <2>2. ~Alive' /\ ctx' # "live"
    BY <1>5, <1>7 DEF ReaderQuit
  <2> QED
    BY <2>1, <2>2, Accounted
<1> QED
  BY <1>6, <1>7

LEMMA RecvErrAccounts == ASSUME Types, Control, Accounts, RecvErr PROVE Accounts'
<1>1. PICK fell, early, later, lost \in Seq(Piece) : Account(fell, early, later, lost)
  BY DEF Accounts
<1>2. Pending' = Pending
  BY DEF Pending, InFwd, InReader, RecvErr, Types, ReaderRec
<1>3. Sent(fell)' = Sent(fell)
  BY DEF Sent, RecvErr
<1>4. ctx = "live" => Alive
  BY DEF Control, RecvErr
<1>5. ThisText' = ThisText /\ Ahead' = Ahead /\ (Alive' <=> Alive)
  BY DEF ThisText, Ahead, Alive, RecvErr
<1> QED
  BY <1>1, <1>2, <1>3, <1>4, <1>5, Kept DEF RecvErr, Account

LEMMA RecvAccounts ==
    ASSUME Types, Control, Accounts, NEW k \in Kinds, NEW done \in BOOLEAN, Recv(k, done)
    PROVE  Accounts'
<1>1. PICK fell, early, later, lost \in Seq(Piece) : Account(fell, early, later, lost)
  BY DEF Accounts
<1> DEFINE m == [no |-> msgs + 1, kind |-> k]
<1>2. m \in Msgs /\ m.kind = k
  BY MsgsAssumption DEF Msgs, Recv, Types
<1>3. /\ said' = said \o Pieces(m) /\ reader.at = "recv"
      /\ reader' = [at |-> IF k = "blank" /\ done THEN "gone" ELSE Received(m),
                    msg |-> m, done |-> done]
      /\ UNCHANGED <<ctx, output, fwd, out, turn, written, clientChan, row, handler, shown>>
  BY DEF Recv
<1> HIDE DEF m
<1> DEFINE new == Pieces(m)
<1>4. new \in Seq(Piece) /\ (k = "blank" => new = <<>>)
  BY <1>2, PiecesSeq, PiecesAre
<1>5. Flat(Pending') = Flat(Pending) \o new /\ Flat(Pending) \in Seq(Piece)
  <2>1. InReader = <<>> /\ InFwd' = InFwd /\ Pending \in Seq(Voiced) /\ Flat(Pending) \in Seq(Piece)
    BY <1>3, PendingSeq, FlatSeq DEF InReader, InFwd
  <2>2. CASE k = "blank"
    <3>1. InReader' = <<>>
      BY <1>2, <1>3, <2>2 DEF InReader, Received
    <3>2. Pending' = Pending
      BY <1>3, <2>1, <3>1 DEF Pending
    <3> QED
      BY <1>4, <2>1, <2>2, <3>2, ConcatEmptySeq
  <2>3. CASE k # "blank"
    <3>1. InReader' = <<m>> /\ m \in Voiced /\ <<m>> \in Seq(Voiced)
      BY <1>2, <1>3, <2>3, OneSeq DEF InReader, Received, Voiced
    <3>2. output \o <<>> = output /\ InFwd \in Seq(Voiced) /\ output \in Seq(Voiced) /\ out \in Seq(Voiced)
          /\ InFwd \o output \in Seq(Voiced)
      BY PendingSeq, ConcatEmptySeq, ConcatProperties DEF Types
    <3>3. Pending = out \o (InFwd \o output)
      BY <2>1, <3>2 DEF Pending
    <3>4. out \o (InFwd \o (output \o <<m>>)) = (out \o (InFwd \o output)) \o <<m>>
      <4>1. Regroups4(out, InFwd, output, <<m>>)
        BY <3>1, <3>2, MsgsAssoc4
      <4> QED
        BY <4>1 DEF Regroups4
    <3>5. Pending' = Pending \o <<m>>
      BY <1>3, <2>1, <3>1, <3>3, <3>4 DEF Pending
    <3>6. Flat(<<m>>) = new
      BY <3>1, FlatOne
    <3> QED
      BY <2>1, <3>1, <3>5, <3>6, FlatConcat
  <2> QED
    BY <2>2, <2>3
<1>6. Sent(fell)' = Sent(fell)
  BY <1>3 DEF Sent
<1>7. ThisText' = ThisText /\ Ahead' = Ahead /\ (Alive' <=> Alive)
  BY <1>3 DEF ThisText, Ahead, Alive
<1>8. ctx = "live" => Alive
  BY <1>3 DEF Control
<1> HIDE DEF new
<1>9. PICK next \in Seq(Piece) : next = later \o new
  <2>1. later \o new \in Seq(Piece)
    BY <1>4, ConcatProperties
  <2> QED
    BY <2>1
<1>10. said' = (Sent(fell)' \o early) \o next
  <2>1. Sent(fell) \in Seq(Piece) /\ new \in Seq(Piece)
    BY <1>4, SentSeq
  <2>2. ((Sent(fell) \o early) \o later) \o new = (Sent(fell) \o early) \o (later \o new)
    <3>1. Sent(fell) \o early \in Seq(Piece)
      BY <2>1, ConcatProperties
    <3>2. Regroups(Sent(fell) \o early, later, new)
      BY <2>1, <3>1, PiecesAssoc
    <3> QED
      BY <3>2 DEF Regroups
  <2>3. said = (Sent(fell) \o early) \o later /\ said' = said \o new
    BY <1>1, <1>3 DEF Account, new
  <2> QED
    BY <1>6, <1>9, <2>2, <2>3
<1>11. ASSUME Alive
       PROVE  lost = <<>> /\ early = ThisText' /\ next = Ahead' \o (Flat(Pending') \o lost)
  <2>1. lost = <<>> /\ early = ThisText /\ later = Ahead \o (Flat(Pending) \o <<>>)
    BY <1>1, <1>3, <1>11 DEF Account
  <2>2. Ahead \in Seq(Piece) /\ Flat(Pending) \in Seq(Piece) /\ new \in Seq(Piece)
    BY <1>4, <1>5, PiecesSeq, EmptySeq DEF Ahead, Types, Voiced
  <2>3. Flat(Pending) \o new \in Seq(Piece) /\ Flat(Pending) \o <<>> = Flat(Pending)
    BY <2>2, ConcatProperties, ConcatEmptySeq
  <2>4. Regroups(Ahead, Flat(Pending), new)
    BY <2>2, PiecesAssoc
  <2>5. next = (Ahead \o Flat(Pending)) \o new
    BY <1>9, <2>1, <2>3
  <2>6. Flat(Pending') \o <<>> = Flat(Pending) \o new
    BY <1>5, <2>3, ConcatEmptySeq
  <2>7. next = Ahead \o (Flat(Pending') \o <<>>)
    BY <2>4, <2>5, <2>6 DEF Regroups
  <2> QED
    BY <1>7, <2>1, <2>7
<1>12. written' = TextOf(Sent(fell)' \o early)
  BY <1>1, <1>3, <1>6 DEF Account
<1>13. /\ handler'.at = "send" => fell = <<handler'.piece>>
       /\ handler'.at \in {"take", "ok"} => fell = <<>>
  BY <1>1, <1>3 DEF Account
<1>14. /\ ctx' = "live" \/ (Alive' /\ reader'.at # "gone") => lost = <<>>
       /\ ctx' = "live" => Alive'
  BY <1>3, <1>7, <1>8, <1>11
<1> QED
  BY <1>7, <1>10, <1>11, <1>12, <1>13, <1>14, Accounted

LEMMA ReaderAccounts == ASSUME Types, Control, Accounts, Reader PROVE Accounts'
BY ReaderPutAccounts, ReaderQuitAccounts, RecvAccounts, RecvErrAccounts DEF Reader

LEMMA FwdTakeAccounts == ASSUME Types, Control, Accounts, FwdTake PROVE Accounts'
<1>1. PICK fell, early, later, lost \in Seq(Piece) : Account(fell, early, later, lost)
  BY DEF Accounts
<1>2. Pending' = Pending
  <2>1. /\ InFwd = <<>> /\ InFwd' = <<Head(output)>> /\ InReader' = InReader
        /\ output' = Tail(output) /\ out' = out /\ output # <<>>
    BY DEF InFwd, InReader, FwdTake
  <2>2. Head(output) \in Voiced /\ InReader \in Seq(Voiced) /\ output \in Seq(Voiced)
    BY <2>1, PendingSeq, HeadTailProperties DEF Types
  <2>3. output \o InReader = <<Head(output)>> \o (Tail(output) \o InReader)
    <3>1. TakesOne(output, InReader)
      BY <2>1, <2>2, MsgsTaken
    <3> QED
      BY <3>1 DEF TakesOne
  <2>4. <<>> \o (output \o InReader) = output \o InReader
    BY PendingSeq, ConcatEmptySeq
  <2> QED
    BY <2>1, <2>3, <2>4 DEF Pending
<1>3. Sent(fell)' = Sent(fell)
  BY DEF Sent, FwdTake
<1>4. ctx = "live" => Alive
  BY DEF Control, FwdTake
<1>5. ThisText' = ThisText /\ Ahead' = Ahead /\ (Alive' <=> Alive)
  BY DEF ThisText, Ahead, Alive, FwdTake
<1> QED
  BY <1>1, <1>2, <1>3, <1>4, <1>5, Kept DEF FwdTake, Account

LEMMA FwdPutAccounts == ASSUME Types, Control, Accounts, FwdPut PROVE Accounts'
<1>1. PICK fell, early, later, lost \in Seq(Piece) : Account(fell, early, later, lost)
  BY DEF Accounts
<1>2. Pending' = Pending
  <2>1. /\ InFwd = <<fwd.msg>> /\ InFwd' = <<>> /\ InReader' = InReader
        /\ output' = output /\ out' = Append(out, fwd.msg) /\ fwd.msg \in Voiced
    BY DEF InFwd, InReader, FwdPut, Types
  <2>2. PICK rest \in Seq(Voiced) : rest = output \o InReader
    BY PendingSeq
  <2>3. Append(out, fwd.msg) \o rest = out \o (<<fwd.msg>> \o rest)
    <3>1. out \in Seq(Voiced) /\ fwd.msg \in Voiced
      BY <2>1 DEF Types
    <3>2. PutsOne(out, fwd.msg, rest)
      BY <2>2, <3>1, MsgsPut
    <3> QED
      BY <3>2 DEF PutsOne
  <2>4. <<>> \o rest = rest
    BY ConcatEmptySeq
  <2> QED
    BY <2>1, <2>2, <2>3, <2>4 DEF Pending
<1>3. Sent(fell)' = Sent(fell)
  BY DEF Sent, FwdPut
<1>4. ctx = "live" => Alive
  BY DEF Control, FwdPut
<1>5. ThisText' = ThisText /\ Ahead' = Ahead /\ (Alive' <=> Alive)
  BY DEF ThisText, Ahead, Alive, FwdPut
<1> QED
  BY <1>1, <1>2, <1>3, <1>4, <1>5, Kept DEF FwdPut, Account

LEMMA FwdEndAccounts == ASSUME Types, Control, Accounts, FwdEnd PROVE Accounts'
<1>1. PICK fell, early, later, lost \in Seq(Piece) : Account(fell, early, later, lost)
  BY DEF Accounts
<1>2. Pending' = Pending
  BY DEF Pending, InFwd, InReader, FwdEnd
<1>3. Sent(fell)' = Sent(fell)
  BY DEF Sent, FwdEnd
<1>4. ctx = "live" => Alive
  BY DEF Control, FwdEnd
<1>5. ThisText' = ThisText /\ Ahead' = Ahead /\ (Alive' <=> Alive)
  BY DEF ThisText, Ahead, Alive, FwdEnd
<1> QED
  BY <1>1, <1>2, <1>3, <1>4, <1>5, Kept DEF FwdEnd, Account

LEMMA ForwarderAccounts == ASSUME Types, Control, Accounts, Forwarder PROVE Accounts'
BY FwdTakeAccounts, FwdPutAccounts, FwdEndAccounts DEF Forwarder

LEMMA CancelAccounts == ASSUME Types, Control, Accounts, Cancel PROVE Accounts'
<1>1. PICK fell, early, later, lost \in Seq(Piece) : Account(fell, early, later, lost)
  BY DEF Accounts
<1>2. /\ Pending' = Pending /\ ThisText' = ThisText /\ Ahead' = Ahead /\ (Alive' <=> Alive)
      /\ Sent(fell)' = Sent(fell)
  BY DEF Pending, InFwd, InReader, ThisText, Ahead, Alive, Sent, Cancel
<1> QED
  BY <1>1, <1>2, Kept DEF Cancel, Account

LEMMA StutterAccounts == ASSUME Accounts, UNCHANGED vars PROVE Accounts'
<1>1. PICK fell, early, later, lost \in Seq(Piece) : Account(fell, early, later, lost)
  BY DEF Accounts
<1>2. /\ Pending' = Pending /\ ThisText' = ThisText /\ Ahead' = Ahead /\ (Alive' <=> Alive)
      /\ Sent(fell)' = Sent(fell)
  BY DEF Pending, InFwd, InReader, ThisText, Ahead, Alive, Sent, vars
<1> QED
  BY <1>1, <1>2, Kept DEF vars, Account

-----------------------------------------------------------------------------
(* The turn *)

LEMMA SentGrows ==
    ASSUME Types, NEW fell \in Seq(Piece), NEW p \in Piece,
           clientChan' = Append(clientChan, p), shown' = shown
    PROVE  Sent(fell)' = Sent(fell) \o Body(<<p>>)
<1>1. /\ shown \in Seq(Piece) /\ clientChan \in Seq(Piece) /\ <<p>> \in Seq(Piece)
      /\ Append(clientChan, p) = clientChan \o <<p>>
  BY OneSeq, AppendIsConcat DEF Types
<1>2. Regroups4(shown, fell, clientChan, <<p>>)
  BY <1>1, PiecesAssoc4
<1>3. fell \o clientChan \in Seq(Piece)
  BY <1>1, ConcatProperties
<1>4. shown \o (fell \o clientChan) \in Seq(Piece)
  BY <1>1, <1>3, ConcatProperties
<1>5. Body((shown \o (fell \o clientChan)) \o <<p>>)
      = Body(shown \o (fell \o clientChan)) \o Body(<<p>>)
  BY <1>1, <1>4, BodyConcat
<1> QED
  BY <1>1, <1>2, <1>5 DEF Sent, Regroups4

LEMMA TextGrows ==
    ASSUME NEW s \in Seq(Piece), NEW n \in 1 .. MaxMsgs
    PROVE  /\ TextOf(s \o <<<<n, "text">>>>) = Append(TextOf(s), <<n, "text">>)
           /\ TextOf(s \o <<<<n, "reasoning">>>>) = TextOf(s)
<1>1. <<<<n, "text">>>> \in Seq(Piece) /\ <<<<n, "reasoning">>>> \in Seq(Piece)
  BY PieceFacts, OneSeq
<1>2. TextOf(<<<<n, "text">>>>) = <<<<n, "text">>>> /\ TextOf(<<<<n, "reasoning">>>>) = <<>>
  BY PieceFacts, TextOne
<1>3. TextOf(s) \in Seq(Piece) /\ <<n, "text">> \in Piece
  BY TextSeq, PieceFacts
<1>4. TextOf(s) \o <<>> = TextOf(s) /\ Append(TextOf(s), <<n, "text">>) = TextOf(s) \o <<<<n, "text">>>>
  BY <1>3, ConcatEmptySeq, AppendIsConcat
<1> QED
  BY <1>1, <1>2, <1>4, TextConcat

LEMMA TurnNoticeAccounts == ASSUME Types, Control, Accounts, TurnNotice PROVE Accounts'
<1>1. PICK fell, early, later, lost \in Seq(Piece) : Account(fell, early, later, lost)
  BY DEF Accounts
<1>2. Pending' = Pending
  BY DEF Pending, InFwd, InReader, TurnNotice
<1>3. Sent(fell)' = Sent(fell)
  <2>1. Sent(fell)' = Sent(fell) \o Body(<<Notice>>)
    BY NoticeFacts, SentGrows DEF TurnNotice
  <2>2. Body(<<Notice>>) = <<>> /\ Sent(fell) \in Seq(Piece)
    BY NoticeFacts, BodyOne, SentSeq
  <2> QED
    BY <2>1, <2>2, ConcatEmptySeq
<1>4. ThisText' = ThisText /\ Ahead' = Ahead /\ Alive' /\ Alive
  BY DEF ThisText, Ahead, Alive, TurnNotice, Types, TurnRec
<1> QED
  BY <1>1, <1>2, <1>3, <1>4, Kept DEF TurnNotice, Account

LEMMA TurnTakeAccounts == ASSUME Types, Control, Accounts, TurnTake PROVE Accounts'
<1>1. PICK fell, early, later, lost \in Seq(Piece) : Account(fell, early, later, lost)
  BY DEF Accounts
<1> DEFINE m == Head(out)
<1>2. m \in Voiced /\ m \in Msgs /\ out \in Seq(Voiced) /\ out # <<>>
  BY HeadTailProperties DEF TurnTake, Types, Voiced
<1>3. /\ turn.at = "take" /\ out' = Tail(out)
      /\ UNCHANGED <<ctx, msgs, said, reader, output, fwd, clientChan, row, handler, shown>>
  BY DEF TurnTake
<1>4. \/ Reasons(m) /\ turn' = [at |-> "reason", msg |-> m] /\ written' = written
      \/ ~Reasons(m) /\ turn' = [at |-> "text", msg |-> m] /\ Collect(m)
  BY DEF TurnTake
<1>5. Pending = <<m>> \o Pending' /\ Pending' \in Seq(Voiced)
  <2>1. PICK rest \in Seq(Voiced) : rest = InFwd \o (output \o InReader)
    BY PendingSeq
  <2>2. out \o rest = <<m>> \o (Tail(out) \o rest)
    <3>1. TakesOne(out, rest)
      BY <1>2, <2>1, MsgsTaken
    <3> QED
      BY <3>1 DEF TakesOne
  <2>3. Pending = out \o rest /\ Pending' = Tail(out) \o rest
    BY <1>3, <2>1 DEF Pending, InFwd, InReader
  <2>4. Tail(out) \in Seq(Voiced)
    BY <1>2, HeadTailProperties
  <2>5. Tail(out) \o rest \in Seq(Voiced)
    BY <2>1, <2>4, ConcatProperties
  <2> QED
    BY <2>2, <2>3, <2>5
<1> HIDE DEF m
<1>6. PICK p \in Seq(Piece), f \in Seq(Piece), next \in Seq(Piece) :
         p = Pieces(m) /\ f = Flat(Pending') /\ next = f \o lost
  <2>1. Pieces(m) \in Seq(Piece) /\ Flat(Pending') \in Seq(Piece)
    BY <1>2, <1>5, PiecesSeq, FlatSeq
  <2>2. Flat(Pending') \o lost \in Seq(Piece)
    BY <2>1, ConcatProperties
  <2> QED
    BY <2>1, <2>2
<1>7. Flat(Pending) = p \o f
  <2>1. <<m>> \in Seq(Voiced) /\ Flat(<<m>>) = p
    BY <1>2, <1>6, OneSeq, FlatOne
  <2> QED
    BY <1>5, <1>6, <2>1, FlatConcat
<1>8. early = <<>> /\ later = p \o next
  <2>1. Alive /\ ThisText = <<>> /\ Ahead = <<>>
    BY <1>3 DEF Alive, ThisText, Ahead
  <2>2. early = <<>> /\ later = <<>> \o ((p \o f) \o lost)
    BY <1>1, <1>7, <2>1 DEF Account
  <2>3. Regroups(p, f, lost) /\ p \o next \in Seq(Piece)
    BY <1>6, PiecesAssoc, ConcatProperties
  <2>4. (p \o f) \o lost = p \o next
    BY <1>6, <2>3 DEF Regroups
  <2> QED
    BY <2>2, <2>3, <2>4, ConcatEmptySeq
<1>9. Sent(fell)' = Sent(fell) /\ Sent(fell) \in Seq(Piece)
  BY <1>3, SentSeq DEF Sent
<1>10. /\ ctx' = "live" \/ reader'.at # "gone" => lost = <<>>
       /\ handler'.at = "send" => fell = <<handler'.piece>>
       /\ handler'.at \in {"take", "ok"} => fell = <<>>
  BY <1>1, <1>3 DEF Account, Alive
<1>11. CASE Reasons(m) /\ turn' = [at |-> "reason", msg |-> m] /\ written' = written
  <2>1. Alive' /\ ThisText' = <<>> /\ Ahead' = p
    BY <1>6, <1>11 DEF Alive, ThisText, Ahead
  <2>2. said' = (Sent(fell)' \o early) \o later /\ written' = TextOf(Sent(fell)' \o early)
    BY <1>1, <1>3, <1>9, <1>11 DEF Account
  <2> QED
    BY <1>6, <1>8, <1>10, <2>1, <2>2, Accounted
<1>12. CASE ~Reasons(m) /\ turn' = [at |-> "text", msg |-> m] /\ Collect(m)
  <2>1. Speaks(m) /\ m.no \in 1 .. MaxMsgs /\ p = <<<<m.no, "text">>>>
    BY <1>2, <1>6, <1>12, PiecesAre DEF Voiced
  <2>2. Alive' /\ ThisText' = p /\ Ahead' = <<>>
    BY <1>12, <2>1 DEF Alive, ThisText, Ahead
  <2>3. Sent(fell) \o <<>> = Sent(fell) /\ <<>> \o (f \o lost) = next
    BY <1>6, <1>9, ConcatEmptySeq
  <2>4. said' = (Sent(fell)' \o p) \o next
    <3>1. said' = Sent(fell) \o (p \o next)
      BY <1>1, <1>3, <1>8, <2>3 DEF Account
    <3>2. Regroups(Sent(fell), p, next)
      BY <1>6, <1>9, PiecesAssoc
    <3> QED
      BY <1>9, <3>1, <3>2 DEF Regroups
  <2>5. written' = TextOf(Sent(fell)' \o p)
    <3>1. written = TextOf(Sent(fell)) /\ written' = Append(written, <<m.no, "text">>)
      BY <1>1, <1>8, <1>12, <2>1, <2>3 DEF Account, Collect
    <3>2. TextOf(Sent(fell) \o <<<<m.no, "text">>>>) = Append(TextOf(Sent(fell)), <<m.no, "text">>)
      BY <1>9, <2>1, TextGrows
    <3> QED
      BY <1>9, <2>1, <3>1, <3>2
  <2> QED
    BY <1>6, <1>10, <2>2, <2>3, <2>4, <2>5, Accounted
<1> QED
  BY <1>4, <1>11, <1>12

LEMMA TurnReasonAccounts == ASSUME Types, Control, Accounts, TurnReason PROVE Accounts'
<1>1. PICK fell, early, later, lost \in Seq(Piece) : Account(fell, early, later, lost)
  BY DEF Accounts
<1> DEFINE m == turn.msg
<1>2. /\ m \in Voiced /\ m \in Msgs /\ Reasons(m) /\ turn.at = "reason"
      /\ turn' = [turn EXCEPT !.at = IF Speaks(m) THEN "text" ELSE "take"]
      /\ Collect(m)
      /\ clientChan' = Append(clientChan, <<m.no, "reasoning">>)
      /\ UNCHANGED <<ctx, msgs, said, reader, output, fwd, out, row, handler, shown>>
  BY DEF TurnReason, Types, Control, Voiced
<1>3. turn'.at = (IF Speaks(m) THEN "text" ELSE "take") /\ turn'.msg = m
  BY <1>2 DEF Types, TurnRec
<1>4. Pending' = Pending /\ Pending \in Seq(Voiced)
  BY <1>2, PendingSeq DEF Pending, InFwd, InReader
<1>5. early = <<>> /\ later = Pieces(m) \o (Flat(Pending) \o lost) /\ Alive
  BY <1>1, <1>2 DEF Account, Alive, ThisText, Ahead
<1> HIDE DEF m
<1> DEFINE r == <<m.no, "reasoning">>
<1>6. m.no \in 1 .. MaxMsgs /\ r \in Piece /\ <<r>> \in Seq(Piece) /\ r # Notice
      /\ <<<<m.no, "text">>>> \in Seq(Piece)
  BY <1>2, PiecesAre, PieceFacts, OneSeq
<1>7. PICK e \in Seq(Piece) : e = IF Speaks(m) THEN <<<<m.no, "text">>>> ELSE <<>>
  BY <1>6, EmptySeq
<1>8. Pieces(m) = <<r>> \o e /\ ThisText' = e /\ Ahead' = <<>> /\ Alive'
  <2>1. Pieces(m) = <<r>> \o e
    BY <1>2, <1>7, PiecesAre
  <2>2. ThisText' = e /\ Ahead' = <<>>
    BY <1>3, <1>7 DEF ThisText, Ahead
  <2> QED
    BY <1>3, <2>1, <2>2 DEF Alive
<1>9. Sent(fell)' = Sent(fell) \o <<r>> /\ Sent(fell) \in Seq(Piece)
  BY <1>2, <1>6, SentGrows, BodyOne, SentSeq
<1>10. PICK next \in Seq(Piece) : next = Flat(Pending) \o lost
  <2>1. Flat(Pending) \in Seq(Piece)
    BY <1>4, FlatSeq
  <2> QED
    BY <2>1, ConcatProperties
<1>11. PICK s \in Seq(Piece), u \in Seq(Piece), x \in Seq(Piece) :
          s = Sent(fell) /\ u = Sent(fell)' /\ x = <<r>>
  BY <1>6, <1>9, ConcatProperties
<1> HIDE DEF r
<1>12. said' = (u \o e) \o next
  <2>1. said' = (s \o <<>>) \o ((x \o e) \o next)
    BY <1>1, <1>2, <1>5, <1>8, <1>10, <1>11 DEF Account
  <2>2. s \o <<>> = s
    BY ConcatEmptySeq
  <2>3. PICK n \in Seq(Piece) : n = e \o next
    BY ConcatProperties
  <2>4. Regroups(x, e, next) /\ Regroups(s, x, n) /\ Regroups(u, e, next)
    BY <1>7, <1>10, <1>11, <2>3, PiecesAssoc
  <2>5. u = s \o x
    BY <1>9, <1>11
  <2> QED
    BY <2>1, <2>2, <2>3, <2>4, <2>5 DEF Regroups
<1>13. written' = TextOf(u \o e)
  <2>1. written = TextOf(s)
    BY <1>1, <1>5, <1>11, ConcatEmptySeq DEF Account
  <2>2. TextOf(u) = TextOf(s)
    BY <1>6, <1>9, <1>11, TextGrows DEF r
  <2>3. CASE Speaks(m)
    BY <1>2, <1>6, <1>7, <2>1, <2>2, <2>3, TextGrows DEF Collect
  <2>4. CASE ~Speaks(m)
    BY <1>2, <1>7, <2>1, <2>2, <2>4, ConcatEmptySeq DEF Collect
  <2> QED
    BY <2>3, <2>4
<1>14. /\ ctx' = "live" \/ reader'.at # "gone" => lost = <<>>
       /\ handler'.at = "send" => fell = <<handler'.piece>>
       /\ handler'.at \in {"take", "ok"} => fell = <<>>
  BY <1>1, <1>2, <1>5 DEF Account
<1>15. next = Ahead' \o (Flat(Pending') \o lost)
  BY <1>4, <1>8, <1>10, ConcatEmptySeq
<1> QED
  BY <1>8, <1>11, <1>12, <1>13, <1>14, <1>15, Accounted

LEMMA TurnTextAccounts == ASSUME Types, Control, Accounts, TurnText PROVE Accounts'
<1>1. PICK fell, early, later, lost \in Seq(Piece) : Account(fell, early, later, lost)
  BY DEF Accounts
<1> DEFINE p == <<turn.msg.no, "text">>
<1>2. turn.msg \in Msgs /\ turn.msg.no \in 1 .. MaxMsgs
  BY PiecesAre DEF TurnText, Types, Voiced
<1>3. p \in Piece /\ p # Notice /\ <<p>> \in Seq(Piece)
  BY <1>2, PieceFacts, OneSeq
<1>4. /\ clientChan' = Append(clientChan, p) /\ turn.at = "text" /\ turn'.at = "take"
      /\ UNCHANGED <<ctx, msgs, said, reader, output, fwd, out, written, row, handler, shown>>
  BY DEF TurnText, Types, TurnRec
<1>5. early = <<p>> /\ later = Ahead \o (Flat(Pending) \o lost) /\ Ahead = <<>>
  BY <1>1, <1>4 DEF Account, Alive, ThisText, Ahead
<1> HIDE DEF p
<1>6. Alive' /\ ThisText' = <<>> /\ Ahead' = <<>> /\ Pending' = Pending /\ Alive
  BY <1>4 DEF Alive, ThisText, Ahead, Pending, InFwd, InReader
<1>7. Sent(fell)' = Sent(fell) \o early /\ Sent(fell) \in Seq(Piece)
  BY <1>3, <1>4, <1>5, SentGrows, BodyOne, SentSeq
<1>8. Sent(fell)' \o <<>> = Sent(fell) \o early
  <2>1. Sent(fell) \o early \in Seq(Piece)
    BY <1>7, ConcatProperties
  <2> QED
    BY <1>7, <2>1, ConcatEmptySeq
<1>9. said' = (Sent(fell)' \o <<>>) \o later /\ written' = TextOf(Sent(fell)' \o <<>>)
  BY <1>1, <1>4, <1>8 DEF Account
<1>10. /\ ctx' = "live" \/ reader'.at # "gone" => lost = <<>>
       /\ handler'.at = "send" => fell = <<handler'.piece>>
       /\ handler'.at \in {"take", "ok"} => fell = <<>>
  BY <1>1, <1>4, <1>6 DEF Account
<1>11. <<>> \in Seq(Piece)
  BY EmptySeq
<1> QED
  BY <1>1, <1>5, <1>6, <1>9, <1>10, <1>11, Accounted

LEMMA TurnEndAccounts == ASSUME Types, Control, Accounts, TurnEnd PROVE Accounts'
<1>1. PICK fell, early, later, lost \in Seq(Piece) : Account(fell, early, later, lost)
  BY DEF Accounts
<1>2. Alive /\ ThisText = <<>> /\ Ahead = <<>> /\ ~Alive'
  BY DEF Alive, ThisText, Ahead, TurnEnd, Types, TurnRec
<1>3. Flat(Pending) = <<>>
  <2>1. out = <<>> /\ InFwd = <<>> /\ output = <<>> /\ InReader = <<>>
    BY DEF TurnEnd, Control, InFwd, InReader
  <2>2. Pending = <<>>
    BY <2>1 DEF Pending
  <2> QED
    BY <2>2, FlatEmpty
<1>4. early = <<>> /\ (ctx = "live" => later = <<>>)
  BY <1>1, <1>2, <1>3 DEF Account
<1>5. Sent(fell)' = Sent(fell)
  BY DEF Sent, TurnEnd
<1> QED
  BY <1>1, <1>2, <1>4, <1>5, Kept DEF TurnEnd, Account

LEMMA TurnQuitAccounts == ASSUME Types, Control, Accounts, TurnQuit PROVE Accounts'
<1>1. PICK fell, early, later, lost \in Seq(Piece) : Account(fell, early, later, lost)
  BY DEF Accounts
<1>2. ~Alive' /\ Sent(fell)' = Sent(fell)
  BY DEF Alive, Sent, TurnQuit, Types, TurnRec
<1> QED
  BY <1>1, <1>2, Kept DEF TurnQuit, Account

LEMMA TurnCloseAccounts == ASSUME Types, Control, Accounts, TurnClose PROVE Accounts'
<1>1. PICK fell, early, later, lost \in Seq(Piece) : Account(fell, early, later, lost)
  BY DEF Accounts
<1>2. ~Alive' /\ ~Alive /\ Sent(fell)' = Sent(fell)
  BY DEF Alive, Sent, TurnClose, Types, TurnRec
<1> QED
  BY <1>1, <1>2, Kept DEF TurnClose, Account

LEMMA TurnSaveAccounts == ASSUME Types, Control, Accounts, TurnSave PROVE Accounts'
<1>1. PICK fell, early, later, lost \in Seq(Piece) : Account(fell, early, later, lost)
  BY DEF Accounts
<1>2. ~Alive' /\ ~Alive /\ Sent(fell)' = Sent(fell)
  BY DEF Alive, Sent, TurnSave, Types, TurnRec
<1> QED
  BY <1>1, <1>2, Kept DEF TurnSave, Account

LEMMA TurnSaveFailsAccounts == ASSUME Types, Control, Accounts, TurnSaveFails PROVE Accounts'
<1>1. PICK fell, early, later, lost \in Seq(Piece) : Account(fell, early, later, lost)
  BY DEF Accounts
<1>2. ~Alive' /\ ~Alive /\ Sent(fell)' = Sent(fell)
  BY DEF Alive, Sent, TurnSaveFails, Types, TurnRec
<1> QED
  BY <1>1, <1>2, Kept DEF TurnSaveFails, Account

LEMMA TurnAccounts == ASSUME Types, Control, Accounts, Turn PROVE Accounts'
BY TurnNoticeAccounts, TurnTakeAccounts, TurnReasonAccounts, TurnTextAccounts,
   TurnQuitAccounts, TurnEndAccounts, TurnCloseAccounts, TurnSaveAccounts,
   TurnSaveFailsAccounts DEF Turn

-----------------------------------------------------------------------------
(* The handler *)

LEMMA HandlerTakeAccounts == ASSUME Types, Control, Accounts, HandlerTake PROVE Accounts'
<1>1. PICK fell, early, later, lost \in Seq(Piece) : Account(fell, early, later, lost)
  BY DEF Accounts
<1>2. PICK p \in Piece : /\ p = Head(clientChan) /\ <<p>> \in Seq(Piece)
                        /\ clientChan = <<p>> \o Tail(clientChan)
  <2>1. /\ Head(clientChan) \in Piece
        /\ clientChan = <<Head(clientChan)>> \o Tail(clientChan)
    BY HeadTailProperties DEF HandlerTake, Types
  <2>2. <<Head(clientChan)>> \in Seq(Piece)
    BY <2>1, OneSeq
  <2> QED
    BY <2>1, <2>2
<1>3. /\ clientChan' = Tail(clientChan) /\ handler.at = "take"
      /\ handler' = [at |-> "send", piece |-> p]
      /\ UNCHANGED <<ctx, msgs, said, reader, output, fwd, out, turn, written, row, shown>>
  BY <1>2 DEF HandlerTake
<1>4. fell = <<>>
  BY <1>1, <1>3 DEF Account
<1>5. PICK held \in Seq(Piece) : held = <<p>> /\ Sent(held)' = Sent(fell)
  <2>1. <<>> \o clientChan = <<p>> \o clientChan'
    BY <1>2, <1>3, ConcatEmptySeq DEF Types
  <2>2. Sent(<<p>>)' = Sent(fell)
    BY <1>3, <1>4, <2>1 DEF Sent
  <2> QED
    BY <1>2, <2>2
<1>6. /\ Pending' = Pending /\ ThisText' = ThisText /\ Ahead' = Ahead /\ (Alive' <=> Alive)
  BY <1>3 DEF Pending, InFwd, InReader, ThisText, Ahead, Alive
<1>7. /\ said' = (Sent(held)' \o early) \o later
      /\ written' = TextOf(Sent(held)' \o early)
      /\ Alive' => early = ThisText' /\ later = Ahead' \o (Flat(Pending') \o lost)
  BY <1>1, <1>3, <1>5, <1>6 DEF Account
<1>8. /\ ctx' = "live" \/ (Alive' /\ reader'.at # "gone") => lost = <<>>
      /\ ctx' = "live" /\ ~Alive' => early = <<>> /\ later = <<>>
  BY <1>1, <1>3, <1>6 DEF Account
<1>9. handler'.at = "send" /\ held = <<handler'.piece>>
  BY <1>3, <1>5
<1> QED
  BY <1>1, <1>5, <1>7, <1>8, <1>9, Accounted

LEMMA HandlerSendAccounts == ASSUME Types, Control, Accounts, HandlerSend PROVE Accounts'
<1>1. PICK fell, early, later, lost \in Seq(Piece) : Account(fell, early, later, lost)
  BY DEF Accounts
<1>2. /\ fell = <<handler.piece>> /\ handler.piece \in Piece
      /\ shown' = Append(shown, handler.piece) /\ handler'.at = "take"
      /\ UNCHANGED <<ctx, msgs, said, reader, output, fwd, out, turn, written, clientChan, row>>
  BY <1>1 DEF Account, HandlerSend, Types, HandlerRec
<1>3. <<>> \in Seq(Piece) /\ Sent(<<>>)' = Sent(fell)
  <2>1. PICK q \in Seq(Piece), p \in Piece, r \in Seq(Piece) :
           q = shown /\ p = handler.piece /\ r = clientChan
    BY <1>2 DEF Types
  <2>2. PutsOne(q, p, r)
    BY <2>1, PiecesPut
  <2>3. <<>> \o r = r
    BY ConcatEmptySeq
  <2> QED
    BY <1>2, <2>1, <2>2, <2>3, EmptySeq DEF Sent, PutsOne
<1>4. /\ Pending' = Pending /\ ThisText' = ThisText /\ Ahead' = Ahead /\ (Alive' <=> Alive)
  BY <1>2 DEF Pending, InFwd, InReader, ThisText, Ahead, Alive
<1>5. /\ said' = (Sent(<<>>)' \o early) \o later
      /\ written' = TextOf(Sent(<<>>)' \o early)
      /\ Alive' => early = ThisText' /\ later = Ahead' \o (Flat(Pending') \o lost)
  BY <1>1, <1>2, <1>3, <1>4 DEF Account
<1>6. /\ ctx' = "live" \/ (Alive' /\ reader'.at # "gone") => lost = <<>>
      /\ ctx' = "live" /\ ~Alive' => early = <<>> /\ later = <<>>
  BY <1>1, <1>2, <1>4 DEF Account
<1> QED
  BY <1>1, <1>2, <1>3, <1>5, <1>6, Accounted

LEMMA HandlerFinalAccounts == ASSUME Types, Control, Accounts, HandlerFinal PROVE Accounts'
<1>1. PICK fell, early, later, lost \in Seq(Piece) : Account(fell, early, later, lost)
  BY DEF Accounts
<1>2. ~Alive' /\ ~Alive /\ Sent(fell)' = Sent(fell)
  BY DEF Alive, Sent, HandlerFinal
<1>3. handler'.at = "ok" /\ fell = <<>>
  BY <1>1 DEF HandlerFinal, Types, HandlerRec, Account
<1> QED
  BY <1>1, <1>2, <1>3, Kept DEF HandlerFinal, Account

LEMMA HandlerFailAccounts == ASSUME Types, Control, Accounts, HandlerFail PROVE Accounts'
<1>1. PICK fell, early, later, lost \in Seq(Piece) : Account(fell, early, later, lost)
  BY DEF Accounts
<1>2. /\ Pending' = Pending /\ ThisText' = ThisText /\ Ahead' = Ahead /\ (Alive' <=> Alive)
      /\ Sent(fell)' = Sent(fell)
  BY DEF Pending, InFwd, InReader, ThisText, Ahead, Alive, Sent, HandlerFail
<1>3. handler'.at = "failed" /\ ctx' = ctx /\ ctx = "cancelled"
  BY DEF HandlerFail, Types, HandlerRec
<1> QED
  BY <1>1, <1>2, <1>3, Kept DEF HandlerFail, Account

LEMMA HandlerAccounts == ASSUME Types, Control, Accounts, Handler PROVE Accounts'
BY HandlerTakeAccounts, HandlerSendAccounts, HandlerFinalAccounts, HandlerFailAccounts
   DEF Handler

LEMMA AccountsInit == Init => Accounts
<1> SUFFICES ASSUME Init PROVE Accounts
  OBVIOUS
<1>1. PICK k \in Kinds, done \in BOOLEAN :
          /\ said = Pieces([no |-> 1, kind |-> k])
          /\ reader = [at |-> IF k = "blank" /\ done THEN "gone" ELSE Received([no |-> 1, kind |-> k]),
                       msg |-> [no |-> 1, kind |-> k], done |-> done]
  BY DEF Init
<1> DEFINE m == [no |-> 1, kind |-> k]
<1>2. m \in Msgs /\ m.kind = k
  BY MsgsAssumption DEF Msgs
<1>3. said = Pieces(m) /\ reader = [at |-> IF k = "blank" /\ done THEN "gone" ELSE Received(m),
                                    msg |-> m, done |-> done]
  BY <1>1
<1> HIDE DEF m
<1>4. /\ Alive /\ ThisText = <<>> /\ Ahead = <<>> /\ handler.at = "take"
      /\ shown = <<>> /\ clientChan = <<>> /\ written = <<>>
      /\ out = <<>> /\ output = <<>> /\ InFwd = <<>>
  BY DEF Init, Alive, ThisText, Ahead, InFwd
<1>5. said \in Seq(Piece) /\ <<>> \in Seq(Piece)
  BY <1>2, <1>3, PiecesSeq, EmptySeq
<1>6. Flat(Pending) = said
  <2>1. CASE k = "blank"
    <3>1. InReader = <<>> /\ said = <<>>
      BY <1>2, <1>3, <2>1, PiecesAre DEF InReader, Received
    <3>2. Pending = <<>>
      BY <1>4, <3>1 DEF Pending
    <3> QED
      BY <3>1, <3>2, FlatEmpty
  <2>2. CASE k # "blank"
    <3>1. InReader = <<m>> /\ m \in Voiced
      BY <1>2, <1>3, <2>2 DEF InReader, Received, Voiced
    <3>2. Pending = <<m>>
      BY <1>4, <3>1 DEF Pending
    <3> QED
      BY <1>3, <3>1, <3>2, FlatOne
  <2> QED
    BY <2>1, <2>2
<1>7. Sent(<<>>) = <<>>
  <2>1. <<>> \o (<<>> \o <<>>) = <<>>
    OBVIOUS
  <2> QED
    BY <1>4, <2>1, BodyEmpty DEF Sent
<1>8. <<>> \o <<>> = <<>> /\ <<>> \o said = said /\ said \o <<>> = said
  BY <1>5, ConcatEmptySeq
<1>9. Account(<<>>, <<>>, said, <<>>)
  BY <1>4, <1>6, <1>7, <1>8, TextEmpty DEF Account
<1> QED
  BY <1>5, <1>9 DEF Accounts

LEMMA AccountsNext == ASSUME Types, Control, Accounts, [Next]_vars PROVE Accounts'
BY ReaderAccounts, ForwarderAccounts, TurnAccounts, HandlerAccounts, CancelAccounts,
   StutterAccounts DEF Next, Over

-----------------------------------------------------------------------------
(* The final message *)

LEMMA BlankIsNotReturned == Init => FinalIsWhole
BY DEF Init, FinalIsWhole

LEMMA FinalNext == ASSUME IInv, [Next]_vars PROVE FinalIsWhole'
<1> SUFFICES ASSUME ctx' = "returned"
             PROVE  reader'.at = "gone" /\ Body(shown') = said'
  BY DEF FinalIsWhole
<1>1. CASE ctx = "returned"
  <2>1. reader.at = "gone" /\ Body(shown) = said /\ handler.at = "ok" /\ clientChan = <<>>
    BY <1>1 DEF IInv, FinalIsWhole, Control
  <2>2. UNCHANGED <<reader, said, shown>>
    BY <1>1, <2>1 DEF Next, vars, Over, Cancel, Reader, ReaderPut, ReaderQuit, Recv, RecvErr,
       Forwarder, FwdTake, FwdPut, FwdEnd, Turn, TurnNotice, TurnTake, TurnReason, TurnText,
       TurnQuit, TurnEnd, TurnClose, TurnSave, TurnSaveFails, Handler, HandlerTake, HandlerSend,
       HandlerFinal, HandlerFail
  <2> QED
    BY <2>1, <2>2
<1>2. CASE ctx # "returned"
  <2>1. HandlerFinal
    BY <1>2 DEF Next, vars, Over, Cancel, Reader, ReaderPut, ReaderQuit, Recv, RecvErr,
       Forwarder, FwdTake, FwdPut, FwdEnd, Turn, TurnNotice, TurnTake, TurnReason, TurnText,
       TurnQuit, TurnEnd, TurnClose, TurnSave, TurnSaveFails, Handler, HandlerTake, HandlerSend,
       HandlerFinal, HandlerFail
  <2>2. PICK fell, early, later, lost \in Seq(Piece) : Account(fell, early, later, lost)
    BY DEF IInv, Accounts
  <2>3. /\ ctx = "live" /\ ~Alive /\ clientChan = <<>> /\ handler.at = "take"
        /\ UNCHANGED <<reader, said, shown>>
    BY <1>2, <2>1 DEF HandlerFinal, Alive
  <2>4. reader.at = "gone" /\ fell = <<>> /\ early = <<>> /\ later = <<>>
    BY <2>2, <2>3 DEF IInv, Control, Account
  <2>5. shown \in Seq(Piece) /\ Body(shown) \in Seq(Piece)
    BY BodySeq DEF IInv, Types
  <2>6. shown \o (<<>> \o <<>>) = shown /\ (Body(shown) \o <<>>) \o <<>> = Body(shown)
    BY <2>5, ConcatEmptySeq
  <2>7. said = Body(shown)
    BY <2>2, <2>3, <2>4, <2>6 DEF Account, Sent
  <2> QED
    BY <2>3, <2>4, <2>7
<1> QED
  BY <1>1, <1>2

(* Inductive: every state of every behaviour accounts for all pieces of the
   answer: what the runner has said is what was sent, what the turn holds, what
   lies in the channels, and, of a cancelled call only, what was dropped. *)
THEOREM Inductive == Spec => []IInv
<1>1. Init => IInv
  BY TypesInit, ControlInit, AccountsInit, BlankIsNotReturned DEF IInv
<1>2. IInv /\ [Next]_vars => IInv'
  <2> SUFFICES ASSUME IInv, [Next]_vars PROVE IInv'
    OBVIOUS
  <2>1. Types /\ Control /\ Accounts
    BY DEF IInv
  <2> QED
    BY <2>1, TypesNext, ControlNext, AccountsNext, FinalNext DEF IInv
<1> QED
  BY <1>1, <1>2, PTL DEF Spec

(* FinalIsWhole: a final message sent to a client that had not left means that
   it was shown all that the runner said, and that the runner had ended. *)
THEOREM FinalAfterAll == Spec => []FinalIsWhole
<1>1. IInv => FinalIsWhole
  BY DEF IInv
<1> QED
  BY <1>1, Inductive, PTL

(* TypeOK: no channel holds more than its capacity, and whatever is sent, shown
   or written is made of pieces of the runner's messages and of the notice. *)
THEOREM Typing == Spec => []TypeOK
<1>1. ASSUME NEW q \in Seq(Voiced), Len(q) <= Cap
      PROVE  q \in Queue
  <2>1. Len(q) \in 0 .. Cap /\ q \in [1 .. Len(q) -> Msgs]
    BY <1>1, LenProperties, ElementOfSeq, CapAssumption DEF Voiced
  <2> QED
    BY <2>1 DEF Queue
<1>2. ASSUME NEW s \in Seq(Piece)
      PROVE  \A i \in DOMAIN s : IsPiece(s[i])
  BY LenProperties, ElementOfSeq DEF Piece, IsPiece
<1>3. Types => TypeOK
  <2> SUFFICES ASSUME Types PROVE TypeOK
    OBVIOUS
  <2>1. output \in Queue /\ out \in Queue
    BY <1>1 DEF Types
  <2>2. \A s \in {said, written, clientChan, row, shown} : \A i \in DOMAIN s : IsPiece(s[i])
    BY <1>2 DEF Types
  <2> QED
    BY <2>1, <2>2 DEF Types, TypeOK, ReaderRec, FwdRec, TurnRec, HandlerRec, Piece, IsPiece
<1> QED
  BY <1>3, Inductive, PTL DEF IInv

-----------------------------------------------------------------------------
(* The refinement *)

LEMMA Begins ==
    ASSUME NEW a \in Seq(Piece), NEW b \in Seq(Piece)
    PROVE  /\ Relay!IsPrefix(a, a \o b)
           /\ Len(a) \in 0 .. Len(a \o b) /\ a = SubSeq(a \o b, 1, Len(a))
<1>1. /\ a \o b \in Seq(Piece) /\ Len(a \o b) = Len(a) + Len(b) /\ Len(a) \in Nat /\ Len(b) \in Nat
      /\ \A i \in 1 .. Len(a) : (a \o b)[i] = a[i]
  BY ConcatProperties, LenProperties
<1>2. Len(a) \in 0 .. Len(a \o b)
  BY <1>1
<1>3. a = SubSeq(a \o b, 1, Len(a))
  <2>1. /\ SubSeq(a \o b, 1, Len(a)) \in Seq(Piece) /\ Len(SubSeq(a \o b, 1, Len(a))) = Len(a)
        /\ \A i \in 1 .. Len(a) : SubSeq(a \o b, 1, Len(a))[i] = (a \o b)[1 + i - 1]
    BY <1>1, <1>2, SubSeqProperties
  <2>2. \A i \in 1 .. Len(a) : SubSeq(a \o b, 1, Len(a))[i] = a[i]
    BY <1>1, <2>1
  <2> QED
    BY <2>1, <2>2, SeqEqual
<1>4. SubSeq(a, 1, Len(a)) = a
  BY <1>1
<1> QED
  BY <1>1, <1>2, <1>3, <1>4 DEF Relay!IsPrefix

LEMMA KeepsItem ==
    ASSUME NEW s \in Seq(Piece), NEW t \in Seq(Piece), NEW i \in 1 .. Len(s)
    PROVE  (s \o t)[i] = s[i] /\ i \in 1 .. Len(s \o t) /\ s \o t \in Seq(Piece)
BY ConcatProperties, LenProperties

LEMMA HasNext ==
    ASSUME NEW s \in Seq(Piece), NEW p \in Piece, NEW c \in Seq(Piece)
    PROVE  /\ s \o (<<p>> \o c) \in Seq(Piece)
           /\ Len(s) + 1 \in 1 .. Len(s \o (<<p>> \o c)) /\ (s \o (<<p>> \o c))[Len(s) + 1] = p
<1>1. PICK x \in Seq(Piece) : x = <<p>>
  BY OneSeq
<1>2. PICK t \in Seq(Piece) : t = x \o c
  BY ConcatProperties
<1>3. Len(x) = 1 /\ x[1] = p
  BY <1>1
<1>4. Len(t) = 1 + Len(c) /\ Len(c) \in Nat /\ t[1] = p
  <2>1. /\ Len(x \o c) = Len(x) + Len(c) /\ Len(c) \in Nat
        /\ \A i \in 1 .. Len(x) + Len(c) : (x \o c)[i] = IF i <= Len(x) THEN x[i] ELSE c[i - Len(x)]
    BY ConcatProperties, LenProperties
  <2>2. 1 \in 1 .. Len(x) + Len(c) /\ 1 <= Len(x)
    BY <1>3, <2>1
  <2> QED
    BY <1>2, <1>3, <2>1, <2>2
<1>5. /\ s \o t \in Seq(Piece) /\ Len(s \o t) = Len(s) + Len(t) /\ Len(s) \in Nat
      /\ \A i \in 1 .. Len(s) + Len(t) : (s \o t)[i] = IF i <= Len(s) THEN s[i] ELSE t[i - Len(s)]
  BY ConcatProperties, LenProperties
<1>6. /\ Len(s) + 1 \in 1 .. Len(s) + Len(t) /\ ~(Len(s) + 1 <= Len(s))
      /\ Len(s) + 1 - Len(s) = 1
  BY <1>4, <1>5
<1>7. (s \o t)[Len(s) + 1] = t[1]
  BY <1>5, <1>6
<1> QED
  BY <1>1, <1>2, <1>4, <1>5, <1>6, <1>7

LEMMA InitIsInit == Init => Relay!Init
<1> SUFFICES ASSUME Init PROVE Relay!Init
  OBVIOUS
<1> DEFINE batches == {Pieces([no |-> n, kind |-> k]) : n \in 1 .. MaxMsgs, k \in Kinds}
<1>1. said \in batches
  <2>1. PICK k \in Kinds : said = Pieces([no |-> 1, kind |-> k])
    BY DEF Init
  <2>2. 1 \in 1 .. MaxMsgs
    BY MsgsAssumption
  <2> QED
    BY <2>1, <2>2
<1>2. Body(shown) = <<>> /\ row = <<>>
  BY BodyEmpty DEF Init
<1>3. Fate = "draft"
  BY DEF Init, Fate
<1> HIDE DEF batches
<1>4. Relay!Init <=> said \in batches /\ Body(shown) = <<>> /\ row = <<>> /\ Fate = "draft"
  BY DEF Relay!Init, batches
<1> QED
  BY <1>1, <1>2, <1>3, <1>4

LEMMA RecvIsSay ==
    ASSUME Types, NEW k \in Kinds, NEW done \in BOOLEAN, Recv(k, done)
    PROVE  Relay!Say
<1> DEFINE batches == {Pieces([no |-> n, kind |-> x]) : n \in 1 .. MaxMsgs, x \in Kinds}
<1>1. Pieces([no |-> msgs + 1, kind |-> k]) \in batches
  <2>1. msgs + 1 \in 1 .. MaxMsgs
    BY MsgsAssumption DEF Recv, Types
  <2> QED
    BY <2>1
<1>2. said' = said \o Pieces([no |-> msgs + 1, kind |-> k])
      /\ UNCHANGED <<shown, row, turn, written>>
  BY DEF Recv
<1> HIDE DEF batches
<1>3. said' \in {said \o b : b \in batches}
  BY <1>1, <1>2
<1>4. UNCHANGED <<Body(shown), row, Fate>>
  BY <1>2 DEF Fate
<1> QED
  BY <1>3, <1>4 DEF Relay!Say, batches

\* What was sent begins with what was shown.
LEMMA SentBegins ==
    ASSUME Types, NEW fell \in Seq(Piece)
    PROVE  \E c \in Seq(Piece) : Sent(fell) = Body(shown) \o (Body(fell) \o c)
<1>1. shown \in Seq(Piece) /\ clientChan \in Seq(Piece) /\ fell \o clientChan \in Seq(Piece)
  BY ConcatProperties DEF Types
<1>2. Sent(fell) = Body(shown) \o Body(fell \o clientChan)
  BY <1>1, BodyConcat DEF Sent
<1>3. Body(fell \o clientChan) = Body(fell) \o Body(clientChan) /\ Body(clientChan) \in Seq(Piece)
  BY <1>1, BodyConcat, BodySeq
<1> QED
  BY <1>2, <1>3

\* The turn ends with the row having what was collected: it was written, or the
\* write failed and nothing was collected.
Stores ==
    /\ turn.at = "save" /\ turn' = [turn EXCEPT !.at = "gone"] /\ row' = written
    /\ UNCHANGED <<said, shown, written>>

LEMMA StoreIsWrite ==
    ASSUME IInv, Stores
    PROVE  Relay!Write
<1>0. Types /\ Accounts
  BY DEF IInv
<1>1. PICK fell, early, later, lost \in Seq(Piece) : Account(fell, early, later, lost)
  BY <1>0 DEF Accounts
<1>2. PICK s \in Seq(Piece), w \in Seq(Piece) :
         s = Sent(fell) \o early /\ w = written /\ w = TextOf(s) /\ said = s \o later
  <2>1. Sent(fell) \o early \in Seq(Piece)
    <3>1. Sent(fell) \in Seq(Piece)
      BY <1>0, SentSeq
    <3> QED
      BY <3>1, ConcatProperties
  <2> QED
    BY <1>0, <1>1, <2>1 DEF Account, Types
<1>3. PICK x \in Seq(Piece) : x = TextOf(later) /\ TextOf(said) = w \o x
  <2>1. TextOf(s \o later) = TextOf(s) \o TextOf(later) /\ TextOf(later) \in Seq(Piece)
    BY TextSeq, TextConcat
  <2> QED
    BY <1>2, <2>1
<1>4. Len(w) \in 0 .. Len(TextOf(said)) /\ w = SubSeq(TextOf(said), 1, Len(w))
  BY <1>3, Begins
<1>5. Relay!IsPrefix(TextOf(Body(shown)), w)
  <2>1. PICK c \in Seq(Piece) : Sent(fell) = Body(shown) \o (Body(fell) \o c)
    BY <1>0, SentBegins
  <2>2. PICK b \in Seq(Piece), d \in Seq(Piece) : b = Body(shown) /\ d = Body(fell) \o c
    <3>1. Body(shown) \in Seq(Piece) /\ Body(fell) \in Seq(Piece)
      BY <1>0, BodySeq DEF Types
    <3>2. Body(fell) \o c \in Seq(Piece)
      BY <3>1, ConcatProperties
    <3> QED
      BY <3>1, <3>2
  <2>3. Regroups(b, d, early)
    BY <2>2, PiecesAssoc
  <2>4. PICK rest \in Seq(Piece) : rest = d \o early
    BY ConcatProperties
  <2>5. w = TextOf(b \o rest)
    BY <1>2, <2>1, <2>2, <2>3, <2>4 DEF Regroups
  <2>6. TextOf(b \o rest) = TextOf(b) \o TextOf(rest) /\ TextOf(b) \in Seq(Piece) /\ TextOf(rest) \in Seq(Piece)
    BY TextConcat, TextSeq
  <2>7. Relay!IsPrefix(TextOf(b), TextOf(b) \o TextOf(rest))
    BY <2>6, Begins
  <2> QED
    BY <2>2, <2>5, <2>6, <2>7
<1>6. /\ Fate = "draft" /\ Fate' = "stored" /\ row' = w
      /\ UNCHANGED <<said, Body(shown)>>
  BY <1>0, <1>2 DEF Stores, Types, TurnRec, Fate
<1>7. row' \in {SubSeq(TextOf(said), 1, n) : n \in 0 .. Len(TextOf(said))}
  BY <1>4, <1>6
<1>8. Relay!IsPrefix(TextOf(Body(shown)), row')
  BY <1>5, <1>6
<1> QED
  BY <1>6, <1>7, <1>8 DEF Relay!Write, TextOf

LEMMA SaveIsWrite ==
    ASSUME IInv, TurnSave
    PROVE  Relay!Write
BY StoreIsWrite DEF TurnSave, Stores

LEMMA SaveFailsIsLose ==
    ASSUME IInv, TurnSaveFails
    PROVE  Relay!Write \/ Relay!Lose
<1>1. CASE row = written
  <2>1. Stores
    BY <1>1 DEF TurnSaveFails, Stores
  <2> QED
    BY <2>1, StoreIsWrite
<1>2. CASE row # written
  <2>1. Fate = "draft" /\ Fate' = "lost"
    BY <1>2 DEF TurnSaveFails, Fate, IInv, Types, TurnRec
  <2>2. UNCHANGED <<said, Body(shown), row>>
    BY DEF TurnSaveFails
  <2> QED
    BY <2>1, <2>2 DEF Relay!Lose
<1> QED
  BY <1>1, <1>2

LEMMA SendIsShow ==
    ASSUME IInv, HandlerSend
    PROVE  Relay!Show \/ UNCHANGED <<said, Body(shown), row, Fate>>
<1>0. Types /\ Control /\ Accounts
  BY DEF IInv
<1>1. PICK fell, early, later, lost \in Seq(Piece) : Account(fell, early, later, lost)
  BY <1>0 DEF Accounts
<1>2. PICK p \in Piece : p = handler.piece
  BY <1>0 DEF Types, HandlerRec
<1>3. /\ fell = <<p>> /\ shown' = Append(shown, p)
      /\ UNCHANGED <<said, row, turn, written>>
  BY <1>1, <1>2 DEF Account, HandlerSend
<1>4. Body(shown') = Body(shown) \o Body(<<p>>) /\ Body(shown) \in Seq(Piece)
  <2>1. shown \in Seq(Piece) /\ <<p>> \in Seq(Piece) /\ Append(shown, p) = shown \o <<p>>
    BY <1>0, OneSeq, AppendIsConcat DEF Types
  <2> QED
    BY <1>3, <2>1, BodyConcat, BodySeq
<1>5. CASE p = Notice
  <2>1. Body(<<p>>) = <<>>
    BY <1>5, BodyOne
  <2>2. Fate' = Fate
    BY <1>3 DEF Fate
  <2> QED
    BY <1>3, <1>4, <2>1, <2>2, ConcatEmptySeq
<1>6. CASE p # Notice
  <2>1. Body(<<p>>) = <<p>>
    BY <1>6, BodyOne
  <2>2. PICK c \in Seq(Piece) : Sent(fell) = Body(shown) \o (<<p>> \o c)
    BY <1>0, <1>3, <2>1, SentBegins
  <2>3. PICK b \in Seq(Piece) : b = Body(shown)
    BY <1>4
  <2>4. PICK s \in Seq(Piece) : /\ s = b \o (<<p>> \o c) /\ s = Sent(fell)
                               /\ Len(b) + 1 \in 1 .. Len(s) /\ s[Len(b) + 1] = p
    BY <2>2, <2>3, HasNext
  <2>5. PICK t \in Seq(Piece) : /\ t = s \o early
                               /\ Len(b) + 1 \in 1 .. Len(t) /\ t[Len(b) + 1] = p
    BY <2>4, KeepsItem
  <2>6. said = t \o later /\ written = TextOf(t)
    BY <1>1, <2>4, <2>5 DEF Account
  <2>7. Len(b) + 1 \in 1 .. Len(t \o later) /\ (t \o later)[Len(b) + 1] = p
    BY <2>5, KeepsItem
  <2>8. Len(b) < Len(said) /\ said[Len(b) + 1] = p
    <3>1. Len(b) \in Nat /\ Len(b) + 1 \in 1 .. Len(said) /\ Len(said) \in Nat
      BY <1>0, <2>6, <2>7, LenProperties DEF Types
    <3> QED
      BY <2>6, <2>7, <3>1
  <2>9. PICK x \in Seq(Piece) : x = <<p>>
    BY OneSeq
  <2>10. PICK d \in Seq(Piece), rest \in Seq(Piece) : d = x \o c /\ rest = c \o early
    BY ConcatProperties
  <2>11. t = (b \o x) \o rest /\ b \o x \in Seq(Piece)
    <3>1. Regroups(b, d, early) /\ Regroups(x, c, early) /\ Regroups(b, x, rest)
      BY <2>2, <2>3, <2>9, <2>10, PiecesAssoc
    <3>2. b \o x \in Seq(Piece)
      BY <2>3, <2>9, ConcatProperties
    <3> QED
      BY <2>4, <2>5, <2>9, <2>10, <3>1, <3>2 DEF Regroups
  <2>12. Body(shown') = b \o x /\ b \o x = Append(b, p)
    BY <1>4, <2>1, <2>3, <2>9, AppendIsConcat
  <2>13. Relay!IsPrefix(TextOf(b \o x), written)
    <3>1. PICK n \in Seq(Piece) : n = b \o x
      BY <2>11
    <3>2. TextOf(n \o rest) = TextOf(n) \o TextOf(rest) /\ TextOf(n) \in Seq(Piece) /\ TextOf(rest) \in Seq(Piece)
      BY TextConcat, TextSeq
    <3>3. Relay!IsPrefix(TextOf(n), TextOf(n) \o TextOf(rest))
      BY <3>2, Begins
    <3> QED
      BY <2>6, <2>11, <3>1, <3>2, <3>3
  <2>14. Fate = "stored" => Relay!IsPrefix(TextOf(Body(shown')), row)
    BY <2>12, <2>13 DEF Fate
  <2>15. Body(shown') = Append(Body(shown), said[Len(Body(shown)) + 1])
    BY <2>3, <2>8, <2>12
  <2>16. Len(Body(shown)) < Len(said)
    BY <2>3, <2>8
  <2>17. UNCHANGED <<said, row, Fate>>
    BY <1>3 DEF Fate
  <2>18. Relay!Show
    BY <2>14, <2>15, <2>16, <2>17 DEF Relay!Show, TextOf
  <2> QED
    BY <2>18
<1> QED
  BY <1>5, <1>6

\* The steps that the abstract answer does not see.
LEMMA OthersStutter ==
    ASSUME Types,
           \/ Cancel \/ Over \/ UNCHANGED vars \/ Forwarder
           \/ ReaderPut \/ ReaderQuit \/ RecvErr
           \/ TurnNotice \/ TurnTake \/ TurnReason \/ TurnText \/ TurnQuit \/ TurnEnd \/ TurnClose
           \/ HandlerTake \/ HandlerFinal \/ HandlerFail
    PROVE  UNCHANGED <<said, Body(shown), row, Fate>>
<1>1. UNCHANGED <<said, shown, row>>
  BY DEF Cancel, Over, vars, Forwarder, FwdTake, FwdPut, FwdEnd, ReaderPut, ReaderQuit, RecvErr,
     TurnNotice, TurnTake, TurnReason, TurnText, TurnQuit, TurnEnd, TurnClose, HandlerTake,
     HandlerFinal, HandlerFail
<1>2. (turn' = turn /\ written' = written) \/ (turn.at # "gone" /\ turn'.at # "gone")
  BY DEF Cancel, Over, vars, Forwarder, FwdTake, FwdPut, FwdEnd, ReaderPut, ReaderQuit, RecvErr,
     TurnNotice, TurnTake, TurnReason, TurnText, TurnQuit, TurnEnd, TurnClose, HandlerTake,
     HandlerFinal, HandlerFail, Types, TurnRec
<1>3. Fate' = Fate
  BY <1>1, <1>2 DEF Fate
<1> QED
  BY <1>1, <1>3

LEMMA StepIsStep ==
    ASSUME IInv, [Next]_vars
    PROVE  Relay!Next \/ UNCHANGED <<said, Body(shown), row, Fate>>
<1>1. Types
  BY DEF IInv
<1>2. ASSUME NEW k \in Kinds, NEW done \in BOOLEAN, Recv(k, done) PROVE Relay!Next
  BY <1>1, <1>2, RecvIsSay DEF Relay!Next
<1>3. ASSUME TurnSave PROVE Relay!Next
  BY <1>3, SaveIsWrite DEF Relay!Next
<1>4. ASSUME HandlerSend
      PROVE  Relay!Next \/ UNCHANGED <<said, Body(shown), row, Fate>>
  BY <1>4, SendIsShow DEF Relay!Next
<1>5. ASSUME TurnSaveFails PROVE Relay!Next
  BY <1>5, SaveFailsIsLose DEF Relay!Next
<1> QED
  BY <1>1, <1>2, <1>3, <1>4, <1>5, OthersStutter DEF Next, Reader, Turn, Handler

(* IsAnswerStream: the pipeline implements AnswerStream.  A message received is
   a Say, a piece other than the notice sent to the client a Show, the row's
   writing a Write, a write that fails with text collected a Lose, and every
   other step of the goroutines is none. *)
THEOREM Implements == Spec => IsAnswerStream
<1>1. Init => Relay!Init
  BY InitIsInit
<1>2. IInv /\ [Next]_vars => [Relay!Next]_<<said, Body(shown), row, Fate>>
  BY StepIsStep
<1>3. IsAnswerStream <=> Relay!Init /\ [][Relay!Next]_<<said, Body(shown), row, Fate>>
  BY DEF IsAnswerStream, Relay!Spec
<1> QED
  BY <1>1, <1>2, <1>3, Inductive, PTL DEF Spec

-----------------------------------------------------------------------------
(* The tool loop, for any prompts, numbers of rounds and tools, and lengths of
   results: what the tools do, what is stored and what the client hears.

   A tool that is no longer waited for may act at any later time, so its row
   has to be there when its round is over, whatever it does: the invariant
   says so of all that work, not only of what has acted. *)

Row == [role : {"assistant", "tool"}, calls : Nat, of : Nat, nth : Nat, ok : BOOLEAN]
States == {"ready", "checked", "running", "ok", "failed"}

LoopTyped ==
    /\ at \in {"cap", "ask", "answer", "tell", "tools", "save", "done", "killed"}
    /\ round \in Nat /\ turnCtx \in {"live", "done"} /\ stop \in BOOLEAN
    /\ calls \in Seq(States) /\ Len(calls) <= MaxCalls /\ rows \in Seq(Row)
    /\ working \subseteq Nat \X Nat /\ effects \subseteq Nat \X Nat

\* Where the tools of the round may be at work.
InRound == at \in {"tools", "save", "done", "killed"}

\* A tool is of the round, or of one that is over and has its row.
Recorded ==
    \A k \in working \cup effects :
       /\ k[1] <= round
       /\ k[1] < round => RowOf(k) # {}
       /\ k[1] = round => InRound /\ k[2] \in DOMAIN calls

\* Who is said to have worked has acted.
Acted ==
    /\ at \in {"tools", "save"} => \A i \in DOMAIN calls : calls[i] = "ok" => Key(i) \in effects
    /\ \A r \in DOMAIN rows : rows[r].role = "tool" /\ rows[r].ok =>
          <<rows[r].of, rows[r].nth>> \in effects

\* The last message is the answer from when it is stored.
IsAnswer == rows # <<>> /\ rows[Len(rows)].role = "assistant" /\ rows[Len(rows)].calls = 0

Heard ==
    /\ at \in {"cap", "ask", "answer", "tools", "save"} => ~IsAnswer
    /\ at = "tell" => IsAnswer
    /\ at \in {"tools", "save"} => calls # <<>>
    /\ HeardRightly

LoopInv == LoopTyped /\ Recorded /\ Acted /\ Heard

LEMMA LoopInvInit == ASSUME LoopInit PROVE LoopInv
<1>1. rows = <<>> /\ working = {} /\ effects = {} /\ at = "cap"
  BY DEF LoopInit
<1>2. LoopTyped
  <2>1. calls \in Seq(States) /\ Len(calls) <= MaxCalls /\ rows \in Seq(Row)
    BY RoundsAssumption DEF LoopInit
  <2> QED
    BY <1>1, <2>1 DEF LoopInit, LoopTyped
<1>3. Recorded
  BY <1>1 DEF Recorded
<1>4. Acted
  BY <1>1 DEF Acted
<1>5. Heard
  BY <1>1 DEF Heard, IsAnswer, HeardRightly
<1> QED
  BY <1>2, <1>3, <1>4, <1>5 DEF LoopInv

\* What a step tells the client; a client that stays is told.
LEMMA SendHeard ==
    ASSUME NEW kind, NEW id, SendWithId(kind, id), turnCtx = "live"
    PROVE  told'.kind = kind /\ told'.id = id
BY DEF SendWithId

\* The loop returns with an error.
LEMMA ErrorStep ==
    ASSUME LoopInv, Error, at \in {"cap", "ask", "answer", "save"}
    PROVE  LoopInv'
<1>1. at' = "done" /\ UNCHANGED <<round, turnCtx, calls, stop, working, effects, rows>>
  BY DEF Error
<1>2. LoopTyped' /\ Acted'
  BY <1>1 DEF LoopInv, LoopTyped, Acted
<1>3. Recorded'
  BY <1>1 DEF LoopInv, Recorded, InRound, RowOf
<1>4. turnCtx = "live" => told'.kind = "error"
  BY SendHeard DEF Error, Send
<1>5. ~IsAnswer
  BY DEF LoopInv, Heard
<1>6. Heard'
  BY <1>1, <1>4, <1>5 DEF Heard, IsAnswer, HeardRightly
<1> QED
  BY <1>2, <1>3, <1>6 DEF LoopInv

\* The loop goes on to another place, and nothing has been done or stored.
LEMMA ToStep ==
    ASSUME LoopInv, NEW to \in {"cap", "ask", "answer", "tools"}, at' = to,
           at \in {"cap", "ask"},
           UNCHANGED <<round, turnCtx, working, effects, rows>>,
           calls' \in Seq(States), Len(calls') <= MaxCalls, stop' \in BOOLEAN,
           to = "tools" => calls' # <<>> /\ \A i \in DOMAIN calls' : calls'[i] # "ok"
    PROVE  LoopInv'
<1>1. LoopTyped'
  BY DEF LoopInv, LoopTyped
<1>2. Recorded'
  BY DEF LoopInv, Recorded, InRound, RowOf
<1>3. Acted'
  BY DEF LoopInv, Acted
<1>4. Heard'
  BY DEF LoopInv, Heard, IsAnswer, HeardRightly
<1> QED
  BY <1>1, <1>2, <1>3, <1>4 DEF LoopInv

LEMMA AskStep ==
    ASSUME LoopInv, Ask
    PROVE  LoopInv'
<1>1. CASE AskFails
  BY <1>1, ErrorStep DEF AskFails
<1>2. CASE Answers
  BY <1>2, ToStep DEF Answers, LoopInv, LoopTyped
<1>3. ASSUME NEW n \in 1 .. MaxCalls, AsksForTools(n) PROVE LoopInv'
  <2>1. n \in Nat \ {0}
    BY RoundsAssumption
  <2>2. calls' = [i \in 1 .. n |-> "ready"]
    BY <1>3 DEF AsksForTools
  <2>3. calls' \in Seq(States) /\ Len(calls') <= MaxCalls /\ calls' # <<>>
        /\ \A i \in DOMAIN calls' : calls'[i] # "ok"
    BY <2>1, <2>2 DEF States
  <2> QED
    BY <1>3, <2>3, ToStep DEF AsksForTools
<1> QED
  BY <1>1, <1>2, <1>3 DEF Ask

LEMMA SaveAnswerStep ==
    ASSUME LoopInv, SaveAnswer
    PROVE  LoopInv'
<1> DEFINE new == [role |-> "assistant", calls |-> 0, of |-> 0, nth |-> 0, ok |-> TRUE]
<1>0. new \in Row /\ rows \in Seq(Row)
  BY DEF Row, LoopInv, LoopTyped
<1>1. rows' = Append(rows, new) /\ at = "answer" /\ at' = "tell"
      /\ UNCHANGED <<round, turnCtx, calls, stop, working, effects>>
  BY DEF SaveAnswer
<1>2. /\ rows' \in Seq(Row) /\ Len(rows') = Len(rows) + 1 /\ rows'[Len(rows')] = new
      /\ \A r \in DOMAIN rows : r \in DOMAIN rows' /\ rows'[r] = rows[r]
      /\ \A r \in DOMAIN rows' : r \in DOMAIN rows \/ rows'[r] = new
  BY <1>0, <1>1
<1>3. new.role = "assistant" /\ new.calls = 0
  OBVIOUS
<1> HIDE DEF new
<1>4. LoopTyped'
  BY <1>1, <1>2 DEF LoopInv, LoopTyped
<1>5. Recorded'
  BY <1>1, <1>2 DEF LoopInv, Recorded, InRound, RowOf
<1>6. Acted'
  BY <1>1, <1>2, <1>3 DEF LoopInv, Acted
<1>7. Heard'
  BY <1>0, <1>1, <1>2, <1>3 DEF Heard, IsAnswer, HeardRightly
<1> QED
  BY <1>4, <1>5, <1>6, <1>7 DEF LoopInv

LEMMA TellAnswerStep ==
    ASSUME LoopInv, TellAnswer
    PROVE  LoopInv'
<1>1. at = "tell" /\ at' = "done" /\ UNCHANGED <<round, turnCtx, calls, stop, working, effects, rows>>
  BY DEF TellAnswer
<1>2. LoopTyped' /\ Acted'
  BY <1>1 DEF LoopInv, LoopTyped, Acted
<1>3. Recorded'
  BY <1>1 DEF LoopInv, Recorded, InRound, RowOf
<1>4. turnCtx = "live" => told'.id = Len(rows)
  BY SendHeard DEF TellAnswer
<1>5. Heard'
  BY <1>1, <1>4 DEF LoopInv, Heard, IsAnswer, HeardRightly
<1> QED
  BY <1>2, <1>3, <1>5 DEF LoopInv

-----------------------------------------------------------------------------
(* A tool's goroutine, and the round's end. *)

\* The goroutine of tool i goes on; what acts or is at work is of the round.
LEMMA ToolStep ==
    ASSUME LoopInv, at = "tools", NEW i \in DOMAIN calls, NEW state \in States,
           Goes(i, state), state = "ok" => Key(i) \in effects,
           UNCHANGED <<at, round, turnCtx, effects, rows>>, stop' \in BOOLEAN,
           working' \subseteq working \cup {Key(i)}
    PROVE  LoopInv'
<1>0. calls \in Seq(States) /\ round \in Nat /\ i \in Nat
  BY DEF LoopInv, LoopTyped
<1>1. /\ calls' \in Seq(States) /\ DOMAIN calls' = DOMAIN calls /\ calls' # <<>>
      /\ Len(calls') = Len(calls)
      /\ calls'[i] = state /\ \A j \in DOMAIN calls \ {i} : calls'[j] = calls[j]
  BY <1>0 DEF Goes
<1>2. Key(i) \in Nat \X Nat /\ Key(i)[1] = round /\ Key(i)[2] = i
  BY <1>0 DEF Key
<1>3. LoopTyped'
  BY <1>1, <1>2 DEF LoopInv, LoopTyped
<1>4. Recorded'
  BY <1>0, <1>1, <1>2 DEF LoopInv, Recorded, InRound, RowOf
<1>5. Acted'
  BY <1>1 DEF LoopInv, Acted, Key
<1>6. Heard'
  BY <1>1 DEF LoopInv, Heard, IsAnswer, HeardRightly
<1> QED
  BY <1>3, <1>4, <1>5, <1>6 DEF LoopInv

LEMMA GoroutineStep ==
    ASSUME LoopInv, NEW i, Goroutine(i)
    PROVE  LoopInv'
<1>1. at = "tools" /\ i \in DOMAIN calls /\ UNCHANGED <<at, round, turnCtx, effects, rows>>
  BY DEF Goroutine, ToolChecks, ToolStarts, ToolAborts, ToolTimeout, Awaited
<1>2. CASE ToolChecks(i)
  BY <1>1, <1>2, ToolStep DEF ToolChecks, States, LoopInv, LoopTyped
<1>3. CASE ToolStarts(i)
  BY <1>1, <1>3, ToolStep DEF ToolStarts, States, LoopInv, LoopTyped
<1>4. CASE ToolAborts(i)
  BY <1>1, <1>4, ToolStep DEF ToolAborts, States, LoopInv, LoopTyped
<1>5. CASE ToolTimeout(i)
  BY <1>1, <1>5, ToolStep DEF ToolTimeout, States, LoopInv, LoopTyped
<1> QED
  BY <1>2, <1>3, <1>4, <1>5 DEF Goroutine

LEMMA EffectStep ==
    ASSUME LoopInv, NEW k \in working, Effect(k)
    PROVE  LoopInv'
<1>1. effects' = effects \cup {k}
      /\ UNCHANGED <<at, round, turnCtx, calls, stop, working, rows, told>>
  BY DEF Effect
<1>2. LoopTyped' /\ Acted'
  BY <1>1 DEF LoopInv, LoopTyped, Acted, Key
<1>3. Recorded'
  BY <1>1 DEF LoopInv, Recorded, InRound, RowOf
<1>4. Heard'
  BY <1>1 DEF LoopInv, Heard, IsAnswer, HeardRightly
<1> QED
  BY <1>2, <1>3, <1>4 DEF LoopInv


LEMMA ToolEndsStep ==
    ASSUME LoopInv, NEW k \in working, NEW ok \in BOOLEAN, ToolEnds(k, ok)
    PROVE  LoopInv'
<1>0. /\ calls \in Seq(States) /\ k \in Nat \X Nat
      /\ working' \subseteq working /\ (ok => k \in effects)
      /\ UNCHANGED <<at, round, turnCtx, stop, effects, rows, told>>
  BY DEF ToolEnds, LoopInv, LoopTyped
<1>1. /\ calls' \in Seq(States) /\ DOMAIN calls' = DOMAIN calls /\ Len(calls') = Len(calls)
      /\ calls # <<>> => calls' # <<>>
      /\ \A j \in DOMAIN calls : \/ calls'[j] = calls[j] \/ calls'[j] = "failed"
                                 \/ Key(j) \in effects
  <2>1. CASE k[1] = round /\ Awaited(k[2]) /\ calls[k[2]] = "running"
    <3>1. PICK i, state : i = k[2] /\ state = IF ok THEN "ok" ELSE "failed"
      OBVIOUS
    <3>2. i \in DOMAIN calls /\ state \in States /\ calls' = [calls EXCEPT ![i] = state]
      BY <2>1, <3>1 DEF ToolEnds, Awaited, States
    <3>3. Key(i) = k
      BY <1>0, <2>1, <3>1 DEF Key
    <3>4. state = "failed" \/ Key(i) \in effects
      BY <1>0, <3>1, <3>3
    <3>5. /\ calls' \in Seq(States) /\ DOMAIN calls' = DOMAIN calls /\ Len(calls') = Len(calls)
          /\ calls # <<>> => calls' # <<>>
          /\ calls'[i] = state /\ \A j \in DOMAIN calls \ {i} : calls'[j] = calls[j]
      BY <1>0, <3>2
    <3> QED
      BY <3>4, <3>5
  <2>2. CASE ~(k[1] = round /\ Awaited(k[2]) /\ calls[k[2]] = "running")
    <3>1. calls' = calls
      BY <2>2 DEF ToolEnds
    <3> QED
      BY <1>0, <3>1
  <2> QED
    BY <2>1, <2>2
<1>2. LoopTyped'
  BY <1>0, <1>1 DEF LoopInv, LoopTyped
<1>3. Recorded'
  BY <1>0, <1>1 DEF LoopInv, Recorded, InRound, RowOf
<1>4. Acted'
  BY <1>0, <1>1 DEF LoopInv, Acted, Key
<1>5. Heard'
  BY <1>0, <1>1 DEF LoopInv, Heard, IsAnswer, HeardRightly
<1> QED
  BY <1>2, <1>3, <1>4, <1>5 DEF LoopInv

LEMMA JoinStep ==
    ASSUME LoopInv, Join
    PROVE  LoopInv'
<1>1. /\ at = "tools" /\ at' = "save"
      /\ UNCHANGED <<round, turnCtx, calls, stop, working, effects, rows>>
  BY DEF Join
<1>2. LoopTyped' /\ Acted'
  BY <1>1 DEF LoopInv, LoopTyped, Acted, Key
<1>3. Recorded'
  BY <1>1 DEF LoopInv, Recorded, InRound, RowOf
<1>4. Heard'
  BY <1>1 DEF LoopInv, Heard, IsAnswer, HeardRightly
<1> QED
  BY <1>2, <1>3, <1>4 DEF LoopInv

\* The provers take a concatenation apart best under a name of its own.
Joined(s, t) == s \o t

LEMMA JoinedLength ==
    ASSUME NEW S, NEW s \in Seq(S), NEW t \in Seq(S)
    PROVE  Joined(s, t) \in Seq(S) /\ Len(Joined(s, t)) = Len(s) + Len(t)
BY DEF Joined

LEMMA JoinedFirst ==
    ASSUME NEW S, NEW s \in Seq(S), NEW t \in Seq(S)
    PROVE  \A i \in 1 .. Len(s) : Joined(s, t)[i] = s[i]
BY DEF Joined

LEMMA JoinedSecond ==
    ASSUME NEW S, NEW s \in Seq(S), NEW t \in Seq(S)
    PROVE  \A i \in 1 .. Len(t) : Joined(s, t)[Len(s) + i] = t[i]
BY DEF Joined

\* The rows of a round: the message with the calls, then one of each tool.
LEMMA RowsOfRound ==
    ASSUME LoopTyped
    PROVE  /\ RoundRows \in Seq(Row) /\ Len(RoundRows) = 1 + Len(calls)
           /\ RoundRows[1].role = "assistant" /\ RoundRows[1].calls = Len(calls)
           /\ \A i \in DOMAIN calls :
                 /\ RoundRows[i + 1].role = "tool"
                 /\ RoundRows[i + 1].of = round /\ RoundRows[i + 1].nth = i
                 /\ RoundRows[i + 1].ok <=> calls[i] = "ok"
<1> DEFINE head == <<[role |-> "assistant", calls |-> Len(calls), of |-> round, nth |-> 0,
                      ok |-> TRUE]>>
           tools == [i \in DOMAIN calls |-> [role |-> "tool", calls |-> 0, of |-> round,
                                             nth |-> i, ok |-> calls[i] = "ok"]]
<1>1. calls \in Seq(States) /\ Len(calls) \in Nat /\ DOMAIN calls = 1 .. Len(calls) /\ round \in Nat
  BY DEF LoopTyped
<1>2. head \in Seq(Row) /\ Len(head) = 1 /\ head[1].role = "assistant"
      /\ head[1].calls = Len(calls)
  BY <1>1 DEF Row
<1>3. tools \in Seq(Row) /\ Len(tools) = Len(calls)
  <2>1. \A i \in DOMAIN calls : [role |-> "tool", calls |-> 0, of |-> round,
                                 nth |-> i, ok |-> calls[i] = "ok"] \in Row
    BY <1>1 DEF Row
  <2> QED
    BY <1>1, <2>1
<1>4. \A i \in DOMAIN calls :
         /\ tools[i].role = "tool" /\ tools[i].of = round /\ tools[i].nth = i
         /\ tools[i].ok <=> calls[i] = "ok"
  OBVIOUS
<1>5. PICK h, t : h = head /\ t = tools
  OBVIOUS
<1>6. RoundRows = Joined(h, t)
  BY <1>5 DEF RoundRows, Joined
<1>7. /\ h \in Seq(Row) /\ Len(h) = 1 /\ h[1].role = "assistant" /\ h[1].calls = Len(calls)
      /\ t \in Seq(Row) /\ Len(t) = Len(calls)
      /\ \A i \in DOMAIN calls :
            /\ t[i].role = "tool" /\ t[i].of = round /\ t[i].nth = i
            /\ t[i].ok <=> calls[i] = "ok"
  BY <1>2, <1>3, <1>4, <1>5
<1> HIDE DEF head, tools
<1>8. /\ RoundRows \in Seq(Row) /\ Len(RoundRows) = Len(h) + Len(t)
      /\ \A i \in 1 .. Len(h) : RoundRows[i] = h[i]
      /\ \A i \in 1 .. Len(t) : RoundRows[Len(h) + i] = t[i]
  <2>1. h \in Seq(Row) /\ t \in Seq(Row)
    BY <1>7
  <2>2. RoundRows \in Seq(Row) /\ Len(RoundRows) = Len(h) + Len(t)
    BY <1>6, <2>1, JoinedLength
  <2>3. \A i \in 1 .. Len(h) : RoundRows[i] = h[i]
    BY <1>6, <2>1, JoinedFirst
  <2>4. \A i \in 1 .. Len(t) : RoundRows[Len(h) + i] = t[i]
    BY <1>6, <2>1, JoinedSecond
  <2> QED
    BY <2>2, <2>3, <2>4
<1>9. RoundRows[1] = h[1] /\ \A i \in DOMAIN calls : RoundRows[i + 1] = t[i]
  <2>1. 1 \in 1 .. Len(h) /\ \A i \in DOMAIN calls : i \in 1 .. Len(t) /\ Len(h) + i = i + 1
    BY <1>1, <1>7
  <2> QED
    BY <1>8, <2>1
<1> QED
  BY <1>7, <1>8, <1>9

LEMMA SaveRoundStep ==
    ASSUME LoopInv, NEW runes \in ResultRunes, SaveRound(runes)
    PROVE  LoopInv'
<1>1. /\ at = "save" /\ at' = "cap" /\ round' = round + 1 /\ calls' = <<>>
      /\ rows' = rows \o RoundRows
      /\ UNCHANGED <<turnCtx, stop, working, effects>>
  BY DEF SaveRound
<1>2. PICK more : more = RoundRows
  OBVIOUS
<1>3. /\ more \in Seq(Row) /\ Len(more) = 1 + Len(calls)
      /\ more[1].role = "assistant"
      /\ \A i \in DOMAIN calls :
            /\ more[i + 1].role = "tool" /\ more[i + 1].of = round /\ more[i + 1].nth = i
            /\ more[i + 1].ok <=> calls[i] = "ok"
  BY <1>2, RowsOfRound DEF LoopInv
<1>4. /\ rows \in Seq(Row) /\ calls \in Seq(States) /\ round \in Nat /\ calls # <<>>
      /\ working \cup effects \subseteq Nat \X Nat
  BY <1>1 DEF LoopInv, LoopTyped, Heard
<1>5. /\ rows' \in Seq(Row) /\ Len(rows') = Len(rows) + 1 + Len(calls)
      /\ \A r \in DOMAIN rows : r \in DOMAIN rows' /\ rows'[r] = rows[r]
      /\ \A i \in 1 .. (1 + Len(calls)) :
            Len(rows) + i \in DOMAIN rows' /\ rows'[Len(rows) + i] = more[i]
  <2>1. PICK old, all : old = rows /\ all = rows'
    OBVIOUS
  <2>2. old \in Seq(Row) /\ all = Joined(old, more)
    BY <1>1, <1>2, <1>4, <2>1 DEF Joined
  <2>3. /\ all \in Seq(Row) /\ Len(all) = Len(old) + Len(more)
        /\ \A r \in 1 .. Len(old) : all[r] = old[r]
        /\ \A i \in 1 .. Len(more) : all[Len(old) + i] = more[i]
    <3>1. old \in Seq(Row) /\ more \in Seq(Row)
      BY <1>3, <2>2
    <3>2. all \in Seq(Row) /\ Len(all) = Len(old) + Len(more)
      BY <2>2, <3>1, JoinedLength
    <3>3. \A r \in 1 .. Len(old) : all[r] = old[r]
      BY <2>2, <3>1, JoinedFirst
    <3>4. \A i \in 1 .. Len(more) : all[Len(old) + i] = more[i]
      BY <2>2, <3>1, JoinedSecond
    <3> QED
      BY <3>2, <3>3, <3>4
  <2>4. Len(more) = 1 + Len(calls) /\ DOMAIN old = 1 .. Len(old) /\ Len(calls) \in Nat /\ Len(old) \in Nat
    BY <1>3, <1>4, <2>2
  <2>5. Len(all) = Len(old) + 1 + Len(calls)
    BY <1>3, <2>3, <2>4
  <2>6. /\ \A r \in DOMAIN old : r \in DOMAIN all
        /\ \A i \in 1 .. (1 + Len(calls)) : Len(old) + i \in DOMAIN all
    BY <2>2, <2>3, <2>4, <2>5
  <2> QED
    BY <2>1, <2>3, <2>4, <2>5, <2>6
<1>6. LoopTyped'
  <2>1. calls' \in Seq(States) /\ Len(calls') <= MaxCalls /\ round' \in Nat
    BY <1>1, <1>4, RoundsAssumption
  <2> QED
    BY <1>1, <1>5, <2>1 DEF LoopInv, LoopTyped
<1>7. Recorded'
  <2> SUFFICES ASSUME NEW k \in working \cup effects
               PROVE  k[1] <= round + 1 /\ k[1] # round + 1 /\ RowOf(k)' # {}
    BY <1>1 DEF Recorded
  <2>1. k \in Nat \X Nat /\ k[1] <= round
    BY <1>4 DEF LoopInv, Recorded
  <2>2. CASE k[1] < round
    <3>1. PICK r \in DOMAIN rows : rows[r].nth = k[2] /\ rows[r].of = k[1]
      BY <2>2 DEF LoopInv, Recorded, RowOf
    <3>2. r \in RowOf(k)'
      BY <1>5, <3>1 DEF RowOf
    <3> QED
      BY <1>4, <2>1, <2>2, <3>2
  <2>3. CASE k[1] = round
    <3>1. k[2] \in DOMAIN calls
      BY <2>3 DEF LoopInv, Recorded
    <3>2. k[2] + 1 \in 1 .. (1 + Len(calls))
      BY <1>4, <3>1
    <3>3. Len(rows) + (k[2] + 1) \in RowOf(k)'
      BY <1>3, <1>5, <2>3, <3>1, <3>2 DEF RowOf
    <3> QED
      BY <1>4, <2>1, <2>3, <3>3
  <2> QED
    BY <1>4, <2>1, <2>2, <2>3
<1>8. Acted'
  <2>1. ASSUME NEW r \in DOMAIN rows', rows'[r].role = "tool", rows'[r].ok
        PROVE  <<rows'[r].of, rows'[r].nth>> \in effects
    <3>1. CASE r \in DOMAIN rows
      BY <1>5, <2>1, <3>1 DEF LoopInv, Acted
    <3>2. CASE r \notin DOMAIN rows
      <4>1. PICK i \in 1 .. (1 + Len(calls)) : r = Len(rows) + i
        <5>1. r \in 1 .. (Len(rows) + 1 + Len(calls)) /\ r \notin 1 .. Len(rows)
          BY <1>4, <1>5, <3>2
        <5>2. Len(rows) \in Nat /\ Len(calls) \in Nat
          BY <1>4
        <5>3. r - Len(rows) \in 1 .. (1 + Len(calls)) /\ r = Len(rows) + (r - Len(rows))
          BY <5>1, <5>2
        <5> QED
          BY <5>3
      <4>2. rows'[r] = more[i] /\ i # 1
        BY <1>3, <1>5, <2>1, <4>1
      <4>3. i - 1 \in DOMAIN calls /\ i = (i - 1) + 1
        BY <1>4, <4>1, <4>2
      <4>4. rows'[r].of = round /\ rows'[r].nth = i - 1 /\ calls[i - 1] = "ok"
        BY <1>3, <2>1, <4>2, <4>3
      <4> QED
        BY <1>1, <4>3, <4>4 DEF LoopInv, Acted, Key
    <3> QED
      BY <3>1, <3>2
  <2> QED
    BY <1>1, <2>1 DEF Acted
<1>9. Heard'
  <2>1. Len(calls) \in DOMAIN calls /\ Len(calls) \in Nat \ {0} /\ Len(rows) \in Nat
    BY <1>4
  <2>2. more[Len(calls) + 1].role = "tool"
    BY <1>3, <2>1
  <2>3. rows'[Len(rows')] = more[Len(calls) + 1]
    <3>1. Len(calls) + 1 \in 1 .. (1 + Len(calls)) /\ Len(rows') = Len(rows) + (Len(calls) + 1)
      BY <1>5, <2>1
    <3> QED
      BY <1>5, <3>1
  <2>4. ~IsAnswer'
    BY <2>2, <2>3 DEF IsAnswer
  <2> QED
    BY <1>1, <2>4 DEF Heard, HeardRightly
<1> QED
  BY <1>6, <1>7, <1>8, <1>9 DEF LoopInv

-----------------------------------------------------------------------------
(* The client leaves, the server is killed. *)

LEMMA LeaveStep ==
    ASSUME LoopInv, Leave
    PROVE  LoopInv'
<1>1. turnCtx' = "done" /\ UNCHANGED <<at, round, calls, stop, working, effects, rows, told>>
  BY DEF Leave
<1>2. LoopTyped' /\ Acted'
  BY <1>1 DEF LoopInv, LoopTyped, Acted, Key
<1>3. Recorded'
  BY <1>1 DEF LoopInv, Recorded, InRound, RowOf
<1>4. Heard'
  BY <1>1 DEF LoopInv, Heard, IsAnswer, HeardRightly
<1> QED
  BY <1>2, <1>3, <1>4 DEF LoopInv

LEMMA KillStep ==
    ASSUME LoopInv, Kill
    PROVE  LoopInv'
<1>1. /\ at' = "killed" /\ working' = {}
      /\ UNCHANGED <<round, turnCtx, calls, stop, effects, rows, told>>
  BY DEF Kill
<1>2. LoopTyped' /\ Acted'
  BY <1>1 DEF LoopInv, LoopTyped, Acted, Key
<1>3. Recorded'
  BY <1>1 DEF LoopInv, Recorded, InRound, RowOf
<1>4. Heard'
  BY <1>1 DEF LoopInv, Heard, IsAnswer, HeardRightly
<1> QED
  BY <1>2, <1>3, <1>4 DEF LoopInv

LEMMA LoopSame ==
    ASSUME LoopInv, UNCHANGED loopVars
    PROVE  LoopInv'
<1>1. UNCHANGED <<at, round, turnCtx, calls, stop, working, effects, rows, told>>
  BY DEF loopVars
<1>2. LoopTyped' /\ Acted'
  BY <1>1 DEF LoopInv, LoopTyped, Acted, Key
<1>3. Recorded'
  BY <1>1 DEF LoopInv, Recorded, InRound, RowOf
<1>4. Heard'
  BY <1>1 DEF LoopInv, Heard, IsAnswer, HeardRightly
<1> QED
  BY <1>2, <1>3, <1>4 DEF LoopInv

LEMMA LoopStep ==
    ASSUME LoopInv, [LoopNext]_turnVars
    PROVE  LoopInv'
<1>1. CASE UNCHANGED turnVars
  BY <1>1, LoopSame DEF turnVars
<1>2. CASE CapPrompt
  BY <1>2, LoopSame DEF CapPrompt
<1>3. CASE NextRound
  BY <1>3, ToStep DEF NextRound, LoopInv, LoopTyped
<1>4. CASE Exhausted
  BY <1>4, ErrorStep DEF Exhausted
<1>5. CASE AnswerUnsaved
  BY <1>5, ErrorStep DEF AnswerUnsaved
<1>6. CASE SaveFails
  BY <1>6, ErrorStep DEF SaveFails
<1>7. CASE Loop
  BY <1>2, <1>3, <1>4, <1>5, <1>6, <1>7, AskStep, SaveAnswerStep, TellAnswerStep, JoinStep,
     SaveRoundStep DEF Loop
<1>8. ASSUME NEW i \in 1 .. MaxCalls, Goroutine(i) PROVE LoopInv'
  BY <1>8, GoroutineStep
<1>9. ASSUME NEW k \in working, Work(k) PROVE LoopInv'
  BY <1>9, EffectStep, ToolEndsStep DEF Work
<1> QED
  BY <1>1, <1>7, <1>8, <1>9, LeaveStep, KillStep DEF LoopNext

LEMMA LoopAlways == LoopSpec => []LoopInv
BY LoopInvInit, LoopStep, PTL DEF LoopSpec

(* What a tool has done is on record when its round is over, awaited or not,
   and a message that says that a tool worked is of one that did before. *)
THEOREM ToolsOnRecord == LoopSpec => []EffectsOnRecord
<1>1. LoopInv => EffectsOnRecord
  BY DEF LoopInv, Recorded, Acted, EffectsOnRecord
<1> QED
  BY <1>1, LoopAlways, PTL

(* A client that stays is told the truth about the end of its turn: the safety
   half of ClientHearsEnd. *)
THEOREM ClientHearsRightly == LoopSpec => []HeardRightly
<1>1. LoopInv => HeardRightly
  BY DEF LoopInv, Heard
<1> QED
  BY <1>1, LoopAlways, PTL


-----------------------------------------------------------------------------
(* The estimate of a prompt is a fold over its messages: f is the function it
   is defined by, on the sets of the first n places. *)

TokensAdd(f, s, T) ==
    f = [S \in SUBSET T |-> IF S = {} THEN 0 ELSE f[S \ {Max(S)}] + TokensOf(s[Max(S)])]

LEMMA LargestOfInterval ==
    ASSUME NEW n \in Nat, NEW T \in SUBSET (1 .. n), T # {}
    PROVE  \E x \in T : \A y \in T : x >= y
<1> DEFINE Bounds == {b \in Nat : \A y \in T : b >= y}
<1>1. n \in Bounds /\ Bounds \subseteq Nat
  OBVIOUS
<1>2. \E b \in Bounds : \A c \in Bounds : ~ (<<c, b>> \in OpToRel(<, Nat))
  <2>1. Bounds # {}
    BY <1>1
  <2> QED
    BY <1>1, <2>1, NatLessThanWellFounded, WFMin
<1>3. PICK b \in Bounds : \A c \in Bounds : ~ (c < b)
  BY <1>2 DEF OpToRel
<1>4. b \in T
  <2>1. SUFFICES ASSUME b \notin T PROVE FALSE
    OBVIOUS
  <2>2. PICK y \in T : y \in 1 .. n
    OBVIOUS
  <2>3. b \in Nat /\ b >= y
    BY <1>3
  <2>4. b - 1 \in Nat /\ b - 1 < b
    BY <2>2, <2>3
  <2>5. \A z \in T : b - 1 >= z
    BY <1>3, <2>1
  <2>6. b - 1 \in Bounds
    BY <2>4, <2>5
  <2> QED
    BY <1>3, <2>4, <2>6
<1> QED
  BY <1>3, <1>4

LEMMA MaxOfInterval ==
    ASSUME NEW n \in Nat, NEW S \in SUBSET (1 .. n), S # {}
    PROVE  Max(S) \in S /\ \A y \in S : Max(S) >= y
<1>1. \E x \in S : \A y \in S : x >= y
  BY LargestOfInterval
<1> QED
  BY <1>1 DEF Max

LEMMA TokensAddAre ==
    ASSUME NEW f, NEW s, NEW T
    PROVE  TokensAdd(f, s, T) <=>
              /\ f = [S \in SUBSET T |-> f[S]]
              /\ \A S \in SUBSET T :
                    f[S] = IF S = {} THEN 0 ELSE f[S \ {Max(S)}] + TokensOf(s[Max(S)])
<1> DEFINE F(S) == IF S = {} THEN 0 ELSE f[S \ {Max(S)}] + TokensOf(s[Max(S)])
<1>1. TokensAdd(f, s, T) <=> f = [S \in SUBSET T |-> F(S)]
  BY DEF TokensAdd
<1> HIDE DEF F
<1>2. f = [S \in SUBSET T |-> F(S)] <=>
         f = [S \in SUBSET T |-> f[S]] /\ \A S \in SUBSET T : f[S] = F(S)
  <2>1. ASSUME f = [S \in SUBSET T |-> F(S)]
        PROVE  f = [S \in SUBSET T |-> f[S]] /\ \A S \in SUBSET T : f[S] = F(S)
    BY <2>1
  <2>2. ASSUME f = [S \in SUBSET T |-> f[S]], \A S \in SUBSET T : f[S] = F(S)
        PROVE  f = [S \in SUBSET T |-> F(S)]
    BY <2>2
  <2> QED
    BY <2>1, <2>2
<1> QED
  BY <1>1, <1>2 DEF F

LEMMA TokensAddExists ==
    ASSUME NEW s, NEW n \in Nat
    PROVE  \E f : TokensAdd(f, s, 1 .. n)
<1> DEFINE A == {m \in Nat : \E f : TokensAdd(f, s, 1 .. m)}
<1>1. 0 \in A
  <2> DEFINE g == [S \in SUBSET (1 .. 0) |-> 0]
  <2>1. \A S \in SUBSET (1 .. 0) : S = {}
    OBVIOUS
  <2>2. g = [S \in SUBSET (1 .. 0) |-> g[S]] /\ \A S \in SUBSET (1 .. 0) : g[S] = 0
    OBVIOUS
  <2> HIDE DEF g
  <2>3. TokensAdd(g, s, 1 .. 0)
    BY <2>1, <2>2, TokensAddAre
  <2> QED
    BY <2>3
<1>2. ASSUME NEW m \in A PROVE m + 1 \in A
  <2>1. PICK f : TokensAdd(f, s, 1 .. m)
    OBVIOUS
  <2>2. m \in Nat /\ m + 1 \in Nat /\ 1 .. (m + 1) = (1 .. m) \cup {m + 1} /\ m + 1 \notin 1 .. m
    OBVIOUS
  <2> DEFINE T == 1 .. m
             U == 1 .. (m + 1)
             last == TokensOf(s[m + 1])
             g == [S \in SUBSET U |-> IF m + 1 \in S THEN f[S \ {m + 1}] + last ELSE f[S]]
  <2>3. \A S \in SUBSET T : f[S] = IF S = {} THEN 0 ELSE f[S \ {Max(S)}] + TokensOf(s[Max(S)])
    BY <2>1, TokensAddAre
  <2>4. /\ g = [S \in SUBSET U |-> g[S]]
        /\ \A S \in SUBSET U : g[S] = IF m + 1 \in S THEN f[S \ {m + 1}] + last ELSE f[S]
    OBVIOUS
  <2> HIDE DEF g
  <2>5. ASSUME NEW S \in SUBSET U
        PROVE  g[S] = IF S = {} THEN 0 ELSE g[S \ {Max(S)}] + TokensOf(s[Max(S)])
    <3>1. CASE m + 1 \in S
      <4>1. Max(S) = m + 1
        <5>1. Max(S) \in S /\ Max(S) >= m + 1
          BY <2>2, <3>1, MaxOfInterval
        <5>2. PICK x : x = Max(S)
          OBVIOUS
        <5>3. x \in 1 .. (m + 1) /\ x >= m + 1
          BY <5>1, <5>2
        <5>4. x = m + 1
          BY <2>2, <5>3
        <5> QED
          BY <5>2, <5>4
      <4>2. S \ {m + 1} \in SUBSET U /\ m + 1 \notin S \ {m + 1}
        OBVIOUS
      <4>3. g[S \ {m + 1}] = f[S \ {m + 1}]
        BY <2>4, <4>2
      <4>4. g[S] = f[S \ {m + 1}] + last
        BY <2>4, <3>1
      <4> QED
        BY <3>1, <4>1, <4>3, <4>4
    <3>2. CASE m + 1 \notin S
      <4>1. S \in SUBSET T /\ g[S] = f[S]
        BY <2>2, <2>4, <3>2
      <4>2. CASE S = {}
        BY <2>3, <4>1, <4>2
      <4>3. CASE S # {}
        <5>1. S \ {Max(S)} \in SUBSET U /\ m + 1 \notin S \ {Max(S)}
          BY <3>2
        <5>2. g[S \ {Max(S)}] = f[S \ {Max(S)}]
          BY <2>4, <5>1
        <5> QED
          BY <2>3, <4>1, <4>3, <5>2
      <4> QED
        BY <4>2, <4>3
    <3> QED
      BY <3>1, <3>2
  <2>6. TokensAdd(g, s, U)
    BY <2>4, <2>5, TokensAddAre
  <2> QED
    BY <2>2, <2>6
<1> HIDE DEF A
<1>3. A = Nat
  BY <1>1, <1>2, Induct DEF A
<1> QED
  BY <1>3 DEF A

\* The estimate of the first k messages.
TokensUpto(s, k) == (CHOOSE f : TokensAdd(f, s, 1 .. Len(s)))[1 .. k]

LEMMA TokensStep ==
    ASSUME NEW s, Len(s) \in Nat
    PROVE  /\ TokensUpto(s, 0) = 0
           /\ \A k \in 1 .. Len(s) : TokensUpto(s, k) = TokensUpto(s, k - 1) + TokensOf(s[k])
<1> DEFINE F == CHOOSE f : TokensAdd(f, s, 1 .. Len(s))
<1>1. TokensAdd(F, s, 1 .. Len(s))
  BY TokensAddExists
<1>2. \A k : TokensUpto(s, k) = F[1 .. k]
  BY DEF TokensUpto
<1> HIDE DEF F
<1>3. \A S \in SUBSET (1 .. Len(s)) :
         F[S] = IF S = {} THEN 0 ELSE F[S \ {Max(S)}] + TokensOf(s[Max(S)])
  BY <1>1, TokensAddAre
<1>4. TokensUpto(s, 0) = 0
  <2>1. 1 .. 0 = {} /\ {} \in SUBSET (1 .. Len(s))
    OBVIOUS
  <2> QED
    BY <1>2, <1>3, <2>1
<1>5. ASSUME NEW k \in 1 .. Len(s)
      PROVE  TokensUpto(s, k) = TokensUpto(s, k - 1) + TokensOf(s[k])
  <2>1. PICK S : S = 1 .. k
    OBVIOUS
  <2>2. S \in SUBSET (1 .. Len(s)) /\ k \in S /\ S # {} /\ S \ {k} = 1 .. (k - 1)
    <3>1. PICK n \in Nat : n = Len(s)
      OBVIOUS
    <3>2. k \in 1 .. n
      BY <3>1
    <3>3. \A x \in S : x \in 1 .. n
      BY <2>1, <3>2
    <3>4. k \in S
      BY <2>1, <3>2
    <3>5. \A x : x \in S \ {k} <=> x \in 1 .. (k - 1)
      BY <2>1, <3>2
    <3> QED
      BY <3>1, <3>3, <3>4, <3>5
  <2>3. Max(S) = k
    <3>1. Max(S) \in S /\ Max(S) >= k
      BY <2>2, MaxOfInterval
    <3> QED
      BY <2>1, <3>1
  <2>4. F[S] = F[S \ {k}] + TokensOf(s[k])
    BY <1>3, <2>2, <2>3
  <2> QED
    BY <1>2, <2>1, <2>2, <2>4
<1> QED
  BY <1>4, <1>5

LEMMA TokensAll ==
    ASSUME NEW s \in Seq(Msg)
    PROVE  SumTokens(s) = TokensUpto(s, Len(s))
<1> DEFINE F == CHOOSE f : f = [S \in SUBSET DOMAIN s |->
                   IF S = {} THEN 0 ELSE f[S \ {Max(S)}] + TokensOf(s[Max(S)])]
<1>1. SumTokens(s) = F[DOMAIN s]
  BY Zenon DEF SumTokens, FoldLeft, MapThenFoldSet
<1>2. DOMAIN s = 1 .. Len(s)
  OBVIOUS
<1>3. F = CHOOSE f : TokensAdd(f, s, 1 .. Len(s))
  BY <1>2 DEF TokensAdd
<1> HIDE DEF F
<1> QED
  BY <1>1, <1>2, <1>3 DEF TokensUpto

LEMMA TokensOfNat == ASSUME NEW m \in Msg PROVE TokensOf(m) \in Nat
<1>1. m.runes \in Nat /\ m.more \in Nat
  BY DEF Msg
<1>2. m.runes \div 4 \in Nat
  BY <1>1
<1> QED
  BY <1>1, <1>2 DEF TokensOf

LEMMA TokensNat ==
    ASSUME NEW s \in Seq(Msg)
    PROVE  \A k \in 0 .. Len(s) : TokensUpto(s, k) \in Nat
<1> DEFINE A == {k \in Nat : k <= Len(s) => TokensUpto(s, k) \in Nat}
<1>1. Len(s) \in Nat
  OBVIOUS
<1>2. 0 \in A
  BY <1>1, TokensStep
<1>3. ASSUME NEW k \in A PROVE k + 1 \in A
  <2>1. k \in Nat /\ k + 1 \in Nat
    OBVIOUS
  <2>2. ASSUME k + 1 <= Len(s) PROVE TokensUpto(s, k + 1) \in Nat
    <3>1. k + 1 \in 1 .. Len(s) /\ (k + 1) - 1 = k /\ TokensUpto(s, k) \in Nat
      BY <1>1, <2>1, <2>2
    <3>2. s[k + 1] \in Msg
      BY <3>1
    <3>3. TokensOf(s[k + 1]) \in Nat
      BY <3>2, TokensOfNat
    <3>4. TokensUpto(s, k + 1) = TokensUpto(s, k) + TokensOf(s[k + 1])
      BY <1>1, <3>1, TokensStep
    <3> QED
      BY <3>1, <3>3, <3>4
  <2> QED
    BY <2>1, <2>2
<1> HIDE DEF A
<1>4. A = Nat
  <2>1. A \in SUBSET Nat
    BY DEF A
  <2> QED
    BY <1>2, <1>3, <2>1, Induct
<1> QED
  BY <1>1, <1>4 DEF A

LEMMA SumNat == ASSUME NEW s \in Seq(Msg) PROVE SumTokens(s) \in Nat
<1>1. Len(s) \in Nat /\ Len(s) \in 0 .. Len(s)
  OBVIOUS
<1> QED
  BY <1>1, TokensNat, TokensAll

\* all is s with t at its end.
Together(s, t, all) ==
    /\ Len(all) = Len(s) + Len(t)
    /\ \A i \in 1 .. Len(s) : all[i] = s[i]
    /\ \A i \in 1 .. Len(t) : all[Len(s) + i] = t[i]

LEMMA SumBegins ==
    ASSUME NEW s \in Seq(Msg), NEW t \in Seq(Msg), NEW all \in Seq(Msg), Together(s, t, all)
    PROVE  TokensUpto(all, Len(s)) = SumTokens(s)
<1> DEFINE A == {k \in Nat : k <= Len(s) => TokensUpto(all, k) = TokensUpto(s, k)}
<1>1. /\ Len(s) \in Nat /\ Len(all) \in Nat /\ Len(all) >= Len(s)
      /\ \A i \in 1 .. Len(s) : all[i] = s[i]
  BY DEF Together
<1>2. 0 \in A
  BY <1>1, TokensStep
<1>3. ASSUME NEW k \in A PROVE k + 1 \in A
  <2>1. k \in Nat /\ k + 1 \in Nat
    OBVIOUS
  <2>2. ASSUME k + 1 <= Len(s) PROVE TokensUpto(all, k + 1) = TokensUpto(s, k + 1)
    <3>1. /\ k + 1 \in 1 .. Len(s) /\ k + 1 \in 1 .. Len(all) /\ (k + 1) - 1 = k
          /\ TokensUpto(all, k) = TokensUpto(s, k)
      BY <1>1, <2>1, <2>2
    <3>2. TokensUpto(s, k + 1) = TokensUpto(s, k) + TokensOf(s[k + 1])
      BY <1>1, <3>1, TokensStep
    <3>3. TokensUpto(all, k + 1) = TokensUpto(all, k) + TokensOf(all[k + 1])
      BY <1>1, <3>1, TokensStep
    <3> QED
      BY <1>1, <3>1, <3>2, <3>3
  <2> QED
    BY <2>1, <2>2
<1> HIDE DEF A
<1>4. A = Nat
  <2>1. A \in SUBSET Nat
    BY DEF A
  <2> QED
    BY <1>2, <1>3, <2>1, Induct
<1>5. TokensUpto(all, Len(s)) = TokensUpto(s, Len(s))
  BY <1>1, <1>4 DEF A
<1> QED
  BY <1>5, TokensAll

LEMMA SumTogether ==
    ASSUME NEW s \in Seq(Msg), NEW t \in Seq(Msg), NEW all \in Seq(Msg), Together(s, t, all)
    PROVE  SumTokens(all) = SumTokens(s) + SumTokens(t)
<1> DEFINE A == {k \in Nat : k <= Len(t) =>
                    TokensUpto(all, Len(s) + k) = SumTokens(s) + TokensUpto(t, k)}
<1>1. /\ Len(s) \in Nat /\ Len(t) \in Nat /\ Len(all) = Len(s) + Len(t)
      /\ \A i \in 1 .. Len(t) : all[Len(s) + i] = t[i]
  BY DEF Together
<1>2. 0 \in A
  <2>1. TokensUpto(t, 0) = 0
    BY <1>1, TokensStep
  <2>2. TokensUpto(all, Len(s)) = SumTokens(s) /\ SumTokens(s) \in Nat
    BY SumBegins, SumNat
  <2>3. Len(s) + 0 = Len(s) /\ SumTokens(s) + 0 = SumTokens(s)
    BY <1>1, <2>2
  <2> QED
    BY <2>1, <2>2, <2>3
<1>3. ASSUME NEW k \in A PROVE k + 1 \in A
  <2>1. k \in Nat /\ k + 1 \in Nat
    OBVIOUS
  <2>2. ASSUME k + 1 <= Len(t)
        PROVE  TokensUpto(all, Len(s) + (k + 1)) = SumTokens(s) + TokensUpto(t, k + 1)
    <3>1. PICK q : q = Len(s) + (k + 1)
      OBVIOUS
    <3>2. /\ k + 1 \in 1 .. Len(t) /\ (k + 1) - 1 = k /\ k \in 0 .. Len(t)
          /\ q \in 1 .. Len(all) /\ q - 1 = Len(s) + k
      BY <1>1, <2>1, <2>2, <3>1
    <3>3. TokensUpto(t, k + 1) = TokensUpto(t, k) + TokensOf(t[k + 1])
      BY <1>1, <3>2, TokensStep
    <3>4. TokensUpto(all, q) = TokensUpto(all, Len(s) + k) + TokensOf(t[k + 1])
      <4>1. Len(all) \in Nat
        BY <1>1
      <4>2. TokensUpto(all, q) = TokensUpto(all, q - 1) + TokensOf(all[q])
        BY <3>2, <4>1, TokensStep
      <4>3. all[q] = t[k + 1]
        BY <1>1, <3>1, <3>2
      <4> QED
        BY <3>2, <4>2, <4>3
    <3>5. TokensUpto(all, Len(s) + k) = SumTokens(s) + TokensUpto(t, k)
      BY <1>1, <2>1, <2>2
    <3>6. SumTokens(s) \in Nat /\ TokensUpto(t, k) \in Nat /\ TokensOf(t[k + 1]) \in Nat
      <4>1. t[k + 1] \in Msg
        BY <3>2
      <4> QED
        BY <3>2, <4>1, SumNat, TokensNat, TokensOfNat
    <3> QED
      BY <3>1, <3>3, <3>4, <3>5, <3>6
  <2> QED
    BY <2>1, <2>2
<1> HIDE DEF A
<1>4. A = Nat
  <2>1. A \in SUBSET Nat
    BY DEF A
  <2> QED
    BY <1>2, <1>3, <2>1, Induct
<1>5. TokensUpto(all, Len(s) + Len(t)) = SumTokens(s) + TokensUpto(t, Len(t))
  BY <1>1, <1>4 DEF A
<1> QED
  BY <1>1, <1>5, TokensAll

-----------------------------------------------------------------------------
(* The prompt s in round n with k messages protected: these are the last round's
   message and results, and a result that comes first is of an earlier round. *)
Shape(s, k, n) ==
    /\ s \in Seq(Msg) /\ k \in Nat \ {0} /\ Len(s) >= 1 + k /\ s[1].role = "system"
    /\ \A p \in DOMAIN s : s[p].id < 100 * (n + 1)
    /\ \A p \in 2 .. Len(s) : s[p].role = "tool" =>
          \/ s[p].id = s[p - 1].id + 1
          \/ p = 2 /\ (n > 0 => s[p].id < 100 * n)
    /\ n > 0 =>
          /\ s[Len(s) + 1 - k].id = 100 * n /\ s[Len(s) + 1 - k].role = "assistant"
          /\ s[Len(s) + 1 - k].calls = k - 1
          /\ \A q \in 2 .. (Len(s) - k) : s[q].id < 100 * n

\* Only lengths of contents change.
LEMMA OnlyRunes ==
    ASSUME NEW s, NEW t \in Seq(Msg), NEW k, NEW n \in Nat, Shape(s, k, n), Len(t) = Len(s),
           \A p \in DOMAIN s : /\ t[p].id = s[p].id /\ t[p].role = s[p].role
                               /\ t[p].calls = s[p].calls
    PROVE  Shape(t, k, n)
<1>1. s \in Seq(Msg) /\ Len(s) \in Nat /\ DOMAIN s = 1 .. Len(s) /\ DOMAIN t = 1 .. Len(s)
      /\ k \in Nat \ {0} /\ Len(s) >= 1 + k
  BY DEF Shape
<1>2. t[1].role = "system"
  BY <1>1 DEF Shape
<1>3. \A p \in DOMAIN t : t[p].id < 100 * (n + 1)
  BY <1>1 DEF Shape
<1>4. ASSUME NEW p \in 2 .. Len(t), t[p].role = "tool"
      PROVE  t[p].id = t[p - 1].id + 1 \/ (p = 2 /\ (n > 0 => t[p].id < 100 * n))
  <2>1. p \in DOMAIN s /\ p - 1 \in DOMAIN s /\ p \in 2 .. Len(s)
    BY <1>1, <1>4
  <2>2. s[p].id = s[p - 1].id + 1 \/ (p = 2 /\ (n > 0 => s[p].id < 100 * n))
    BY <1>4, <2>1 DEF Shape
  <2> QED
    BY <2>1, <2>2
<1>5. ASSUME n > 0
      PROVE  /\ t[Len(t) + 1 - k].id = 100 * n /\ t[Len(t) + 1 - k].role = "assistant"
             /\ t[Len(t) + 1 - k].calls = k - 1
             /\ \A q \in 2 .. (Len(t) - k) : t[q].id < 100 * n
  <2>1. Len(s) + 1 - k \in DOMAIN s /\ \A q \in 2 .. (Len(s) - k) : q \in DOMAIN s
    BY <1>1
  <2> QED
    BY <1>5, <2>1 DEF Shape
<1> QED
  BY <1>1, <1>2, <1>3, <1>4, <1>5 DEF Shape

\* t is s without the d oldest messages after the first.
Cut(s, d, t) ==
    /\ t \in Seq(Msg) /\ Len(t) = Len(s) - d /\ t[1] = s[1]
    /\ \A p \in 2 .. (Len(s) - d) : t[p] = s[p + d]

LEMMA WithoutOldest ==
    ASSUME NEW s \in Seq(Msg), NEW d \in {1, 2}, d + 1 <= Len(s)
    PROVE  Cut(s, d, Joined(<<s[1]>>, SubSeq(s, d + 2, Len(s))))
<1>1. PICK len \in Nat : len = Len(s)
  OBVIOUS
<1>2. PICK head, rest : head = <<s[1]>> /\ rest = SubSeq(s, d + 2, Len(s))
  OBVIOUS
<1>3. head \in Seq(Msg) /\ Len(head) = 1 /\ head[1] = s[1]
  <2>1. s[1] \in Msg
    BY <1>1
  <2> QED
    BY <1>2, <2>1
<1>4. d + 2 \in 1 .. (Len(s) + 1) /\ Len(s) \in ((d + 2) - 1) .. Len(s)
  BY <1>1
<1>5. /\ rest \in Seq(Msg) /\ Len(rest) = Len(s) - (d + 2) + 1
      /\ \A i \in 1 .. (Len(s) - (d + 2) + 1) : rest[i] = s[(d + 2) + i - 1]
  BY <1>2, <1>4, SubSeqProperties
<1>6. PICK all : all = Joined(head, rest)
  OBVIOUS
<1>7. /\ all \in Seq(Msg) /\ Len(all) = Len(head) + Len(rest)
      /\ \A i \in 1 .. Len(head) : all[i] = head[i]
      /\ \A i \in 1 .. Len(rest) : all[Len(head) + i] = rest[i]
  <2>1. head \in Seq(Msg) /\ rest \in Seq(Msg)
    BY <1>3, <1>5
  <2>2. all \in Seq(Msg) /\ Len(all) = Len(head) + Len(rest)
    BY <1>6, <2>1, JoinedLength
  <2>3. \A i \in 1 .. Len(head) : all[i] = head[i]
    BY <1>6, <2>1, JoinedFirst
  <2>4. \A i \in 1 .. Len(rest) : all[Len(head) + i] = rest[i]
    BY <1>6, <2>1, JoinedSecond
  <2> QED
    BY <2>2, <2>3, <2>4
<1>8. Len(all) = Len(s) - d /\ all[1] = s[1]
  BY <1>1, <1>3, <1>5, <1>7
<1>9. ASSUME NEW p \in 2 .. (Len(s) - d) PROVE all[p] = s[p + d]
  <2>1. /\ p - 1 \in 1 .. (Len(s) - (d + 2) + 1) /\ (d + 2) + (p - 1) - 1 = p + d
        /\ 1 + (p - 1) = p
    BY <1>1
  <2>2. p - 1 \in 1 .. Len(rest)
    BY <1>5, <2>1
  <2>3. rest[p - 1] = s[p + d]
    BY <1>5, <2>1
  <2> QED
    BY <1>3, <1>7, <2>1, <2>2, <2>3
<1>10. Cut(s, d, all)
  BY <1>7, <1>8, <1>9 DEF Cut
<1> QED
  BY <1>2, <1>6, <1>10

\* The oldest after the system message go, never a protected one.
LEMMA OldestDropped ==
    ASSUME NEW s, NEW k, NEW n \in Nat, Shape(s, k, n), NEW d \in {1, 2}, d <= Len(s) - 1 - k,
           NEW t, Cut(s, d, t)
    PROVE  Shape(t, k, n)
<1>1. s \in Seq(Msg) /\ Len(s) \in Nat /\ DOMAIN s = 1 .. Len(s)
      /\ k \in Nat \ {0} /\ Len(s) >= 1 + k
  BY DEF Shape
<1>2. /\ t \in Seq(Msg) /\ Len(t) = Len(s) - d /\ t[1] = s[1]
      /\ \A p \in 2 .. Len(t) : t[p] = s[p + d]
  BY DEF Cut
<1>3. DOMAIN t = 1 .. (Len(s) - d) /\ Len(t) >= 1 + k
  BY <1>1, <1>2
<1>4. \A p \in 2 .. Len(t) : p + d \in 4 - 1 .. Len(s) /\ p + d \in DOMAIN s
  BY <1>1, <1>2
<1>5. \A p \in DOMAIN t : t[p].id < 100 * (n + 1)
  <2> TAKE p \in DOMAIN t
  <2>1. PICK q \in DOMAIN s : t[p] = s[q]
    <3>1. p = 1 \/ p \in 2 .. Len(t)
      BY <1>1, <1>2, <1>3
    <3>2. 1 \in DOMAIN s
      BY <1>1
    <3> QED
      BY <1>2, <1>4, <3>1, <3>2
  <2> QED
    BY <2>1 DEF Shape
<1>6. ASSUME NEW p \in 2 .. Len(t), t[p].role = "tool"
      PROVE  t[p].id = t[p - 1].id + 1 \/ (p = 2 /\ (n > 0 => t[p].id < 100 * n))
  <2>1. t[p] = s[p + d] /\ p + d \in 3 .. Len(s)
    BY <1>2, <1>4
  <2>2. CASE p = 2
    <3>1. ASSUME n > 0 PROVE s[p + d].id < 100 * n
      <4>1. PICK q, last \in Int : q = p + d /\ last = Len(s) - k
        <5>1. Len(s) - k \in Int
          BY <1>1
        <5> QED
          BY <5>1
      <4>2. q \in 2 .. (last + 1) /\ last + 1 = Len(s) + 1 - k
        BY <1>1, <2>1, <2>2, <4>1
      <4>3. q # last + 1
        BY <1>6, <2>1, <3>1, <4>1, <4>2 DEF Shape
      <4>4. q \in 2 .. last
        BY <4>2, <4>3
      <4> QED
        BY <3>1, <4>1, <4>4 DEF Shape
    <3> QED
      BY <2>1, <2>2, <3>1
  <2>3. CASE p # 2
    <3>1. p - 1 \in 2 .. Len(t) /\ (p - 1) + d = (p + d) - 1 /\ p + d # 2 /\ p + d \in 2 .. Len(s)
      BY <1>1, <1>2, <2>1, <2>3
    <3>2. t[p - 1] = s[(p + d) - 1]
      BY <1>2, <3>1
    <3>3. s[p + d].id = s[(p + d) - 1].id + 1
      BY <1>6, <2>1, <3>1 DEF Shape
    <3> QED
      BY <2>1, <3>2, <3>3
  <2> QED
    BY <2>2, <2>3
<1>7. ASSUME n > 0
      PROVE  /\ t[Len(t) + 1 - k].id = 100 * n /\ t[Len(t) + 1 - k].role = "assistant"
             /\ t[Len(t) + 1 - k].calls = k - 1
             /\ \A q \in 2 .. (Len(t) - k) : t[q].id < 100 * n
  <2>1. Len(t) + 1 - k \in 2 .. Len(t) /\ (Len(t) + 1 - k) + d = Len(s) + 1 - k
    BY <1>1, <1>2, <1>3
  <2>2. t[Len(t) + 1 - k] = s[Len(s) + 1 - k]
    BY <1>2, <2>1
  <2>3. ASSUME NEW q \in 2 .. (Len(t) - k) PROVE t[q].id < 100 * n
    <3>1. q \in 2 .. Len(t) /\ q + d \in 2 .. (Len(s) - k)
      BY <1>1, <1>2
    <3>2. s[q + d].id < 100 * n
      BY <1>7, <3>1 DEF Shape
    <3> QED
      BY <1>2, <3>1, <3>2
  <2> QED
    BY <1>7, <2>2, <2>3 DEF Shape
<1>8. t[1].role = "system"
  BY <1>2 DEF Shape
<1> QED
  BY <1>1, <1>2, <1>3, <1>5, <1>6, <1>7, <1>8 DEF Shape

\* t are the m + 1 messages of the round after n; all is s with t at its end.
OfRound(t, m, n) ==
    /\ t \in Seq(Msg) /\ Len(t) = 1 + m /\ t[1].role = "assistant" /\ t[1].calls = m
    /\ \A i \in 1 .. (1 + m) : t[i].id = 100 * (n + 1) + (i - 1)

Added(s, t, m, all) ==
    /\ all \in Seq(Msg) /\ Len(all) = Len(s) + (1 + m)
    /\ \A p \in 1 .. Len(s) : all[p] = s[p]
    /\ \A i \in 1 .. (1 + m) : all[Len(s) + i] = t[i]

\* The messages of a round that is over are the ones to be protected next.
LEMMA RoundAdded ==
    ASSUME NEW s, NEW k, NEW n \in Nat, Shape(s, k, n), NEW m \in Nat, m < 100,
           NEW t, OfRound(t, m, n), NEW all, Added(s, t, m, all)
    PROVE  Shape(all, 1 + m, n + 1)
<1>0. PICK len : len = Len(s)
  OBVIOUS
<1>1. /\ s \in Seq(Msg) /\ len \in Nat /\ DOMAIN s = 1 .. len
      /\ k \in Nat \ {0} /\ len >= 1 + k /\ s[1].role = "system"
  BY <1>0 DEF Shape
<1>2. /\ all \in Seq(Msg) /\ Len(all) = len + 1 + m
      /\ \A p \in 1 .. len : all[p] = s[p]
      /\ \A i \in 1 .. (1 + m) : all[len + i] = t[i]
  <2>1. len + (1 + m) = len + 1 + m
    BY <1>1
  <2> QED
    BY <1>0, <2>1 DEF Added
<1>10. /\ t[1].role = "assistant" /\ t[1].calls = m
      /\ \A i \in 1 .. (1 + m) : t[i].id = 100 * (n + 1) + (i - 1)
  BY DEF OfRound
<1>3. \A p \in 1 .. len : all[p].id < 100 * (n + 1)
  BY <1>1, <1>2 DEF Shape
<1>4. \A p \in 1 .. Len(all) : p \in 1 .. len \/ \E i \in 1 .. (1 + m) : p = len + i
  <2> TAKE p \in 1 .. Len(all)
  <2>1. p \notin 1 .. len => p - len \in 1 .. (1 + m) /\ p = len + (p - len)
    BY <1>1, <1>2
  <2> QED
    BY <2>1
<1>5. \A p \in DOMAIN all : all[p].id < 100 * ((n + 1) + 1)
  <2> TAKE p \in DOMAIN all
  <2>1. p \in 1 .. Len(all)
    BY <1>2
  <2>2. CASE p \in 1 .. len
    <3>1. s[p] \in Msg /\ all[p] = s[p] /\ all[p].id < 100 * (n + 1)
      BY <1>1, <1>2, <1>3, <2>2
    <3>2. all[p].id \in Nat
      BY <3>1 DEF Msg
    <3> QED
      BY <3>1, <3>2
  <2>3. ASSUME NEW i \in 1 .. (1 + m), p = len + i
        PROVE  all[p].id < 100 * ((n + 1) + 1)
    <3>1. all[p].id = 100 * (n + 1) + (i - 1)
      BY <1>2, <1>10, <2>3
    <3> QED
      BY <3>1
  <2> QED
    BY <1>4, <2>1, <2>2, <2>3
<1>6. ASSUME NEW p \in 2 .. Len(all), all[p].role = "tool"
      PROVE  all[p].id = all[p - 1].id + 1
             \/ (p = 2 /\ (n + 1 > 0 => all[p].id < 100 * (n + 1)))
  <2>1. p \in 1 .. Len(all)
    BY <1>1, <1>2
  <2>2. CASE p \in 1 .. len
    <3>1. p \in 2 .. Len(s) /\ p - 1 \in 1 .. len /\ s[p].role = "tool"
      <4>1. p \in 2 .. len /\ p - 1 \in 1 .. len
        BY <1>1, <1>6, <2>2
      <4>2. all[p] = s[p]
        BY <1>2, <2>2
      <4> QED
        BY <1>0, <1>6, <4>1, <4>2
    <3>2. s[p].id = s[p - 1].id + 1 \/ p = 2
      BY <3>1 DEF Shape
    <3>3. all[p] = s[p] /\ all[p - 1] = s[p - 1] /\ all[p].id < 100 * (n + 1)
      BY <1>2, <1>3, <2>2, <3>1
    <3> QED
      BY <3>2, <3>3
  <2>3. ASSUME NEW i \in 1 .. (1 + m), p = len + i
        PROVE  all[p].id = all[p - 1].id + 1
    <3>1. all[p] = t[i] /\ i # 1
      BY <1>2, <1>6, <1>10, <2>3
    <3>2. i - 1 \in 1 .. (1 + m) /\ p - 1 = len + (i - 1)
      BY <1>1, <2>3, <3>1
    <3>3. all[p - 1] = t[i - 1]
      BY <1>2, <3>2
    <3>4. t[i].id = 100 * (n + 1) + (i - 1) /\ t[i - 1].id = 100 * (n + 1) + ((i - 1) - 1)
      BY <1>10, <3>2
    <3> QED
      BY <3>1, <3>3, <3>4
  <2> QED
    BY <1>4, <2>1, <2>2, <2>3
<1>7. /\ all[Len(all) + 1 - (1 + m)].id = 100 * (n + 1)
      /\ all[Len(all) + 1 - (1 + m)].role = "assistant"
      /\ all[Len(all) + 1 - (1 + m)].calls = (1 + m) - 1
      /\ \A q \in 2 .. (Len(all) - (1 + m)) : all[q].id < 100 * (n + 1)
  <2>1. Len(all) + 1 - (1 + m) = len + 1 /\ Len(all) - (1 + m) = len /\ (1 + m) - 1 = m
    BY <1>1, <1>2
  <2>2. all[len + 1] = t[1]
    BY <1>2
  <2>3. t[1].id = 100 * (n + 1) + (1 - 1)
    BY <1>10
  <2>4. \A q \in 2 .. len : q \in 1 .. len
    BY <1>1
  <2> QED
    BY <1>3, <1>10, <2>1, <2>2, <2>3, <2>4
<1>8. all[1].role = "system" /\ Len(all) >= 1 + (1 + m) /\ 1 + m \in Nat \ {0}
  BY <1>1, <1>2
<1> QED
  BY <1>2, <1>5, <1>6, <1>7, <1>8 DEF Shape


-----------------------------------------------------------------------------
(* Each step of the cut and each round keep the shape. *)

PromptInv == Shape(prompt, keep, round)

LEMMA MiddleLength ==
    ASSUME NEW n \in Nat, Shape(prompt, keep, n)
    PROVE  Middle \in Seq(Msg) /\ Len(Middle) = Len(prompt) - 1 - keep
<1>1. prompt \in Seq(Msg) /\ Len(prompt) \in Nat /\ keep \in Nat \ {0} /\ Len(prompt) >= 1 + keep
  BY DEF Shape
<1>2. PICK s, last : s = prompt /\ last = Len(prompt) - keep
  OBVIOUS
<1>3. s \in Seq(Msg) /\ 2 \in 1 .. (Len(s) + 1) /\ last \in (2 - 1) .. Len(s)
  BY <1>1, <1>2
<1>4. SubSeq(s, 2, last) \in Seq(Msg) /\ Len(SubSeq(s, 2, last)) = last - 2 + 1
  BY <1>3, SubSeqProperties
<1>5. Middle = SubSeq(s, 2, last)
  BY <1>2 DEF Middle
<1> QED
  BY <1>1, <1>2, <1>4, <1>5

LEMMA DropStep ==
    ASSUME NEW n \in Nat, Shape(prompt, keep, n), DropOldest
    PROVE  Shape(prompt', keep', n)
<1>1. prompt \in Seq(Msg) /\ Len(prompt) \in Nat /\ keep \in Nat \ {0}
      /\ Len(prompt) >= 1 + keep
  BY DEF Shape
<1>2. PICK d : d = IF PairedAnswer(Middle[1], Tail(Middle)) THEN 2 ELSE 1
  OBVIOUS
<1>3. d \in {1, 2} /\ d <= Len(prompt) - 1 - keep
  <2>1. PICK s : s = Middle
    OBVIOUS
  <2>2. s \in Seq(Msg) /\ Len(s) = Len(prompt) - 1 - keep /\ s # <<>>
    BY <2>1, MiddleLength DEF DropOldest
  <2>3. Tail(s) # <<>> => Len(s) >= 2
    BY <2>2
  <2>4. d = 2 => Tail(s) # <<>>
    BY <1>2, <2>1 DEF PairedAnswer
  <2>5. d \in {1, 2} /\ Len(s) >= 1
    BY <1>2, <2>2
  <2>6. d <= Len(s)
    BY <2>2, <2>3, <2>4, <2>5
  <2> QED
    BY <2>2, <2>5, <2>6
<1>4. PICK s, t : s = prompt /\ t = prompt'
  OBVIOUS
<1>5. t = Joined(<<s[1]>>, SubSeq(s, d + 2, Len(s)))
  BY <1>2, <1>4 DEF DropOldest, Drop, System, Joined
<1>6. Cut(s, d, t)
  <2>1. s \in Seq(Msg) /\ d + 1 <= Len(s)
    BY <1>1, <1>3, <1>4
  <2> QED
    BY <1>3, <1>5, <2>1, WithoutOldest
<1>7. Shape(t, keep, n)
  <2>1. Shape(s, keep, n) /\ d <= Len(s) - 1 - keep
    BY <1>3, <1>4
  <2> QED
    BY <1>3, <1>6, <2>1, OldestDropped
<1>8. keep' = keep
  BY DEF DropOldest
<1> QED
  BY <1>4, <1>7, <1>8

\* One message is longer or shorter than before.
LEMMA RunesStep ==
    ASSUME NEW n \in Nat, Shape(prompt, keep, n), UNCHANGED keep,
           NEW i \in DOMAIN prompt, NEW runes \in Nat,
           prompt' = [prompt EXCEPT ![i].runes = runes]
    PROVE  Shape(prompt', keep', n)
<1>1. PICK s, t, old, new : /\ s = prompt /\ t = prompt' /\ old = prompt[i]
                            /\ new = [old EXCEPT !.runes = runes]
  OBVIOUS
<1>2. s \in Seq(Msg) /\ old \in Msg
  BY <1>1 DEF Shape
<1>3. new \in Msg /\ new.id = old.id /\ new.role = old.role /\ new.calls = old.calls
  BY <1>1, <1>2 DEF Msg
<1>4. t = [s EXCEPT ![i] = new]
  BY <1>1
<1>5. i \in DOMAIN s /\ s[i] = old
  BY <1>1
<1>6. t \in Seq(Msg) /\ Len(t) = Len(s) /\ DOMAIN t = DOMAIN s
  BY <1>2, <1>3, <1>4, <1>5
<1>7. \A p \in DOMAIN s : t[p].id = s[p].id /\ t[p].role = s[p].role /\ t[p].calls = s[p].calls
  BY <1>3, <1>4, <1>5
<1>8. Shape(s, keep, n)
  BY <1>1
<1>9. Shape(t, keep, n)
  BY <1>6, <1>7, <1>8, OnlyRunes
<1> QED
  BY <1>1, <1>9

LEMMA CapKeepsShape ==
    ASSUME NEW n \in Nat, Shape(prompt, keep, n), CapStep
    PROVE  Shape(prompt', keep', n)
<1>1. prompt \in Seq(Msg) /\ keep \in Nat /\ Len(prompt) \in Nat /\ Len(prompt) >= 1
  BY DEF Shape
<1>2. \A p \in DOMAIN prompt : prompt[p].runes \in Nat
  <2> TAKE p \in DOMAIN prompt
  <2>1. prompt[p] \in Msg
    BY <1>1
  <2> QED
    BY <2>1 DEF Msg
<1>3. CASE Measure \/ DropEnds \/ ShrinkEnds \/ NoSummary
  <2>1. UNCHANGED <<prompt, keep>>
    BY <1>3 DEF Measure, DropEnds, ShrinkEnds, NoSummary
  <2> QED
    BY <2>1
<1>4. CASE DropOldest
  BY <1>4, DropStep
<1>5. CASE Shrink
  <2>1. PICK i : i = Max(Shrinkable)
    OBVIOUS
  <2>2. i \in Shrinkable
    <3>1. \E x \in Shrinkable : \A y \in Shrinkable : x >= y
      <4>1. Shrinkable \subseteq 1 .. Len(prompt) /\ Shrinkable # {}
        BY <1>1, <1>5 DEF Shrink, Shrinkable
      <4> QED
        BY <1>1, <4>1, LargestOfInterval
    <3> QED
      BY <2>1, <3>1 DEF Max
  <2>3. i \in DOMAIN prompt
    BY <1>1, <2>2 DEF Shrinkable
  <2>4. Shorter(prompt[i].runes) \in Nat
    <3>1. PICK r \in Nat : r = prompt[i].runes
      BY <1>2, <2>3
    <3>2. (3 * r) \div 4 \in Nat
      BY <3>1
    <3> QED
      BY <3>1, <3>2 DEF Shorter, NoticeRunes
  <2>5. prompt' = [prompt EXCEPT ![i].runes = Shorter(prompt[i].runes)] /\ UNCHANGED keep
    BY <1>5, <2>1 DEF Shrink
  <2> QED
    BY <2>3, <2>4, <2>5, RunesStep
<1>6. ASSUME NEW runes \in SummaryRunes, Summary(runes) PROVE Shape(prompt', keep', n)
  <2>1. 1 \in DOMAIN prompt
    BY <1>1
  <2>2. prompt[1].runes + runes \in Nat
    BY <1>2, <1>6, <2>1, RoundsAssumption
  <2>3. prompt' = [prompt EXCEPT ![1].runes = prompt[1].runes + runes] /\ UNCHANGED keep
    BY <1>6 DEF Summary
  <2> QED
    BY <2>1, <2>2, <2>3, RunesStep
<1> QED
  BY <1>3, <1>4, <1>5, <1>6 DEF CapStep

LEMMA MessagesOfRound ==
    ASSUME LoopTyped, NEW runes \in ResultRunes
    PROVE  OfRound(RoundMessages(runes), Len(calls), round)
<1> DEFINE base == 100 * (round + 1)
           head == <<[Message(base, "assistant", 80, 0) EXCEPT !.calls = Len(calls)]>>
           tools == [i \in DOMAIN calls |-> Message(base + i, "tool", runes, 2)]
<1>1. calls \in Seq(States) /\ Len(calls) \in Nat /\ DOMAIN calls = 1 .. Len(calls)
      /\ round \in Nat /\ runes \in Nat
  BY RoundsAssumption DEF LoopTyped
<1>2. base \in Nat
  BY <1>1
<1>3. PICK h, t : h = head /\ t = tools
  OBVIOUS
<1>4. RoundMessages(runes) = Joined(h, t)
  BY <1>3 DEF RoundMessages, Joined
<1>5. /\ h \in Seq(Msg) /\ Len(h) = 1 /\ h[1].id = base /\ h[1].role = "assistant"
      /\ h[1].calls = Len(calls)
  <2> DEFINE m == [Message(base, "assistant", 80, 0) EXCEPT !.calls = Len(calls)]
  <2>1. m \in Msg /\ m.id = base /\ m.role = "assistant" /\ m.calls = Len(calls)
    BY <1>1, <1>2 DEF Message, Msg
  <2>2. h = <<m>>
    BY <1>3
  <2> HIDE DEF m
  <2> QED
    BY <2>1, <2>2
<1>6. t \in Seq(Msg) /\ Len(t) = Len(calls) /\ \A i \in 1 .. Len(calls) : t[i].id = base + i
  <2>1. \A i \in DOMAIN calls : /\ Message(base + i, "tool", runes, 2) \in Msg
                                /\ Message(base + i, "tool", runes, 2).id = base + i
    BY <1>1, <1>2 DEF Message, Msg
  <2> QED
    BY <1>1, <1>3, <2>1
<1> HIDE DEF base, head, tools
<1>7. PICK all : all = RoundMessages(runes)
  OBVIOUS
<1>8. h \in Seq(Msg) /\ t \in Seq(Msg) /\ all = Joined(h, t)
  BY <1>4, <1>5, <1>6, <1>7
<1>9. all \in Seq(Msg) /\ Len(all) = Len(h) + Len(t)
  BY <1>8, JoinedLength
<1>10. \A i \in 1 .. Len(h) : all[i] = h[i]
  BY <1>8, JoinedFirst
<1>11. \A i \in 1 .. Len(t) : all[Len(h) + i] = t[i]
  BY <1>8, JoinedSecond
<1>12. all[1] = h[1]
  <2>1. 1 \in 1 .. Len(h)
    BY <1>5
  <2> QED
    BY <1>10, <2>1
<1>13. ASSUME NEW i \in 1 .. (1 + Len(calls)) PROVE all[i].id = base + (i - 1)
  <2>1. CASE i = 1
    BY <1>2, <1>5, <1>12, <2>1
  <2>2. CASE i # 1
    <3>1. PICK j \in 1 .. Len(calls) : i = 1 + j
      <4>1. i - 1 \in 1 .. Len(calls) /\ i = 1 + (i - 1)
        BY <1>1, <2>2
      <4> QED
        BY <4>1
    <3>2. all[i] = t[j]
      BY <1>5, <1>6, <1>11, <3>1
    <3>3. i - 1 = j
      BY <1>1, <3>1
    <3> QED
      BY <1>6, <3>1, <3>2, <3>3
  <2> QED
    BY <2>1, <2>2
<1>14. Len(all) = 1 + Len(calls)
  BY <1>5, <1>6, <1>9
<1>15. OfRound(all, Len(calls), round)
  BY <1>5, <1>9, <1>12, <1>13, <1>14 DEF OfRound, base
<1> QED
  BY <1>7, <1>15

LEMMA SaveRoundKeepsShape ==
    ASSUME LoopTyped, PromptInv, NEW runes \in ResultRunes, SaveRound(runes)
    PROVE  PromptInv'
<1>1. PICK s, t, all : s = prompt /\ t = RoundMessages(runes) /\ all = prompt'
  OBVIOUS
<1>2. all = Joined(s, t) /\ keep' = 1 + Len(calls) /\ round' = round + 1
  BY <1>1 DEF SaveRound, Begin, Joined
<1>3. round \in Nat /\ Len(calls) \in Nat /\ Len(calls) < 100
  <2>1. calls \in Seq(States) /\ round \in Nat /\ Len(calls) <= MaxCalls
    BY DEF LoopTyped
  <2>2. MaxCalls < 100 /\ MaxCalls \in Nat /\ Len(calls) \in Nat
    BY <2>1, RoundsAssumption
  <2> QED
    BY <2>1, <2>2
<1>4. OfRound(t, Len(calls), round)
  BY <1>1, MessagesOfRound
<1>5. s \in Seq(Msg) /\ t \in Seq(Msg) /\ Len(t) = 1 + Len(calls)
  BY <1>1, <1>4 DEF PromptInv, Shape, OfRound
<1>6. Added(s, t, Len(calls), all)
  <2>1. all \in Seq(Msg) /\ Len(all) = Len(s) + Len(t)
    BY <1>2, <1>5, JoinedLength
  <2>2. \A i \in 1 .. Len(s) : all[i] = s[i]
    BY <1>2, <1>5, JoinedFirst
  <2>3. \A i \in 1 .. Len(t) : all[Len(s) + i] = t[i]
    BY <1>2, <1>5, JoinedSecond
  <2> QED
    BY <1>5, <2>1, <2>2, <2>3 DEF Added
<1>7. Shape(s, keep, round)
  BY <1>1 DEF PromptInv
<1>8. Shape(all, 1 + Len(calls), round + 1)
  BY <1>3, <1>4, <1>6, <1>7, RoundAdded
<1> QED
  BY <1>1, <1>2, <1>8 DEF PromptInv

LEMMA CapInitShape == ASSUME CapInit PROVE Shape(prompt, keep, 0)
<1>1. prompt \in Prompts /\ keep = 1
  BY DEF CapInit
<1>2. /\ prompt \in Seq(Msg) /\ Len(prompt) >= 2 /\ prompt[1].role = "system"
      /\ \A p \in DOMAIN prompt : prompt[p].id < 100
      /\ \A p \in 3 .. Len(prompt) :
            prompt[p].role = "tool" => prompt[p].id = prompt[p - 1].id + 1
  BY <1>1, PromptsAssumption
<1>3. \A p \in 2 .. Len(prompt) : p = 2 \/ p \in 3 .. Len(prompt)
  BY <1>2
<1> QED
  BY <1>1, <1>2, <1>3 DEF Shape

LEMMA PromptInvInit == ASSUME LoopInit PROVE PromptInv
<1>1. CapInit /\ round = 0
  BY DEF LoopInit
<1> QED
  BY <1>1, CapInitShape DEF PromptInv

\* Only the cut and the end of a round touch the prompt.
LEMMA CapElsewhere ==
    ASSUME [LoopNext]_turnVars, ~CapPrompt, \A runes \in ResultRunes : ~SaveRound(runes)
    PROVE  UNCHANGED capVars /\ UNCHANGED round
<1>1. CASE UNCHANGED turnVars
  BY <1>1 DEF turnVars, loopVars
<1>2. CASE Loop
  BY <1>2 DEF Loop, NextRound, Exhausted, Ask, AskFails, Answers, AsksForTools,
    SaveAnswer, AnswerUnsaved, TellAnswer, Join, SaveFails, Error
<1>3. ASSUME NEW i \in 1 .. MaxCalls, Goroutine(i) PROVE UNCHANGED capVars /\ UNCHANGED round
  BY <1>3 DEF Goroutine, ToolChecks, ToolStarts, ToolAborts, ToolTimeout
<1>4. ASSUME NEW k \in working, Work(k) PROVE UNCHANGED capVars /\ UNCHANGED round
  BY <1>4 DEF Work, Effect, ToolEnds
<1>5. CASE Leave \/ Kill
  BY <1>5 DEF Leave, Kill
<1> QED
  BY <1>1, <1>2, <1>3, <1>4, <1>5 DEF LoopNext

LEMMA PromptInvStep ==
    ASSUME LoopTyped, PromptInv, [LoopNext]_turnVars
    PROVE  PromptInv'
<1>0. round \in Nat
  BY DEF LoopTyped
<1>1. CASE CapPrompt
  <2>1. CapStep /\ UNCHANGED round /\ Shape(prompt, keep, round)
    BY <1>1 DEF CapPrompt, loopVars, PromptInv
  <2>2. Shape(prompt', keep', round)
    BY <1>0, <2>1, CapKeepsShape
  <2> QED
    BY <2>1, <2>2 DEF PromptInv
<1>2. ASSUME NEW runes \in ResultRunes, SaveRound(runes) PROVE PromptInv'
  BY <1>2, SaveRoundKeepsShape
<1>3. ASSUME ~CapPrompt, \A runes \in ResultRunes : ~SaveRound(runes) PROVE PromptInv'
  <2>1. UNCHANGED <<prompt, keep, round>>
    BY <1>3, CapElsewhere DEF capVars
  <2> QED
    BY <2>1 DEF PromptInv
<1> QED
  BY <1>1, <1>2, <1>3

(* Whatever the context, the histories and the tools' results, the runner of a
   round gets the system message and an unbroken end of the conversation with
   the last round's messages. *)
THEOREM RecentPrompt == LoopSpec => []PromptIsRecent
<1>1. PromptInv /\ LoopTyped => PromptIsRecent
  <2> SUFFICES ASSUME PromptInv, LoopTyped PROVE PromptIsRecent
    OBVIOUS
  <2>1. round > 0 => \E p \in DOMAIN prompt :
           prompt[p].id = 100 * round /\ Len(prompt) = p + prompt[p].calls
    <3>1. SUFFICES ASSUME round > 0 PROVE \E p \in DOMAIN prompt :
             prompt[p].id = 100 * round /\ Len(prompt) = p + prompt[p].calls
      OBVIOUS
    <3>2. PICK p : p = Len(prompt) + 1 - keep
      OBVIOUS
    <3>3. prompt[p].id = 100 * round /\ prompt[p].calls = keep - 1
      BY <3>1, <3>2 DEF PromptInv, Shape
    <3>4. p \in DOMAIN prompt /\ Len(prompt) = p + (keep - 1)
      <4>1. prompt \in Seq(Msg) /\ keep \in Nat \ {0} /\ Len(prompt) >= 1 + keep
        BY DEF PromptInv, Shape
      <4> QED
        BY <3>2, <4>1
    <3> QED
      BY <3>3, <3>4
  <2> QED
    BY <2>1 DEF PromptInv, Shape, PromptIsRecent
<1>2. LoopInv => LoopTyped
  BY DEF LoopInv
<1>3. LoopInit => PromptInv
  BY PromptInvInit
<1>4. PromptInv /\ LoopTyped /\ [LoopNext]_turnVars => PromptInv'
  BY PromptInvStep
<1> QED
  BY <1>1, <1>2, <1>3, <1>4, LoopAlways, PTL DEF LoopSpec

-----------------------------------------------------------------------------
(* Dropping: the running estimate is the estimate of what is left. *)

Gone(s, d, gone) ==
    /\ gone \in Seq(Msg) /\ Len(gone) = d
    /\ \A i \in 1 .. d : gone[i] = s[i + 1]

LEMMA SumWithout ==
    ASSUME NEW s \in Seq(Msg), NEW d \in {1, 2}, d + 1 <= Len(s),
           NEW gone, Gone(s, d, gone), NEW t, Cut(s, d, t)
    PROVE  SumTokens(s) = SumTokens(t) + SumTokens(gone)
<1>1. PICK len \in Nat : len = Len(s)
  OBVIOUS
<1>2. PICK head, mid, rest : /\ head = <<s[1]>> /\ mid = SubSeq(s, 2, Len(s))
                             /\ rest = SubSeq(s, d + 2, Len(s))
  OBVIOUS
<1>3. head \in Seq(Msg) /\ Len(head) = 1 /\ head[1] = s[1]
  <2>1. s[1] \in Msg
    BY <1>1
  <2> QED
    BY <1>2, <2>1
<1>4. mid \in Seq(Msg) /\ Len(mid) = len - 1 /\ \A i \in 1 .. (len - 1) : mid[i] = s[i + 1]
  <2>1. 2 \in 1 .. (Len(s) + 1) /\ Len(s) \in (2 - 1) .. Len(s)
    BY <1>1
  <2>2. /\ mid \in Seq(Msg) /\ Len(mid) = Len(s) - 2 + 1
        /\ \A i \in 1 .. (Len(s) - 2 + 1) : mid[i] = s[2 + i - 1]
    BY <1>2, <2>1, SubSeqProperties
  <2>3. Len(s) - 2 + 1 = len - 1 /\ \A i \in 1 .. (len - 1) : 2 + i - 1 = i + 1
    BY <1>1
  <2> QED
    BY <2>2, <2>3
<1>5. /\ rest \in Seq(Msg) /\ Len(rest) = len - 1 - d
      /\ \A i \in 1 .. (len - 1 - d) : rest[i] = s[i + d + 1]
  <2>1. d + 2 \in 1 .. (Len(s) + 1) /\ Len(s) \in ((d + 2) - 1) .. Len(s)
    BY <1>1
  <2>2. /\ rest \in Seq(Msg) /\ Len(rest) = Len(s) - (d + 2) + 1
        /\ \A i \in 1 .. (Len(s) - (d + 2) + 1) : rest[i] = s[(d + 2) + i - 1]
    BY <1>2, <2>1, SubSeqProperties
  <2>3. Len(s) - (d + 2) + 1 = len - 1 - d
        /\ \A i \in 1 .. (len - 1 - d) : (d + 2) + i - 1 = i + d + 1
    BY <1>1
  <2> QED
    BY <2>2, <2>3
<1>6. Gone(s, d, gone)
  OBVIOUS
<1>7. gone \in Seq(Msg) /\ Len(gone) = d /\ \A i \in 1 .. d : gone[i] = s[i + 1]
  BY <1>6 DEF Gone
<1>8. /\ t \in Seq(Msg) /\ Len(t) = len - d /\ t[1] = s[1]
      /\ \A p \in 2 .. (len - d) : t[p] = s[p + d]
  BY <1>1 DEF Cut
<1>9. Together(head, mid, s)
  <2>1. Len(s) = Len(head) + Len(mid) /\ \A i \in 1 .. Len(head) : s[i] = head[i]
    BY <1>1, <1>3, <1>4
  <2>2. \A i \in 1 .. Len(mid) : s[Len(head) + i] = mid[i]
    BY <1>1, <1>3, <1>4
  <2> QED
    BY <2>1, <2>2 DEF Together
<1>10. Together(gone, rest, mid)
  <2>1. Len(mid) = Len(gone) + Len(rest)
    BY <1>1, <1>4, <1>5, <1>7
  <2>2. \A i \in 1 .. Len(gone) : mid[i] = gone[i]
    BY <1>1, <1>4, <1>7
  <2>3. ASSUME NEW i \in 1 .. Len(rest) PROVE mid[Len(gone) + i] = rest[i]
    <3>1. i \in 1 .. (len - 1 - d) /\ d + i \in 1 .. (len - 1) /\ (d + i) + 1 = i + d + 1
      BY <1>1, <1>5
    <3> QED
      BY <1>4, <1>5, <1>7, <3>1
  <2> QED
    BY <2>1, <2>2, <2>3 DEF Together
<1>11. Together(head, rest, t)
  <2>1. Len(t) = Len(head) + Len(rest) /\ \A i \in 1 .. Len(head) : t[i] = head[i]
    BY <1>1, <1>3, <1>5, <1>8
  <2>2. ASSUME NEW i \in 1 .. Len(rest) PROVE t[Len(head) + i] = rest[i]
    <3>1. i \in 1 .. (len - 1 - d) /\ 1 + i \in 2 .. (len - d) /\ (1 + i) + d = i + d + 1
      BY <1>1, <1>5
    <3> QED
      BY <1>3, <1>5, <1>8, <3>1
  <2> QED
    BY <2>1, <2>2 DEF Together
<1>12. /\ SumTokens(s) = SumTokens(head) + SumTokens(mid)
       /\ SumTokens(mid) = SumTokens(gone) + SumTokens(rest)
       /\ SumTokens(t) = SumTokens(head) + SumTokens(rest)
  BY <1>3, <1>4, <1>5, <1>7, <1>8, <1>9, <1>10, <1>11, SumTogether
<1>13. SumTokens(head) \in Nat /\ SumTokens(gone) \in Nat /\ SumTokens(rest) \in Nat
  BY <1>3, <1>5, <1>7, SumNat
<1> QED
  BY <1>12, <1>13

-----------------------------------------------------------------------------
(* What went last: a question about an image with its answer, or one message *)

AnswerTo(first, second) ==
    /\ first.role = "user" /\ first.vision
    /\ second.role = "assistant" /\ second.calls = 0

LEMMA PairedIs ==
    ASSUME NEW first, NEW rest
    PROVE  PairedAnswer(first, rest) <=> rest # <<>> /\ AnswerTo(first, rest[1])
BY DEF PairedAnswer, AnswerTo

\* d messages of mid go, and those before them were not a question to mid[1].
Leaves(mid, d, gone) ==
    /\ mid \in Seq(Msg) /\ mid # <<>> /\ gone \in Seq(Msg) /\ Len(gone) = d /\ d <= Len(mid)
    /\ \A i \in 1 .. d : gone[i] = mid[i]
    /\ d = IF Len(mid) >= 2 /\ AnswerTo(mid[1], mid[2]) THEN 2 ELSE 1

LastUnit(dr) ==
    LET n == Len(dr)
        unit == IF n > 1 /\ PairedAnswer(dr[n - 1], <<dr[n]>>) THEN 2 ELSE 1
    IN  SubSeq(dr, n - unit + 1, n)

LEMMA LastUnitIs ==
    ASSUME NEW mid, NEW d \in {1, 2}, NEW gone, Leaves(mid, d, gone), NEW dr \in Seq(Msg),
           dr # <<>> => ~AnswerTo(dr[Len(dr)], mid[1])
    PROVE  LastUnit(Joined(dr, gone)) = gone
<1>1. PICK all, n : all = Joined(dr, gone) /\ n = Len(dr) + d
  OBVIOUS
<1>2. /\ mid \in Seq(Msg) /\ mid # <<>> /\ gone \in Seq(Msg) /\ Len(gone) = d /\ d <= Len(mid)
      /\ \A i \in 1 .. d : gone[i] = mid[i]
      /\ d = IF Len(mid) >= 2 /\ AnswerTo(mid[1], mid[2]) THEN 2 ELSE 1
  BY DEF Leaves
<1>3. /\ all \in Seq(Msg) /\ Len(all) = n /\ n \in Nat /\ Len(dr) \in Nat
      /\ \A i \in 1 .. d : all[Len(dr) + i] = gone[i]
  <2>1. gone \in Seq(Msg)
    BY <1>2
  <2>2. all \in Seq(Msg) /\ Len(all) = Len(dr) + Len(gone)
    BY <1>1, <2>1, JoinedLength
  <2>3. \A i \in 1 .. Len(gone) : all[Len(dr) + i] = gone[i]
    BY <1>1, <2>1, JoinedSecond
  <2> QED
    BY <1>1, <1>2, <2>2, <2>3
<1>4. \A i \in 1 .. Len(dr) : all[i] = dr[i]
  BY <1>1, <1>2, JoinedFirst
<1>5. d = IF n > 1 /\ AnswerTo(all[n - 1], all[n]) THEN 2 ELSE 1
  <2>1. CASE d = 2
    <3>1. n - 1 = Len(dr) + 1 /\ n = Len(dr) + 2 /\ n > 1 /\ 1 \in 1 .. d /\ 2 \in 1 .. d
      BY <1>1, <1>3, <2>1
    <3>2. all[n - 1] = mid[1] /\ all[n] = mid[2]
      BY <1>2, <1>3, <3>1
    <3>3. AnswerTo(mid[1], mid[2])
      BY <1>2, <2>1
    <3> QED
      BY <2>1, <3>1, <3>2, <3>3
  <2>2. CASE d = 1
    <3>1. SUFFICES ASSUME n > 1, AnswerTo(all[n - 1], all[n]) PROVE FALSE
      BY <2>2
    <3>2. n - 1 = Len(dr) /\ n = Len(dr) + 1 /\ Len(dr) \in 1 .. Len(dr) /\ 1 \in 1 .. d
      BY <1>1, <1>3, <2>2, <3>1
    <3>3. all[n - 1] = dr[Len(dr)] /\ all[n] = mid[1]
      BY <1>2, <1>3, <1>4, <3>2
    <3>4. dr # <<>>
      BY <3>2
    <3> QED
      BY <3>1, <3>3, <3>4
  <2> QED
    BY <2>1, <2>2
<1>6. LastUnit(all) = SubSeq(all, n - d + 1, n)
  <2>1. PairedAnswer(all[n - 1], <<all[n]>>) <=> AnswerTo(all[n - 1], all[n])
    BY PairedIs
  <2>2. Len(all) = n
    BY <1>3
  <2> QED
    BY <1>5, <2>1, <2>2 DEF LastUnit
<1>7. PICK unit : unit = SubSeq(all, n - d + 1, n)
  OBVIOUS
<1>8. /\ unit \in Seq(Msg) /\ Len(unit) = d
      /\ \A i \in 1 .. d : unit[i] = all[Len(dr) + i]
  <2>1. n - d + 1 \in 1 .. (Len(all) + 1) /\ n \in ((n - d + 1) - 1) .. Len(all)
    BY <1>1, <1>3
  <2>2. /\ unit \in Seq(Msg) /\ Len(unit) = n - (n - d + 1) + 1
        /\ \A i \in 1 .. (n - (n - d + 1) + 1) : unit[i] = all[(n - d + 1) + i - 1]
    BY <1>3, <1>7, <2>1, SubSeqProperties
  <2>3. n - (n - d + 1) + 1 = d /\ \A i \in 1 .. d : (n - d + 1) + i - 1 = Len(dr) + i
    BY <1>1, <1>3
  <2> QED
    BY <2>2, <2>3
<1>9. unit = gone
  <2>1. \A i \in 1 .. d : unit[i] = gone[i]
    BY <1>3, <1>8
  <2> QED
    BY <1>2, <1>8, <2>1, SeqEqual
<1> QED
  BY <1>1, <1>6, <1>7, <1>9

LEMMA NotTorn ==
    ASSUME NEW mid, NEW d \in {1, 2}, NEW gone, Leaves(mid, d, gone), Len(mid) > d
    PROVE  ~AnswerTo(gone[d], mid[d + 1])
<1>1. /\ mid \in Seq(Msg)
      /\ \A i \in 1 .. d : gone[i] = mid[i]
      /\ d = IF Len(mid) >= 2 /\ AnswerTo(mid[1], mid[2]) THEN 2 ELSE 1
  BY DEF Leaves
<1>2. gone[d] = mid[d]
  BY <1>1
<1>3. CASE d = 1
  BY <1>1, <1>2, <1>3
<1>4. CASE d = 2
  BY <1>1, <1>2, <1>4 DEF AnswerTo
<1> QED
  BY <1>3, <1>4

-----------------------------------------------------------------------------
(* What the first cut has dropped, in the order of its passes *)

\* The prompt s, k of it protected, did not fit before the last of dr went.
InNeed(s, k, dr) ==
    /\ dr # <<>> /\ Len(s) > 1 + k => ~AnswerTo(dr[Len(dr)], s[2])
    /\ dr # <<>> => SumTokens(s) + SumTokens(LastUnit(dr)) > MaxTok

CutInv ==
    /\ dropped \in Seq(Msg)
    /\ ~again =>
          /\ phase \in {"cap", "shrink"} => dropped = <<>>
          /\ phase = "drop" => total = SumTokens(prompt)
          /\ InNeed(prompt, keep, dropped)
          /\ phase \in {"summary", "capped"} /\ dropped # <<>> =>
                SumTokens(prompt) <= MaxTok \/ Middle = <<>>

\* mid is what s has between its first message and the protected ones.
Between(s, k, mid) ==
    Len(mid) = Len(s) - 1 - k /\ \A i \in 1 .. Len(mid) : mid[i] = s[i + 1]

LEMMA DropInNeed ==
    ASSUME NEW s \in Seq(Msg), NEW k \in Nat, NEW mid \in Seq(Msg), NEW d \in {1, 2},
           Between(s, k, mid), NEW gone, Leaves(mid, d, gone), NEW t, Cut(s, d, t), SumTokens(s) > MaxTok,
           NEW dr \in Seq(Msg), InNeed(s, k, dr)
    PROVE  /\ SumTokens(t) = SumTokens(s) - SumTokens(gone)
           /\ InNeed(t, k, Joined(dr, gone))
<1>1. PICK all, len : all = Joined(dr, gone) /\ len = Len(s)
  OBVIOUS
<1>2. mid # <<>> /\ gone \in Seq(Msg) /\ Len(gone) = d /\ d <= Len(mid)
      /\ \A i \in 1 .. d : gone[i] = mid[i]
  BY DEF Leaves
<1>3. /\ len \in Nat /\ Len(mid) = len - 1 - k /\ d + 1 <= len
      /\ \A i \in 1 .. Len(mid) : mid[i] = s[i + 1]
      /\ \A i \in 1 .. d : i \in 1 .. Len(mid)
  BY <1>1, <1>2 DEF Between
<1>4. Gone(s, d, gone)
  BY <1>2, <1>3 DEF Gone
<1>5. SumTokens(s) = SumTokens(t) + SumTokens(gone)
  BY <1>1, <1>3, <1>4, SumWithout
<1>6. t \in Seq(Msg) /\ Len(t) = len - d /\ (2 \in 2 .. (len - d) => t[2] = s[2 + d])
  BY <1>1 DEF Cut
<1>7. SumTokens(t) \in Nat /\ SumTokens(gone) \in Nat
  BY <1>2, <1>6, SumNat
<1>8. LastUnit(all) = gone
  <2>1. mid[1] = s[2] /\ Len(s) > 1 + k
    BY <1>1, <1>2, <1>3
  <2>2. dr # <<>> => ~AnswerTo(dr[Len(dr)], mid[1])
    BY <2>1 DEF InNeed
  <2> QED
    BY <1>1, <2>2, LastUnitIs
<1>9. Len(all) = Len(dr) + d /\ all[Len(all)] = gone[d]
  <2>1. gone \in Seq(Msg)
    BY <1>2
  <2>2. Len(all) = Len(dr) + Len(gone)
    BY <1>1, <2>1, JoinedLength
  <2>3. all[Len(dr) + d] = gone[d]
    <3>1. d \in 1 .. Len(gone)
      BY <1>2
    <3> QED
      BY <1>1, <2>1, <3>1, JoinedSecond
  <2> QED
    BY <1>2, <2>2, <2>3
<1>10. ASSUME Len(t) > 1 + k PROVE ~AnswerTo(all[Len(all)], t[2])
  <2>1. Len(mid) > d /\ d + 1 \in 1 .. Len(mid) /\ (d + 1) + 1 = 2 + d /\ 2 \in 2 .. (len - d)
    BY <1>3, <1>6, <1>10
  <2>2. mid[d + 1] = s[2 + d]
    BY <1>3, <2>1
  <2>3. ~AnswerTo(gone[d], mid[d + 1])
    BY <2>1, NotTorn
  <2> QED
    BY <1>6, <1>9, <2>1, <2>2, <2>3
<1>11. SumTokens(t) + SumTokens(LastUnit(all)) > MaxTok
  BY <1>5, <1>8
<1>12. SumTokens(t) = SumTokens(s) - SumTokens(gone)
  BY <1>5, <1>7
<1>13. InNeed(t, k, all)
  BY <1>10, <1>11 DEF InNeed
<1> QED
  BY <1>1, <1>12, <1>13

LEMMA CutInvInit == ASSUME CapInit PROVE CutInv
<1>1. dropped = <<>> /\ phase = "cap"
  BY DEF CapInit
<1> QED
  BY <1>1 DEF CutInv, InNeed

LEMMA MiddleIs ==
    ASSUME NEW n \in Nat, Shape(prompt, keep, n)
    PROVE  \A i \in 1 .. Len(Middle) : Middle[i] = prompt[i + 1]
<1>1. prompt \in Seq(Msg) /\ Len(prompt) \in Nat /\ keep \in Nat \ {0} /\ Len(prompt) >= 1 + keep
  BY DEF Shape
<1>2. PICK s, last : s = prompt /\ last = Len(prompt) - keep
  OBVIOUS
<1>3. s \in Seq(Msg) /\ 2 \in 1 .. (Len(s) + 1) /\ last \in (2 - 1) .. Len(s)
  BY <1>1, <1>2
<1>4. /\ Len(SubSeq(s, 2, last)) = last - 2 + 1
      /\ \A i \in 1 .. (last - 2 + 1) : SubSeq(s, 2, last)[i] = s[2 + i - 1]
  BY <1>3, SubSeqProperties
<1>5. Middle = SubSeq(s, 2, last) /\ \A i \in 1 .. (last - 2 + 1) : 2 + i - 1 = i + 1
  BY <1>1, <1>2 DEF Middle
<1> QED
  BY <1>2, <1>4, <1>5

LEMMA DropKeepsCut ==
    ASSUME NEW n \in Nat, Shape(prompt, keep, n), CutInv, DropOldest
    PROVE  CutInv'
<1>1. prompt \in Seq(Msg) /\ Len(prompt) \in Nat /\ keep \in Nat \ {0}
      /\ Len(prompt) >= 1 + keep
  BY DEF Shape
<1>2. PICK s, t, mid, dr, d :
         /\ s = prompt /\ t = prompt' /\ mid = Middle /\ dr = dropped
         /\ d = IF PairedAnswer(Middle[1], Tail(Middle)) THEN 2 ELSE 1
  OBVIOUS
<1>3. /\ mid \in Seq(Msg) /\ Len(mid) = Len(s) - 1 - keep /\ mid # <<>>
      /\ \A i \in 1 .. Len(mid) : mid[i] = s[i + 1]
  BY <1>2, MiddleLength, MiddleIs DEF DropOldest
<1>4. d = IF Len(mid) >= 2 /\ AnswerTo(mid[1], mid[2]) THEN 2 ELSE 1
  <2>1. (Tail(mid) # <<>> <=> Len(mid) >= 2) /\ (Len(mid) >= 2 => Tail(mid)[1] = mid[2])
    <3>1. mid \in Seq(Msg) /\ mid # <<>>
      BY <1>3
    <3>2. PICK tail : tail = Tail(mid)
      OBVIOUS
    <3>3. /\ tail \in Seq(Msg) /\ Len(tail) = Len(mid) - 1
          /\ \A i \in 1 .. Len(tail) : tail[i] = mid[i + 1]
      BY <3>1, <3>2, HeadTailProperties
    <3>4. tail # <<>> <=> Len(mid) >= 2
      BY <3>1, <3>3
    <3>5. Len(mid) >= 2 => tail[1] = mid[2]
      BY <3>1, <3>3
    <3> QED
      BY <3>2, <3>4, <3>5
  <2>2. PairedAnswer(mid[1], Tail(mid)) <=> Tail(mid) # <<>> /\ AnswerTo(mid[1], Tail(mid)[1])
    BY PairedIs
  <2>3. d = IF PairedAnswer(mid[1], Tail(mid)) THEN 2 ELSE 1
    BY <1>2
  <2> QED
    BY <2>1, <2>2, <2>3
<1>5. d \in {1, 2} /\ d <= Len(mid) /\ d + 1 <= Len(s)
  BY <1>1, <1>2, <1>3, <1>4
<1>6. PICK gone : gone = SubSeq(mid, 1, d)
  OBVIOUS
<1>7. gone \in Seq(Msg) /\ Len(gone) = d /\ \A i \in 1 .. d : gone[i] = mid[i]
  <2>1. 1 \in 1 .. (Len(mid) + 1) /\ d \in (1 - 1) .. Len(mid)
    BY <1>3, <1>5
  <2>2. /\ gone \in Seq(Msg) /\ Len(gone) = d - 1 + 1
        /\ \A i \in 1 .. (d - 1 + 1) : gone[i] = mid[1 + i - 1]
    BY <1>3, <1>6, <2>1, SubSeqProperties
  <2>3. d - 1 + 1 = d /\ \A i \in 1 .. d : 1 + i - 1 = i
    BY <1>5
  <2> QED
    BY <2>2, <2>3
<1>8. Leaves(mid, d, gone)
  BY <1>3, <1>4, <1>5, <1>7 DEF Leaves
<1>9. t = Joined(<<s[1]>>, SubSeq(s, d + 2, Len(s)))
  BY <1>2 DEF DropOldest, Drop, System, Joined
<1>10. Cut(s, d, t)
  <2>1. s \in Seq(Msg)
    BY <1>1, <1>2
  <2> QED
    BY <1>5, <1>9, <2>1, WithoutOldest
<1>11. /\ dropped' = IF again THEN dr ELSE Joined(dr, gone)
       /\ total' = total - SumTokens(gone)
  BY <1>2, <1>6 DEF DropOldest, Drop, Joined
<1>12. phase = "drop" /\ phase' = "drop" /\ again' = again /\ keep' = keep /\ total > MaxTok
  BY DEF DropOldest
<1>13. dr \in Seq(Msg) /\ Joined(dr, gone) \in Seq(Msg)
  <2>1. dr \in Seq(Msg) /\ gone \in Seq(Msg)
    BY <1>2, <1>7 DEF CutInv
  <2> QED
    BY <2>1, JoinedLength
<1>14. ASSUME ~again
       PROVE  /\ total' = SumTokens(t)
              /\ InNeed(t, keep, Joined(dr, gone))
  <2>1. total = SumTokens(s) /\ InNeed(s, keep, dr)
    BY <1>2, <1>12, <1>14 DEF CutInv
  <2>2. s \in Seq(Msg) /\ keep \in Nat /\ SumTokens(s) > MaxTok
    BY <1>1, <1>2, <1>12, <2>1
  <2>3. /\ SumTokens(t) = SumTokens(s) - SumTokens(gone)
        /\ InNeed(t, keep, Joined(dr, gone))
    <3>1. mid \in Seq(Msg) /\ d \in {1, 2} /\ dr \in Seq(Msg)
      BY <1>3, <1>5, <1>13
    <3>2. Between(s, keep, mid)
      BY <1>3 DEF Between
    <3> QED
      BY <1>8, <1>10, <2>1, <2>2, <3>1, <3>2, DropInNeed
  <2> QED
    BY <1>11, <2>1, <2>3
<1>15. dropped' \in Seq(Msg)
  BY <1>11, <1>13
<1> QED
  BY <1>2, <1>11, <1>12, <1>14, <1>15 DEF CutInv

LEMMA CapKeepsCut ==
    ASSUME NEW n \in Nat, Shape(prompt, keep, n), CutInv, CapStep
    PROVE  CutInv'
<1>1. CASE Measure
  <2>1. phase = "cap" /\ phase' \in {"capped", "shrink", "drop"} /\ total' = SumTokens(prompt)
        /\ UNCHANGED <<prompt, keep, again, dropped>>
    BY <1>1 DEF Measure
  <2>2. ~again => dropped = <<>>
    BY <2>1 DEF CutInv
  <2> QED
    BY <2>1, <2>2 DEF CutInv, InNeed
<1>2. CASE DropOldest
  BY <1>2, DropKeepsCut
<1>3. CASE DropEnds
  <2>1. /\ phase = "drop" /\ phase' \in {"summary", "capped"}
        /\ total <= MaxTok \/ Middle = <<>>
        /\ UNCHANGED <<prompt, keep, again, dropped>>
    BY <1>3 DEF DropEnds
  <2>2. Middle' = Middle
    BY <2>1 DEF Middle
  <2>3. phase' # "cap" /\ phase' # "shrink" /\ phase' # "drop"
    BY <2>1
  <2>4. dropped' \in Seq(Msg)
    BY <2>1 DEF CutInv
  <2>5. ASSUME ~again
        PROVE  /\ InNeed(prompt', keep', dropped')
               /\ SumTokens(prompt') <= MaxTok \/ Middle' = <<>>
    BY <2>1, <2>2, <2>5 DEF CutInv
  <2> QED
    BY <2>1, <2>3, <2>4, <2>5 DEF CutInv
<1>4. CASE Shrink
  <2>1. phase = "shrink" /\ phase' = "shrink" /\ UNCHANGED <<keep, again, dropped>>
    BY <1>4 DEF Shrink
  <2>2. ~again => dropped = <<>>
    BY <2>1 DEF CutInv
  <2> QED
    BY <2>1, <2>2 DEF CutInv, InNeed
<1>5. CASE ShrinkEnds
  <2>1. phase = "shrink" /\ phase' = "capped" /\ UNCHANGED <<keep, again, dropped>>
    BY <1>5 DEF ShrinkEnds
  <2>2. ~again => dropped = <<>>
    BY <2>1 DEF CutInv
  <2> QED
    BY <2>1, <2>2 DEF CutInv, InNeed
<1>6. CASE NoSummary
  <2>1. phase = "summary" /\ phase' = "capped" /\ UNCHANGED <<prompt, keep, again, dropped>>
    BY <1>6 DEF NoSummary
  <2>2. Middle' = Middle
    BY <2>1 DEF Middle
  <2> QED
    BY <2>1, <2>2 DEF CutInv
<1>7. ASSUME NEW runes \in SummaryRunes, Summary(runes) PROVE CutInv'
  <2>1. again' = TRUE /\ dropped' = dropped
    BY <1>7 DEF Summary
  <2> QED
    BY <2>1 DEF CutInv
<1> QED
  BY <1>1, <1>2, <1>3, <1>4, <1>5, <1>6, <1>7 DEF CapStep

LEMMA CutSame == ASSUME CutInv, UNCHANGED capVars PROVE CutInv'
<1>1. UNCHANGED <<prompt, keep, phase, again, total, dropped>>
  BY DEF capVars
<1>2. Middle' = Middle
  BY <1>1 DEF Middle
<1> QED
  BY <1>1, <1>2 DEF CutInv

LEMMA CutInvStep ==
    ASSUME LoopTyped, PromptInv, CutInv, [LoopNext]_turnVars
    PROVE  CutInv'
<1>1. CASE CapPrompt
  <2>1. CapStep /\ round \in Nat /\ Shape(prompt, keep, round)
    BY <1>1 DEF CapPrompt, LoopTyped, PromptInv
  <2> QED
    BY <2>1, CapKeepsCut
<1>2. ASSUME NEW runes \in ResultRunes, SaveRound(runes) PROVE CutInv'
  <2>1. phase' = "cap" /\ dropped' = <<>>
    BY <1>2 DEF SaveRound, Begin
  <2> QED
    BY <2>1 DEF CutInv, InNeed
<1>3. ASSUME ~CapPrompt, \A runes \in ResultRunes : ~SaveRound(runes) PROVE CutInv'
  BY <1>3, CapElsewhere, CutSame
<1> QED
  BY <1>1, <1>2, <1>3

LEMMA CutFits ==
    ASSUME NEW n \in Nat, Shape(prompt, keep, n), CutInv
    PROVE  CutToFit
<1> SUFFICES ASSUME phase = "capped", dropped # <<>>, ~again
             PROVE  CutToFit
  BY DEF CutToFit
<1>1. InNeed(prompt, keep, dropped) /\ (SumTokens(prompt) <= MaxTok \/ Middle = <<>>)
  BY DEF CutInv
<1>2. ASSUME Middle # <<>> PROVE ~PairedAnswer(dropped[Len(dropped)], Middle)
  <2>1. Len(Middle) \in Nat \ {0} /\ Len(prompt) > 1 + keep /\ Middle[1] = prompt[1 + 1]
    <3>1. Middle \in Seq(Msg) /\ Len(Middle) = Len(prompt) - 1 - keep
          /\ \A i \in 1 .. Len(Middle) : Middle[i] = prompt[i + 1]
      BY MiddleLength, MiddleIs
    <3>2. Len(Middle) \in Nat \ {0} /\ 1 \in 1 .. Len(Middle)
      BY <1>2, <3>1
    <3>3. Len(prompt) \in Nat /\ keep \in Nat
      BY DEF Shape
    <3> QED
      BY <3>1, <3>2, <3>3
  <2>2. ~AnswerTo(dropped[Len(dropped)], Middle[1])
    BY <1>1, <2>1 DEF InNeed
  <2> QED
    BY <2>2, PairedIs
<1>3. SumTokens(prompt) + SumTokens(LastUnit(dropped)) > MaxTok
  BY <1>1 DEF InNeed
<1> QED
  BY <1>1, <1>2, <1>3 DEF CutToFit, LastUnit

(* Whatever the context, the prompts and the lengths of the summaries: a prompt
   is cut only while it does not fit, and the cut never leaves the answer to a
   question about an image without the question. *)
THEOREM CutAlone == CapFairSpec => []CutToFit
<1>1. CapInit => Shape(prompt, keep, 0) /\ CutInv
  BY CapInitShape, CutInvInit
<1>2. /\ Shape(prompt, keep, 0) /\ CutInv /\ [CapStep]_capVars
      => (Shape(prompt, keep, 0) /\ CutInv)'
  <2> SUFFICES ASSUME Shape(prompt, keep, 0), CutInv, [CapStep]_capVars
               PROVE  Shape(prompt', keep', 0) /\ CutInv'
    OBVIOUS
  <2>1. CASE CapStep
    BY <2>1, CapKeepsShape, CapKeepsCut
  <2>2. CASE UNCHANGED capVars
    BY <2>2, CutSame DEF capVars
  <2> QED
    BY <2>1, <2>2
<1>3. Shape(prompt, keep, 0) /\ CutInv => CutToFit
  BY CutFits
<1> QED
  BY <1>1, <1>2, <1>3, PTL DEF CapFairSpec

(* The same of every cut of a turn with tools, where the last round's messages
   are protected and the results make the prompt longer from round to round. *)
THEOREM CutAsNeeded == LoopSpec => []CutToFit
<1>1. PromptInv /\ LoopTyped /\ CutInv => CutToFit
  BY CutFits DEF PromptInv, LoopTyped
<1>2. LoopInv => LoopTyped
  BY DEF LoopInv
<1>3. LoopInit => PromptInv /\ CutInv
  BY PromptInvInit, CutInvInit DEF LoopInit
<1>4. PromptInv /\ LoopTyped /\ [LoopNext]_turnVars => PromptInv'
  BY PromptInvStep
<1>5. PromptInv /\ LoopTyped /\ CutInv /\ [LoopNext]_turnVars => CutInv'
  BY CutInvStep
<1> QED
  BY <1>1, <1>2, <1>3, <1>4, <1>5, LoopAlways, PTL DEF LoopSpec

-----------------------------------------------------------------------------
(* The rest of the loop's types: its bounds *)

Bounds ==
    /\ phase \in {"cap", "drop", "shrink", "summary", "capped"}
    /\ round <= MaxRounds /\ (at \in {"ask", "tools", "save"} => round < MaxRounds)
    /\ \A k \in working \cup effects : k[2] \in 1 .. MaxCalls
    /\ told.kind \in {"nothing", "text", "status", "notice", "error"}
    /\ told.id \in 0 .. Len(rows)

LEMMA BoundsInit == ASSUME LoopInit PROVE Bounds
<1>1. Len(rows) = 0
  BY DEF LoopInit
<1> QED
  BY <1>1, RoundsAssumption DEF LoopInit, CapInit, Bounds

LEMMA SendBounds ==
    ASSUME Bounds, NEW kind \in {"text", "notice", "error"}, NEW id \in 0 .. Len(rows),
           SendWithId(kind, id)
    PROVE  told'.kind \in {"nothing", "text", "status", "notice", "error"}
           /\ told'.id \in 0 .. Len(rows)
BY DEF Bounds, SendWithId

LEMMA PhaseStep ==
    ASSUME Bounds, [LoopNext]_turnVars
    PROVE  phase' \in {"cap", "drop", "shrink", "summary", "capped"}
<1>1. CASE CapPrompt
  BY <1>1 DEF Bounds, CapPrompt, CapStep, Measure, DropOldest, DropEnds, Shrink, ShrinkEnds,
    NoSummary, Summary
<1>2. ASSUME NEW runes \in ResultRunes, SaveRound(runes) PROVE phase' = "cap"
  BY <1>2 DEF SaveRound, Begin
<1>3. ASSUME ~CapPrompt, \A runes \in ResultRunes : ~SaveRound(runes) PROVE UNCHANGED capVars
  BY <1>3, CapElsewhere
<1> QED
  BY <1>1, <1>2, <1>3 DEF Bounds, capVars

LEMMA RoundStep ==
    ASSUME LoopInv, Bounds, [LoopNext]_turnVars
    PROVE  round' <= MaxRounds /\ (at' \in {"ask", "tools", "save"} => round' < MaxRounds)
<1>0. round \in Nat /\ MaxRounds \in Nat
  BY RoundsAssumption DEF LoopInv, LoopTyped
<1>1. CASE UNCHANGED turnVars
  BY <1>1 DEF Bounds, turnVars, loopVars
<1>2. ASSUME NEW runes \in ResultRunes, SaveRound(runes)
      PROVE  round' <= MaxRounds /\ at' = "cap"
  <2>1. round' = round + 1 /\ at' = "cap" /\ at = "save"
    BY <1>2 DEF SaveRound
  <2> QED
    BY <1>0, <2>1 DEF Bounds
<1>3. CASE NextRound
  BY <1>3 DEF Bounds, NextRound
<1>4. CASE CapPrompt \/ Exhausted \/ Ask \/ SaveAnswer \/ AnswerUnsaved \/ TellAnswer \/ Join
           \/ SaveFails
  BY <1>4 DEF Bounds, CapPrompt, loopVars, Exhausted, Ask, AskFails, Answers, AsksForTools,
    SaveAnswer, AnswerUnsaved, TellAnswer, Join, SaveFails, Error
<1>5. ASSUME NEW i \in 1 .. MaxCalls, Goroutine(i) PROVE UNCHANGED <<at, round>>
  BY <1>5 DEF Goroutine, ToolChecks, ToolStarts, ToolAborts, ToolTimeout
<1>6. ASSUME NEW k \in working, Work(k) PROVE UNCHANGED <<at, round>>
  BY <1>6 DEF Work, Effect, ToolEnds
<1>7. CASE Leave \/ Kill
  BY <1>7 DEF Bounds, Leave, Kill
<1> QED
  BY <1>1, <1>2, <1>3, <1>4, <1>5, <1>6, <1>7 DEF LoopNext, Loop, Bounds

LEMMA ToolsStep ==
    ASSUME Bounds, [LoopNext]_turnVars
    PROVE  \A k \in working' \cup effects' : k[2] \in 1 .. MaxCalls
<1>1. CASE UNCHANGED turnVars \/ Loop
  <2>1. UNCHANGED <<working, effects>>
    BY <1>1 DEF turnVars, loopVars, Loop, CapPrompt, NextRound, Exhausted, Ask, AskFails, Answers,
      AsksForTools, SaveAnswer, AnswerUnsaved, TellAnswer, Join, SaveRound, SaveFails, Error
  <2> QED
    BY <2>1 DEF Bounds
<1>2. ASSUME NEW i \in 1 .. MaxCalls, Goroutine(i)
      PROVE  \A k \in working' \cup effects' : k[2] \in 1 .. MaxCalls
  <2>1. working' \subseteq working \cup {Key(i)} /\ effects' = effects
    BY <1>2 DEF Goroutine, ToolChecks, ToolStarts, ToolAborts, ToolTimeout
  <2>2. Key(i)[2] = i
    BY DEF Key
  <2> QED
    BY <2>1, <2>2 DEF Bounds
<1>3. ASSUME NEW k \in working, Work(k)
      PROVE  working' \subseteq working /\ effects' \subseteq effects \cup {k}
  BY <1>3 DEF Work, Effect, ToolEnds
<1>4. CASE Leave \/ Kill
  BY <1>4 DEF Bounds, Leave, Kill
<1> QED
  BY <1>1, <1>2, <1>3, <1>4 DEF LoopNext, Bounds

LEMMA ToldStep ==
    ASSUME LoopInv, Bounds, [LoopNext]_turnVars
    PROVE  told'.kind \in {"nothing", "text", "status", "notice", "error"}
           /\ told'.id \in 0 .. Len(rows')
<1>0. rows \in Seq(Row) /\ Len(rows) \in Nat /\ 0 \in 0 .. Len(rows) /\ Len(rows) \in 0 .. Len(rows)
  BY DEF LoopInv, LoopTyped
<1>1. CASE UNCHANGED <<rows, told>>
  BY <1>1 DEF Bounds
<1>2. ASSUME NEW runes \in ResultRunes, SaveRound(runes)
      PROVE  told' = told /\ Len(rows') \in Nat /\ Len(rows') >= Len(rows)
  <2>1. PICK t : t = RoundRows
    OBVIOUS
  <2>2. t \in Seq(Row) /\ Len(t) \in Nat
    BY <2>1, RowsOfRound DEF LoopInv
  <2>3. told' = told /\ rows' = Joined(rows, t)
    BY <1>2, <2>1 DEF SaveRound, Joined
  <2>4. Len(rows') = Len(rows) + Len(t)
    BY <1>0, <2>2, <2>3, JoinedLength
  <2> QED
    BY <1>0, <2>2, <2>3, <2>4
<1>3. CASE SaveAnswer
  <2>1. told' = told /\ Len(rows') = Len(rows) + 1
    BY <1>0, <1>3 DEF SaveAnswer
  <2> QED
    BY <1>0, <2>1 DEF Bounds
<1>4. CASE Exhausted \/ Ask \/ AnswerUnsaved \/ TellAnswer \/ SaveFails \/ Join
  <2>1. rows' = rows
    BY <1>4 DEF Exhausted, Ask, AskFails, Answers, AsksForTools, AnswerUnsaved, TellAnswer, Join,
      SaveFails, Error
  <2>2. \/ told' = told \/ Send("error") \/ Send("text") \/ Send("notice")
        \/ SendWithId("text", Len(rows))
    BY <1>4 DEF Exhausted, Ask, AskFails, Answers, AsksForTools, AnswerUnsaved, TellAnswer, Join,
      SaveFails, Error
  <2> QED
    BY <1>0, <2>1, <2>2, SendBounds DEF Send, Bounds
<1>5. CASE CapPrompt \/ NextRound
  BY <1>1, <1>5 DEF CapPrompt, loopVars, NextRound
<1>6. ASSUME NEW i \in 1 .. MaxCalls, Goroutine(i)
      PROVE  rows' = rows /\ (told' = told \/ told' = [kind |-> "status", id |-> 0])
  BY <1>6 DEF Goroutine, ToolChecks, ToolStarts, ToolAborts, ToolTimeout
<1>7. ASSUME NEW k \in working, Work(k) PROVE UNCHANGED <<rows, told>>
  BY <1>7 DEF Work, Effect, ToolEnds
<1>8. CASE Leave \/ Kill
  BY <1>1, <1>8 DEF Leave, Kill
<1>9. UNCHANGED turnVars => UNCHANGED <<rows, told>>
  BY DEF turnVars, loopVars
<1>10. ASSUME told' = told, Len(rows') \in Nat, Len(rows') >= Len(rows)
       PROVE  told'.kind \in {"nothing", "text", "status", "notice", "error"}
              /\ told'.id \in 0 .. Len(rows')
  BY <1>0, <1>10 DEF Bounds
<1>11. ASSUME rows' = rows, told' = [kind |-> "status", id |-> 0]
       PROVE  told'.kind \in {"nothing", "text", "status", "notice", "error"}
              /\ told'.id \in 0 .. Len(rows')
  BY <1>0, <1>11
<1> QED
  BY <1>1, <1>2, <1>3, <1>4, <1>5, <1>6, <1>7, <1>8, <1>9, <1>10, <1>11 DEF LoopNext, Loop

(* No round beyond the last, no tool beyond a round's, and no message is told of
   that is not stored. *)
THEOREM LoopTyping == LoopSpec => []LoopTypeOK
<1>1. LoopInv /\ Bounds => LoopTypeOK
  <2> SUFFICES ASSUME LoopInv, Bounds PROVE LoopTypeOK
    OBVIOUS
  <2>1. round \in 0 .. MaxRounds
    BY RoundsAssumption DEF LoopInv, LoopTyped, Bounds
  <2>2. \A i \in DOMAIN calls : calls[i] \in {"ready", "checked", "running", "ok", "failed"}
    BY DEF LoopInv, LoopTyped, States
  <2>3. working \cup effects \subseteq (0 .. round) \X (1 .. MaxCalls)
    <3>1. \A k \in working \cup effects :
             k \in Nat \X Nat /\ k[1] <= round /\ k[2] \in 1 .. MaxCalls
      BY DEF LoopInv, LoopTyped, Recorded, Bounds
    <3>2. round \in Nat
      BY DEF LoopInv, LoopTyped
    <3> QED
      BY <3>1, <3>2
  <2> QED
    BY <2>1, <2>2, <2>3 DEF LoopTypeOK, LoopInv, LoopTyped, Bounds
<1>2. LoopInit => Bounds
  BY BoundsInit
<1>3. LoopInv /\ Bounds /\ [LoopNext]_turnVars => Bounds'
  BY PhaseStep, RoundStep, ToolsStep, ToldStep DEF Bounds
<1> QED
  BY <1>1, <1>2, <1>3, LoopAlways, PTL DEF LoopSpec
=============================================================================
