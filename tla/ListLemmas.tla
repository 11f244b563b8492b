----------------------------- MODULE ListLemmas -----------------------------
(***************************************************************************)
(* Facts about the community modules' FlattenSeq and SetToSeq, on which    *)
(* Ingestion is built, for lists of any length.  Induction is over a set   *)
(* of naturals, since the library's induction theorems have an operator as *)
(* a parameter.                                                            *)
(***************************************************************************)
EXTENDS Integers, SequencesExt, SequenceTheorems, FiniteSetTheorems,
        WellFoundedInduction, TLAPS

LEMMA SetInduction ==
  ASSUME NEW S, 0 \in S, \A n \in Nat : n \in S => n + 1 \in S
  PROVE  Nat \subseteq S
<1> DEFINE T == Nat \ S
<1>1. SUFFICES ASSUME T # {} PROVE FALSE
  OBVIOUS
<1>2. PICK n \in T : \A m \in T : ~ (<< m, n >> \in OpToRel(<, Nat))
  BY <1>1, WFMin, NatLessThanWellFounded
<1>3. n # 0 /\ n \in Nat
  OBVIOUS
<1>4. n - 1 \in Nat /\ n - 1 < n
  BY <1>3
<1>5. n - 1 \notin T
  BY <1>2, <1>3, <1>4 DEF OpToRel
<1> QED BY <1>3, <1>4, <1>5

\* A list is the concatenation of two if it has their elements.
LEMMA ConcatIs ==
  ASSUME NEW S, NEW s \in Seq(S), NEW t \in Seq(S), NEW u \in Seq(S),
         Len(u) = Len(s) + Len(t),
         \A i \in 1 .. Len(s) + Len(t) : u[i] = IF i <= Len(s) THEN s[i] ELSE t[i - Len(s)]
  PROVE  u = s \o t
  BY ConcatProperties, SeqEqual

-----------------------------------------------------------------------------
(* FlattenSeq *)

\* f is the function FlattenSeq computes for s: f[i] is the first i lists in one.
Flattens(s, f) ==
  f = [i \in 1 .. Len(s) |-> IF i = 1 THEN s[i] ELSE f[i-1] \o s[i]]

LEMMA FlattensExists ==
  ASSUME NEW s, Len(s) \in Nat
  PROVE  \E f : Flattens(s, f)
<1> DEFINE Upto(n, f) == f = [i \in 1 .. n |-> IF i = 1 THEN s[i] ELSE f[i-1] \o s[i]]
           G == { n \in Nat : \E f : Upto(n, f) }
<1>1. 0 \in G
  <2>1. Upto(0, << >>)
    OBVIOUS
  <2> QED BY <2>1
<1>2. ASSUME NEW n \in Nat, n \in G
      PROVE  n + 1 \in G
  <2>1. PICK f : Upto(n, f)
    BY <1>2
  <2> DEFINE g == [i \in 1 .. n + 1 |->
                     IF i <= n THEN f[i] ELSE IF i = 1 THEN s[i] ELSE f[i-1] \o s[i]]
  <2>2. \A i \in 1 .. n : g[i] = IF i = 1 THEN s[i] ELSE g[i-1] \o s[i]
    <3>1. \A i \in 1 .. n : f[i] = IF i = 1 THEN s[i] ELSE f[i-1] \o s[i]
      BY <2>1
    <3>2. \A i \in 1 .. n : g[i] = f[i]
      OBVIOUS
    <3>3. \A i \in 1 .. n : i # 1 => i - 1 \in 1 .. n
      OBVIOUS
    <3> HIDE DEF g
    <3> QED BY <3>1, <3>2, <3>3
  <2>3. g[n+1] = IF n + 1 = 1 THEN s[n+1] ELSE g[n] \o s[n+1]
    <3>1. n # 0 => g[n] = f[n]
      OBVIOUS
    <3> QED BY <3>1
  <2>4. \A i \in 1 .. n + 1 : g[i] = IF i = 1 THEN s[i] ELSE g[i-1] \o s[i]
    <3>1. \A i \in 1 .. n + 1 : i \in 1 .. n \/ i = n + 1
      OBVIOUS
    <3>2. n + 1 - 1 = n
      OBVIOUS
    <3> HIDE DEF g
    <3> TAKE i \in 1 .. n + 1
    <3>3. CASE i \in 1 .. n
      BY <2>2, <3>3
    <3>4. CASE i = n + 1
      BY <2>3, <3>2, <3>4
    <3> QED BY <3>1, <3>3, <3>4
  <2>5. g = [i \in 1 .. n + 1 |-> g[i]]
    OBVIOUS
  <2>6. Upto(n + 1, g)
    <3> HIDE DEF g
    <3>1. [i \in 1 .. n + 1 |-> g[i]]
            = [i \in 1 .. n + 1 |-> IF i = 1 THEN s[i] ELSE g[i-1] \o s[i]]
      BY <2>4, Zenon
    <3> QED BY <2>5, <3>1
  <2> HIDE DEF g, Upto
  <2>7. n + 1 \in Nat
    OBVIOUS
  <2> QED BY <2>6, <2>7
<1>3. Nat \subseteq G
  <2> HIDE DEF G
  <2> QED BY <1>1, <1>2, SetInduction
<1> QED BY <1>3 DEF Flattens

LEMMA FlattenSeqDef ==
  ASSUME NEW s, Len(s) \in Nat, Len(s) # 0
  PROVE  \E f : Flattens(s, f) /\ FlattenSeq(s) = f[Len(s)]
<1> DEFINE F == CHOOSE f : Flattens(s, f)
<1>1. Flattens(s, F)
  BY FlattensExists
<1>2. FlattenSeq(s) = F[Len(s)]
  BY DEF FlattenSeq, Flattens
<1> QED BY <1>1, <1>2

\* Two lists that begin alike are flattened alike as far as they do.
LEMMA FlattensPrefix ==
  ASSUME NEW s, NEW t, NEW f, NEW g, Len(s) \in Nat, Len(t) \in Nat,
         Flattens(s, f), Flattens(t, g), Len(s) <= Len(t),
         \A i \in 1 .. Len(s) : s[i] = t[i]
  PROVE  \A i \in 1 .. Len(s) : f[i] = g[i]
<1> DEFINE G == { n \in Nat : n \in 1 .. Len(s) => f[n] = g[n] }
<1>1. \A i \in 1 .. Len(s) : f[i] = IF i = 1 THEN s[i] ELSE f[i-1] \o s[i]
  BY DEF Flattens
<1>2. \A i \in 1 .. Len(t) : g[i] = IF i = 1 THEN t[i] ELSE g[i-1] \o t[i]
  BY DEF Flattens
<1>3. 0 \in G
  OBVIOUS
<1>4. ASSUME NEW n \in Nat, n \in G
      PROVE  n + 1 \in G
  <2>1. SUFFICES ASSUME n + 1 \in 1 .. Len(s) PROVE f[n+1] = g[n+1]
    OBVIOUS
  <2>2. n + 1 \in 1 .. Len(t) /\ s[n+1] = t[n+1] /\ n + 1 - 1 = n
    BY <2>1
  <2>3. n # 0 => f[n] = g[n]
    BY <1>4, <2>1
  <2> QED BY <1>1, <1>2, <2>1, <2>2, <2>3
<1>5. Nat \subseteq G
  <2> HIDE DEF G
  <2> QED BY <1>3, <1>4, SetInduction
<1> QED BY <1>5

LEMMA FlattenEmpty == FlattenSeq(<< >>) = << >>
  BY DEF FlattenSeq

\* One more list at the end.
LEMMA FlattenAppend ==
  ASSUME NEW S, NEW s \in Seq(Seq(S)), NEW x \in Seq(S)
  PROVE  FlattenSeq(Append(s, x)) = FlattenSeq(s) \o x
<1> DEFINE t == Append(s, x)
           n == Len(s)
<1>1. /\ n \in Nat /\ Len(t) = n + 1 /\ t[n+1] = x
      /\ \A i \in 1 .. n : s[i] = t[i]
  BY AppendProperties, LenProperties
<1> HIDE DEF t
<1>2. PICK g : Flattens(t, g) /\ FlattenSeq(t) = g[n+1]
  BY <1>1, FlattenSeqDef
<1>3. g[n+1] = IF n + 1 = 1 THEN x ELSE g[n] \o x
  <2>1. \A i \in 1 .. Len(t) : g[i] = IF i = 1 THEN t[i] ELSE g[i-1] \o t[i]
    BY <1>2 DEF Flattens
  <2>2. n + 1 \in 1 .. Len(t) /\ n + 1 - 1 = n
    BY <1>1
  <2> QED BY <1>1, <2>1, <2>2
<1>4. CASE n = 0
  <2>1. s = << >>
    BY <1>4, EmptySeq
  <2>2. FlattenSeq(s) \o x = x
    BY <2>1, FlattenEmpty, ConcatEmptySeq
  <2> QED BY <1>2, <1>3, <1>4, <2>2 DEF t
<1>5. CASE n # 0
  <2>1. PICK f : Flattens(s, f) /\ FlattenSeq(s) = f[n]
    BY <1>1, <1>5, FlattenSeqDef
  <2>2. f[n] = g[n]
    BY <1>1, <1>2, <1>5, <2>1, FlattensPrefix
  <2> QED BY <1>1, <1>2, <1>3, <1>5, <2>1, <2>2 DEF t
<1> QED BY <1>4, <1>5

\* Induction over the length of a list of lists, from its end.
LEMMA FlattenType ==
  ASSUME NEW S, NEW s \in Seq(Seq(S))
  PROVE  FlattenSeq(s) \in Seq(S)
<1> DEFINE G == { n \in Nat : \A t \in Seq(Seq(S)) : Len(t) = n => FlattenSeq(t) \in Seq(S) }
<1>1. 0 \in G
  BY FlattenEmpty, EmptySeq
<1>2. ASSUME NEW n \in Nat, n \in G
      PROVE  n + 1 \in G
  <2>1. SUFFICES ASSUME NEW t \in Seq(Seq(S)), Len(t) = n + 1
                 PROVE  FlattenSeq(t) \in Seq(S)
    OBVIOUS
  <2>2. t # << >>
    BY <2>1, EmptySeq
  <2>3. PICK u \in Seq(Seq(S)), x \in Seq(S) : t = Append(u, x)
    BY <2>2, SequenceEmptyOrAppend
  <2>4. Len(u) = n
    BY <2>1, <2>3, AppendProperties, LenProperties
  <2>5. FlattenSeq(u) \in Seq(S)
    BY <1>2, <2>4
  <2> QED BY <2>3, <2>5, FlattenAppend, ConcatProperties
<1>3. Nat \subseteq G
  <2> HIDE DEF G
  <2> QED BY <1>1, <1>2, SetInduction
<1> QED BY <1>3, LenProperties

LEMMA FlattenConcat ==
  ASSUME NEW S, NEW s \in Seq(Seq(S)), NEW t \in Seq(Seq(S))
  PROVE  FlattenSeq(s \o t) = FlattenSeq(s) \o FlattenSeq(t)
<1> DEFINE G == { n \in Nat : \A u \in Seq(Seq(S)) :
                    Len(u) = n => FlattenSeq(s \o u) = FlattenSeq(s) \o FlattenSeq(u) }
<1>1. 0 \in G
  <2>1. SUFFICES ASSUME NEW u \in Seq(Seq(S)), Len(u) = 0
                 PROVE  FlattenSeq(s \o u) = FlattenSeq(s) \o FlattenSeq(u)
    OBVIOUS
  <2>2. u = << >>
    BY <2>1, EmptySeq
  <2>3. s \o u = s /\ FlattenSeq(s) \o << >> = FlattenSeq(s)
    BY <2>2, FlattenType, ConcatEmptySeq
  <2> QED BY <2>2, <2>3, FlattenEmpty
<1>2. ASSUME NEW n \in Nat, n \in G
      PROVE  n + 1 \in G
  <2>1. SUFFICES ASSUME NEW u \in Seq(Seq(S)), Len(u) = n + 1
                 PROVE  FlattenSeq(s \o u) = FlattenSeq(s) \o FlattenSeq(u)
    OBVIOUS
  <2>2. u # << >>
    BY <2>1, EmptySeq
  <2>3. PICK v \in Seq(Seq(S)), x \in Seq(S) : u = Append(v, x)
    BY <2>2, SequenceEmptyOrAppend
  <2>4. Len(v) = n
    BY <2>1, <2>3, AppendProperties, LenProperties
  <2>5. s \o v \in Seq(Seq(S)) /\ << x >> \in Seq(Seq(S))
    BY ConcatProperties
  <2>6. s \o u = Append(s \o v, x)
    <3>1. u = v \o << x >>
      BY <2>3, AppendIsConcat
    <3>2. s \o u = (s \o v) \o << x >>
      BY <2>5, <3>1, ConcatAssociative
    <3> QED BY <2>5, <3>2, AppendIsConcat
  <2>7. FlattenSeq(s \o u) = (FlattenSeq(s) \o FlattenSeq(v)) \o x
    <3>1. FlattenSeq(s \o u) = FlattenSeq(s \o v) \o x
      BY <2>5, <2>6, FlattenAppend
    <3>2. FlattenSeq(s \o v) = FlattenSeq(s) \o FlattenSeq(v)
      BY <1>2, <2>4
    <3> QED BY <3>1, <3>2
  <2>8. FlattenSeq(u) = FlattenSeq(v) \o x
    BY <2>3, FlattenAppend
  <2>9. FlattenSeq(s) \in Seq(S) /\ FlattenSeq(v) \in Seq(S)
    BY FlattenType
  <2>10. (FlattenSeq(s) \o FlattenSeq(v)) \o x = FlattenSeq(s) \o (FlattenSeq(v) \o x)
    <3> DEFINE a == FlattenSeq(s)
               b == FlattenSeq(v)
    <3>1. a \in Seq(S) /\ b \in Seq(S)
      BY <2>9
    <3> HIDE DEF a, b
    <3>2. (a \o b) \o x = a \o (b \o x)
      BY <3>1, ConcatAssociative
    <3> QED BY <3>2 DEF a, b
  <2> QED BY <2>7, <2>8, <2>10
<1>3. Nat \subseteq G
  <2> HIDE DEF G
  <2> QED BY <1>1, <1>2, SetInduction
<1> QED BY <1>3, LenProperties

\* The first list, and then the others.
LEMMA FlattenHeadTail ==
  ASSUME NEW S, NEW s \in Seq(Seq(S)), s # << >>
  PROVE  FlattenSeq(s) = Head(s) \o FlattenSeq(Tail(s))
<1>1. Head(s) \in Seq(S) /\ Tail(s) \in Seq(Seq(S)) /\ << Head(s) >> \in Seq(Seq(S))
  BY HeadTailProperties
<1>2. s = << Head(s) >> \o Tail(s)
  BY <1>1, LenProperties, SeqEqual, HeadTailProperties, ConcatProperties
<1>3. FlattenSeq(<< Head(s) >>) = Head(s)
  <2>1. << >> \in Seq(Seq(S)) /\ Append(<< >>, Head(s)) = << Head(s) >>
    OBVIOUS
  <2>2. FlattenSeq(<< Head(s) >>) = << >> \o Head(s)
    BY <1>1, <2>1, FlattenAppend, FlattenEmpty
  <2> QED BY <1>1, <2>2, ConcatEmptySeq
<1> QED BY <1>1, <1>2, <1>3, FlattenConcat

-----------------------------------------------------------------------------
(* SetToSeq *)

LEMMA ImageFinite ==
  ASSUME NEW f, IsFiniteSet(DOMAIN f), f = [x \in DOMAIN f |-> f[x]]
  PROVE  IsFiniteSet({ f[x] : x \in DOMAIN f })
<1>1. f \in Surjection(DOMAIN f, { f[x] : x \in DOMAIN f })
  BY DEF Surjection
<1> QED BY <1>1, FS_Surjection

LEMMA SetToSeqIsList ==
  ASSUME NEW S, IsFiniteSet(S)
  PROVE  SetToSeq(S) \in Seq(S)
<1> DEFINE n == Cardinality(S)
<1>1. n \in Nat /\ ExistsBijection(1 .. n, S)
  BY FS_CardinalityType
<1>2. \E f \in [1 .. n -> S] : IsInjective(f)
  BY <1>1 DEF ExistsBijection, Bijection, Injection, IsInjective
<1>3. SetToSeq(S) \in [1 .. n -> S]
  BY <1>2 DEF SetToSeq
<1> QED BY <1>1, <1>3

=============================================================================
