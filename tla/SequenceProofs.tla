--------------------------- MODULE SequenceProofs ---------------------------
(***************************************************************************)
(* What push, pop and an assignment to the top do to a stack, what is the  *)
(* case of sequences put together and flattened, and what the functions on *)
(* texts compute: strings with escape sequences, and the order of keys.    *)
(***************************************************************************)
EXTENDS Integers, Stacks, Delimiters, KeyOrder, SequenceTheorems, FiniteSetTheorems, WellFoundedInduction, TLAPS

\* A sequence is a function from an initial part of the naturals.
LEMMA SequenceIsFunction ==
    ASSUME NEW s, IsSequence(s)
    PROVE  /\ Len(s) \in Nat
           /\ DOMAIN s = 1 .. Len(s)
           /\ s \in [1 .. Len(s) -> Range(s)]
           /\ Len(s) = 0 <=> s = <<>>
           /\ s # <<>> => Len(s) \in 1 .. Len(s)
  BY LenProperties, EmptySeq DEF IsSequence

\* A function from an initial part of the naturals is a sequence.
LEMMA FunctionIsSequence ==
    ASSUME NEW n \in Nat, NEW s, s = [i \in 1 .. n |-> s[i]]
    PROVE  IsSequence(s) /\ Len(s) = n
  <1>1. s \in [1 .. n -> Range(s)]
    BY DEF Range
  <1>2. s \in Seq(Range(s))
    BY <1>1
  <1>3. QED
    BY <1>1, <1>2, LenProperties DEF IsSequence

\* push: the stack gets one element more, and it is the top.
LEMMA Push ==
    ASSUME NEW s, IsSequence(s), NEW c
    PROVE  /\ IsSequence(Append(s, c))
           /\ Len(Append(s, c)) = Len(s) + 1
           /\ \A i \in 1 .. Len(s) : Append(s, c)[i] = s[i]
           /\ Append(s, c)[Len(s) + 1] = c
           /\ Append(s, c) # <<>>
           /\ Last(Append(s, c)) = c
  <1>1. s \in Seq(Range(s) \cup {c}) /\ Len(s) \in Nat
    <2>1. s \in [1 .. Len(s) -> Range(s) \cup {c}] /\ Len(s) \in Nat
      BY SequenceIsFunction
    <2>2. QED
      BY <2>1
  <1>2. /\ Append(s, c) \in Seq(Range(s) \cup {c})
        /\ Len(Append(s, c)) = Len(s) + 1
        /\ \A i \in 1 .. Len(s) : Append(s, c)[i] = s[i]
        /\ Append(s, c)[Len(s) + 1] = c
    BY <1>1, AppendProperties
  <1>3. IsSequence(Append(s, c))
    BY <1>2, FunctionIsSequence, LenProperties
  <1>4. QED
    BY <1>1, <1>2, <1>3, SequenceIsFunction DEF Last

\* Assigning to the top changes nothing else.
LEMMA ReplaceTop ==
    ASSUME NEW s, IsSequence(s), s # <<>>, NEW c
    PROVE  /\ IsSequence(SetTop(s, c))
           /\ Len(SetTop(s, c)) = Len(s)
           /\ \A i \in 1 .. Len(s) - 1 : SetTop(s, c)[i] = s[i]
           /\ SetTop(s, c)[Len(s)] = c
           /\ SetTop(s, c) # <<>>
           /\ Last(SetTop(s, c)) = c
  <1> DEFINE t == SetTop(s, c)
  <1>1. /\ Len(s) \in Nat
        /\ DOMAIN s = 1 .. Len(s)
        /\ Len(s) \in 1 .. Len(s)
    BY SequenceIsFunction
  <1>2. t = [i \in 1 .. Len(s) |-> t[i]]
    BY <1>1 DEF SetTop
  <1>3. IsSequence(t) /\ Len(t) = Len(s)
    BY <1>1, <1>2, FunctionIsSequence
  <1>4. t[Len(s)] = c /\ \A i \in 1 .. Len(s) - 1 : t[i] = s[i]
    BY <1>1 DEF SetTop
  <1>5. t # <<>>
    BY <1>1, <1>3, SequenceIsFunction
  <1>6. QED
    BY <1>3, <1>4, <1>5 DEF Last

\* pop: the stack loses its top.
LEMMA Pop ==
    ASSUME NEW s, IsSequence(s), s # <<>>
    PROVE  /\ IsSequence(Front(s))
           /\ Len(Front(s)) = Len(s) - 1
           /\ \A i \in 1 .. Len(s) - 1 : Front(s)[i] = s[i]
  <1>1. Len(s) \in Nat /\ Len(s) >= 1
    BY SequenceIsFunction
  <1>2. Front(s) = [i \in 1 .. Len(s) - 1 |-> s[i]]
    BY <1>1 DEF Front
  <1>3. Front(s) = [i \in 1 .. Len(s) - 1 |-> Front(s)[i]]
    BY <1>2
  <1>4. QED
    BY <1>1, <1>2, <1>3, FunctionIsSequence
-----------------------------------------------------------------------------
(* Induction.                                                              *)

\* Every set of naturals has a least element.
LEMMA LeastElement ==
    ASSUME NEW T, T \subseteq Nat, T # {}
    PROVE  \E m \in T : \A n \in T : m <= n
  <1>1. PICK m \in T : \A n \in T : <<n, m>> \notin OpToRel(<, Nat)
    BY WFMin, NatLessThanWellFounded, Zenon
  <1>2. ASSUME NEW n \in T PROVE m <= n
    <2>1. <<n, m>> \notin OpToRel(<, Nat)
      BY <1>1
    <2>2. n \in Nat /\ m \in Nat
      OBVIOUS
    <2>3. ~(n < m)
      BY <2>1, <2>2, Zenon DEF OpToRel
    <2>4. QED
      BY <2>2, <2>3
  <1>3. QED
    BY <1>2

\* A set of naturals that has zero and every successor has all of them.
LEMMA Induction ==
    ASSUME NEW T, T \subseteq Nat, 0 \in T, \A n \in T : n + 1 \in T
    PROVE  T = Nat
  <1> DEFINE rest == Nat \ T
  <1>1. SUFFICES ASSUME rest # {} PROVE FALSE
    OBVIOUS
  <1>2. PICK m \in rest : \A n \in rest : m <= n
    BY <1>1, LeastElement
  <1>3. m - 1 \in Nat /\ m - 1 \notin rest
    BY <1>2
  <1>4. QED
    BY <1>2, <1>3
-----------------------------------------------------------------------------
(* Texts put together.                                                     *)

\* Texts over a set of characters.
LEMMA Together ==
    ASSUME NEW C, NEW s \in Seq(C), NEW t \in Seq(C)
    PROVE  /\ s \o t \in Seq(C)
           /\ Len(s \o t) = Len(s) + Len(t)
           /\ \A i \in 1 .. Len(s) : (s \o t)[i] = s[i]
           /\ \A i \in 1 .. Len(t) : (s \o t)[Len(s) + i] = t[i]
  <1>1. Len(s) \in Nat /\ Len(t) \in Nat
    BY LenProperties
  <1>2. /\ s \o t \in Seq(C)
        /\ Len(s \o t) = Len(s) + Len(t)
        /\ \A i \in 1 .. Len(s) + Len(t) :
              (s \o t)[i] = IF i <= Len(s) THEN s[i] ELSE t[i - Len(s)]
    BY ConcatProperties
  <1>3. QED
    BY <1>1, <1>2

\* Concatenation adds the lengths, and the first text is what it begins with.
LEMMA Concatenation ==
    ASSUME NEW s, IsSequence(s), NEW t, IsSequence(t)
    PROVE  /\ IsSequence(s \o t)
           /\ Len(s \o t) = Len(s) + Len(t)
           /\ SubSeq(s \o t, 1, Len(s)) = s
  <1> DEFINE S == Range(s) \cup Range(t)
             u == s \o t
  <1>1. s \in Seq(S) /\ t \in Seq(S)
    BY SeqMonotonic DEF IsSequence
  <1>2. /\ u \in Seq(S) /\ Len(u) = Len(s) + Len(t)
        /\ \A i \in 1 .. Len(s) + Len(t) :
              u[i] = IF i <= Len(s) THEN s[i] ELSE t[i - Len(s)]
    BY <1>1, ConcatProperties
  <1>3. Len(s) \in Nat /\ Len(t) \in Nat
    BY <1>1, LenProperties
  <1>4. IsSequence(u)
    BY <1>2, SeqOfRange DEF IsSequence
  <1>5. SubSeq(u, 1, Len(s)) = s
    <2>1. \A i \in 1 .. Len(s) : u[i] = s[i] /\ s[i] \in S
      BY <1>1, <1>2, <1>3, ElementOfSeq
    <2>2. /\ SubSeq(u, 1, Len(s)) \in Seq(S)
          /\ Len(SubSeq(u, 1, Len(s))) = Len(s)
          /\ \A i \in 1 .. Len(s) : SubSeq(u, 1, Len(s))[i] = s[i]
      BY <1>3, <2>1, SubSeqProperties
    <2>3. QED
      BY <1>1, <2>2, SeqEqual
  <1>6. QED
    BY <1>2, <1>4, <1>5

\* A part of a text is a text.
LEMMA PartOfText ==
    ASSUME NEW s, IsSequence(s), NEW m \in Nat \ {0}, NEW n \in Nat, n <= Len(s)
    PROVE  /\ IsSequence(SubSeq(s, m, n))
           /\ Len(SubSeq(s, m, n)) = IF m <= n THEN n - m + 1 ELSE 0
  <1>1. s \in Seq(Range(s)) /\ Len(s) \in Nat
    BY LenProperties DEF IsSequence
  <1>2. \A i \in m .. n : s[i] \in Range(s)
    BY <1>1, ElementOfSeq
  <1>3. /\ SubSeq(s, m, n) \in Seq(Range(s))
        /\ Len(SubSeq(s, m, n)) = IF m <= n THEN n - m + 1 ELSE 0
    BY <1>2, SubSeqProperties
  <1>4. QED
    BY <1>3, SeqOfRange DEF IsSequence

\* Short texts.
LEMMA ShortTexts ==
    ASSUME NEW a, NEW b, NEW c
    PROVE  /\ IsSequence(<<>>) /\ IsSequence(<<a>>)
           /\ IsSequence(<<a, b>>) /\ IsSequence(<<a, b, c>>)
  <1>1. <<>> \in Seq({})
    BY EmptySeq
  <1>2. <<a>> \in Seq({a}) /\ <<a, b>> \in Seq({a, b}) /\ <<a, b, c>> \in Seq({a, b, c})
    OBVIOUS
  <1>3. QED
    BY <1>1, <1>2, SeqOfRange DEF IsSequence

\* Texts of one and of two characters, and texts given as functions.
LEMMA ShortText ==
    ASSUME NEW C, NEW x \in C, NEW y \in C
    PROVE  <<>> \in Seq(C) /\ <<x>> \in Seq(C) /\ <<x, y>> \in Seq(C)
  OBVIOUS

LEMMA FunctionIsText ==
    ASSUME NEW C, NEW n \in Nat, NEW f \in [1 .. n -> C]
    PROVE  f \in Seq(C) /\ Len(f) = n
  BY LenProperties

\* A text is a beginning of another if the characters are the same.
LEMMA PrefixByCharacters ==
    ASSUME NEW C, NEW s \in Seq(C), NEW t \in Seq(C)
    PROVE  IsPrefix(s, t) <=> Len(s) <= Len(t) /\ \A i \in 1 .. Len(s) : s[i] = t[i]
  <1> DEFINE n == Len(s)
             u == SubSeq(t, 1, n)
  <1>1. n \in Nat /\ Len(t) \in Nat /\ SubSeq(s, 1, n) = s
    BY LenProperties, SubSeqFull
  <1>2. ASSUME n <= Len(t)
        PROVE  u \in Seq(C) /\ Len(u) = n /\ \A i \in 1 .. n : u[i] = t[i]
    <2>1. \A i \in 1 .. n : t[i] \in C
      BY <1>1, <1>2, ElementOfSeq
    <2>2. /\ u \in Seq(C) /\ Len(u) = IF 1 <= n THEN n - 1 + 1 ELSE 0
          /\ \A i \in 1 .. n - 1 + 1 : u[i] = t[1 + i - 1]
      BY <1>1, <2>1, SubSeqProperties
    <2>3. QED
      BY <1>1, <2>2
  <1>3. ASSUME n <= Len(t), \A i \in 1 .. n : s[i] = t[i] PROVE s = u
    <2>1. u \in Seq(C) /\ Len(s) = Len(u) /\ \A i \in 1 .. Len(s) : s[i] = u[i]
      BY <1>2, <1>3
    <2> HIDE DEF u
    <2>2. QED
      BY <2>1, SeqEqual
  <1>4. QED
    BY <1>1, <1>2, <1>3 DEF IsPrefix

\* A text with more behind it begins as it did.
LEMMA SameBeginning ==
    ASSUME NEW s, IsSequence(s), NEW part, IsSequence(part), NEW m \in Int, m <= Len(s)
    PROVE  SubSeq(s \o part, 1, m) = SubSeq(s, 1, m)
  <1> DEFINE both == Range(s) \cup Range(part)
             u == SubSeq(s \o part, 1, m)
             v == SubSeq(s, 1, m)
  <1>1. s \in Seq(both) /\ part \in Seq(both) /\ Len(s) \in Nat
    BY SeqMonotonic, LenProperties DEF IsSequence
  <1>2. \A i \in 1 .. Len(s) : (s \o part)[i] = s[i] /\ s[i] \in both
    BY <1>1, Together, ElementOfSeq
  <1>3. \A i \in 1 .. m : (s \o part)[i] = s[i] /\ s[i] \in both
    BY <1>1, <1>2
  <1>4. /\ u \in Seq(both) /\ v \in Seq(both)
        /\ Len(u) = (IF 1 <= m THEN m - 1 + 1 ELSE 0) /\ Len(v) = Len(u)
        /\ \A i \in 1 .. m - 1 + 1 : u[i] = (s \o part)[1 + i - 1]
        /\ \A i \in 1 .. m - 1 + 1 : v[i] = s[1 + i - 1]
    BY <1>3, SubSeqProperties
  <1> HIDE DEF u, v
  <1>5. \A i \in 1 .. Len(u) : u[i] = v[i]
    BY <1>3, <1>4
  <1>6. QED
    BY <1>4, <1>5, SeqEqual DEF u, v

\* A beginning of a text, with as many of its characters as come next.
LEMMA LongerBeginning ==
    ASSUME NEW s, IsSequence(s), NEW m \in Nat, NEW n \in Nat, m + n <= Len(s)
    PROVE  SubSeq(s, 1, m) \o [i \in 1 .. n |-> s[m + i]] = SubSeq(s, 1, m + n)
  <1> DEFINE C == Range(s)
             u == SubSeq(s, 1, m)
             v == [i \in 1 .. n |-> s[m + i]]
             w == SubSeq(s, 1, m + n)
  <1>1. s \in Seq(C) /\ Len(s) \in Nat
    BY LenProperties DEF IsSequence
  <1>2. \A i \in 1 .. m + n : s[i] \in C
    BY <1>1, ElementOfSeq
  <1>3. u \in Seq(C) /\ Len(u) = m /\ \A i \in 1 .. m : u[i] = s[i]
    <2>1. \A i \in 1 .. m : s[i] \in C
      BY <1>2
    <2>2. QED
      BY <2>1, SubSeqProperties
  <1>4. w \in Seq(C) /\ Len(w) = m + n /\ \A i \in 1 .. m + n : w[i] = s[i]
    <2>1. m + n \in Int
      OBVIOUS
    <2> DEFINE k == m + n
    <2> HIDE DEF k
    <2>2. k \in Nat
      BY DEF k
    <2>3. /\ SubSeq(s, 1, k) \in Seq(C) /\ Len(SubSeq(s, 1, k)) = k
          /\ \A i \in 1 .. k : SubSeq(s, 1, k)[i] = s[i]
      <3>1. \A i \in 1 .. k : s[i] \in C
        BY <1>2 DEF k
      <3>2. QED
        BY <2>2, <3>1, SubSeqProperties
    <2>4. QED
      BY <2>3 DEF k
  <1>5. v \in Seq(C) /\ Len(v) = n /\ \A i \in 1 .. n : v[i] = s[m + i]
    <2>1. v \in [1 .. n -> C]
      BY <1>2
    <2>2. QED
      BY <2>1, FunctionIsText
  <1> HIDE DEF C, u, v, w
  <1>6. /\ u \o v \in Seq(C) /\ Len(u \o v) = Len(u) + Len(v)
        /\ \A i \in 1 .. Len(u) : (u \o v)[i] = u[i]
        /\ \A i \in 1 .. Len(v) : (u \o v)[Len(u) + i] = v[i]
    <2>1. u \in Seq(C) /\ v \in Seq(C)
      BY <1>3, <1>5
    <2>2. QED
      BY <2>1, Together
  <1>7. \A i \in 1 .. m + n : (u \o v)[i] = w[i]
    <2> SUFFICES ASSUME NEW i \in 1 .. m + n PROVE (u \o v)[i] = w[i]
      OBVIOUS
    <2>1. CASE i <= m
      BY <1>3, <1>4, <1>6, <2>1
    <2>2. CASE ~(i <= m)
      <3> DEFINE j == i - m
      <3>1. j \in 1 .. n /\ i = m + j
        BY <2>2
      <3> HIDE DEF j
      <3>2. (u \o v)[m + j] = v[j] /\ v[j] = s[m + j] /\ w[m + j] = s[m + j]
        BY <1>3, <1>4, <1>5, <1>6, <3>1
      <3>3. QED
        BY <3>1, <3>2
    <2>3. QED
      BY <2>1, <2>2
  <1>8. Len(u \o v) = Len(w)
    BY <1>3, <1>4, <1>5, <1>6
  <1>9. QED
    BY <1>4, <1>6, <1>7, <1>8, SeqEqual DEF u, v, w

\* A text in two parts.
LEMMA TwoParts ==
    ASSUME NEW s, IsSequence(s), NEW m \in 0 .. Len(s)
    PROVE  SubSeq(s, 1, m) \o SubSeq(s, m + 1, Len(s)) = s
  <1>1. s \in Seq(Range(s)) /\ Len(s) \in Nat
    BY LenProperties DEF IsSequence
  <1>2. 1 \in 1 .. Len(s) + 1 /\ m \in 1 - 1 .. Len(s) /\ Len(s) \in m .. Len(s)
    BY <1>1
  <1>3. SubSeq(s, 1, m) \o SubSeq(s, m + 1, Len(s)) = SubSeq(s, 1, Len(s))
    BY <1>1, <1>2, ConcatAdjacentSubSeq
  <1>4. QED
    BY <1>1, <1>3, SubSeqFull

\* Functions are equal if their values are.
LEMMA SameFunction ==
    ASSUME NEW S, NEW T, NEW f \in [S -> T], NEW g \in [S -> T], \A x \in S : f[x] = g[x]
    PROVE  f = g
  OBVIOUS

-----------------------------------------------------------------------------
(* FlattenSeq                                                              *)

\* The table of the first k beginnings of s, flattened.
IsFlattening(f, s, k) ==
    f = [i \in 1 .. k |-> IF i = 1 THEN s[i] ELSE f[i - 1] \o s[i]]

\* A table that is one text longer.
LEMMA LongerFlattening ==
    ASSUME NEW s, NEW k \in Nat, NEW f, IsFlattening(f, s, k)
    PROVE  \E g : IsFlattening(g, s, k + 1)
  <1> DEFINE last == IF k + 1 = 1 THEN s[k + 1] ELSE f[k] \o s[k + 1]
             g == [i \in 1 .. k + 1 |-> IF i = k + 1 THEN last ELSE f[i]]
  <1>1. ASSUME NEW i \in 1 .. k + 1
        PROVE  g[i] = IF i = 1 THEN s[i] ELSE g[i - 1] \o s[i]
    <2> HIDE DEF last
    <2>1. CASE i = k + 1
      <3>1. g[i] = last
        BY <2>1
      <3>2. k + 1 # 1 => g[i - 1] = f[k]
        BY <2>1
      <3>3. QED
        BY <2>1, <3>1, <3>2 DEF last
    <2>2. CASE i # k + 1
      <3>1. g[i] = f[i] /\ i \in 1 .. k
        BY <2>2
      <3>2. i # 1 => g[i - 1] = f[i - 1]
        BY <2>2
      <3>3. f[i] = IF i = 1 THEN s[i] ELSE f[i - 1] \o s[i]
        BY <3>1 DEF IsFlattening
      <3>4. QED
        BY <3>1, <3>2, <3>3
    <2>3. QED
      BY <2>1, <2>2
  <1>2. g = [i \in 1 .. k + 1 |-> g[i]]
    OBVIOUS
  <1> HIDE DEF g
  <1>3. IsFlattening(g, s, k + 1)
    BY <1>1, <1>2 DEF IsFlattening
  <1>4. QED
    BY <1>3

\* There is one of every length.
LEMMA FlatteningExists ==
    ASSUME NEW s, NEW k \in Nat
    PROVE  \E f : IsFlattening(f, s, k)
  <1> DEFINE T == {n \in Nat : \E f : IsFlattening(f, s, n)}
  <1>1. 0 \in T
    <2> DEFINE f == [i \in 1 .. 0 |-> i]
    <2>1. IsFlattening(f, s, 0)
      BY DEF IsFlattening
    <2>2. QED
      BY <2>1
  <1>2. \A n \in T : n + 1 \in T
    BY LongerFlattening
  <1>3. T = Nat
    <2>1. T \subseteq Nat
      OBVIOUS
    <2> HIDE DEF T
    <2>2. QED
      BY <1>1, <1>2, <2>1, Induction
  <1>4. QED
    BY <1>3

\* And only one, which begins with the shorter ones.
LEMMA FlatteningIsUnique ==
    ASSUME NEW s, NEW j \in Nat, NEW k \in Nat, j <= k,
           NEW f, IsFlattening(f, s, j), NEW g, IsFlattening(g, s, k)
    PROVE  \A i \in 1 .. j : f[i] = g[i]
  <1> DEFINE T == {i \in Nat : i \in 1 .. j => f[i] = g[i]}
  <1>1. ASSUME NEW i \in 1 .. j
        PROVE  /\ f[i] = IF i = 1 THEN s[i] ELSE f[i - 1] \o s[i]
               /\ g[i] = IF i = 1 THEN s[i] ELSE g[i - 1] \o s[i]
    <2>1. i \in 1 .. k
      OBVIOUS
    <2>2. QED
      BY <2>1 DEF IsFlattening
  <1>2. 0 \in T
    OBVIOUS
  <1>3. ASSUME NEW i \in T PROVE i + 1 \in T
    <2>1. SUFFICES ASSUME i + 1 \in 1 .. j PROVE f[i + 1] = g[i + 1]
      OBVIOUS
    <2>2. CASE i = 0
      BY <1>1, <2>1, <2>2
    <2>3. CASE i # 0
      <3>1. i \in 1 .. j /\ i + 1 # 1 /\ (i + 1) - 1 = i
        BY <2>1, <2>3
      <3>2. f[i] = g[i]
        BY <3>1
      <3> HIDE DEF T
      <3>3. f[i + 1] = f[i] \o s[i + 1] /\ g[i + 1] = g[i] \o s[i + 1]
        BY <1>1, <2>1, <3>1
      <3>4. QED
        BY <3>2, <3>3
    <2>4. QED
      BY <2>2, <2>3
  <1>4. T = Nat
    <2>1. T \subseteq Nat
      OBVIOUS
    <2> HIDE DEF T
    <2>2. QED
      BY <1>2, <1>3, <2>1, Induction
  <1>5. QED
    BY <1>4

\* A table of s is one of every t that begins as s does.
LEMMA FlatteningOfBeginning ==
    ASSUME NEW s, NEW t, NEW k \in Nat, \A i \in 1 .. k : s[i] = t[i],
           NEW f, IsFlattening(f, s, k)
    PROVE  IsFlattening(f, t, k)
  <1>1. \A i \in 1 .. k : (IF i = 1 THEN s[i] ELSE f[i - 1] \o s[i])
                            = IF i = 1 THEN t[i] ELSE f[i - 1] \o t[i]
    OBVIOUS
  <1>2. QED
    BY <1>1 DEF IsFlattening

\* FlattenSeq is the last entry of the table.
LEMMA FlattenIsLast ==
    ASSUME NEW s, IsSequence(s), s # <<>>, NEW f, IsFlattening(f, s, Len(s))
    PROVE  FlattenSeq(s) = f[Len(s)]
  <1> DEFINE g == CHOOSE g : g = [i \in 1 .. Len(s) |-> IF i = 1 THEN s[i] ELSE g[i - 1] \o s[i]]
  <1>1. Len(s) \in Nat \ {0}
    BY SequenceIsFunction
  <1>2. FlattenSeq(s) = g[Len(s)]
    BY <1>1 DEF FlattenSeq
  <1>3. IsFlattening(g, s, Len(s))
    BY FlatteningExists, <1>1 DEF IsFlattening
  <1> HIDE DEF g
  <1>4. g[Len(s)] = f[Len(s)]
    BY <1>1, <1>3, FlatteningIsUnique
  <1>5. QED
    BY <1>2, <1>4

\* A text more is flattened behind the others.
LEMMA FlattenAppend ==
    ASSUME NEW C, NEW s \in Seq(Seq(C)), NEW x \in Seq(C)
    PROVE  FlattenSeq(Append(s, x)) = FlattenSeq(s) \o x
  <1> DEFINE t == Append(s, x)
             n == Len(s)
  <1>1. n \in Nat /\ n + 1 \in Nat /\ IsSequence(s)
    BY LenProperties, SeqOfRange DEF IsSequence
  <1>2. /\ t \in Seq(Seq(C)) /\ t # <<>> /\ Len(t) = n + 1
        /\ \A i \in 1 .. n : t[i] = s[i]
        /\ t[n + 1] = x
    BY AppendProperties
  <1> HIDE DEF t, n
  <1>3. IsSequence(t)
    BY <1>2, SeqOfRange DEF IsSequence
  <1>4. PICK g : IsFlattening(g, t, n + 1)
    BY <1>1, FlatteningExists
  <1>5. FlattenSeq(t) = g[n + 1]
    BY <1>2, <1>3, <1>4, FlattenIsLast
  <1>6. g[n + 1] = IF n + 1 = 1 THEN t[n + 1] ELSE g[n] \o t[n + 1]
    <2>1. n + 1 \in 1 .. n + 1 /\ (n + 1) - 1 = n
      BY <1>1
    <2>2. g[n + 1] = IF n + 1 = 1 THEN t[n + 1] ELSE g[(n + 1) - 1] \o t[n + 1]
      BY <1>4, <2>1 DEF IsFlattening
    <2>3. QED
      BY <2>1, <2>2
  <1>7. CASE s = <<>>
    <2>1. n = 0 /\ FlattenSeq(s) = <<>>
      BY <1>7 DEF FlattenSeq, n
    <2>2. <<>> \o x = x
      BY ConcatEmptySeq
    <2>3. FlattenSeq(t) = x
      BY <1>2, <1>5, <1>6, <2>1
    <2>4. QED
      BY <2>1, <2>2, <2>3 DEF t
  <1>8. CASE s # <<>>
    <2>1. n # 0
      BY <1>1, <1>8, SequenceIsFunction DEF n
    <2>2. PICK f : IsFlattening(f, s, n)
      BY <1>1, FlatteningExists
    <2>3. FlattenSeq(s) = f[n]
      BY <1>1, <1>8, <2>2, FlattenIsLast DEF n
    <2>4. \A i \in 1 .. n : s[i] = t[i]
      BY <1>2
    <2>5. f[n] = g[n]
      <3>1. \A i \in 1 .. n : f[i] = g[i]
        <4>1. IsFlattening(f, t, n)
          BY <1>1, <2>2, <2>4, FlatteningOfBeginning
        <4>2. n <= n + 1
          BY <1>1
        <4>3. QED
          BY <1>1, <1>4, <4>1, <4>2, FlatteningIsUnique
      <3>2. QED
        BY <1>1, <2>1, <3>1
    <2>6. FlattenSeq(t) = g[n] \o x
      BY <1>1, <1>2, <1>5, <1>6, <2>1
    <2>7. QED
      BY <2>3, <2>5, <2>6 DEF t
  <1>9. QED
    BY <1>7, <1>8

\* No text flattened is no text, and one is itself.
LEMMA FlattenFew ==
    ASSUME NEW C, NEW x \in Seq(C)
    PROVE  FlattenSeq(<<>>) = <<>> /\ FlattenSeq(<<x>>) = x
  <1>1. FlattenSeq(<<>>) = <<>>
    BY DEF FlattenSeq
  <1>2. <<>> \in Seq(Seq(C)) /\ Append(<<>>, x) = <<x>>
    OBVIOUS
  <1>3. FlattenSeq(Append(<<>>, x)) = FlattenSeq(<<>>) \o x
    BY <1>2, FlattenAppend
  <1>4. <<>> \o x = x
    BY ConcatEmptySeq
  <1>5. QED
    BY <1>1, <1>2, <1>3, <1>4

\* Texts flattened are a text.
LEMMA FlattenIsText ==
    ASSUME NEW C, NEW s \in Seq(Seq(C))
    PROVE  FlattenSeq(s) \in Seq(C)
  <1> DEFINE T == {n \in Nat : \A t \in Seq(Seq(C)) : Len(t) = n => FlattenSeq(t) \in Seq(C)}
  <1>1. 0 \in T
    <2>1. ASSUME NEW t \in Seq(Seq(C)), Len(t) = 0 PROVE FlattenSeq(t) \in Seq(C)
      <3>1. t = <<>>
        BY <2>1, EmptySeq
      <3>2. FlattenSeq(t) = <<>>
        BY <3>1 DEF FlattenSeq
      <3>3. QED
        BY <3>2
    <2>2. QED
      BY <2>1
  <1>2. ASSUME NEW n \in T PROVE n + 1 \in T
    <2>1. SUFFICES ASSUME NEW t \in Seq(Seq(C)), Len(t) = n + 1
                   PROVE  FlattenSeq(t) \in Seq(C)
      OBVIOUS
    <2>2. t # <<>>
      BY <2>1, EmptySeq
    <2>3. PICK u \in Seq(Seq(C)), x \in Seq(C) : t = Append(u, x)
      BY <2>2, SequenceEmptyOrAppend
    <2>4. Len(u) = n /\ Len(u) \in Nat
      <3>1. Len(u) \in Nat /\ Len(t) = Len(u) + 1
        BY <2>3, AppendProperties, LenProperties
      <3>2. QED
        BY <2>1, <3>1
    <2>5. FlattenSeq(u) \in Seq(C)
      BY <2>4
    <2>6. FlattenSeq(t) = FlattenSeq(u) \o x
      BY <2>3, FlattenAppend
    <2>7. QED
      BY <2>5, <2>6, Together
  <1>3. T = Nat
    <2>1. T \subseteq Nat
      OBVIOUS
    <2> HIDE DEF T
    <2>2. QED
      BY <1>1, <1>2, <2>1, Induction
  <1>4. Len(s) \in T
    BY <1>3, LenProperties
  <1>5. QED
    BY <1>4

\* A text in front is flattened in front of the others.
LEMMA FlattenCons ==
    ASSUME NEW C, NEW s \in Seq(Seq(C)), NEW x \in Seq(C)
    PROVE  FlattenSeq(<<x>> \o s) = x \o FlattenSeq(s)
  <1> DEFINE Holds(t) == FlattenSeq(<<x>> \o t) = x \o FlattenSeq(t)
             T == {n \in Nat : \A t \in Seq(Seq(C)) : Len(t) = n => Holds(t)}
  <1>1. <<x>> \in Seq(Seq(C))
    OBVIOUS
  <1>2. 0 \in T
    <2>1. ASSUME NEW t \in Seq(Seq(C)), Len(t) = 0 PROVE Holds(t)
      <3>1. t = <<>>
        BY <2>1, EmptySeq
      <3>2. <<x>> \o t = <<x>> /\ x \o <<>> = x
        BY <1>1, <3>1, ConcatEmptySeq
      <3>3. QED
        BY <3>1, <3>2, FlattenFew
    <2>2. QED
      BY <2>1
  <1>3. ASSUME NEW n \in T PROVE n + 1 \in T
    <2> HIDE DEF Holds
    <2>1. SUFFICES ASSUME NEW t \in Seq(Seq(C)), Len(t) = n + 1 PROVE Holds(t)
      OBVIOUS
    <2>2. t # <<>>
      BY <2>1, EmptySeq
    <2>3. PICK u \in Seq(Seq(C)), y \in Seq(C) : t = Append(u, y)
      BY <2>2, SequenceEmptyOrAppend
    <2>4. Len(u) = n /\ Len(u) \in Nat
      <3>1. Len(u) \in Nat /\ Len(t) = Len(u) + 1
        BY <2>3, AppendProperties, LenProperties
      <3>2. QED
        BY <2>1, <3>1
    <2>5. Holds(u)
      BY <2>4
    <2>6. <<x>> \o t = Append(<<x>> \o u, y) /\ <<x>> \o u \in Seq(Seq(C))
      <3>1. t = u \o <<y>> /\ <<y>> \in Seq(Seq(C))
        BY <2>3, AppendIsConcat
      <3>2. <<x>> \o (u \o <<y>>) = (<<x>> \o u) \o <<y>>
        BY <1>1, <3>1, ConcatAssociative
      <3>3. <<x>> \o u \in Seq(Seq(C))
        BY <1>1, ConcatProperties
      <3>4. Append(<<x>> \o u, y) = (<<x>> \o u) \o <<y>>
        BY <3>3, AppendIsConcat
      <3>5. QED
        BY <3>1, <3>2, <3>3, <3>4
    <2>7. FlattenSeq(<<x>> \o t) = FlattenSeq(<<x>> \o u) \o y
      BY <2>6, FlattenAppend
    <2>8. FlattenSeq(t) = FlattenSeq(u) \o y /\ FlattenSeq(u) \in Seq(C)
      BY <2>3, FlattenAppend, FlattenIsText
    <2>9. (x \o FlattenSeq(u)) \o y = x \o (FlattenSeq(u) \o y)
      BY <2>8, ConcatAssociative
    <2>10. QED
      BY <2>5, <2>7, <2>8, <2>9 DEF Holds
  <1>4. T = Nat
    <2>1. T \subseteq Nat
      OBVIOUS
    <2> HIDE DEF T
    <2>2. QED
      BY <1>2, <1>3, <2>1, Induction
  <1>5. Len(s) \in T
    BY <1>4, LenProperties
  <1>6. QED
    BY <1>5
-----------------------------------------------------------------------------
(* Escape sequences.                                                       *)

\* The characters that have to be escaped and have no escape sequence.
NoEscape == {"NUL", "\r"}

LEMMA EscapedChar ==
    ASSUME NEW ch \in STRING
    PROVE  /\ char_should_be_escaped(ch) /\ get_escape_char(ch) = nullopt <=> ch \in NoEscape
           /\ char_should_be_escaped(ch) /\ ch \notin NoEscape =>
                  get_escape_char(ch) \in {"\"", "\\", "n", "t"}
  <1>1. \A x \in STRING : x # nullopt
    BY NulloptAssumption
  <1>2. CASE ch \in NoEscape
    <2>1. ch # "\"" /\ ch # "\\" /\ ch # "\n" /\ ch # "\t"
      <3>1. ch = "NUL" \/ ch = "\r"
        BY <1>2 DEF NoEscape
      <3>2. CASE ch = "NUL"
        BY <3>2
      <3>3. CASE ch = "\r"
        BY <3>3
      <3>4. QED
        BY <3>1, <3>2, <3>3
    <2>2. get_escape_char(ch) = nullopt
      BY <2>1, Zenon DEF get_escape_char
    <2>3. char_should_be_escaped(ch)
      BY <1>2 DEF NoEscape, char_should_be_escaped
    <2>4. QED
      BY <1>2, <2>2, <2>3
  <1>3. CASE ch \notin NoEscape /\ char_should_be_escaped(ch)
    <2>1. ch \in {"\t", "\n", "\"", "\\"}
      BY <1>3 DEF NoEscape, char_should_be_escaped, string_begin_end, begin_esc_seq
    <2>2. get_escape_char(ch) \in {"\"", "\\", "n", "t"}
      <3>1. ch = "\"" => get_escape_char(ch) = "\""
        BY Zenon DEF get_escape_char
      <3>2. ch = "\\" => get_escape_char(ch) = "\\"
        <4>1. "\\" # "\""
          BY SMT
        <4>2. QED
          BY <4>1, Zenon DEF get_escape_char
      <3>3. ch = "\n" => get_escape_char(ch) = "n"
        <4>1. "\n" # "\"" /\ "\n" # "\\"
          BY SMT
        <4>2. QED
          BY <4>1, Zenon DEF get_escape_char
      <3>4. ch = "\t" => get_escape_char(ch) = "t"
        <4>1. "\t" # "\"" /\ "\t" # "\\" /\ "\t" # "\n"
          BY SMT
        <4>2. QED
          BY <4>1, Zenon DEF get_escape_char
      <3>5. QED
        BY <2>1, <3>1, <3>2, <3>3, <3>4
    <2>3. get_escape_char(ch) # nullopt
      <3>1. {"\"", "\\", "n", "t"} \subseteq STRING
        BY FormatCharsAssumption DEF FormatChars, string_begin_end, begin_esc_seq
      <3>2. QED
        BY <1>1, <2>2, <3>1
    <2>4. QED
      BY <1>3, <2>2, <2>3
  <1>4. QED
    BY <1>2, <1>3 DEF NoEscape, char_should_be_escaped

\* A string is put between quotes unless it has a character without an escape
\* sequence, and nothing is added but quotes, backslashes and letters.
LEMMA WrappedString ==
    ASSUME NEW C \in SUBSET STRING, {"\"", "\\", "n", "t"} \subseteq C, NEW s \in Seq(C)
    PROVE  /\ wrap_string(s) = nullopt <=> \E i \in DOMAIN s : s[i] \in NoEscape
           /\ wrap_string(s) # nullopt => wrap_string(s) \in Seq(C)
  <1> DEFINE one(ch) == IF char_should_be_escaped(ch)
                        THEN <<begin_esc_seq, get_escape_char(ch)>> ELSE <<ch>>
             bad == \E i \in DOMAIN s : /\ char_should_be_escaped(s[i])
                                        /\ get_escape_char(s[i]) = nullopt
             parts == [i \in DOMAIN s |-> one(s[i])]
  <1>1. /\ DOMAIN s = 1 .. Len(s) /\ Len(s) \in Nat
        /\ \A i \in DOMAIN s : s[i] \in C /\ s[i] \in STRING
    BY ElementOfSeq, LenProperties
  <1>2. bad <=> \E i \in DOMAIN s : s[i] \in NoEscape
    BY <1>1, EscapedChar
  <1>3. escape(s) = IF bad THEN nullopt ELSE FlattenSeq(parts)
    BY DEF escape
  <1>4. ASSUME ~bad PROVE FlattenSeq(parts) \in Seq(C)
    <2>1. ASSUME NEW i \in DOMAIN s PROVE one(s[i]) \in Seq(C)
      <3>1. s[i] \in C /\ s[i] \in STRING /\ s[i] \notin NoEscape
        BY <1>1, <1>2, <1>4
      <3>2. CASE char_should_be_escaped(s[i])
        <4>1. get_escape_char(s[i]) \in C /\ begin_esc_seq \in C
          BY <3>1, <3>2, EscapedChar DEF begin_esc_seq
        <4>2. <<begin_esc_seq, get_escape_char(s[i])>> \in Seq(C)
          BY <4>1, ShortText
        <4>3. QED
          BY <3>2, <4>2
      <3>3. CASE ~char_should_be_escaped(s[i])
        <4>1. <<s[i]>> \in Seq(C)
          BY <3>1, ShortText
        <4>2. QED
          BY <3>3, <4>1
      <3>4. QED
        BY <3>2, <3>3
    <2> HIDE DEF one
    <2>2. parts \in [1 .. Len(s) -> Seq(C)]
      BY <1>1, <2>1
    <2>3. parts \in Seq(Seq(C))
      BY <1>1, <2>2, FunctionIsText
    <2> HIDE DEF parts
    <2>4. QED
      BY <2>3, FlattenIsText
  <1>5. \A t \in Seq(C) : t # nullopt
    <2>1. \A t \in Seq(C) : t \in Seq(STRING)
      BY SeqMonotonic
    <2>2. QED
      BY <2>1, NulloptAssumption
  <1> HIDE DEF bad, parts
  <1>6. escape(s) = nullopt <=> bad
    BY <1>3, <1>4, <1>5
  <1>7. ASSUME ~bad PROVE wrap_string(s) \in Seq(C)
    <2>1. escape(s) \in Seq(C) /\ escape(s) # nullopt
      BY <1>3, <1>4, <1>6, <1>7
    <2>2. <<string_begin_end>> \in Seq(C)
      <3>1. string_begin_end \in C
        BY DEF string_begin_end
      <3>2. QED
        BY <3>1, ShortText
    <2>3. <<string_begin_end>> \o escape(s) \in Seq(C)
      BY <2>1, <2>2, Together
    <2>4. (<<string_begin_end>> \o escape(s)) \o <<string_begin_end>> \in Seq(C)
      BY <2>2, <2>3, Together
    <2>5. QED
      BY <2>1, <2>4 DEF wrap_string
  <1>8. QED
    BY <1>2, <1>5, <1>6, <1>7 DEF wrap_string

-----------------------------------------------------------------------------
(* The order of keys.                                                      *)

Letters == DOMAIN Code

\* a and b agree on n characters, behind which a is less.
LessAt(a, b, n) ==
    /\ n \in 0 .. Len(a) /\ n < Len(b)
    /\ \A i \in 1 .. n : a[i] = b[i]
    /\ n < Len(a) => Code[a[n + 1]] < Code[b[n + 1]]

LEMMA LessSomewhere ==
    ASSUME NEW a \in Seq(Letters), NEW b \in Seq(Letters)
    PROVE  Less(a, b) <=> \E n : LessAt(a, b, n)
  <1>1. Len(a) \in Nat /\ Len(b) \in Nat
    BY LenProperties
  <1>2. ASSUME NEW n \in 0 .. Len(a), n < Len(b)
        PROVE  SubSeq(a, 1, n) = SubSeq(b, 1, n) <=> \A i \in 1 .. n : a[i] = b[i]
    <2>1. \A i \in 1 .. n : a[i] \in Letters /\ b[i] \in Letters
      BY <1>1, <1>2, ElementOfSeq
    <2>2. n \in Int /\ n - 1 + 1 = n /\ (1 <= n \/ n = 0)
      BY <1>1
    <2>3. /\ SubSeq(a, 1, n) \in Seq(Letters) /\ Len(SubSeq(a, 1, n)) = n
          /\ \A i \in 1 .. n : SubSeq(a, 1, n)[i] = a[i]
      <3>1. /\ SubSeq(a, 1, n) \in Seq(Letters)
            /\ Len(SubSeq(a, 1, n)) = IF 1 <= n THEN n - 1 + 1 ELSE 0
            /\ \A i \in 1 .. n - 1 + 1 : SubSeq(a, 1, n)[i] = a[1 + i - 1]
        BY <2>1, <2>2, SubSeqProperties
      <3>2. QED
        BY <2>2, <3>1
    <2>4. /\ SubSeq(b, 1, n) \in Seq(Letters) /\ Len(SubSeq(b, 1, n)) = n
          /\ \A i \in 1 .. n : SubSeq(b, 1, n)[i] = b[i]
      <3>1. /\ SubSeq(b, 1, n) \in Seq(Letters)
            /\ Len(SubSeq(b, 1, n)) = IF 1 <= n THEN n - 1 + 1 ELSE 0
            /\ \A i \in 1 .. n - 1 + 1 : SubSeq(b, 1, n)[i] = b[1 + i - 1]
        BY <2>1, <2>2, SubSeqProperties
      <3>2. QED
        BY <2>2, <3>1
    <2>5. ASSUME \A i \in 1 .. n : a[i] = b[i]
          PROVE  SubSeq(a, 1, n) = SubSeq(b, 1, n)
      <3> DEFINE p == SubSeq(a, 1, n)
                 q == SubSeq(b, 1, n)
      <3>1. Len(p) = Len(q) /\ \A i \in 1 .. Len(p) : p[i] = q[i]
        BY <2>3, <2>4, <2>5
      <3>2. p \in Seq(Letters) /\ q \in Seq(Letters)
        BY <2>3, <2>4
      <3> HIDE DEF p, q
      <3>3. p = q
        BY <3>1, <3>2, SeqEqual
      <3>4. QED
        BY <3>3 DEF p, q
    <2>6. QED
      BY <2>3, <2>4, <2>5
  <1>3. ASSUME Less(a, b) PROVE \E n : LessAt(a, b, n)
    <2>1. PICK n \in 0 .. Len(a) :
            /\ n < Len(b)
            /\ SubSeq(a, 1, n) = SubSeq(b, 1, n)
            /\ n < Len(a) => Code[a[n + 1]] < Code[b[n + 1]]
      BY <1>3 DEF Less
    <2>2. LessAt(a, b, n)
      BY <1>2, <2>1 DEF LessAt
    <2>3. QED
      BY <2>2
  <1>4. ASSUME NEW n, LessAt(a, b, n) PROVE Less(a, b)
    BY <1>2, <1>4 DEF Less, LessAt
  <1>5. QED
    BY <1>3, <1>4

\* It is a strict order, and any two keys are in it.
LEMMA LessIsIrreflexive ==
    ASSUME NEW a \in Seq(Letters)
    PROVE  ~Less(a, a)
  <1>1. SUFFICES ASSUME NEW n, LessAt(a, a, n) PROVE FALSE
    BY LessSomewhere
  <1>2. n < Len(a) /\ Len(a) \in Nat /\ n \in Nat
    BY <1>1, LenProperties DEF LessAt
  <1>3. a[n + 1] \in Letters
    BY <1>2, ElementOfSeq
  <1>4. Code[a[n + 1]] \in Int
    BY <1>3, CodeAssumption DEF Letters
  <1>5. Code[a[n + 1]] < Code[a[n + 1]]
    BY <1>1, <1>2 DEF LessAt
  <1>6. QED
    BY <1>4, <1>5

LEMMA LessIsTransitive ==
    ASSUME NEW a \in Seq(Letters), NEW b \in Seq(Letters), NEW c \in Seq(Letters),
           Less(a, b), Less(b, c)
    PROVE  Less(a, c)
  <1>1. PICK n : LessAt(a, b, n)
    BY LessSomewhere
  <1>2. PICK m : LessAt(b, c, m)
    BY LessSomewhere
  <1>3. /\ Len(a) \in Nat /\ Len(b) \in Nat /\ Len(c) \in Nat
        /\ n \in Nat /\ m \in Nat
        /\ n <= Len(a) /\ n < Len(b) /\ m <= Len(b) /\ m < Len(c)
    BY <1>1, <1>2, LenProperties DEF LessAt
  <1>4. CASE n < m
    <2>1. \A i \in 1 .. n : a[i] = c[i]
      BY <1>1, <1>2, <1>3, <1>4 DEF LessAt
    <2>2. b[n + 1] = c[n + 1]
      BY <1>2, <1>3, <1>4 DEF LessAt
    <2>3. LessAt(a, c, n)
      BY <1>1, <1>3, <1>4, <2>1, <2>2 DEF LessAt
    <2>4. QED
      BY <2>3, LessSomewhere
  <1>5. CASE n = m
    <2>1. \A i \in 1 .. n : a[i] = c[i]
      BY <1>1, <1>2, <1>3, <1>5 DEF LessAt
    <2>2. ASSUME n < Len(a) PROVE Code[a[n + 1]] < Code[c[n + 1]]
      <3>1. a[n + 1] \in Letters /\ b[n + 1] \in Letters /\ c[n + 1] \in Letters
        BY <1>3, <1>5, <2>2, ElementOfSeq
      <3>2. /\ Code[a[n + 1]] \in Int /\ Code[b[n + 1]] \in Int /\ Code[c[n + 1]] \in Int
        BY <3>1, CodeAssumption DEF Letters
      <3>3. Code[a[n + 1]] < Code[b[n + 1]] /\ Code[b[n + 1]] < Code[c[n + 1]]
        BY <1>1, <1>2, <1>3, <1>5, <2>2 DEF LessAt
      <3>4. QED
        BY <3>2, <3>3
    <2>3. LessAt(a, c, n)
      BY <1>3, <1>5, <2>1, <2>2 DEF LessAt
    <2>4. QED
      BY <2>3, LessSomewhere
  <1>6. CASE n > m
    <2>1. \A i \in 1 .. m : a[i] = c[i]
      BY <1>1, <1>2, <1>3, <1>6 DEF LessAt
    <2>2. a[m + 1] = b[m + 1]
      BY <1>1, <1>3, <1>6 DEF LessAt
    <2>3. LessAt(a, c, m)
      BY <1>2, <1>3, <1>6, <2>1, <2>2 DEF LessAt
    <2>4. QED
      BY <2>3, LessSomewhere
  <1>7. QED
    BY <1>3, <1>4, <1>5, <1>6

LEMMA LessIsTotal ==
    ASSUME NEW a \in Seq(Letters), NEW b \in Seq(Letters), a # b
    PROVE  Less(a, b) \/ Less(b, a)
  <1> DEFINE Differ == {i \in Nat : i < Len(a) /\ i < Len(b) /\ a[i + 1] # b[i + 1]}
  <1>1. Len(a) \in Nat /\ Len(b) \in Nat
    BY LenProperties
  <1>2. CASE Differ # {}
    <2>1. PICK m \in Differ : \A n \in Differ : m <= n
      <3>1. Differ \subseteq Nat
        OBVIOUS
      <3> HIDE DEF Differ
      <3>2. QED
        BY <1>2, <3>1, LeastElement
    <2>2. m \in Nat /\ m < Len(a) /\ m < Len(b) /\ a[m + 1] # b[m + 1]
      OBVIOUS
    <2>3. \A i \in 1 .. m : a[i] = b[i]
      <3> SUFFICES ASSUME NEW i \in 1 .. m, a[i] # b[i] PROVE FALSE
        OBVIOUS
      <3>1. i - 1 \in Differ
        BY <1>1, <2>2
      <3>2. QED
        BY <2>1, <2>2, <3>1
    <2> HIDE DEF Differ
    <2>4. a[m + 1] \in Letters /\ b[m + 1] \in Letters
      BY <1>1, <2>2, ElementOfSeq
    <2>5. /\ Code[a[m + 1]] \in Int /\ Code[b[m + 1]] \in Int
          /\ Code[a[m + 1]] # Code[b[m + 1]]
      BY <2>2, <2>4, CodeAssumption DEF Letters
    <2>6. LessAt(a, b, m) \/ LessAt(b, a, m)
      BY <1>1, <2>2, <2>3, <2>5 DEF LessAt
    <2>7. QED
      BY <2>6, LessSomewhere
  <1>3. CASE Differ = {}
    <2>1. ASSUME NEW i \in Nat \ {0}, i <= Len(a), i <= Len(b)
          PROVE  a[i] = b[i]
      <3>1. i - 1 \notin Differ
        BY <1>3
      <3>2. i - 1 \in Nat /\ i - 1 < Len(a) /\ i - 1 < Len(b) /\ (i - 1) + 1 = i
        BY <1>1, <2>1
      <3>3. QED
        BY <3>1, <3>2
    <2> HIDE DEF Differ
    <2>2. Len(a) # Len(b)
      <3> SUFFICES ASSUME Len(a) = Len(b) PROVE FALSE
        OBVIOUS
      <3>1. \A i \in 1 .. Len(a) : a[i] = b[i]
        BY <1>1, <2>1
      <3>2. QED
        BY <3>1, SeqEqual
    <2>3. CASE Len(a) < Len(b)
      <3>1. LessAt(a, b, Len(a))
        BY <1>1, <2>1, <2>3 DEF LessAt
      <3>2. QED
        BY <3>1, LessSomewhere
    <2>4. CASE Len(b) < Len(a)
      <3>1. LessAt(b, a, Len(b))
        BY <1>1, <2>1, <2>4 DEF LessAt
      <3>2. QED
        BY <3>1, LessSomewhere
    <2>5. QED
      BY <1>1, <2>2, <2>3, <2>4
  <1>4. QED
    BY <1>2, <1>3
\* The keys that are less than a key, and how many they are.
Lower(key, keys) == {other \in keys : Less(other, key)}
Rank(key, keys) == Cardinality(Lower(key, keys))

LEMMA RankGrows ==
    ASSUME NEW keys \in SUBSET Seq(Letters), IsFiniteSet(keys),
           NEW a \in keys, NEW b \in keys, Less(a, b)
    PROVE  Rank(a, keys) < Rank(b, keys)
  <1>1. Lower(a, keys) \in SUBSET keys /\ Lower(b, keys) \in SUBSET keys
    BY DEF Lower
  <1>2. /\ IsFiniteSet(Lower(a, keys)) /\ IsFiniteSet(Lower(b, keys))
        /\ Rank(a, keys) \in Nat /\ Rank(b, keys) \in Nat
    BY <1>1, FS_Subset, FS_CardinalityType DEF Rank
  <1>3. Lower(a, keys) \in SUBSET Lower(b, keys)
    <2> SUFFICES ASSUME NEW key \in Lower(a, keys) PROVE key \in Lower(b, keys)
      OBVIOUS
    <2>1. key \in keys /\ Less(key, a)
      BY DEF Lower
    <2>2. key \in Seq(Letters) /\ a \in Seq(Letters) /\ b \in Seq(Letters)
      BY <2>1
    <2>3. Less(key, b)
      BY <2>1, <2>2, LessIsTransitive
    <2>4. QED
      BY <2>1, <2>3 DEF Lower
  <1>4. Lower(a, keys) # Lower(b, keys)
    <2>1. a \in Lower(b, keys)
      BY DEF Lower
    <2>2. a \notin Lower(a, keys)
      BY LessIsIrreflexive DEF Lower
    <2>3. QED
      BY <2>1, <2>2
  <1>5. /\ Rank(a, keys) <= Rank(b, keys)
        /\ Rank(b, keys) = Rank(a, keys) => Lower(b, keys) = Lower(a, keys)
    BY <1>2, <1>3, FS_Subset DEF Rank
  <1>6. QED
    BY <1>2, <1>4, <1>5

\* Every key has a rank of its own, and every number below that of keys is one.
LEMMA RanksAreUsed ==
    ASSUME NEW keys \in SUBSET Seq(Letters), IsFiniteSet(keys)
    PROVE  /\ \A key \in keys : Rank(key, keys) \in 0 .. Cardinality(keys) - 1
           /\ \A a, b \in keys : Rank(a, keys) = Rank(b, keys) => a = b
           /\ \A i \in 0 .. Cardinality(keys) - 1 :
                 \E key \in keys : Rank(key, keys) = i
  <1> DEFINE n == Cardinality(keys)
             rank == [key \in keys |-> Rank(key, keys)]
  <1>1. n \in Nat
    BY FS_CardinalityType
  <1>2. ASSUME NEW key \in keys PROVE Rank(key, keys) \in 0 .. n - 1
    <2>1. Lower(key, keys) \in SUBSET keys
      BY DEF Lower
    <2>2. Lower(key, keys) # keys
      BY LessIsIrreflexive DEF Lower
    <2>3. /\ IsFiniteSet(Lower(key, keys))
          /\ Rank(key, keys) <= n
          /\ n = Rank(key, keys) => keys = Lower(key, keys)
      BY <2>1, FS_Subset DEF Rank
    <2>4. Rank(key, keys) \in Nat
      BY <2>3, FS_CardinalityType DEF Rank
    <2>5. QED
      BY <1>1, <2>2, <2>3, <2>4
  <1>3. ASSUME NEW a \in keys, NEW b \in keys, Rank(a, keys) = Rank(b, keys) PROVE a = b
    <2> SUFFICES ASSUME a # b PROVE FALSE
      OBVIOUS
    <2>1. a \in Seq(Letters) /\ b \in Seq(Letters)
      OBVIOUS
    <2>2. CASE Less(a, b)
      <3>1. Rank(a, keys) < Rank(b, keys)
        BY <2>2, RankGrows
      <3>2. QED
        BY <1>1, <1>2, <1>3, <3>1
    <2>3. CASE Less(b, a)
      <3>1. Rank(b, keys) < Rank(a, keys)
        BY <2>3, RankGrows
      <3>2. QED
        BY <1>1, <1>2, <1>3, <3>1
    <2>4. QED
      BY <2>1, <2>2, <2>3, LessIsTotal
  <1> HIDE DEF n
  <1>4. rank \in Injection(keys, 0 .. n - 1)
    <2>1. rank \in [keys -> 0 .. n - 1]
      BY <1>2
    <2>2. IsInjective(rank)
      BY <1>3 DEF IsInjective
    <2>3. QED
      BY <2>1, <2>2 DEF Injection
  <1>5. IsFiniteSet(0 .. n - 1) /\ Cardinality(0 .. n - 1) = n
    BY <1>1, FS_Interval
  <1>6. rank \in Surjection(keys, 0 .. n - 1)
    <2> HIDE DEF rank
    <2>1. Cardinality(keys) = Cardinality(0 .. n - 1)
      BY <1>5 DEF n
    <2>2. QED
      BY <1>4, <1>5, <2>1, FS_Injection
  <1>7. \A i \in 0 .. n - 1 : \E key \in keys : Rank(key, keys) = i
    BY <1>6 DEF Surjection
  <1>8. QED
    BY <1>2, <1>3, <1>7 DEF n

\* An enumeration of keys in increasing order.
Increasing(order, keys) ==
    /\ order \in [1 .. Cardinality(keys) -> keys]
    /\ \A i, j \in 1 .. Cardinality(keys) : i < j => Less(order[i], order[j])

\* An iteration meets every key once, in increasing order.
LEMMA KeysInOrder ==
    ASSUME NEW keys \in SUBSET Seq(Letters), IsFiniteSet(keys)
    PROVE  LET order == InOrder(keys)
               n == Cardinality(keys)
           IN  /\ n \in Nat
               /\ Increasing(order, keys)
               /\ \A i \in 1 .. n : Rank(order[i], keys) = i - 1
  <1> DEFINE n == Cardinality(keys)
             order == InOrder(keys)
  <1>1. n \in Nat
    BY FS_CardinalityType
  <1>2. order = [i \in 1 .. n |-> CHOOSE key \in keys : Rank(key, keys) = i - 1]
    BY DEF InOrder, Rank, Lower
  <1>3. ASSUME NEW i \in 1 .. n PROVE order[i] \in keys /\ Rank(order[i], keys) = i - 1
    <2>1. i - 1 \in 0 .. n - 1
      BY <1>1
    <2>2. \E key \in keys : Rank(key, keys) = i - 1
      BY <2>1, RanksAreUsed
    <2>3. QED
      BY <1>2, <2>2
  <1> HIDE DEF n, order
  <1>4. order \in [1 .. n -> keys]
    BY <1>2, <1>3
  <1>5. ASSUME NEW i \in 1 .. n, NEW j \in 1 .. n, i < j PROVE Less(order[i], order[j])
    <2>1. /\ order[i] \in keys /\ order[j] \in keys
          /\ Rank(order[i], keys) = i - 1 /\ Rank(order[j], keys) = j - 1
      BY <1>3
    <2>2. order[i] # order[j]
      BY <1>1, <1>5, <2>1
    <2>3. ~Less(order[j], order[i])
      <3> SUFFICES ASSUME Less(order[j], order[i]) PROVE FALSE
        OBVIOUS
      <3>1. Rank(order[j], keys) < Rank(order[i], keys)
        BY <2>1, RankGrows
      <3>2. QED
        BY <1>1, <1>5, <2>1, <3>1
    <2>4. QED
      BY <2>1, <2>2, <2>3, LessIsTotal
  <1>6. QED
    BY <1>1, <1>3, <1>4, <1>5 DEF n, order, Increasing

\* There is one enumeration in increasing order.
LEMMA OneOrder ==
    ASSUME NEW keys \in SUBSET Seq(Letters), IsFiniteSet(keys),
           NEW p, Increasing(p, keys)
    PROVE  p = InOrder(keys)
  <1> DEFINE n == Cardinality(keys)
  <1>0. /\ p \in [1 .. n -> keys]
        /\ \A i, j \in 1 .. n : i < j => Less(p[i], p[j])
    BY DEF Increasing
  <1>1. n \in Nat
    BY FS_CardinalityType
  <1>2. ASSUME NEW i \in 1 .. n, NEW j \in 1 .. n, Less(p[i], p[j]) PROVE i < j
    <2>1. p[i] \in Seq(Letters) /\ p[j] \in Seq(Letters)
      BY <1>0
    <2>2. i # j
      BY <1>2, <2>1, LessIsIrreflexive
    <2>3. ~(j < i)
      <3> SUFFICES ASSUME j < i PROVE FALSE
        OBVIOUS
      <3>1. Less(p[j], p[i])
        BY <1>0
      <3>2. Less(p[i], p[i])
        BY <1>2, <2>1, <3>1, LessIsTransitive
      <3>3. QED
        BY <2>1, <3>2, LessIsIrreflexive
    <2>4. QED
      BY <1>1, <2>2, <2>3
  <1>3. ASSUME NEW i \in 1 .. n, NEW j \in 1 .. n, p[i] = p[j] PROVE i = j
    <2>1. p[i] \in Seq(Letters) /\ ~Less(p[i], p[i])
      BY <1>0, LessIsIrreflexive
    <2>2. ~(i < j) /\ ~(j < i)
      BY <1>0, <1>3, <2>1
    <2>3. QED
      BY <1>1, <2>2
  <1> HIDE DEF n
  <1>4. \A key \in keys : \E i \in 1 .. n : p[i] = key
    <2>1. p \in [1 .. n -> keys]
      BY <1>0
    <2>2. p \in Injection(1 .. n, keys)
      BY <1>3, <2>1 DEF Injection, IsInjective
    <2>3. Cardinality(1 .. n) = Cardinality(keys)
      BY <1>1, FS_Interval DEF n
    <2>4. p \in Surjection(1 .. n, keys)
      BY <2>2, <2>3, FS_Injection
    <2>5. QED
      BY <2>4 DEF Surjection
  <1>5. ASSUME NEW i \in 1 .. n PROVE Rank(p[i], keys) = i - 1
    <2> DEFINE f == [j \in 1 .. i - 1 |-> p[j]]
    <2>1. i - 1 \in Nat /\ p[i] \in keys
      BY <1>0, <1>1
    <2>2. ASSUME NEW j \in 1 .. i - 1
          PROVE  f[j] = p[j] /\ p[j] \in Lower(p[i], keys) /\ j \in 1 .. n
      <3>1. j \in 1 .. n /\ j < i
        BY <1>1
      <3>2. Less(p[j], p[i]) /\ p[j] \in keys
        BY <1>0, <3>1
      <3>3. QED
        BY <3>1, <3>2 DEF Lower
    <2>3. \A key \in Lower(p[i], keys) : \E j \in 1 .. i - 1 : f[j] = key
      <3> SUFFICES ASSUME NEW key \in Lower(p[i], keys)
                   PROVE  \E j \in 1 .. i - 1 : f[j] = key
        OBVIOUS
      <3>1. key \in keys /\ Less(key, p[i])
        BY DEF Lower
      <3>2. PICK j \in 1 .. n : p[j] = key
        BY <1>4, <3>1
      <3>3. j < i
        BY <1>2, <3>1, <3>2
      <3>4. j \in 1 .. i - 1
        BY <1>1, <3>3
      <3>5. QED
        BY <3>2, <3>4
    <2>4. f \in [1 .. i - 1 -> Lower(p[i], keys)]
      BY <2>2
    <2>5. IsInjective(f)
      <3>1. DOMAIN f = 1 .. i - 1
        OBVIOUS
      <3> HIDE DEF f
      <3>2. ASSUME NEW j \in 1 .. i - 1, NEW k \in 1 .. i - 1, f[j] = f[k] PROVE j = k
        BY <1>3, <2>2, <3>2
      <3>3. QED
        BY <3>1, <3>2 DEF IsInjective
    <2> HIDE DEF f
    <2>6. f \in Bijection(1 .. i - 1, Lower(p[i], keys))
      BY <2>3, <2>4, <2>5 DEF Bijection, Injection, Surjection
    <2>7. ExistsBijection(1 .. i - 1, Lower(p[i], keys))
      BY <2>6 DEF ExistsBijection
    <2>8. QED
      BY <2>1, <2>7, FS_CountingElements DEF Rank
  <1>6. ASSUME NEW i \in 1 .. n PROVE p[i] = InOrder(keys)[i]
    <2>1. InOrder(keys)[i] \in keys /\ Rank(InOrder(keys)[i], keys) = i - 1
      BY KeysInOrder DEF n, Increasing
    <2>2. p[i] \in keys /\ Rank(p[i], keys) = i - 1
      BY <1>0, <1>5
    <2>3. QED
      BY <2>1, <2>2, RanksAreUsed
  <1> DEFINE q == InOrder(keys)
  <1>7. q \in [1 .. n -> keys] /\ p \in [1 .. n -> keys]
    BY <1>0, KeysInOrder DEF n, Increasing
  <1>8. \A i \in 1 .. n : p[i] = q[i]
    BY <1>6
  <1>9. p = q
    <2> DEFINE D == 1 .. n
    <2>1. p \in [D -> keys] /\ q \in [D -> keys] /\ \A i \in D : p[i] = q[i]
      BY <1>7, <1>8
    <2> HIDE DEF q, D
    <2>2. QED
      BY <2>1, SameFunction
  <1>10. QED
    BY <1>9
=============================================================================
