--------------------------- MODULE GrammarProofs ----------------------------
(***************************************************************************)
(* What JsonGrammar reads of a text as lib/parser.hpp meets the text: one  *)
(* character after the other, with some containers open.                   *)
(*                                                                         *)
(* A recursive function is a choice, so its equation is a fact to prove:   *)
(* what is read from a spot depends on the spots nearer to the end of the  *)
(* text alone, hence there is one table of readings for every length, and  *)
(* the tables agree.  The rest of a text is then followed through its      *)
(* characters: each of them relates what is left to read before it to what *)
(* is left behind it, for every container that is open around it.          *)
(*                                                                         *)
(* The last part goes the other way: texts that read as something wherever *)
(* they stand are put together, up to a document.                          *)
(***************************************************************************)
EXTENDS ParserLanguage, ParserProofs

-----------------------------------------------------------------------------
(* Tokens.                                                                 *)

Texts == Seq(STRING)

\* A set of naturals that is not empty has a minimum.
LEMMA MinimumExists ==
    ASSUME NEW S, S \subseteq Nat, S # {}
    PROVE  Min(S) \in S /\ \A i \in S : Min(S) <= i
  <1>1. \E m \in S : \A i \in S : m <= i
    BY LeastElement
  <1>2. QED
    BY <1>1 DEF Min

\* The next token is the first index that is not blank.
LEMMA NextTokenIsFirst ==
    ASSUME NEW t \in Texts, NEW i \in Nat \ {0}
    PROVE  /\ NextToken(t, i) \in 1 .. Len(t) + 1
           /\ i <= NextToken(t, i) \/ NextToken(t, i) = Len(t) + 1
           /\ NextToken(t, i) <= Len(t) => t[NextToken(t, i)] \notin Blanks
           /\ \A j \in i .. Len(t) : j < NextToken(t, i) => t[j] \in Blanks
  <1> DEFINE S == {j \in i .. Len(t) : t[j] \notin Blanks} \cup {Len(t) + 1}
  <1>1. Len(t) \in Nat
    BY LenProperties DEF Texts
  <1>2. S \subseteq Nat /\ S # {}
    BY <1>1
  <1>3. Min(S) \in S /\ \A j \in S : Min(S) <= j
    <2> HIDE DEF S
    <2>1. QED
      BY <1>2, MinimumExists
  <1>4. NextToken(t, i) = Min(S)
    BY DEF NextToken
  <1>5. ASSUME NEW j \in i .. Len(t), j < Min(S) PROVE t[j] \in Blanks
    <2>1. j \notin S
      <3> HIDE DEF S
      <3>1. j \in Nat
        BY <1>1
      <3>2. j \in S => Min(S) <= j
        BY <1>3
      <3>3. Min(S) \in Nat
        BY <1>2, <1>3, Zenon
      <3>4. QED
        BY <1>5, <3>1, <3>2, <3>3
    <2>2. QED
      BY <2>1
  <1>6. /\ Min(S) \in 1 .. Len(t) + 1
        /\ i <= Min(S) \/ Min(S) = Len(t) + 1
        /\ Min(S) <= Len(t) => t[Min(S)] \notin Blanks
    BY <1>1, <1>3
  <1> HIDE DEF S
  <1>7. QED
    BY <1>4, <1>5, <1>6

\* What stands at some index.
LEMMA TokenHere ==
    ASSUME NEW t \in Texts, NEW i \in 1 .. Len(t), t[i] \notin Blanks
    PROVE  NextToken(t, i) = i
  <1> DEFINE n == NextToken(t, i)
  <1>1. i \in Nat \ {0} /\ i \in i .. Len(t) /\ Len(t) \in Nat
    BY LenProperties DEF Texts
  <1>2. /\ n \in 1 .. Len(t) + 1 /\ (i <= n \/ n = Len(t) + 1)
        /\ \A j \in i .. Len(t) : j < n => t[j] \in Blanks
    BY <1>1, NextTokenIsFirst
  <1> HIDE DEF n
  <1>3. QED
    BY <1>1, <1>2 DEF n

\* A blank is skipped.
LEMMA TokenLater ==
    ASSUME NEW t \in Texts, NEW i \in 1 .. Len(t), t[i] \in Blanks
    PROVE  NextToken(t, i) = NextToken(t, i + 1)
  <1> DEFINE m == NextToken(t, i)
             n == NextToken(t, i + 1)
  <1>1. i \in Nat \ {0} /\ i + 1 \in Nat \ {0} /\ Len(t) \in Nat
    BY LenProperties DEF Texts
  <1>2. /\ m \in 1 .. Len(t) + 1 /\ (i <= m \/ m = Len(t) + 1)
        /\ m <= Len(t) => t[m] \notin Blanks
        /\ \A j \in i .. Len(t) : j < m => t[j] \in Blanks
    BY <1>1, NextTokenIsFirst
  <1>3. /\ n \in 1 .. Len(t) + 1 /\ (i + 1 <= n \/ n = Len(t) + 1)
        /\ n <= Len(t) => t[n] \notin Blanks
        /\ \A j \in i + 1 .. Len(t) : j < n => t[j] \in Blanks
    BY <1>1, NextTokenIsFirst
  <1> HIDE DEF m, n
  <1>4. m # i
    BY <1>1, <1>2
  <1>5. ~(m < n)
    BY <1>1, <1>2, <1>3, <1>4
  <1>6. ~(n < m)
    BY <1>1, <1>2, <1>3, <1>4
  <1>7. QED
    BY <1>1, <1>2, <1>3, <1>5, <1>6 DEF m, n

\* There is no token behind the text.
LEMMA NoToken ==
    ASSUME NEW t \in Texts
    PROVE  NextToken(t, Len(t) + 1) = Len(t) + 1
  <1>1. Len(t) \in Nat /\ Len(t) + 1 \in Nat \ {0}
    BY LenProperties DEF Texts
  <1>2. QED
    BY <1>1, NextTokenIsFirst
-----------------------------------------------------------------------------
(* The characters of strings.                                              *)

\* What a mark is made of.
LEMMA MarkParts ==
    /\ \A t \in Texts : \A i \in Nat \ {0} :
          Mark(t, i) \in Marks /\ Mark(t, i).text = t /\ Mark(t, i).from = i
    /\ \A at \in Marks :
          at.text \in Texts /\ at.from \in Nat \ {0} /\ at = Mark(at.text, at.from)
  BY DEF Marks, Mark, Texts

\* How many characters there are behind a mark.
Ahead(at) == IF at.from <= Len(at.text) THEN Len(at.text) + 1 - at.from ELSE 0

LEMMA AheadIsNatural == \A at \in Marks : Ahead(at) \in Nat
  BY MarkParts, LenProperties DEF Ahead, Texts

NearMarks(n) == {at \in Marks : Ahead(at) < n}

SameMarks(t, u, n) == \A at \in NearMarks(n) : t[at] = u[at]

\* What is read at a mark depends on what is read at later ones alone.
LEMMA QuotedIsLocal ==
    ASSUME NEW at \in Marks, NEW t, NEW u, SameMarks(t, u, Ahead(at))
    PROVE  QuotedAt(at, t) = QuotedAt(at, u)
  <1> DEFINE s == at.text
             i == at.from
  <1>1. s \in Texts /\ i \in Nat \ {0} /\ Len(s) \in Nat /\ DOMAIN s = 1 .. Len(s)
    BY MarkParts, LenProperties DEF Texts
  <1>2. ASSUME i \in DOMAIN s, NEW k \in {1, 2}
        PROVE  t[Mark(s, i + k)] = u[Mark(s, i + k)]
    <2>1. /\ i + k \in Nat \ {0} /\ i <= Len(s)
          /\ Ahead(at) = Len(s) + 1 - i
      BY <1>1, <1>2 DEF Ahead
    <2>2. /\ Mark(s, i + k) \in Marks
          /\ Mark(s, i + k).text = s /\ Mark(s, i + k).from = i + k
      BY <1>1, <2>1, MarkParts
    <2> HIDE DEF s, i
    <2>3. Ahead(Mark(s, i + k)) < Ahead(at)
      BY <1>1, <2>1, <2>2 DEF Ahead
    <2>4. QED
      BY <2>2, <2>3 DEF SameMarks, NearMarks
  <1>3. CASE i \notin DOMAIN s
    BY <1>3 DEF QuotedAt
  <1>4. CASE i \in DOMAIN s
    <2>1. t[Mark(s, i + 1)] = u[Mark(s, i + 1)] /\ t[Mark(s, i + 2)] = u[Mark(s, i + 2)]
      BY <1>2, <1>4
    <2>2. QED
      BY <2>1 DEF QuotedAt
  <1>5. QED
    BY <1>3, <1>4

AreQuoted(t, n) == \A at \in NearMarks(n) : t[at] = QuotedAt(at, t)

\* Tables of different lengths agree on what both cover.
LEMMA QuotedTablesAgree ==
    ASSUME NEW m \in Nat, NEW n \in Nat, m <= n,
           NEW t, AreQuoted(t, m), NEW u, AreQuoted(u, n)
    PROVE  SameMarks(t, u, m)
  <1> DEFINE T == {k \in Nat : k <= m => SameMarks(t, u, k)}
  <1>1. 0 \in T
    BY AheadIsNatural DEF SameMarks, NearMarks
  <1>2. ASSUME NEW k \in T PROVE k + 1 \in T
    <2>1. SUFFICES ASSUME k + 1 <= m, NEW at \in NearMarks(k + 1)
                   PROVE  t[at] = u[at]
      BY DEF SameMarks
    <2>2. at \in Marks /\ Ahead(at) \in Nat /\ Ahead(at) <= k
      BY AheadIsNatural DEF NearMarks
    <2>3. at \in NearMarks(m) /\ at \in NearMarks(n)
      BY <2>1, <2>2 DEF NearMarks
    <2>4. SameMarks(t, u, k)
      BY <2>1
    <2>5. SameMarks(t, u, Ahead(at))
      BY <2>2, <2>4, AheadIsNatural DEF SameMarks, NearMarks
    <2>6. QED
      BY <2>2, <2>3, <2>5, QuotedIsLocal DEF AreQuoted
  <1>3. T = Nat
    <2>1. T \subseteq Nat
      OBVIOUS
    <2> HIDE DEF T
    <2>2. QED
      BY <1>1, <1>2, <2>1, Induction
  <1>4. QED
    BY <1>3

\* There is a table of any length.
LEMMA QuotedTablesExist ==
    ASSUME NEW n \in Nat
    PROVE  \E t : AreQuoted(t, n)
  <1> DEFINE T == {k \in Nat : \E t : AreQuoted(t, k)}
  <1>1. 0 \in T
    BY AheadIsNatural DEF AreQuoted, NearMarks
  <1>2. ASSUME NEW k \in T PROVE k + 1 \in T
    <2>1. PICK t : AreQuoted(t, k)
      OBVIOUS
    <2> DEFINE u == [at \in Marks |-> QuotedAt(at, t)]
    <2>2. ASSUME NEW at \in NearMarks(k) PROVE u[at] = t[at]
      BY <2>1 DEF AreQuoted, NearMarks
    <2>3. ASSUME NEW at \in NearMarks(k + 1) PROVE u[at] = QuotedAt(at, u)
      <3>1. at \in Marks /\ Ahead(at) \in Nat /\ Ahead(at) <= k
        BY AheadIsNatural DEF NearMarks
      <3>2. u[at] = QuotedAt(at, t)
        BY <3>1
      <3> HIDE DEF u
      <3>3. SameMarks(u, t, Ahead(at))
        BY <2>2, <3>1, AheadIsNatural DEF SameMarks, NearMarks
      <3>4. QED
        BY <3>1, <3>2, <3>3, QuotedIsLocal
    <2> HIDE DEF u
    <2>4. AreQuoted(u, k + 1)
      BY <2>3 DEF AreQuoted
    <2>5. QED
      BY <2>4
  <1>3. T = Nat
    <2>1. T \subseteq Nat
      OBVIOUS
    <2> HIDE DEF T
    <2>2. QED
      BY <1>1, <1>2, <2>1, Induction
  <1>4. QED
    BY <1>3

\* The recursion ends with the text.
LEMMA QuotedEquation == \A at \in Marks : Quoted[at] = QuotedAt(at, Quoted)
  <1> DEFINE t(n) == CHOOSE t : AreQuoted(t, n)
             g == [at \in Marks |-> t(Ahead(at) + 1)[at]]
  <1>1. \A n \in Nat : AreQuoted(t(n), n)
    BY QuotedTablesExist
  <1> HIDE DEF t
  <1>2. ASSUME NEW at \in Marks PROVE g[at] = QuotedAt(at, g)
    <2> DEFINE n == Ahead(at)
               h == t(n + 1)
    <2>1. n \in Nat /\ n + 1 \in Nat
      BY AheadIsNatural
    <2>2. AreQuoted(h, n + 1)
      BY <1>1, <2>1
    <2>3. g[at] = h[at]
      OBVIOUS
    <2>4. h[at] = QuotedAt(at, h)
      <3>1. at \in NearMarks(n + 1)
        BY <2>1 DEF NearMarks
      <3> HIDE DEF h, n
      <3>2. QED
        BY <2>2, <3>1 DEF AreQuoted
    <2>5. ASSUME NEW b \in NearMarks(n) PROVE g[b] = h[b]
      <3> DEFINE m == Ahead(b)
                 i == t(m + 1)
      <3>1. b \in Marks /\ m \in Nat /\ m + 1 \in Nat /\ m + 1 <= n + 1
        BY <2>1, AheadIsNatural DEF NearMarks
      <3>2. g[b] = i[b]
        BY <3>1
      <3>3. AreQuoted(i, m + 1)
        BY <1>1, <3>1
      <3>4. b \in NearMarks(m + 1)
        BY <3>1 DEF NearMarks
      <3> HIDE DEF i, h, g, m, n
      <3>5. SameMarks(i, h, m + 1)
        BY <2>1, <2>2, <3>1, <3>3, QuotedTablesAgree
      <3>6. QED
        BY <3>2, <3>4, <3>5 DEF SameMarks
    <2> HIDE DEF g, h
    <2>6. SameMarks(g, h, Ahead(at))
      BY <2>5 DEF SameMarks
    <2>7. QED
      BY <2>3, <2>4, <2>6, QuotedIsLocal
  <1>3. g = [at \in Marks |-> g[at]]
    OBVIOUS
  <1> DEFINE Solves(f) == f = [at \in Marks |-> QuotedAt(at, f)]
  <1> HIDE DEF g
  <1>4. Solves(g)
    BY <1>2, <1>3
  <1>5. Quoted = CHOOSE f : Solves(f)
    BY DEF Quoted
  <1>6. Solves(Quoted)
    <2> HIDE DEF Solves
    <2>1. QED
      BY <1>4, <1>5
  <1>7. QED
    BY <1>6

-----------------------------------------------------------------------------
(* The containers.                                                         *)

Parts == {"value", "items", "more items", "members", "more members"}

\* Spot makes spots.
LEMMA NewSpot ==
    ASSUME NEW what \in Parts, NEW t \in Texts, NEW i \in Nat \ {0}, NEW d \in Nat,
           NEW l \in Nat \cup {nullopt}, NEW k \in SUBSET Texts
    PROVE  Spot(what, t, i, d, l, k) \in Spots
  BY DEF Spots, Spot, Texts, Parts

\* What a spot is made of.
LEMMA SpotParts ==
    ASSUME NEW at \in Spots
    PROVE  /\ at.what \in Parts
           /\ at.text \in Texts /\ at.from \in Nat \ {0} /\ at.depth \in Nat
           /\ at.limit \in Nat \cup {nullopt} /\ at.taken \in SUBSET Texts
           /\ Len(at.text) \in Nat /\ DOMAIN at.text = 1 .. Len(at.text)
  <1>1. /\ at.what \in Parts
        /\ at.text \in Texts /\ at.from \in Nat \ {0} /\ at.depth \in Nat
        /\ at.limit \in Nat \cup {nullopt} /\ at.taken \in SUBSET Texts
    BY DEF Spots, Texts, Parts
  <1>2. QED
    BY <1>1, LenProperties DEF Texts

\* How much there is to read from a spot: of the same characters more if
\* other than a value is read.
Extent(at) ==
    2 * (IF at.from <= Len(at.text) THEN Len(at.text) + 1 - at.from ELSE 0)
        + (IF at.what = "value" THEN 0 ELSE 1)

\* The extent of a spot is a natural number.
LEMMA ExtentIsNatural == \A at \in Spots : Extent(at) \in Nat
  BY SpotParts DEF Extent

NearSpots(n) == {at \in Spots : Extent(at) < n}

SameSpots(t, u, n) == \A at \in NearSpots(n) : t[at] = u[at]

\* Onward stays in the container.
LEMMA OnwardParts ==
    ASSUME NEW at, NEW what, NEW i, NEW k
    PROVE  /\ Onward(at, what, i, k).what = what
           /\ Onward(at, what, i, k).text = at.text
           /\ Onward(at, what, i, k).from = i
           /\ Onward(at, what, i, k).depth = at.depth
           /\ Onward(at, what, i, k).limit = at.limit
           /\ Onward(at, what, i, k).taken = k
  BY DEF Onward, Spot

LEMMA OnwardSpot ==
    ASSUME NEW at \in Spots, NEW what \in Parts, NEW i \in Nat \ {0}, NEW k \in SUBSET Texts
    PROVE  Onward(at, what, i, k) \in Spots
  <1>1. /\ at.text \in Texts /\ at.depth \in Nat /\ at.limit \in Nat \cup {nullopt}
    BY SpotParts
  <1>2. QED
    BY <1>1, NewSpot, Zenon DEF Onward

\* Inward is one container further down.
LEMMA InwardParts ==
    ASSUME NEW at, NEW what
    PROVE  /\ Inward(at, what).what = what
           /\ Inward(at, what).text = at.text
           /\ Inward(at, what).from = at.from + 1
           /\ Inward(at, what).depth = at.depth + 1
           /\ Inward(at, what).limit = at.limit
           /\ Inward(at, what).taken = {}
  BY DEF Inward, Spot

LEMMA InwardSpot ==
    ASSUME NEW at \in Spots, NEW what \in Parts
    PROVE  Inward(at, what) \in Spots
  <1>1. /\ at.text \in Texts /\ at.depth \in Nat /\ at.limit \in Nat \cup {nullopt}
        /\ at.from \in Nat \ {0}
    BY SpotParts
  <1>2. at.depth + 1 \in Nat /\ at.from + 1 \in Nat \ {0} /\ {} \in SUBSET Texts
    BY <1>1
  <1>3. QED
    BY <1>1, <1>2, NewSpot, Zenon DEF Inward

\* What is further on in the text is nearer to its end; so is a value at the
\* place of the part of a container that begins with it.
LEMMA NearerExtent ==
    ASSUME NEW at \in Spots, NEW b \in Spots, b.text = at.text,
           \/ at.from < b.from /\ at.from <= Len(at.text)
           \/ at.from < b.from /\ b.from = Len(at.text) + 1 /\ at.from <= Len(at.text) + 1
           \/ at.from <= b.from /\ b.what = "value" /\ at.what # "value"
    PROVE  Extent(b) < Extent(at)
  <1>1. /\ Len(at.text) \in Nat /\ at.from \in Nat \ {0} /\ b.from \in Nat \ {0}
    BY SpotParts
  <1> DEFINE l == Len(at.text)
             m == at.from
             n == b.from
             x == IF at.what = "value" THEN 0 ELSE 1
             y == IF b.what = "value" THEN 0 ELSE 1
             p == IF m <= l THEN l + 1 - m ELSE 0
             q == IF n <= l THEN l + 1 - n ELSE 0
  <1>2. x \in {0, 1} /\ y \in {0, 1} /\ l \in Nat /\ m \in Nat /\ n \in Nat
    BY <1>1
  <1>3. p \in Nat /\ q \in Nat
    BY <1>2
  <1>4. Extent(at) = 2 * p + x /\ Extent(b) = 2 * q + y
    BY DEF Extent
  <1>5. q < p \/ (q <= p /\ y < x)
    <2> HIDE DEF x, y, l, m, n
    <2>1. CASE m < n /\ m <= l
      BY <1>2, <2>1
    <2>2. CASE m <= n /\ y < x
      BY <1>2, <2>2
    <2>3. CASE m < n /\ n = l + 1
      BY <1>2, <2>3
    <2>4. QED
      BY <2>1, <2>2, <2>3 DEF x, y, l, m, n
  <1> HIDE DEF x, y, p, q
  <1>6. 2 * q + y < 2 * p + x
    BY <1>2, <1>3, <1>5
  <1>7. QED
    BY <1>4, <1>6

\* Tables that agree on what is nearer give the same.
LEMMA NearerSpot ==
    ASSUME NEW at \in Spots, NEW t, NEW u, SameSpots(t, u, Extent(at)), NEW b \in Spots,
           b.text = at.text,
           \/ at.from < b.from /\ at.from <= Len(at.text)
           \/ at.from <= b.from /\ b.what = "value" /\ at.what # "value"
    PROVE  t[b] = u[b]
  <1>1. Extent(b) < Extent(at)
    BY NearerExtent
  <1>2. b \in NearSpots(Extent(at))
    BY <1>1 DEF NearSpots
  <1>3. QED
    BY <1>2 DEF SameSpots

\* Tables that agree nearer to the end agree on what is further on.
LEMMA NearerPart ==
    ASSUME NEW at \in Spots, NEW t, NEW u, SameSpots(t, u, Extent(at)), NEW what \in Parts,
           NEW i \in Nat \ {0}, NEW k \in SUBSET Texts,
           at.from < i, at.from <= Len(at.text)
    PROVE  t[Onward(at, what, i, k)] = u[Onward(at, what, i, k)]
  <1> DEFINE b == Onward(at, what, i, k)
  <1>1. b.text = at.text /\ b.from = i
    BY OnwardParts
  <1>2. b \in Spots
    BY OnwardSpot, Zenon
  <1> HIDE DEF b
  <1>3. t[b] = u[b]
    BY <1>1, <1>2, NearerSpot
  <1>4. QED
    BY <1>3 DEF b

\* They agree on a value that the part of a container begins with, too.
LEMMA NearerValue ==
    ASSUME NEW at \in Spots, NEW t, NEW u, SameSpots(t, u, Extent(at)),
           NEW i \in Nat \ {0}, at.from <= i, at.what # "value"
    PROVE  t[Onward(at, "value", i, {})] = u[Onward(at, "value", i, {})]
  <1> DEFINE b == Onward(at, "value", i, {})
  <1>1. b.text = at.text /\ b.from = i /\ b.what = "value"
    BY OnwardParts
  <1>2. b \in Spots
    <2>1. "value" \in Parts /\ {} \in SUBSET Texts
      BY DEF Parts
    <2>2. QED
      BY <2>1, OnwardSpot, Zenon
  <1> HIDE DEF b
  <1>3. t[b] = u[b]
    BY <1>1, <1>2, NearerSpot
  <1>4. QED
    BY <1>3 DEF b

\* Each way of reading looks at spots nearer to the end alone: values,
LEMMA ValueIsLocal ==
    ASSUME NEW at \in Spots, NEW t, NEW u, SameSpots(t, u, Extent(at))
    PROVE  ValueAt(at, t) = ValueAt(at, u)
  <1>1. /\ at.text \in Texts /\ Len(at.text) \in Nat /\ at.from \in Nat \ {0}
        /\ at.depth \in Nat /\ at.limit \in Nat \cup {nullopt}
        /\ DOMAIN at.text = 1 .. Len(at.text)
    BY SpotParts
  <1>2. ASSUME at.from \in DOMAIN at.text, NEW what \in {"items", "members"}
        PROVE  t[Inward(at, what)] = u[Inward(at, what)]
    <2> DEFINE b == Inward(at, what)
    <2>1. what \in Parts
      BY DEF Parts
    <2>2. b \in Spots
      BY <2>1, InwardSpot, Zenon
    <2>3. b.text = at.text /\ b.from = at.from + 1
      BY InwardParts
    <2> HIDE DEF b
    <2>4. at.from < at.from + 1 /\ at.from <= Len(at.text)
      BY <1>1, <1>2
    <2>5. t[b] = u[b]
      BY <2>2, <2>3, <2>4, NearerSpot
    <2>6. QED
      BY <2>5 DEF b
  <1>3. CASE at.from \in DOMAIN at.text
    <2>1. /\ t[Inward(at, "items")] = u[Inward(at, "items")]
          /\ t[Inward(at, "members")] = u[Inward(at, "members")]
      BY <1>2, <1>3
    <2>2. QED
      BY <2>1 DEF ValueAt
  <1>4. CASE at.from \notin DOMAIN at.text
    BY <1>4 DEF ValueAt, IsAt
  <1>5. QED
    BY <1>3, <1>4

\* Where an element or a member ends there is less left of the text.
LEMMA AdvancesBeyond ==
    ASSUME NEW at \in Spots, NEW reading, NEW i \in Nat, at.from <= i,
           Advances(reading, at.text, i)
    PROVE  /\ reading.next \in Nat \ {0} /\ at.from < reading.next
           /\ at.from <= Len(at.text) /\ reading.next <= Len(at.text) + 1
  <1>1. Len(at.text) \in Nat /\ at.from \in Nat \ {0}
    BY SpotParts
  <1>2. QED
    BY <1>1 DEF Advances

\* an element and what is behind it,
LEMMA ItemIsLocal ==
    ASSUME NEW at \in Spots, NEW t, NEW u, SameSpots(t, u, Extent(at)),
           NEW i \in Nat, at.from <= i, NEW item
    PROVE  Item(at, i, item, t) = Item(at, i, item, u)
  <1>1. CASE ~Advances(item, at.text, i)
    BY <1>1 DEF Item
  <1>2. CASE Advances(item, at.text, i)
    <2>1. "more items" \in Parts /\ {} \in SUBSET Texts
      BY DEF Parts
    <2>2. /\ item.next \in Nat \ {0} /\ at.from < item.next /\ at.from <= Len(at.text)
      BY <1>2, AdvancesBeyond
    <2> DEFINE n == item.next
               what == "more items"
               k == {}
    <2>3. t[Onward(at, what, n, k)] = u[Onward(at, what, n, k)]
      <3> HIDE DEF n, what, k
      <3>1. what \in Parts /\ k \in SUBSET Texts
        BY <2>1 DEF what, k
      <3>2. n \in Nat \ {0} /\ at.from < n /\ at.from <= Len(at.text)
        BY <2>2 DEF n
      <3>3. QED
        BY <3>1, <3>2, NearerPart
    <2>4. QED
      BY <2>3 DEF Item
  <1>3. QED
    BY <1>1, <1>2

\* a member and what is behind it,
LEMMA MemberIsLocal ==
    ASSUME NEW at \in Spots, NEW t, NEW u, SameSpots(t, u, Extent(at)),
           NEW i \in Nat, at.from <= i, NEW key \in Texts, NEW value
    PROVE  Member(at, key, i, value, t) = Member(at, key, i, value, u)
  <1>1. CASE ~Advances(value, at.text, i)
    BY <1>1 DEF Member
  <1>2. CASE Advances(value, at.text, i)
    <2> DEFINE k == at.taken \cup {key}
    <2>1. "more members" \in Parts /\ k \in SUBSET Texts
      BY SpotParts DEF Parts
    <2>2. /\ value.next \in Nat \ {0} /\ at.from < value.next /\ at.from <= Len(at.text)
      BY <1>2, AdvancesBeyond
    <2> DEFINE n == value.next
               what == "more members"
    <2>3. t[Onward(at, what, n, k)] = u[Onward(at, what, n, k)]
      <3> HIDE DEF n, what, k
      <3>1. what \in Parts /\ k \in SUBSET Texts
        BY <2>1 DEF what, k
      <3>2. n \in Nat \ {0} /\ at.from < n /\ at.from <= Len(at.text)
        BY <2>2 DEF n
      <3>3. QED
        BY <3>1, <3>2, NearerPart
    <2>4. QED
      BY <2>3 DEF Member
  <1>3. QED
    BY <1>1, <1>2
-----------------------------------------------------------------------------
(* What is read of a string.                                               *)

\* An escape sequence stands for a character.
LEMMA EscapedIsString == \A ch : unescape(ch) # nullopt => unescape(ch) \in STRING
  <1> SUFFICES ASSUME NEW ch, unescape(ch) # nullopt PROVE unescape(ch) \in STRING
    OBVIOUS
  <1>1. ch \in DOMAIN EscChars /\ unescape(ch) = EscChars[ch]
    BY DEF unescape
  <1>2. ch \in {"\"", "\\", "n", "t"}
    BY <1>1 DEF EscChars
  <1>3. EscChars[ch] = CASE ch = "n" -> "\n" [] ch = "t" -> "\t" [] OTHER -> ch
    BY <1>2 DEF EscChars
  <1>4. CASE ch = "n"
    <2>1. EscChars[ch] = "\n"
      BY <1>3, <1>4, Zenon
    <2>2. QED
      BY <1>1, <2>1, FormatCharsAssumption DEF FormatChars, Newline
  <1>5. CASE ch = "t"
    <2>1. ch # "n"
      BY <1>5
    <2>2. EscChars[ch] = "\t"
      BY <1>3, <1>5, <2>1, Zenon
    <2>3. QED
      BY <1>1, <2>2, FormatCharsAssumption DEF FormatChars
  <1>6. CASE ch # "n" /\ ch # "t"
    <2>1. EscChars[ch] = ch
      BY <1>3, <1>6, Zenon
    <2>2. QED
      BY <1>1, <1>2, <2>1, FormatCharsAssumption
         DEF FormatChars, string_begin_end, begin_esc_seq
  <1>7. QED
    BY <1>4, <1>5, <1>6

\* A string that can be read ends behind its beginning.
IsRead(reading, at) ==
    Readable(reading) =>
        reading.value \in Texts /\ reading.next \in at.from + 1 .. Len(at.text) + 1

\* A character more makes a longer text.
LEMMA PrecededIsRead ==
    ASSUME NEW at \in Marks, at.from \in DOMAIN at.text, NEW first \in STRING, NEW reading,
           NEW k \in {1, 2}, at.from + k <= Len(at.text) + 1,
           IsRead(reading, Mark(at.text, at.from + k))
    PROVE  IsRead(Preceded(first, reading), at)
  <1> DEFINE n == reading.next
             v == reading.value
             i == at.from
             l == Len(at.text)
  <1>1. at.text \in Texts /\ i \in Nat \ {0} /\ l \in Nat
    BY MarkParts, LenProperties DEF Texts
  <1>2. Mark(at.text, i + k).text = at.text /\ Mark(at.text, i + k).from = i + k
    BY DEF Mark
  <1>3. CASE ~Readable(reading)
    BY <1>3 DEF Preceded, IsRead, Readable, Unreadable, Reading
  <1>4. CASE Readable(reading)
    <2>1. v \in Texts /\ n \in i + k + 1 .. l + 1
      BY <1>2, <1>4 DEF IsRead
    <2>2. Preceded(first, reading) = Reading(<<first>> \o v, n, reading.defects)
      BY <1>4 DEF Preceded, With
    <2>3. <<first>> \o v \in Texts
      BY <2>1 DEF Texts
    <2>4. n \in i + 1 .. l + 1
      <3> HIDE DEF n, i, l
      <3>1. QED
        BY <1>1, <2>1
    <2>5. QED
      BY <2>2, <2>3, <2>4 DEF IsRead, Reading
  <1>5. QED
    BY <1>3, <1>4

\* A string that can be read is a text, and ends within the text.
LEMMA QuotedIsRead == \A at \in Marks : IsRead(Quoted[at], at)
  <1> DEFINE T == {k \in Nat : \A at \in NearMarks(k) : IsRead(Quoted[at], at)}
  <1>1. 0 \in T
    BY AheadIsNatural DEF NearMarks
  <1>2. ASSUME NEW k \in T PROVE k + 1 \in T
    <2>1. SUFFICES ASSUME NEW at \in NearMarks(k + 1) PROVE IsRead(Quoted[at], at)
      OBVIOUS
    <2> DEFINE s == at.text
               i == at.from
    <2>2. at \in Marks /\ Ahead(at) \in Nat /\ Ahead(at) <= k
      BY AheadIsNatural DEF NearMarks
    <2>3. s \in Texts /\ i \in Nat \ {0} /\ Len(s) \in Nat /\ DOMAIN s = 1 .. Len(s)
      BY <2>2, MarkParts, LenProperties DEF Texts
    <2>4. ASSUME i \in DOMAIN s, NEW j \in {1, 2}
          PROVE  IsRead(Quoted[Mark(s, i + j)], Mark(s, i + j))
      <3>1. i + j \in Nat \ {0} /\ i <= Len(s) /\ Ahead(at) = Len(s) + 1 - i
        BY <2>3, <2>4 DEF Ahead
      <3>2. /\ Mark(s, i + j) \in Marks
            /\ Mark(s, i + j).text = s /\ Mark(s, i + j).from = i + j
        BY <2>3, <3>1, MarkParts
      <3> HIDE DEF s, i
      <3>3. Ahead(Mark(s, i + j)) < Ahead(at)
        BY <2>3, <3>1, <3>2 DEF Ahead
      <3>4. Ahead(Mark(s, i + j)) < k /\ Ahead(Mark(s, i + j)) \in Nat
        BY <2>2, <3>2, <3>3, AheadIsNatural
      <3>5. Mark(s, i + j) \in NearMarks(k)
        BY <3>2, <3>4 DEF NearMarks
      <3>6. QED
        BY <3>5
    <2>5. Quoted[at] = QuotedAt(at, Quoted)
      BY <2>2, QuotedEquation
    <2>6. CASE i \notin DOMAIN s
      BY <2>5, <2>6 DEF QuotedAt, IsRead, Readable, Unreadable, Reading
    <2>7. CASE i \in DOMAIN s /\ s[i] = string_begin_end
      <3>1. Quoted[at] = Reading(<<>>, i + 1, {})
        BY <2>5, <2>7 DEF QuotedAt
      <3>2. i + 1 \in i + 1 .. Len(s) + 1
        BY <2>3, <2>7
      <3>3. <<>> \in Texts
        BY DEF Texts
      <3>4. QED
        BY <3>1, <3>2, <3>3 DEF IsRead, Reading
    <2>8. CASE i \in DOMAIN s /\ s[i] # string_begin_end /\ s[i] = begin_esc_seq
      <3>1. CASE i + 1 \in DOMAIN s /\ unescape(s[i + 1]) # nullopt
        <4>1. Quoted[at] = Preceded(unescape(s[i + 1]), Quoted[Mark(s, i + 2)])
          BY <2>5, <2>8, <3>1 DEF QuotedAt
        <4>2. unescape(s[i + 1]) \in STRING
          BY <3>1, EscapedIsString
        <4>3. i + 2 <= Len(s) + 1
          BY <2>3, <3>1
        <4>4. IsRead(Quoted[Mark(s, i + 2)], Mark(s, i + 2))
          BY <2>4, <2>8
        <4> HIDE DEF T
        <4>5. QED
          BY <2>2, <2>8, <4>1, <4>2, <4>3, <4>4, PrecededIsRead
      <3>2. CASE ~(i + 1 \in DOMAIN s /\ unescape(s[i + 1]) # nullopt)
        BY <2>5, <2>8, <3>2 DEF QuotedAt, IsRead, Readable, Unreadable, Reading
      <3>3. QED
        BY <3>1, <3>2
    <2>9. CASE i \in DOMAIN s /\ s[i] # string_begin_end /\ s[i] # begin_esc_seq
      <3>1. CASE char_should_be_escaped(s[i])
        BY <2>5, <2>9, <3>1 DEF QuotedAt, IsRead, Readable, Unreadable, Reading
      <3>2. CASE ~char_should_be_escaped(s[i])
        <4>1. Quoted[at] = Preceded(s[i], Quoted[Mark(s, i + 1)])
          BY <2>5, <2>9, <3>2 DEF QuotedAt
        <4>2. s[i] \in STRING
          BY <2>3, <2>9, ElementOfSeq DEF Texts
        <4>3. i + 1 <= Len(s) + 1
          BY <2>3, <2>9
        <4>4. IsRead(Quoted[Mark(s, i + 1)], Mark(s, i + 1))
          BY <2>4, <2>9
        <4> HIDE DEF T
        <4>5. QED
          BY <2>2, <2>9, <4>1, <4>2, <4>3, <4>4, PrecededIsRead
      <3>3. QED
        BY <3>1, <3>2
    <2>10. QED
      BY <2>6, <2>7, <2>8, <2>9
  <1>3. T = Nat
    <2>1. T \subseteq Nat
      OBVIOUS
    <2> HIDE DEF T
    <2>2. QED
      BY <1>1, <1>2, <2>1, Induction
  <1>4. QED
    <2> SUFFICES ASSUME NEW at \in Marks PROVE IsRead(Quoted[at], at)
      OBVIOUS
    <2>1. Ahead(at) + 1 \in T /\ Ahead(at) < Ahead(at) + 1
      BY <1>3, AheadIsNatural
    <2>2. at \in NearMarks(Ahead(at) + 1)
      BY <2>1 DEF NearMarks
    <2>3. QED
      BY <2>1, <2>2
-----------------------------------------------------------------------------
(* The recursion over the parts of a text.                                 *)

\* Nothing begins at the end of the text.
LEMMA NothingBehindTheText ==
    ASSUME NEW t \in Texts, NEW reading
    PROVE  ~Advances(reading, t, Len(t) + 1)
  <1>1. Len(t) \in Nat
    BY LenProperties DEF Texts
  <1>2. QED
    BY <1>1 DEF Advances

\* The next token is further on, or there is none.
LEMMA StartOfNext ==
    ASSUME NEW at \in Spots, NEW i \in Nat \ {0}, at.from <= i
    PROVE  /\ NextToken(at.text, i) \in Nat \ {0}
           /\ at.from <= NextToken(at.text, i) \/ NextToken(at.text, i) = Len(at.text) + 1
  <1> DEFINE n == NextToken(at.text, i)
  <1>1. Len(at.text) \in Nat /\ at.from \in Nat \ {0}
    BY SpotParts
  <1>2. n \in 1 .. Len(at.text) + 1 /\ (i <= n \/ n = Len(at.text) + 1)
    BY SpotParts, NextTokenIsFirst
  <1> HIDE DEF n
  <1>3. n \in Nat \ {0} /\ (at.from <= n \/ n = Len(at.text) + 1)
    BY <1>1, <1>2
  <1>4. QED
    BY <1>3 DEF n

\* what is left of an array before an element,
LEMMA ItemsAreLocal ==
    ASSUME NEW at \in Spots, NEW t, NEW u, SameSpots(t, u, Extent(at)), at.what # "value"
    PROVE  ItemsAt(at, t) = ItemsAt(at, u)
  <1> DEFINE n == NextToken(at.text, at.from)
             b == Onward(at, "value", n, {})
  <1>1. at.from \in Nat \ {0} /\ at.from <= at.from /\ at.text \in Texts
    BY SpotParts
  <1>2. n \in Nat \ {0} /\ (at.from <= n \/ n = Len(at.text) + 1)
    BY <1>1, StartOfNext
  <1>3. Item(at, n, t[b], t) = Item(at, n, u[b], u)
    <2>1. CASE at.from <= n
      <3> HIDE DEF n
      <3>1. t[b] = u[b]
        BY <1>2, <2>1, NearerValue
      <3> HIDE DEF b
      <3>2. Item(at, n, t[b], t) = Item(at, n, t[b], u)
        BY <1>2, <2>1, ItemIsLocal
      <3>3. QED
        BY <3>1, <3>2
    <2>2. CASE n = Len(at.text) + 1
      BY <1>1, <2>2, NothingBehindTheText DEF Item
    <2>3. QED
      BY <1>2, <2>1, <2>2
  <1>4. QED
    BY <1>3 DEF ItemsAt

\* and behind one,
LEMMA MoreItemsAreLocal ==
    ASSUME NEW at \in Spots, NEW t, NEW u, SameSpots(t, u, Extent(at))
    PROVE  MoreItemsAt(at, t) = MoreItemsAt(at, u)
  <1> DEFINE n == NextToken(at.text, at.from)
             what == "items"
             k == {}
             i == n + 1
  <1>1. /\ at.from \in Nat \ {0} /\ at.from <= at.from /\ at.text \in Texts
        /\ Len(at.text) \in Nat /\ DOMAIN at.text = 1 .. Len(at.text)
    BY SpotParts
  <1>2. n \in Nat \ {0} /\ (at.from <= n \/ n = Len(at.text) + 1)
    BY <1>1, StartOfNext
  <1>3. ASSUME IsAt(at.text, n, value_separator)
        PROVE  t[Onward(at, what, i, k)] = u[Onward(at, what, i, k)]
    <2>1. n \in 1 .. Len(at.text)
      BY <1>1, <1>3 DEF IsAt
    <2>2. what \in Parts /\ k \in SUBSET Texts
      BY DEF Parts
    <2> HIDE DEF n, what, k
    <2>3. i \in Nat \ {0} /\ at.from < i /\ at.from <= Len(at.text)
      BY <1>1, <1>2, <2>1
    <2> HIDE DEF i
    <2>4. QED
      BY <2>2, <2>3, NearerPart
  <1>4. QED
    BY <1>3 DEF MoreItemsAt

\* what is left of an object behind a member,
LEMMA MoreMembersAreLocal ==
    ASSUME NEW at \in Spots, NEW t, NEW u, SameSpots(t, u, Extent(at))
    PROVE  MoreMembersAt(at, t) = MoreMembersAt(at, u)
  <1> DEFINE n == NextToken(at.text, at.from)
             what == "members"
             k == at.taken
             i == n + 1
  <1>1. /\ at.from \in Nat \ {0} /\ at.from <= at.from /\ at.text \in Texts
        /\ Len(at.text) \in Nat /\ DOMAIN at.text = 1 .. Len(at.text)
    BY SpotParts
  <1>2. n \in Nat \ {0} /\ (at.from <= n \/ n = Len(at.text) + 1)
    BY <1>1, StartOfNext
  <1>3. ASSUME IsAt(at.text, n, value_separator)
        PROVE  t[Onward(at, what, i, k)] = u[Onward(at, what, i, k)]
    <2>1. n \in 1 .. Len(at.text)
      BY <1>1, <1>3 DEF IsAt
    <2>2. what \in Parts /\ k \in SUBSET Texts
      BY SpotParts DEF Parts
    <2> HIDE DEF n, what, k
    <2>3. i \in Nat \ {0} /\ at.from < i /\ at.from <= Len(at.text)
      BY <1>1, <1>2, <2>1
    <2> HIDE DEF i
    <2>4. QED
      BY <2>2, <2>3, NearerPart
  <1>4. QED
    BY <1>3 DEF MoreMembersAt

\* behind a colon,
LEMMA ValuedIsLocal ==
    ASSUME NEW at \in Spots, NEW t, NEW u, SameSpots(t, u, Extent(at)), at.what # "value",
           NEW key \in Texts, NEW i \in Nat \ {0}, at.from <= i
    PROVE  Valued(at, key, i, t) = Valued(at, key, i, u)
  <1> DEFINE n == NextToken(at.text, i)
             b == Onward(at, "value", n, {})
  <1>1. at.text \in Texts
    BY SpotParts
  <1>2. n \in Nat \ {0} /\ (at.from <= n \/ n = Len(at.text) + 1)
    BY StartOfNext
  <1>3. Member(at, key, n, t[b], t) = Member(at, key, n, u[b], u)
    <2>1. CASE at.from <= n
      <3> HIDE DEF n
      <3>1. t[b] = u[b]
        BY <1>2, <2>1, NearerValue
      <3> HIDE DEF b
      <3>2. Member(at, key, n, t[b], t) = Member(at, key, n, t[b], u)
        BY <1>2, <2>1, MemberIsLocal
      <3>3. QED
        BY <3>1, <3>2
    <2>2. CASE n = Len(at.text) + 1
      BY <1>1, <2>2, NothingBehindTheText DEF Member
    <2>3. QED
      BY <1>2, <2>1, <2>2
  <1>4. QED
    BY <1>3 DEF Valued

\* behind a key,
LEMMA NamedIsLocal ==
    ASSUME NEW at \in Spots, NEW t, NEW u, SameSpots(t, u, Extent(at)), at.what # "value",
           NEW key \in Texts, NEW i \in Nat \ {0}, at.from <= i
    PROVE  Named(at, key, i, t) = Named(at, key, i, u)
  <1> DEFINE n == NextToken(at.text, i)
             j == n + 1
  <1>1. at.from \in Nat /\ Len(at.text) \in Nat /\ DOMAIN at.text = 1 .. Len(at.text)
    BY SpotParts
  <1>2. n \in Nat \ {0} /\ (at.from <= n \/ n = Len(at.text) + 1)
    BY StartOfNext
  <1>3. ASSUME IsAt(at.text, n, name_separator)
        PROVE  Valued(at, key, j, t) = Valued(at, key, j, u)
    <2>1. n \in 1 .. Len(at.text)
      BY <1>1, <1>3 DEF IsAt
    <2> HIDE DEF n
    <2>2. j \in Nat \ {0} /\ at.from <= j
      BY <1>1, <1>2, <2>1
    <2> HIDE DEF j
    <2>3. QED
      BY <2>2, ValuedIsLocal
  <1>4. QED
    BY <1>3 DEF Named

\* and before a member.
LEMMA MembersAreLocal ==
    ASSUME NEW at \in Spots, NEW t, NEW u, SameSpots(t, u, Extent(at)), at.what # "value"
    PROVE  MembersAt(at, t) = MembersAt(at, u)
  <1> DEFINE n == NextToken(at.text, at.from)
             m == Mark(at.text, n + 1)
             key == Quoted[m]
             k == key.value
             i == key.next
  <1>1. /\ at.from \in Nat \ {0} /\ at.from <= at.from /\ at.text \in Texts
        /\ Len(at.text) \in Nat /\ DOMAIN at.text = 1 .. Len(at.text)
    BY SpotParts
  <1>2. n \in Nat \ {0} /\ (at.from <= n \/ n = Len(at.text) + 1)
    BY <1>1, StartOfNext
  <1>3. ASSUME IsAt(at.text, n, string_begin_end), Readable(key)
        PROVE  Named(at, k, i, t) = Named(at, k, i, u)
    <2>1. n \in 1 .. Len(at.text)
      BY <1>1, <1>3 DEF IsAt
    <2>2. m \in Marks /\ m.text = at.text /\ m.from = n + 1
      <3> HIDE DEF n
      <3>1. n + 1 \in Nat \ {0}
        BY <1>2
      <3>2. QED
        BY <1>1, <3>1, MarkParts
    <2> HIDE DEF n, m
    <2>3. IsRead(key, m)
      BY <2>2, QuotedIsRead
    <2>4. k \in Texts /\ i \in n + 1 + 1 .. Len(at.text) + 1
      BY <1>3, <2>2, <2>3 DEF IsRead
    <2> HIDE DEF k, i, key
    <2>5. i \in Nat \ {0} /\ at.from <= i
      BY <1>1, <1>2, <2>1, <2>4
    <2>6. QED
      BY <2>4, <2>5, NamedIsLocal
  <1>4. QED
    BY <1>3 DEF MembersAt

\* Whatever is read at a spot depends on what is read nearer to the end.
LEMMA ReadIsLocal ==
    ASSUME NEW at \in Spots, NEW t, NEW u, SameSpots(t, u, Extent(at))
    PROVE  ReadAt(at, t) = ReadAt(at, u)
  <1>1. at.what \in Parts
    BY SpotParts
  <1>2. CASE at.what = "value"
    <2>1. ValueAt(at, t) = ValueAt(at, u)
      BY ValueIsLocal
    <2>2. \A v : ReadAt(at, v) = ValueAt(at, v)
      BY <1>2, Zenon DEF ReadAt
    <2>3. QED
      BY <2>1, <2>2
  <1>3. CASE at.what = "items"
    <2>1. ItemsAt(at, t) = ItemsAt(at, u)
      BY <1>3, ItemsAreLocal
    <2>2. \A v : ReadAt(at, v) = ItemsAt(at, v)
      BY <1>3, Zenon DEF ReadAt
    <2>3. QED
      BY <2>1, <2>2
  <1>4. CASE at.what = "more items"
    <2>1. MoreItemsAt(at, t) = MoreItemsAt(at, u)
      BY MoreItemsAreLocal
    <2>2. \A v : ReadAt(at, v) = MoreItemsAt(at, v)
      BY <1>4, Zenon DEF ReadAt
    <2>3. QED
      BY <2>1, <2>2
  <1>5. CASE at.what = "members"
    <2>1. MembersAt(at, t) = MembersAt(at, u)
      BY <1>5, MembersAreLocal
    <2>2. \A v : ReadAt(at, v) = MembersAt(at, v)
      BY <1>5, Zenon DEF ReadAt
    <2>3. QED
      BY <2>1, <2>2
  <1>6. CASE at.what = "more members"
    <2>1. MoreMembersAt(at, t) = MoreMembersAt(at, u)
      BY MoreMembersAreLocal
    <2>2. \A v : ReadAt(at, v) = MoreMembersAt(at, v)
      BY <1>6, Zenon DEF ReadAt
    <2>3. QED
      BY <2>1, <2>2
  <1>7. QED
    BY <1>1, <1>2, <1>3, <1>4, <1>5, <1>6 DEF Parts

AreRead(t, n) == \A at \in NearSpots(n) : t[at] = ReadAt(at, t)

\* Tables of different lengths agree on what both cover.
LEMMA ReadTablesAgree ==
    ASSUME NEW m \in Nat, NEW n \in Nat, m <= n,
           NEW t, AreRead(t, m), NEW u, AreRead(u, n)
    PROVE  SameSpots(t, u, m)
  <1> DEFINE T == {k \in Nat : k <= m => SameSpots(t, u, k)}
  <1>1. 0 \in T
    BY ExtentIsNatural DEF SameSpots, NearSpots
  <1>2. ASSUME NEW k \in T PROVE k + 1 \in T
    <2>1. SUFFICES ASSUME k + 1 <= m, NEW at \in NearSpots(k + 1)
                   PROVE  t[at] = u[at]
      BY DEF SameSpots
    <2>2. at \in Spots /\ Extent(at) \in Nat /\ Extent(at) <= k
      BY ExtentIsNatural DEF NearSpots
    <2>3. at \in NearSpots(m) /\ at \in NearSpots(n)
      BY <2>1, <2>2 DEF NearSpots
    <2>4. SameSpots(t, u, k)
      BY <2>1
    <2>5. SameSpots(t, u, Extent(at))
      BY <2>2, <2>4, ExtentIsNatural DEF SameSpots, NearSpots
    <2>6. QED
      BY <2>2, <2>3, <2>5, ReadIsLocal DEF AreRead
  <1>3. T = Nat
    <2>1. T \subseteq Nat
      OBVIOUS
    <2> HIDE DEF T
    <2>2. QED
      BY <1>1, <1>2, <2>1, Induction
  <1>4. QED
    BY <1>3

\* There is a table of any length.
LEMMA ReadTablesExist ==
    ASSUME NEW n \in Nat
    PROVE  \E t : AreRead(t, n)
  <1> DEFINE T == {k \in Nat : \E t : AreRead(t, k)}
  <1>1. 0 \in T
    BY ExtentIsNatural DEF AreRead, NearSpots
  <1>2. ASSUME NEW k \in T PROVE k + 1 \in T
    <2>1. PICK t : AreRead(t, k)
      OBVIOUS
    <2> DEFINE u == [at \in Spots |-> ReadAt(at, t)]
    <2>2. ASSUME NEW at \in NearSpots(k) PROVE u[at] = t[at]
      BY <2>1 DEF AreRead, NearSpots
    <2>3. ASSUME NEW at \in NearSpots(k + 1) PROVE u[at] = ReadAt(at, u)
      <3>1. at \in Spots /\ Extent(at) \in Nat /\ Extent(at) <= k
        BY ExtentIsNatural DEF NearSpots
      <3>2. u[at] = ReadAt(at, t)
        BY <3>1
      <3> HIDE DEF u
      <3>3. SameSpots(u, t, Extent(at))
        BY <2>2, <3>1, ExtentIsNatural DEF SameSpots, NearSpots
      <3>4. QED
        BY <3>1, <3>2, <3>3, ReadIsLocal
    <2> HIDE DEF u
    <2>4. AreRead(u, k + 1)
      BY <2>3 DEF AreRead
    <2>5. QED
      BY <2>4
  <1>3. T = Nat
    <2>1. T \subseteq Nat
      OBVIOUS
    <2> HIDE DEF T
    <2>2. QED
      BY <1>1, <1>2, <2>1, Induction
  <1>4. QED
    BY <1>3

\* The recursion ends with the text.
LEMMA ReadEquation == \A at \in Spots : ReadFrom[at] = ReadAt(at, ReadFrom)
  <1> DEFINE t(n) == CHOOSE t : AreRead(t, n)
             g == [at \in Spots |-> t(Extent(at) + 1)[at]]
  <1>1. \A n \in Nat : AreRead(t(n), n)
    BY ReadTablesExist
  <1> HIDE DEF t
  <1>2. ASSUME NEW at \in Spots PROVE g[at] = ReadAt(at, g)
    <2> DEFINE n == Extent(at)
               h == t(n + 1)
    <2>1. n \in Nat /\ n + 1 \in Nat
      BY ExtentIsNatural
    <2>2. AreRead(h, n + 1)
      BY <1>1, <2>1
    <2>3. g[at] = h[at]
      OBVIOUS
    <2>4. h[at] = ReadAt(at, h)
      <3>1. at \in NearSpots(n + 1)
        BY <2>1 DEF NearSpots
      <3> HIDE DEF h, n
      <3>2. QED
        BY <2>2, <3>1 DEF AreRead
    <2>5. ASSUME NEW b \in NearSpots(n) PROVE g[b] = h[b]
      <3> DEFINE m == Extent(b)
                 i == t(m + 1)
      <3>1. b \in Spots /\ m \in Nat /\ m + 1 \in Nat /\ m + 1 <= n + 1
        BY <2>1, ExtentIsNatural DEF NearSpots
      <3>2. g[b] = i[b]
        BY <3>1
      <3>3. AreRead(i, m + 1)
        BY <1>1, <3>1
      <3>4. b \in NearSpots(m + 1)
        BY <3>1 DEF NearSpots
      <3> HIDE DEF i, h, g, m, n
      <3>5. SameSpots(i, h, m + 1)
        BY <2>1, <2>2, <3>1, <3>3, ReadTablesAgree
      <3>6. QED
        BY <3>2, <3>4, <3>5 DEF SameSpots
    <2> HIDE DEF g, h
    <2>6. SameSpots(g, h, Extent(at))
      BY <2>5 DEF SameSpots
    <2>7. QED
      BY <2>3, <2>4, <2>6, ReadIsLocal
  <1>3. g = [at \in Spots |-> g[at]]
    OBVIOUS
  <1> DEFINE Solves(f) == f = [at \in Spots |-> ReadAt(at, f)]
  <1> HIDE DEF g
  <1>4. Solves(g)
    BY <1>2, <1>3
  <1>5. ReadFrom = CHOOSE f : Solves(f)
    BY DEF ReadFrom
  <1>6. Solves(ReadFrom)
    <2> HIDE DEF Solves
    <2>1. QED
      BY <1>4, <1>5
  <1>7. QED
    BY <1>6

-----------------------------------------------------------------------------
(* Readings that differ in the defects alone.                              *)

Same(r, s) == r.next = s.next /\ (Readable(r) => r.value = s.value)

\* Same is an equivalence, and all that cannot be read is the same.
LEMMA SameSelf == \A r : Same(r, r)
  BY DEF Same

LEMMA SameTwice ==
    ASSUME NEW r, NEW s, NEW q, Same(r, s), Same(s, q)
    PROVE  Same(r, q)
  BY DEF Same, Readable

LEMMA SameBack ==
    ASSUME NEW r, NEW s, Same(r, s)
    PROVE  Same(s, r)
  BY DEF Same, Readable

LEMMA SameUnreadable ==
    ASSUME NEW r, NEW s, ~Readable(r), ~Readable(s)
    PROVE  Same(r, s)
  BY DEF Same, Readable

\* Members, and those of a second function that are not among them.
Joined(members, more) ==
    IF DOMAIN members = {} THEN more
    ELSE [key \in DOMAIN members \cup DOMAIN more |->
             IF key \in DOMAIN members THEN members[key] ELSE more[key]]

\* The innermost container with what is still to be read of it.
Closed(container, rest) ==
    IF container.type = "array"
    THEN With(Array(container.items \o rest.value), rest)
    ELSE With(Object(Joined(container.members, rest.value)), rest)

\* A container is the same with the same rest.
LEMMA SameClosed ==
    ASSUME NEW container, NEW r, NEW s, Same(r, s)
    PROVE  Same(Closed(container, r), Closed(container, s))
  BY DEF Same, Closed, With, Reading, Readable

\* A container ends where its rest does.
LEMMA UnreadableClosed ==
    ASSUME NEW container, NEW r
    PROVE  Closed(container, r).next = r.next
  BY DEF Closed, With, Reading

-----------------------------------------------------------------------------
(* The places in a container.                                              *)

Taken(container) == IF container.type = "array" THEN {} ELSE DOMAIN container.members

IsContainer(c) ==
    \/ c.type = "array" /\ c = Array(c.items) /\ IsSequence(c.items)
    \/ /\ c.type = "object" /\ c = Object(c.members)
       /\ c.members = [key \in DOMAIN c.members |-> c.members[key]]
       /\ DOMAIN c.members \subseteq Texts

\* A place in the innermost container, and the same container further on.
IsWithin(at, container) ==
    /\ at \in Spots
    /\ at.what = IF container.type = "array" THEN "items" ELSE "members"
    /\ at.taken = Taken(container)

Further(at, i) == Onward(at, at.what, i, at.taken)

\* Two steps onward are one.
LEMMA OnwardAgain ==
    ASSUME NEW at, NEW w, NEW i, NEW k, NEW w2, NEW i2, NEW k2
    PROVE  Onward(Onward(at, w, i, k), w2, i2, k2) = Onward(at, w2, i2, k2)
  BY DEF Onward, Spot

\* Further stays in the container.
LEMMA FurtherWithin ==
    ASSUME NEW at, NEW container, IsWithin(at, container), NEW i \in Nat \ {0}
    PROVE  /\ IsWithin(Further(at, i), container)
           /\ Further(at, i).text = at.text /\ Further(at, i).from = i
           /\ Further(at, i).depth = at.depth /\ Further(at, i).limit = at.limit
  <1>1. at \in Spots /\ at.what \in Parts /\ at.taken \in SUBSET Texts
    BY SpotParts DEF IsWithin
  <1>2. Further(at, i) \in Spots
    BY <1>1, OnwardSpot, Zenon DEF Further
  <1>3. /\ Further(at, i).text = at.text /\ Further(at, i).from = i
        /\ Further(at, i).what = at.what /\ Further(at, i).taken = at.taken
        /\ Further(at, i).depth = at.depth /\ Further(at, i).limit = at.limit
    BY OnwardParts DEF Further
  <1>4. QED
    BY <1>2, <1>3 DEF IsWithin

\* What follows an entry does not depend on where the place was.
LEMMA EntryAnywhere ==
    ASSUME NEW at, NEW w, NEW j, NEW i, NEW r, NEW key, NEW t
    PROVE  /\ Item(Onward(at, w, j, at.taken), i, r, t) = Item(at, i, r, t)
           /\ Member(Onward(at, w, j, at.taken), key, i, r, t) = Member(at, key, i, r, t)
  <1> DEFINE b == Onward(at, w, j, at.taken)
  <1>1. b.text = at.text /\ b.taken = at.taken
    BY OnwardParts
  <1>2. \A w2, i2, k2 : Onward(b, w2, i2, k2) = Onward(at, w2, i2, k2)
    BY OnwardAgain
  <1> HIDE DEF b
  <1>3. Onward(b, "more items", r.next, {}) = Onward(at, "more items", r.next, {})
    BY <1>2
  <1>4. Item(b, i, r, t) = Item(at, i, r, t)
    BY <1>1, <1>3 DEF Item
  <1>5. Onward(b, "more members", r.next, at.taken \cup {key})
            = Onward(at, "more members", r.next, at.taken \cup {key})
    BY <1>2
  <1>6. Member(b, key, i, r, t) = Member(at, key, i, r, t)
    BY <1>1, <1>5 DEF Member
  <1>7. QED
    BY <1>4, <1>6 DEF b

\* What is behind a key does not depend on the spot, but on its container.
LEMMA NamedAnywhere ==
    ASSUME NEW at, NEW w, NEW j, NEW i, NEW key, NEW t
    PROVE  /\ Valued(Onward(at, w, j, at.taken), key, i, t) = Valued(at, key, i, t)
           /\ Named(Onward(at, w, j, at.taken), key, i, t) = Named(at, key, i, t)
  <1>1. Valued(Onward(at, w, j, at.taken), key, i, t) = Valued(at, key, i, t)
    BY OnwardAgain, OnwardParts, EntryAnywhere DEF Valued
  <1>2. \A k : Valued(Onward(at, w, j, at.taken), key, k, t) = Valued(at, key, k, t)
    BY OnwardAgain, OnwardParts, EntryAnywhere DEF Valued
  <1>3. QED
    BY <1>1, <1>2, OnwardParts DEF Named

\* The recursion, part by part.
LEMMA ReadParts ==
    ASSUME NEW at \in Spots
    PROVE  /\ at.what = "value" => ReadFrom[at] = ValueAt(at, ReadFrom)
           /\ at.what = "items" => ReadFrom[at] = ItemsAt(at, ReadFrom)
           /\ at.what = "more items" => ReadFrom[at] = MoreItemsAt(at, ReadFrom)
           /\ at.what = "members" => ReadFrom[at] = MembersAt(at, ReadFrom)
           /\ at.what = "more members" => ReadFrom[at] = MoreMembersAt(at, ReadFrom)
  <1>1. ReadFrom[at] = ReadAt(at, ReadFrom)
    BY ReadEquation
  <1>2. /\ at.what = "value" => ReadAt(at, ReadFrom) = ValueAt(at, ReadFrom)
        /\ at.what = "items" => ReadAt(at, ReadFrom) = ItemsAt(at, ReadFrom)
        /\ at.what = "more items" => ReadAt(at, ReadFrom) = MoreItemsAt(at, ReadFrom)
        /\ at.what = "members" => ReadAt(at, ReadFrom) = MembersAt(at, ReadFrom)
        /\ at.what = "more members" => ReadAt(at, ReadFrom) = MoreMembersAt(at, ReadFrom)
    BY Zenon DEF ReadAt
  <1>3. QED
    BY <1>1, <1>2
-----------------------------------------------------------------------------
(* What is read of the elements of an array is a sequence.                 *)

IsList(reading) == Readable(reading) => IsSequence(reading.value)

ListAt(at) == at.what \in {"items", "more items"} => IsList(ReadFrom[at])

\* The values of readings of an array are sequences: of those without
\* elements,
LEMMA UnreadableList == IsList(Unreadable) /\ \A next, defects : IsList(Reading(<<>>, next, defects))
  BY ShortTexts DEF IsList, Unreadable, Readable, Reading

\* of those with an element,
LEMMA ItemIsList ==
    ASSUME NEW at \in Spots, NEW i \in Nat, at.from <= i \/ i = Len(at.text) + 1, NEW item, NEW t,
           \A b \in NearSpots(Extent(at)) : b.what = "more items" => IsList(t[b])
    PROVE  IsList(Item(at, i, item, t))
  <1> DEFINE n == item.next
             b == Onward(at, "more items", n, {})
  <1>1. CASE ~Advances(item, at.text, i) \/ ~Readable(t[b])
    BY <1>1, UnreadableList DEF Item
  <1>2. CASE Advances(item, at.text, i) /\ Readable(t[b])
    <2>1. at.text \in Texts
      BY SpotParts
    <2>2. i # Len(at.text) + 1
      BY <1>2, <2>1, NothingBehindTheText
    <2>3. n \in Nat \ {0} /\ at.from < n /\ at.from <= Len(at.text)
      BY <1>2, <2>2, AdvancesBeyond
    <2>4. b.text = at.text /\ b.from = n /\ b.what = "more items"
      BY DEF Onward, Spot
    <2>5. b \in Spots
      <3>1. "more items" \in Parts /\ {} \in SUBSET Texts
        BY DEF Parts
      <3> HIDE DEF n
      <3>2. QED
        BY <2>3, <3>1, OnwardSpot, Zenon
    <2>6. b \in NearSpots(Extent(at))
      <3> HIDE DEF b, n
      <3>1. Extent(b) < Extent(at)
        BY <2>3, <2>4, <2>5, NearerExtent
      <3>2. QED
        BY <2>5, <3>1 DEF NearSpots
    <2>7. IsSequence(t[b].value)
      BY <1>2, <2>4, <2>6 DEF IsList
    <2>8. IsSequence(<<item.value>> \o t[b].value)
      <3> HIDE DEF b, n
      <3>1. IsSequence(<<item.value>>)
        BY ShortTexts
      <3>2. QED
        BY <2>7, <3>1, Concatenation
    <2>9. Item(at, i, item, t) =
              Reading(<<item.value>> \o t[b].value, t[b].next, item.defects \cup t[b].defects)
      BY <1>2 DEF Item
    <2> DEFINE list == <<item.value>> \o t[b].value
               more == item.defects \cup t[b].defects
    <2>10. IsList(Reading(list, t[b].next, more))
      <3> HIDE DEF list, more, b
      <3>1. Reading(list, t[b].next, more).value = list
        BY DEF Reading
      <3>2. IsSequence(list)
        BY <2>8 DEF list, b
      <3>3. QED
        BY <3>1, <3>2 DEF IsList
    <2> HIDE DEF list, more
    <2>11. QED
      BY <2>9, <2>10 DEF list, more
  <1>3. QED
    BY <1>1, <1>2

\* and of all.
LEMMA ItemsAreLists ==
    \A at \in Spots : ListAt(at)
  <1> DEFINE T == {k \in Nat : \A at \in NearSpots(k) : ListAt(at)}
  <1>1. 0 \in T
    BY ExtentIsNatural DEF NearSpots
  <1>2. ASSUME NEW k \in T PROVE k + 1 \in T
    <2> SUFFICES ASSUME NEW at \in NearSpots(k + 1) PROVE ListAt(at)
      OBVIOUS
    <2>1. SUFFICES ASSUME at.what \in {"items", "more items"} PROVE IsList(ReadFrom[at])
      BY DEF ListAt
    <2>2. at \in Spots /\ Extent(at) \in Nat /\ Extent(at) <= k
      BY ExtentIsNatural DEF NearSpots
    <2>3. \A b \in NearSpots(Extent(at)) : ListAt(b)
      <3>1. NearSpots(Extent(at)) \subseteq NearSpots(k)
        BY <2>2, ExtentIsNatural DEF NearSpots
      <3>2. \A b \in NearSpots(k) : ListAt(b)
        OBVIOUS
      <3>3. QED
        BY <3>1, <3>2
    <2> DEFINE n == NextToken(at.text, at.from)
    <2>4. at.from \in Nat \ {0} /\ at.from <= at.from /\ at.text \in Texts
      BY <2>2, SpotParts
    <2>5. n \in Nat \ {0} /\ (at.from <= n \/ n = Len(at.text) + 1)
      BY <2>2, <2>4, StartOfNext
    <2>6. CASE at.what = "items"
      <3>1. ReadFrom[at] = ItemsAt(at, ReadFrom)
        BY <2>2, <2>6, ReadParts
      <3>2. CASE IsAt(at.text, n, end_array)
        BY <3>1, <3>2, UnreadableList DEF ItemsAt
      <3>3. CASE ~IsAt(at.text, n, end_array)
        <4> DEFINE item == ReadFrom[Onward(at, "value", n, {})]
        <4>1. ReadFrom[at] = Item(at, n, item, ReadFrom)
          BY <3>1, <3>3 DEF ItemsAt
        <4> HIDE DEF item, n, T
        <4>2. \A b \in NearSpots(Extent(at)) : b.what = "more items" => IsList(ReadFrom[b])
          BY <2>3 DEF ListAt
        <4>3. IsList(Item(at, n, item, ReadFrom))
          BY <2>2, <2>5, <4>2, ItemIsList
        <4>4. QED
          BY <4>1, <4>3
      <3>4. QED
        BY <3>2, <3>3
    <2>7. CASE at.what = "more items"
      <3>1. ReadFrom[at] = MoreItemsAt(at, ReadFrom)
        BY <2>2, <2>7, ReadParts
      <3> DEFINE b == Onward(at, "items", n + 1, {})
      <3>2. CASE IsAt(at.text, n, value_separator)
        <4>1. ReadFrom[at] = ReadFrom[b]
          BY <3>1, <3>2 DEF MoreItemsAt
        <4>2. n \in 1 .. Len(at.text) /\ Len(at.text) \in Nat
          BY <2>2, <3>2, SpotParts DEF IsAt
        <4> HIDE DEF n, T
        <4>3. b.text = at.text /\ b.from = n + 1 /\ b.what = "items"
          BY OnwardParts
        <4>4. n + 1 \in Nat \ {0} /\ at.from < n + 1 /\ at.from <= Len(at.text)
          BY <2>4, <2>5, <4>2
        <4>5. b \in Spots
          <5>1. "items" \in Parts /\ {} \in SUBSET Texts
            BY DEF Parts
          <5>2. QED
            BY <2>2, <4>4, <5>1, OnwardSpot, Zenon
        <4> HIDE DEF b
        <4>6. Extent(b) < Extent(at)
          BY <2>2, <4>3, <4>4, <4>5, NearerExtent
        <4>7. b \in NearSpots(Extent(at))
          BY <4>5, <4>6 DEF NearSpots
        <4>8. QED
          BY <2>3, <4>1, <4>3, <4>7 DEF ListAt
      <3>3. CASE ~IsAt(at.text, n, value_separator)
        BY <3>1, <3>3, UnreadableList DEF MoreItemsAt
      <3>4. QED
        BY <3>2, <3>3
    <2>8. QED
      BY <2>1, <2>6, <2>7
  <1>3. T = Nat
    <2>1. T \subseteq Nat
      OBVIOUS
    <2> HIDE DEF T
    <2>2. QED
      BY <1>1, <1>2, <2>1, Induction
  <1>4. QED
    <2> SUFFICES ASSUME NEW at \in Spots PROVE ListAt(at)
      OBVIOUS
    <2>1. Extent(at) + 1 \in T /\ Extent(at) < Extent(at) + 1
      BY <1>3, ExtentIsNatural
    <2>2. at \in NearSpots(Extent(at) + 1)
      BY <2>1 DEF NearSpots
    <2>3. QED
      BY <2>1, <2>2
-----------------------------------------------------------------------------
(* An entry that has been read is stored.                                  *)

\* What is left of a container does not depend on how it was reached.
LEMMA MoreAnywhere ==
    ASSUME NEW a, NEW b, a.text = b.text, a.from = b.from, a.depth = b.depth,
           a.limit = b.limit, NEW t
    PROVE  MoreItemsAt(a, t) = MoreItemsAt(b, t)
  BY DEF MoreItemsAt, Onward

LEMMA MoreMembersAnywhere ==
    ASSUME NEW a, NEW b, a.text = b.text, a.from = b.from, a.depth = b.depth,
           a.limit = b.limit, a.taken = b.taken, NEW t
    PROVE  MoreMembersAt(a, t) = MoreMembersAt(b, t)
  BY DEF MoreMembersAt, Onward

\* An element may be added to what is before it or to what is behind it.
LEMMA AppendThenMore ==
    ASSUME NEW s, IsSequence(s), NEW v, NEW r, IsSequence(r)
    PROVE  s \o (<<v>> \o r) = Append(s, v) \o r
  <1> DEFINE C == (Range(s) \cup Range(r)) \cup {v}
  <1>1. s \in Seq(C) /\ r \in Seq(C) /\ <<v>> \in Seq(C)
    BY SeqMonotonic DEF IsSequence
  <1> HIDE DEF C
  <1>2. s \o (<<v>> \o r) = (s \o <<v>>) \o r
    BY <1>1, ConcatAssociative
  <1>3. s \o <<v>> = Append(s, v)
    BY <1>1
  <1>4. QED
    BY <1>2, <1>3
\* What push_back makes of an array.
LEMMA PushedContainer ==
    ASSUME NEW c, IsContainer(c), c.type = "array", NEW v
    PROVE  /\ push_back(c, v) = Array(Append(c.items, v))
           /\ push_back(c, v).type = "array" /\ push_back(c, v).items = Append(c.items, v)
           /\ IsContainer(push_back(c, v)) /\ IsSequence(c.items)
  <1>1. IsSequence(c.items)
    BY DEF IsContainer
  <1>2. IsSequence(Append(c.items, v))
    BY <1>1, Push
  <1> DEFINE s == Append(c.items, v)
  <1>3. push_back(c, v) = Array(s)
    BY DEF push_back
  <1> HIDE DEF s
  <1>4. Array(s).type = "array" /\ Array(s).items = s
    BY DEF Array
  <1>5. IsContainer(Array(s))
    BY <1>2, <1>4 DEF IsContainer, s
  <1>6. QED
    BY <1>1, <1>3, <1>4, <1>5 DEF s

\* An array with an element stored has what is behind the element to come.
LEMMA StoredItem ==
    ASSUME NEW c, IsContainer(c), c.type = "array", NEW at, IsWithin(at, c),
           NEW i \in Nat, NEW item, Advances(item, at.text, i)
    PROVE  Same(Closed(c, Item(at, i, item, ReadFrom)),
                Closed(push_back(c, item.value), MoreItemsAt(Further(at, item.next), ReadFrom)))
  <1> DEFINE n == item.next
             v == item.value
             b == Onward(at, "more items", n, {})
             d == push_back(c, v)
             rest == ReadFrom[b]
             more == MoreItemsAt(Further(at, n), ReadFrom)
             whole == Item(at, i, item, ReadFrom)
  <1>1. at \in Spots /\ Len(at.text) \in Nat
    BY SpotParts DEF IsWithin
  <1>2. n \in Nat \ {0}
    BY <1>1 DEF Advances
  <1>3. b \in Spots /\ b.what = "more items"
    <2>1. "more items" \in Parts /\ {} \in SUBSET Texts
      BY DEF Parts
    <2> HIDE DEF n
    <2>2. b \in Spots
      BY <1>1, <1>2, <2>1, OnwardSpot, Zenon
    <2>3. QED
      BY <2>2 DEF Onward, Spot
  <1>4. rest = more
    <2>1. rest = MoreItemsAt(b, ReadFrom)
      <3> HIDE DEF b
      <3>1. QED
        BY <1>3, ReadParts
    <2>2. MoreItemsAt(b, ReadFrom) = more
      <3> DEFINE a == Further(at, n)
      <3>1. a.text = b.text /\ a.from = b.from /\ a.depth = b.depth /\ a.limit = b.limit
        BY DEF Further, Onward, Spot
      <3> HIDE DEF a, b
      <3>2. MoreItemsAt(a, ReadFrom) = MoreItemsAt(b, ReadFrom)
        BY <3>1, MoreAnywhere
      <3>3. QED
        BY <3>2 DEF a
    <2>3. QED
      BY <2>1, <2>2
  <1>5. IsList(rest)
    <2> HIDE DEF b
    <2>1. QED
      BY <1>3, ItemsAreLists DEF ListAt
  <1>6. /\ d.type = "array" /\ d.items = Append(c.items, v) /\ IsSequence(c.items)
    BY PushedContainer
  <1>7. CASE ~Readable(rest)
    <2>1. whole = Unreadable
      BY <1>7 DEF Item
    <2> HIDE DEF whole, more, rest
    <2>2. Closed(c, whole).next = 0 /\ Closed(d, more).next = 0
      BY <1>4, <1>7, <2>1, UnreadableClosed DEF Unreadable, Readable, Reading
    <2>3. QED
      BY <2>2 DEF Same, Readable, whole, more
  <1>8. CASE Readable(rest)
    <2> DEFINE w == <<v>> \o rest.value
               e == item.defects \cup rest.defects
    <2>1. whole = Reading(w, rest.next, e)
      BY <1>8 DEF Item
    <2>2. c.items \o w = d.items \o rest.value
      <3> DEFINE s == c.items
                 r == rest.value
      <3>1. IsSequence(r)
        BY <1>5, <1>8 DEF IsList
      <3>2. IsSequence(s) /\ d.items = Append(s, v)
        BY <1>6
      <3> HIDE DEF v, r, d, s, rest
      <3>3. s \o (<<v>> \o r) = Append(s, v) \o r
        BY <3>1, <3>2, AppendThenMore
      <3>4. QED
        BY <3>2, <3>3 DEF s, r
    <2> HIDE DEF w, e, v, rest, whole, more, d
    <2>3. Closed(c, whole) = Reading(Array(c.items \o w), rest.next, e)
      BY <2>1 DEF Closed, With, Reading
    <2>4. Closed(d, more) = Reading(Array(d.items \o rest.value), rest.next, rest.defects)
      BY <1>4, <1>6 DEF Closed, With
    <2>5. Same(Closed(c, whole), Closed(d, more))
      BY <2>2, <2>3, <2>4 DEF Same, Reading
    <2>6. QED
      BY <2>5 DEF whole, more, d, v
  <1>9. QED
    BY <1>7, <1>8

\* A member that is new, and one that is not.
LEMMA InsertedMember ==
    ASSUME NEW c, IsContainer(c), c.type = "object", NEW key \in Texts, NEW v,
           key \notin DOMAIN c.members
    PROVE  LET d == insert(c, key, v).object
           IN  /\ IsContainer(d) /\ d.type = "object"
               /\ DOMAIN d.members = DOMAIN c.members \cup {key}
               /\ d.members = [k \in DOMAIN c.members \cup {key} |->
                                   IF k = key THEN v ELSE c.members[k]]
  <1> DEFINE d == insert(c, key, v).object
             m == [k \in DOMAIN c.members \cup {key} |-> IF k = key THEN v ELSE c.members[k]]
  <1>1. d = Object(m)
    BY DEF insert
  <1>2. DOMAIN m = DOMAIN c.members \cup {key} /\ m = [k \in DOMAIN m |-> m[k]]
    OBVIOUS
  <1>3. DOMAIN c.members \subseteq Texts
    BY DEF IsContainer
  <1>4. DOMAIN m \subseteq Texts
    BY <1>2, <1>3
  <1> HIDE DEF m, d
  <1>5. d.type = "object" /\ d.members = m
    BY <1>1 DEF Object
  <1>6. IsContainer(d)
    BY <1>1, <1>2, <1>4, <1>5 DEF IsContainer
  <1>7. QED
    BY <1>2, <1>5, <1>6 DEF m, d

\* A member may be added to what is before it or to what is behind it.
LEMMA InsertThenMore ==
    ASSUME NEW m, NEW key, key \notin DOMAIN m, NEW v, NEW r
    PROVE  Joined(m, Bound(key, v, r))
               = Joined([k \in DOMAIN m \cup {key} |-> IF k = key THEN v ELSE m[k]], r)
  BY DEF Joined, Bound
\* The members behind one that has been read.
LEMMA BehindMember ==
    ASSUME NEW c, c.type = "object", NEW at, IsWithin(at, c),
           NEW key \in Texts, NEW n \in Nat \ {0}
    PROVE  LET k == at.taken \cup {key}
           IN  /\ Onward(at, "members", n, k) \in Spots
               /\ ReadFrom[Onward(at, "more members", n, k)]
                      = MoreMembersAt(Onward(at, "members", n, k), ReadFrom)
  <1> DEFINE k == at.taken \cup {key}
             a == Onward(at, "members", n, k)
             b == Onward(at, "more members", n, k)
  <1>1. at \in Spots
    BY DEF IsWithin
  <1>2. k \in SUBSET Texts
    BY <1>1, SpotParts
  <1>3. "members" \in Parts /\ "more members" \in Parts
    BY DEF Parts
  <1>4. a \in Spots /\ b \in Spots
    <2> HIDE DEF k
    <2>1. QED
      BY <1>1, <1>2, <1>3, OnwardSpot, Zenon
  <1>5. /\ a.text = b.text /\ a.from = b.from /\ a.depth = b.depth /\ a.limit = b.limit
        /\ a.taken = b.taken /\ b.what = "more members"
    BY DEF Onward, Spot
  <1> HIDE DEF a, b
  <1>6. ReadFrom[b] = MoreMembersAt(b, ReadFrom)
    BY <1>4, <1>5, ReadParts
  <1>7. MoreMembersAt(a, ReadFrom) = MoreMembersAt(b, ReadFrom)
    BY <1>5, MoreMembersAnywhere
  <1>8. QED
    BY <1>4, <1>6, <1>7 DEF a, b

\* An object with a member stored has what is behind the member to come,
\* and one key more is taken.
LEMMA StoredMember ==
    ASSUME NEW c, IsContainer(c), c.type = "object", NEW at, IsWithin(at, c),
           NEW key \in Texts, key \notin DOMAIN c.members,
           NEW i \in Nat, NEW value, Advances(value, at.text, i)
    PROVE  LET d == insert(c, key, value.value).object
               b == Onward(at, "members", value.next, at.taken \cup {key})
           IN  /\ IsWithin(b, d)
               /\ Same(Closed(c, Member(at, key, i, value, ReadFrom)),
                       Closed(d, MoreMembersAt(b, ReadFrom)))
  <1> DEFINE n == value.next
             v == value.value
             d == insert(c, key, v).object
             k == at.taken \cup {key}
             b == Onward(at, "members", n, k)
             rest == ReadFrom[Onward(at, "more members", n, k)]
             more == MoreMembersAt(b, ReadFrom)
             whole == Member(at, key, i, value, ReadFrom)
  <1>1. at \in Spots /\ Len(at.text) \in Nat /\ at.taken = DOMAIN c.members
    BY SpotParts DEF IsWithin, Taken
  <1>2. n \in Nat \ {0}
    BY <1>1 DEF Advances
  <1>3. b \in Spots /\ rest = more
    <2> HIDE DEF n
    <2>1. QED
      BY <1>2, BehindMember
  <1>4. /\ IsContainer(d) /\ d.type = "object"
        /\ DOMAIN d.members = DOMAIN c.members \cup {key}
        /\ d.members = [x \in DOMAIN c.members \cup {key} |-> IF x = key THEN v ELSE c.members[x]]
    <2> HIDE DEF v
    <2>1. QED
      BY InsertedMember
  <1>5. IsWithin(b, d)
    <2>1. b.what = "members" /\ b.taken = k
      BY DEF Onward, Spot
    <2> HIDE DEF b, d
    <2>2. QED
      BY <1>1, <1>3, <1>4, <2>1 DEF IsWithin, Taken
  <1>6. CASE ~Readable(rest)
    <2>1. whole = Unreadable
      BY <1>6 DEF Member
    <2> HIDE DEF whole, more, rest, d
    <2>2. Closed(c, whole).next = 0 /\ Closed(d, more).next = 0
      BY <1>3, <1>6, <2>1, UnreadableClosed DEF Unreadable, Readable, Reading
    <2>3. Same(Closed(c, whole), Closed(d, more))
      BY <2>2 DEF Same, Readable
    <2>4. QED
      BY <1>5, <2>3 DEF whole, more, d
  <1>7. CASE Readable(rest)
    <2> DEFINE w == Bound(key, v, rest.value)
               e == value.defects \cup rest.defects
    <2>1. whole = Reading(w, rest.next, e)
      BY <1>1, <1>7 DEF Member
    <2>2. Joined(c.members, w) = Joined(d.members, rest.value)
      <3> DEFINE m == c.members
                 r == rest.value
      <3>1. d.members = [x \in DOMAIN m \cup {key} |-> IF x = key THEN v ELSE m[x]]
        BY <1>4
      <3> HIDE DEF m, r, v, d
      <3>2. Joined(m, Bound(key, v, r)) = Joined(d.members, r)
        BY <3>1, InsertThenMore DEF m
      <3>3. QED
        BY <3>2 DEF m, r
    <2> HIDE DEF w, e, v, rest, whole, more, d, b
    <2>3. Closed(c, whole) = Reading(Object(Joined(c.members, w)), rest.next, e)
      BY <2>1 DEF Closed, With, Reading
    <2>4. Closed(d, more) = Reading(Object(Joined(d.members, rest.value)), rest.next, rest.defects)
      BY <1>3, <1>4 DEF Closed, With
    <2>5. Same(Closed(c, whole), Closed(d, more))
      BY <2>2, <2>3, <2>4 DEF Same, Reading
    <2>6. QED
      BY <1>5, <2>5 DEF whole, more, d, v, b
  <1>8. QED
    BY <1>6, <1>7

\* A member whose key is taken and whose value ends in ] leaves no trace.
LEMMA DroppedMember ==
    ASSUME NEW c, IsContainer(c), c.type = "object", NEW at, IsWithin(at, c),
           NEW key \in DOMAIN c.members,
           NEW i \in Nat, NEW value, Advances(value, at.text, i),
           at.text[value.next - 1] = end_array
    PROVE  Same(Closed(c, Member(at, key, i, value, ReadFrom)),
                Closed(c, MoreMembersAt(Further(at, value.next), ReadFrom)))
  <1> DEFINE n == value.next
             k == at.taken \cup {key}
             b == Onward(at, "members", n, k)
             rest == ReadFrom[Onward(at, "more members", n, k)]
             more == MoreMembersAt(b, ReadFrom)
             whole == Member(at, key, i, value, ReadFrom)
  <1>1. /\ at \in Spots /\ Len(at.text) \in Nat /\ at.taken = DOMAIN c.members
        /\ at.what = "members" /\ key \in Texts
    BY SpotParts DEF IsWithin, Taken, IsContainer
  <1>2. n \in Nat \ {0}
    BY <1>1 DEF Advances
  <1>3. rest = more
    <2> HIDE DEF n
    <2>1. QED
      BY <1>1, <1>2, BehindMember
  <1>4. b = Further(at, n)
    <2>1. k = at.taken
      BY <1>1
    <2>2. QED
      BY <1>1, <2>1 DEF Further
  <1>5. Same(whole, rest)
    <2>1. CASE ~Readable(rest)
      <3>1. whole = Unreadable
        BY <2>1 DEF Member
      <3> HIDE DEF whole, rest
      <3>2. QED
        BY <2>1, <3>1 DEF Same, Unreadable, Reading, Readable
    <2>2. CASE Readable(rest)
      <3> DEFINE e == (value.defects \cup rest.defects) \cup {"duplicate_key_dropped"}
      <3>1. whole = Reading(rest.value, rest.next, e)
        BY <1>1, <2>2 DEF Member
      <3> HIDE DEF whole, rest, e
      <3>2. QED
        BY <3>1 DEF Same, Reading
    <2>3. QED
      BY <2>1, <2>2
  <1> HIDE DEF whole, rest, more, b
  <1>6. Same(Closed(c, whole), Closed(c, more))
    BY <1>3, <1>5, SameClosed
  <1>7. QED
    BY <1>4, <1>6 DEF whole, more

\* With any other value it cannot be read.
LEMMA RefusedMember ==
    ASSUME NEW c, c.type = "object", NEW at, IsWithin(at, c), NEW key \in DOMAIN c.members,
           NEW i, NEW value, at.text[value.next - 1] # end_array
    PROVE  ~Readable(Member(at, key, i, value, ReadFrom))
  <1>1. at.taken = DOMAIN c.members
    BY DEF IsWithin, Taken
  <1>2. Member(at, key, i, value, ReadFrom) = Unreadable
    BY <1>1 DEF Member
  <1>3. QED
    BY <1>2 DEF Unreadable, Readable, Reading
-----------------------------------------------------------------------------
(* A value that is to come.                                                *)

Entry(at, context, i, r) ==
    IF context.value.type = "array" THEN Item(at, i, r, ReadFrom)
    ELSE Member(at, context.key, i, r, ReadFrom)

ToValue(at, context) ==
    IF context.value.type = "array" THEN ItemsAt(at, ReadFrom)
    ELSE Valued(at, context.key, at.from, ReadFrom)

ValueFrom(at, i) == ReadFrom[Onward(at, "value", i, {})]

\* An entry is the same with the same value in it.
LEMMA SameEntry ==
    ASSUME NEW at, NEW context, NEW i \in Nat \ {0}, NEW r, NEW s, Same(r, s)
    PROVE  Same(Entry(at, context, i, r), Entry(at, context, i, s))
  <1>1. CASE Readable(r)
    <2>1. r.next = s.next /\ r.value = s.value
      BY <1>1 DEF Same
    <2>2. Same(Item(at, i, r, ReadFrom), Item(at, i, s, ReadFrom))
      BY <2>1 DEF Item, Advances, Same, Reading
    <2>3. Same(Member(at, context.key, i, r, ReadFrom), Member(at, context.key, i, s, ReadFrom))
      BY <2>1 DEF Member, Advances, Same, Reading
    <2>4. QED
      BY <2>2, <2>3 DEF Entry
  <1>2. CASE ~Readable(r)
    <2>1. r.next = 0 /\ s.next = 0
      BY <1>2 DEF Same, Readable
    <2>2. ~Advances(r, at.text, i) /\ ~Advances(s, at.text, i)
      BY <2>1 DEF Advances
    <2>3. Entry(at, context, i, r) = Unreadable /\ Entry(at, context, i, s) = Unreadable
      BY <2>2 DEF Entry, Item, Member
    <2>4. QED
      BY <2>3, SameSelf
  <1>3. QED
    BY <1>1, <1>2

\* An entry is read if its value is.
LEMMA UnreadableEntry ==
    ASSUME NEW at, NEW context, NEW i \in Nat, NEW r, ~Readable(r)
    PROVE  Entry(at, context, i, r) = Unreadable
  <1>1. ~Advances(r, at.text, i)
    BY DEF Advances, Readable
  <1>2. QED
    BY <1>1 DEF Entry, Item, Member

\* Entries and values do not depend on where in their container the reader is.
LEMMA EntryFurther ==
    ASSUME NEW at, NEW context, NEW i, NEW r, NEW j
    PROVE  Entry(Further(at, j), context, i, r) = Entry(at, context, i, r)
  <1> DEFINE key == context.key
             w == at.what
  <1> HIDE DEF key, w
  <1>1. /\ Item(Onward(at, w, j, at.taken), i, r, ReadFrom) = Item(at, i, r, ReadFrom)
        /\ Member(Onward(at, w, j, at.taken), key, i, r, ReadFrom) = Member(at, key, i, r, ReadFrom)
    BY EntryAnywhere
  <1>2. QED
    BY <1>1 DEF Entry, Further, key, w

LEMMA ValueFromFurther ==
    ASSUME NEW at, NEW i, NEW j
    PROVE  ValueFrom(Further(at, j), i) = ValueFrom(at, i)
  <1>1. Onward(Further(at, j), "value", i, {}) = Onward(at, "value", i, {})
    BY DEF Further, Onward, Spot
  <1>2. QED
    BY <1>1 DEF ValueFrom

\* Where a place is, and the token it is at.
LEMMA PlaceParts ==
    ASSUME NEW c, NEW at, IsWithin(at, c)
    PROVE  /\ at \in Spots /\ at.text \in Texts /\ Len(at.text) \in Nat
           /\ at.from \in Nat \ {0} /\ DOMAIN at.text = 1 .. Len(at.text)
  BY SpotParts DEF IsWithin

\* A value that is to come begins here,
LEMMA ValueComes ==
    ASSUME NEW context, NEW at, IsWithin(at, context.value),
           at.from \in 1 .. Len(at.text), at.text[at.from] \notin Blanks \cup {end_array}
    PROVE  ToValue(at, context) = Entry(at, context, at.from, ValueFrom(at, at.from))
  <1>1. NextToken(at.text, at.from) = at.from
    BY PlaceParts, TokenHere
  <1>2. ~IsAt(at.text, at.from, end_array)
    BY DEF IsAt
  <1>3. QED
    BY <1>1, <1>2 DEF ToValue, Entry, ValueFrom, ItemsAt, Valued

\* or there is a ] instead,
LEMMA ValueIsBracket ==
    ASSUME NEW context, NEW at, IsWithin(at, context.value),
           at.from \in 1 .. Len(at.text), at.text[at.from] = end_array
    PROVE  Same(ToValue(at, context), Reading(<<>>, at.from + 1, {}))
  <1>1. at.text[at.from] \notin Blanks
    BY DEF Blanks, end_array
  <1>2. NextToken(at.text, at.from) = at.from
    BY <1>1, PlaceParts, TokenHere
  <1>3. IsAt(at.text, at.from, end_array)
    BY PlaceParts DEF IsAt
  <1>4. QED
    BY <1>2, <1>3 DEF ToValue, ItemsAt, Valued, Same, Reading

\* or it comes behind a blank,
LEMMA ValueLater ==
    ASSUME NEW context, NEW at, IsWithin(at, context.value),
           at.from \in 1 .. Len(at.text), at.text[at.from] \in Blanks
    PROVE  ToValue(at, context) = ToValue(Further(at, at.from + 1), context)
  <1> DEFINE i == at.from
             b == Further(at, i + 1)
             n == NextToken(at.text, i)
             v == ValueFrom(at, n)
  <1>1. at.text \in Texts /\ i \in Nat \ {0}
    BY PlaceParts
  <1>2. n = NextToken(at.text, i + 1)
    BY <1>1, TokenLater
  <1>3. b.text = at.text /\ b.from = i + 1
    BY DEF Further, Onward, Spot
  <1>4. ValueFrom(b, n) = v
    <2> HIDE DEF n, i
    <2>1. QED
      BY ValueFromFurther
  <1>5. Entry(b, context, n, v) = Entry(at, context, n, v)
    <2> HIDE DEF n, i, v
    <2>1. QED
      BY EntryFurther
  <1> HIDE DEF b, n, i, v
  <1>6. CASE context.value.type = "array"
    <2>1. Item(b, n, v, ReadFrom) = Item(at, n, v, ReadFrom)
      BY <1>5, <1>6 DEF Entry
    <2>2. ItemsAt(b, ReadFrom) = IF IsAt(at.text, n, end_array) THEN Reading(<<>>, n + 1, {})
                                 ELSE Item(b, n, v, ReadFrom)
      BY <1>2, <1>3, <1>4 DEF ItemsAt, ValueFrom
    <2>3. ItemsAt(at, ReadFrom) = IF IsAt(at.text, n, end_array) THEN Reading(<<>>, n + 1, {})
                                  ELSE Item(at, n, v, ReadFrom)
      BY DEF ItemsAt, ValueFrom, n, v, i
    <2>4. QED
      BY <1>6, <2>1, <2>2, <2>3 DEF ToValue, b, i
  <1>7. CASE context.value.type # "array"
    <2> DEFINE key == context.key
    <2>1. Member(b, key, n, v, ReadFrom) = Member(at, key, n, v, ReadFrom)
      BY <1>5, <1>7 DEF Entry
    <2>2. Valued(b, key, i + 1, ReadFrom) =
              IF IsAt(at.text, n, end_array)
              THEN Reading(<<>>, n + 1, {"object_closed_by_bracket"})
              ELSE Member(b, key, n, v, ReadFrom)
      BY <1>2, <1>3, <1>4 DEF Valued, ValueFrom
    <2>3. Valued(at, key, i, ReadFrom) =
              IF IsAt(at.text, n, end_array)
              THEN Reading(<<>>, n + 1, {"object_closed_by_bracket"})
              ELSE Member(at, key, n, v, ReadFrom)
      BY DEF Valued, ValueFrom, n, v
    <2>4. QED
      BY <1>3, <1>7, <2>1, <2>2, <2>3 DEF ToValue, b, i
  <1>8. QED
    BY <1>6, <1>7

\* or there is no value before the text ends.
LEMMA ValueNever ==
    ASSUME NEW context, NEW at, IsWithin(at, context.value), at.from = Len(at.text) + 1
    PROVE  ~Readable(ToValue(at, context))
  <1> DEFINE n == Len(at.text) + 1
  <1>1. at.text \in Texts /\ Len(at.text) \in Nat /\ DOMAIN at.text = 1 .. Len(at.text)
    BY PlaceParts
  <1>2. NextToken(at.text, n) = n
    BY <1>1, NoToken
  <1>3. \A ch : ~IsAt(at.text, n, ch)
    BY <1>1 DEF IsAt
  <1>4. \A r : ~Advances(r, at.text, n)
    BY <1>1, NothingBehindTheText
  <1>5. ToValue(at, context) = Unreadable
    BY <1>2, <1>3, <1>4 DEF ToValue, ItemsAt, Valued, Item, Member
  <1>6. QED
    BY <1>5 DEF Unreadable, Readable, Reading
-----------------------------------------------------------------------------
(* What may come between entries.                                          *)

Missing(at) == at.from = Len(at.text) + 1

Present(at) == at.from \in 1 .. Len(at.text)

Here(at) == at.text[at.from]

\* A token that is here is the next one.
LEMMA NextHere ==
    ASSUME NEW c, NEW at, IsWithin(at, c)
    PROVE  /\ Present(at) /\ Here(at) \notin Blanks =>
                /\ NextToken(at.text, at.from) = at.from
                /\ \A ch : IsAt(at.text, at.from, ch) <=> Here(at) = ch
           /\ Present(at) /\ Here(at) \in Blanks =>
                NextToken(at.text, at.from) = NextToken(at.text, at.from + 1)
           /\ Missing(at) =>
                \A ch : ~IsAt(at.text, NextToken(at.text, at.from), ch)
  <1>1. at.text \in Texts /\ Len(at.text) \in Nat /\ DOMAIN at.text = 1 .. Len(at.text)
    BY PlaceParts
  <1>2. ASSUME Present(at), Here(at) \notin Blanks
        PROVE  /\ NextToken(at.text, at.from) = at.from
               /\ \A ch : IsAt(at.text, at.from, ch) <=> Here(at) = ch
    BY <1>1, <1>2, TokenHere DEF Present, Here, IsAt
  <1>3. ASSUME Present(at), Here(at) \in Blanks
        PROVE  NextToken(at.text, at.from) = NextToken(at.text, at.from + 1)
    BY <1>1, <1>3, TokenLater DEF Present, Here
  <1>4. ASSUME Missing(at)
        PROVE  \A ch : ~IsAt(at.text, NextToken(at.text, at.from), ch)
    <2>1. NextToken(at.text, at.from) = Len(at.text) + 1
      BY <1>1, <1>4, NoToken DEF Missing
    <2>2. QED
      BY <1>1, <2>1 DEF IsAt
  <1>5. QED
    BY <1>2, <1>3, <1>4

\* Delimiters are not blank.
LEMMA NotBlank ==
    /\ begin_array \notin Blanks /\ begin_object \notin Blanks
    /\ end_array \notin Blanks /\ end_object \notin Blanks
    /\ name_separator \notin Blanks /\ value_separator \notin Blanks
    /\ string_begin_end \notin Blanks
  BY DEF Blanks, begin_array, begin_object, end_array, end_object, name_separator,
         value_separator, string_begin_end

\* What is unreadable is not read.
LEMMA UnreadableIs == ~Readable(Unreadable)
  BY DEF Unreadable, Readable, Reading

\* Behind an element there are blanks, a comma, or a ].
LEMMA BetweenItems ==
    ASSUME NEW context, context.value.type = "array", NEW at, IsWithin(at, context.value)
    PROVE  /\ Present(at) /\ Here(at) \in Blanks =>
                MoreItemsAt(at, ReadFrom) = MoreItemsAt(Further(at, at.from + 1), ReadFrom)
           /\ Present(at) /\ Here(at) = value_separator =>
                MoreItemsAt(at, ReadFrom) = ToValue(Further(at, at.from + 1), context)
           /\ Present(at) /\ Here(at) = end_array =>
                MoreItemsAt(at, ReadFrom) = Reading(<<>>, at.from + 1, {})
           /\ Present(at) /\ Here(at) \notin Blanks \cup {value_separator, end_array} =>
                ~Readable(MoreItemsAt(at, ReadFrom))
           /\ Missing(at) => ~Readable(MoreItemsAt(at, ReadFrom))
  <1> DEFINE b == Further(at, at.from + 1)
             n == NextToken(at.text, at.from)
  <1>1. at.from \in Nat \ {0} /\ at.from + 1 \in Nat \ {0}
    BY PlaceParts
  <1>2. b \in Spots
    BY <1>1, FurtherWithin DEF IsWithin
  <1>3. b.text = at.text /\ b.from = at.from + 1 /\ b.what = at.what /\ b.what = "items"
        /\ at.taken = {}
    BY DEF Further, Onward, Spot, IsWithin, Taken
  <1>4. ASSUME Present(at), Here(at) \in Blanks
        PROVE  MoreItemsAt(at, ReadFrom) = MoreItemsAt(b, ReadFrom)
    <2>1. n = NextToken(b.text, b.from)
      BY <1>3, <1>4, NextHere
    <2>2. \A w, i, k : Onward(b, w, i, k) = Onward(at, w, i, k)
      BY DEF Further, Onward, Spot
    <2> HIDE DEF b
    <2>3. QED
      BY <1>3, <2>1, <2>2 DEF MoreItemsAt
  <1>5. ASSUME Present(at), Here(at) = value_separator
        PROVE  MoreItemsAt(at, ReadFrom) = ToValue(b, context)
    <2>1. n = at.from /\ IsAt(at.text, n, value_separator)
      BY <1>5, NextHere, NotBlank
    <2>2. MoreItemsAt(at, ReadFrom) = ReadFrom[Onward(at, "items", at.from + 1, {})]
      BY <2>1 DEF MoreItemsAt
    <2>3. Onward(at, "items", at.from + 1, {}) = b
      BY <1>3 DEF Further
    <2> HIDE DEF b
    <2>4. ReadFrom[b] = ItemsAt(b, ReadFrom)
      BY <1>2, <1>3, ReadParts
    <2>5. QED
      BY <2>2, <2>3, <2>4 DEF ToValue
  <1>6. ASSUME Present(at), Here(at) = end_array
        PROVE  MoreItemsAt(at, ReadFrom) = Reading(<<>>, at.from + 1, {})
    <2>1. value_separator # end_array
      BY DEF value_separator, end_array
    <2>2. n = at.from /\ IsAt(at.text, n, end_array) /\ ~IsAt(at.text, n, value_separator)
      BY <1>6, <2>1, NextHere, NotBlank
    <2>3. QED
      BY <2>2 DEF MoreItemsAt
  <1>7. ASSUME Present(at), Here(at) \notin Blanks \cup {value_separator, end_array}
        PROVE  ~Readable(MoreItemsAt(at, ReadFrom))
    <2>1. ~IsAt(at.text, n, end_array) /\ ~IsAt(at.text, n, value_separator)
      BY <1>7, NextHere
    <2>2. MoreItemsAt(at, ReadFrom) = Unreadable
      BY <2>1 DEF MoreItemsAt
    <2>3. QED
      BY <2>2, UnreadableIs
  <1>8. ASSUME Missing(at) PROVE ~Readable(MoreItemsAt(at, ReadFrom))
    <2>1. ~IsAt(at.text, n, end_array) /\ ~IsAt(at.text, n, value_separator)
      BY <1>8, NextHere
    <2>2. MoreItemsAt(at, ReadFrom) = Unreadable
      BY <2>1 DEF MoreItemsAt
    <2>3. QED
      BY <2>2, UnreadableIs
  <1>9. QED
    BY <1>4, <1>5, <1>6, <1>7, <1>8

\* Behind a member there are blanks, a comma, or a }.
LEMMA BetweenMembers ==
    ASSUME NEW context, context.value.type = "object", NEW at, IsWithin(at, context.value)
    PROVE  /\ Present(at) /\ Here(at) \in Blanks =>
                MoreMembersAt(at, ReadFrom) = MoreMembersAt(Further(at, at.from + 1), ReadFrom)
           /\ Present(at) /\ Here(at) = value_separator =>
                MoreMembersAt(at, ReadFrom) = MembersAt(Further(at, at.from + 1), ReadFrom)
           /\ Present(at) /\ Here(at) = end_object =>
                MoreMembersAt(at, ReadFrom) = Reading(<<>>, at.from + 1, {})
           /\ Present(at) /\ Here(at) \notin Blanks \cup {value_separator, end_object} =>
                ~Readable(MoreMembersAt(at, ReadFrom))
           /\ Missing(at) => ~Readable(MoreMembersAt(at, ReadFrom))
  <1> DEFINE b == Further(at, at.from + 1)
             n == NextToken(at.text, at.from)
  <1>1. at.from \in Nat \ {0} /\ at.from + 1 \in Nat \ {0}
    BY PlaceParts
  <1>2. b \in Spots
    BY <1>1, FurtherWithin DEF IsWithin
  <1>3. b.text = at.text /\ b.from = at.from + 1 /\ b.what = at.what /\ b.what = "members"
        /\ b.taken = at.taken
    BY DEF Further, Onward, Spot, IsWithin, Taken
  <1>4. ASSUME Present(at), Here(at) \in Blanks
        PROVE  MoreMembersAt(at, ReadFrom) = MoreMembersAt(b, ReadFrom)
    <2>1. n = NextToken(b.text, b.from)
      BY <1>3, <1>4, NextHere
    <2>2. \A w, i, k : Onward(b, w, i, k) = Onward(at, w, i, k)
      BY DEF Further, Onward, Spot
    <2> HIDE DEF b
    <2>3. QED
      BY <1>3, <2>1, <2>2 DEF MoreMembersAt
  <1>5. ASSUME Present(at), Here(at) = value_separator
        PROVE  MoreMembersAt(at, ReadFrom) = MembersAt(b, ReadFrom)
    <2>1. n = at.from /\ IsAt(at.text, n, value_separator)
      BY <1>5, NextHere, NotBlank
    <2>2. MoreMembersAt(at, ReadFrom) = ReadFrom[Onward(at, "members", at.from + 1, at.taken)]
      BY <2>1 DEF MoreMembersAt
    <2>3. Onward(at, "members", at.from + 1, at.taken) = b
      BY <1>3 DEF Further
    <2> HIDE DEF b
    <2>4. ReadFrom[b] = MembersAt(b, ReadFrom)
      BY <1>2, <1>3, ReadParts
    <2>5. QED
      BY <2>2, <2>3, <2>4
  <1>6. ASSUME Present(at), Here(at) = end_object
        PROVE  MoreMembersAt(at, ReadFrom) = Reading(<<>>, at.from + 1, {})
    <2>1. value_separator # end_object
      BY DEF value_separator, end_object
    <2>2. n = at.from /\ IsAt(at.text, n, end_object) /\ ~IsAt(at.text, n, value_separator)
      BY <1>6, <2>1, NextHere, NotBlank
    <2>3. QED
      BY <2>2 DEF MoreMembersAt
  <1>7. ASSUME Present(at), Here(at) \notin Blanks \cup {value_separator, end_object}
        PROVE  ~Readable(MoreMembersAt(at, ReadFrom))
    <2>1. ~IsAt(at.text, n, end_object) /\ ~IsAt(at.text, n, value_separator)
      BY <1>7, NextHere
    <2>2. MoreMembersAt(at, ReadFrom) = Unreadable
      BY <2>1 DEF MoreMembersAt
    <2>3. QED
      BY <2>2, UnreadableIs
  <1>8. ASSUME Missing(at) PROVE ~Readable(MoreMembersAt(at, ReadFrom))
    <2>1. ~IsAt(at.text, n, end_object) /\ ~IsAt(at.text, n, value_separator)
      BY <1>8, NextHere
    <2>2. MoreMembersAt(at, ReadFrom) = Unreadable
      BY <2>1 DEF MoreMembersAt
    <2>3. QED
      BY <2>2, UnreadableIs
  <1>9. QED
    BY <1>4, <1>5, <1>6, <1>7, <1>8

\* A member with a key that is being read.
Keyed(at, key) ==
    IF Readable(key) THEN Named(at, key.value, key.next, ReadFrom) ELSE Unreadable

\* What is behind a key does not depend on where the reader is.
LEMMA NamedFurther ==
    ASSUME NEW at, NEW key, NEW i, NEW j
    PROVE  /\ Named(Further(at, j), key, i, ReadFrom) = Named(at, key, i, ReadFrom)
           /\ Valued(Further(at, j), key, i, ReadFrom) = Valued(at, key, i, ReadFrom)
  <1> DEFINE w == at.what
  <1> HIDE DEF w
  <1>1. /\ Valued(Onward(at, w, j, at.taken), key, i, ReadFrom) = Valued(at, key, i, ReadFrom)
        /\ Named(Onward(at, w, j, at.taken), key, i, ReadFrom) = Named(at, key, i, ReadFrom)
    BY NamedAnywhere
  <1>2. QED
    BY <1>1 DEF Further, w

LEMMA KeyedFurther ==
    ASSUME NEW at, NEW key, NEW j
    PROVE  Keyed(Further(at, j), key) = Keyed(at, key)
  <1> DEFINE k == key.value
             i == key.next
  <1>1. Named(Further(at, j), k, i, ReadFrom) = Named(at, k, i, ReadFrom)
    <2> HIDE DEF k, i
    <2>1. QED
      BY NamedFurther
  <1>2. QED
    BY <1>1 DEF Keyed

\* Before a member there are blanks, a quote, or a }.
LEMMA BeforeMembers ==
    ASSUME NEW context, context.value.type = "object", NEW at, IsWithin(at, context.value)
    PROVE  /\ Present(at) /\ Here(at) \in Blanks =>
                MembersAt(at, ReadFrom) = MembersAt(Further(at, at.from + 1), ReadFrom)
           /\ Present(at) /\ Here(at) = string_begin_end =>
                MembersAt(at, ReadFrom) = Keyed(at, Quoted[Mark(at.text, at.from + 1)])
           /\ Present(at) /\ Here(at) = end_object =>
                MembersAt(at, ReadFrom) = Reading(<<>>, at.from + 1, {})
           /\ Present(at) /\ Here(at) \notin Blanks \cup {string_begin_end, end_object} =>
                ~Readable(MembersAt(at, ReadFrom))
           /\ Missing(at) => ~Readable(MembersAt(at, ReadFrom))
  <1> DEFINE b == Further(at, at.from + 1)
             n == NextToken(at.text, at.from)
             q == Quoted[Mark(at.text, n + 1)]
  <1>1. MembersAt(at, ReadFrom) =
            IF IsAt(at.text, n, end_object) THEN Reading(<<>>, n + 1, {})
            ELSE IF IsAt(at.text, n, string_begin_end) THEN Keyed(at, q) ELSE Unreadable
    BY DEF MembersAt, Keyed
  <1>2. b.text = at.text /\ b.from = at.from + 1
    BY DEF Further, Onward, Spot
  <1>3. ASSUME Present(at), Here(at) \in Blanks
        PROVE  MembersAt(at, ReadFrom) = MembersAt(b, ReadFrom)
    <2>1. n = NextToken(b.text, b.from)
      BY <1>2, <1>3, NextHere
    <2>2. Keyed(b, q) = Keyed(at, q)
      <3> HIDE DEF q
      <3>1. QED
        BY KeyedFurther
    <2> HIDE DEF b
    <2>3. MembersAt(b, ReadFrom) =
            IF IsAt(at.text, n, end_object) THEN Reading(<<>>, n + 1, {})
            ELSE IF IsAt(at.text, n, string_begin_end) THEN Keyed(b, q) ELSE Unreadable
      BY <1>2, <2>1 DEF MembersAt, Keyed
    <2>4. QED
      BY <1>1, <2>2, <2>3
  <1>4. ASSUME Present(at), Here(at) = string_begin_end
        PROVE  MembersAt(at, ReadFrom) = Keyed(at, Quoted[Mark(at.text, at.from + 1)])
    <2>1. string_begin_end # end_object
      BY DEF string_begin_end, end_object
    <2>2. n = at.from /\ IsAt(at.text, n, string_begin_end) /\ ~IsAt(at.text, n, end_object)
      BY <1>4, <2>1, NextHere, NotBlank
    <2>3. QED
      BY <1>1, <2>2
  <1>5. ASSUME Present(at), Here(at) = end_object
        PROVE  MembersAt(at, ReadFrom) = Reading(<<>>, at.from + 1, {})
    <2>1. n = at.from /\ IsAt(at.text, n, end_object)
      BY <1>5, NextHere, NotBlank
    <2>2. QED
      BY <1>1, <2>1
  <1>6. ASSUME Present(at), Here(at) \notin Blanks \cup {string_begin_end, end_object}
        PROVE  ~Readable(MembersAt(at, ReadFrom))
    <2>1. ~IsAt(at.text, n, end_object) /\ ~IsAt(at.text, n, string_begin_end)
      BY <1>6, NextHere
    <2>2. QED
      BY <1>1, <2>1, UnreadableIs
  <1>7. ASSUME Missing(at) PROVE ~Readable(MembersAt(at, ReadFrom))
    <2>1. ~IsAt(at.text, n, end_object) /\ ~IsAt(at.text, n, string_begin_end)
      BY <1>7, NextHere
    <2>2. QED
      BY <1>1, <2>1, UnreadableIs
  <1>8. QED
    BY <1>3, <1>4, <1>5, <1>6, <1>7

\* Before a colon there are blanks.
LEMMA BeforeColon ==
    ASSUME NEW context, context.value.type = "object", NEW at, IsWithin(at, context.value),
           NEW key
    PROVE  /\ Present(at) /\ Here(at) \in Blanks =>
                Named(at, key, at.from, ReadFrom) = Named(at, key, at.from + 1, ReadFrom)
           /\ Present(at) /\ Here(at) = name_separator =>
                Named(at, key, at.from, ReadFrom) = Valued(at, key, at.from + 1, ReadFrom)
           /\ Present(at) /\ Here(at) \notin Blanks \cup {name_separator} =>
                ~Readable(Named(at, key, at.from, ReadFrom))
           /\ Missing(at) => ~Readable(Named(at, key, at.from, ReadFrom))
  <1> DEFINE n == NextToken(at.text, at.from)
  <1>1. ASSUME Present(at), Here(at) \in Blanks
        PROVE  Named(at, key, at.from, ReadFrom) = Named(at, key, at.from + 1, ReadFrom)
    BY <1>1, NextHere DEF Named
  <1>2. ASSUME Present(at), Here(at) = name_separator
        PROVE  Named(at, key, at.from, ReadFrom) = Valued(at, key, at.from + 1, ReadFrom)
    <2>1. n = at.from /\ IsAt(at.text, n, name_separator)
      BY <1>2, NextHere, NotBlank
    <2>2. QED
      BY <2>1 DEF Named
  <1>3. ASSUME Present(at), Here(at) \notin Blanks \cup {name_separator}
        PROVE  ~Readable(Named(at, key, at.from, ReadFrom))
    <2>1. ~IsAt(at.text, n, name_separator)
      BY <1>3, NextHere
    <2>2. Named(at, key, at.from, ReadFrom) = Unreadable
      BY <2>1 DEF Named
    <2>3. QED
      BY <2>2, UnreadableIs
  <1>4. ASSUME Missing(at) PROVE ~Readable(Named(at, key, at.from, ReadFrom))
    <2>1. ~IsAt(at.text, n, name_separator)
      BY <1>4, NextHere
    <2>2. Named(at, key, at.from, ReadFrom) = Unreadable
      BY <2>1 DEF Named
    <2>3. QED
      BY <2>2, UnreadableIs
  <1>5. QED
    BY <1>1, <1>2, <1>3, <1>4
-----------------------------------------------------------------------------
(* How values begin.                                                       *)

IsValueSpot(b) == b \in Spots /\ b.what = "value"

\* The spot of a value in a container.
LEMMA ValueSpot ==
    ASSUME NEW c, NEW at, IsWithin(at, c), NEW i \in Nat \ {0}
    PROVE  LET b == Onward(at, "value", i, {})
           IN  /\ IsValueSpot(b)
               /\ ValueFrom(at, i) = ReadFrom[b]
               /\ b.text = at.text /\ b.from = i /\ b.depth = at.depth /\ b.limit = at.limit
  <1> DEFINE b == Onward(at, "value", i, {})
  <1>1. at \in Spots /\ "value" \in Parts /\ {} \in SUBSET Texts
    BY DEF IsWithin, Parts
  <1>2. b \in Spots
    BY <1>1, OnwardSpot, Zenon
  <1>3. /\ b.what = "value" /\ b.text = at.text /\ b.from = i
        /\ b.depth = at.depth /\ b.limit = at.limit
    BY DEF Onward, Spot
  <1> HIDE DEF b
  <1>4. QED
    BY <1>2, <1>3 DEF IsValueSpot, ValueFrom, b

\* A container that has just been opened.
LEMMA EmptyContainers ==
    /\ IsContainer(Array(<<>>)) /\ Array(<<>>).type = "array" /\ Array(<<>>).items = <<>>
    /\ IsContainer(Object(<<>>)) /\ Object(<<>>).type = "object" /\ Object(<<>>).members = <<>>
    /\ DOMAIN <<>> = {}
  <1>1. /\ Array(<<>>).type = "array" /\ Array(<<>>).items = <<>>
        /\ Object(<<>>).type = "object" /\ Object(<<>>).members = <<>>
    BY DEF Array, Object
  <1>2. IsSequence(<<>>)
    BY ShortTexts
  <1>3. DOMAIN <<>> = {} /\ <<>> = [key \in DOMAIN <<>> |-> <<>>[key]]
    OBVIOUS
  <1>4. IsContainer(Array(<<>>))
    BY <1>1, <1>2 DEF IsContainer
  <1>5. IsContainer(Object(<<>>))
    BY <1>1, <1>3 DEF IsContainer
  <1>6. QED
    BY <1>1, <1>3, <1>4, <1>5

\* Opening an array leaves its elements to be read,
LEMMA ArrayBegins ==
    ASSUME NEW b, IsValueSpot(b), Present(b), Here(b) = begin_array, MayOpen(b)
    PROVE  LET a == Inward(b, "items")
           IN  /\ IsWithin(a, Array(<<>>))
               /\ Same(ReadFrom[b], Closed(Array(<<>>), ItemsAt(a, ReadFrom)))
  <1> DEFINE a == Inward(b, "items")
             list == ItemsAt(a, ReadFrom)
             c == Array(<<>>)
  <1>1. b \in Spots /\ b.what = "value"
    BY DEF IsValueSpot
  <1>2. a \in Spots
    <2>1. "items" \in Parts
      BY DEF Parts
    <2>2. QED
      BY <1>1, <2>1, InwardSpot, Zenon
  <1>3. a.what = "items" /\ a.taken = {}
    BY DEF Inward, Spot
  <1>4. c.type = "array" /\ c.items = <<>>
    BY EmptyContainers
  <1>5. IsAt(b.text, b.from, begin_array)
    BY <1>1, SpotParts DEF IsAt, Present, Here
  <1>6. ReadFrom[b] = With(Array(ReadFrom[a].value), ReadFrom[a])
    <2>1. ReadFrom[b] = ValueAt(b, ReadFrom)
      BY <1>1, ReadParts
    <2>2. QED
      BY <1>5, <2>1 DEF ValueAt
  <1> HIDE DEF a
  <1>7. ReadFrom[a] = list
    BY <1>2, <1>3, ReadParts
  <1>8. IsWithin(a, c)
    <2> HIDE DEF c
    <2>1. QED
      BY <1>2, <1>3, <1>4 DEF IsWithin, Taken
  <1>9. IsList(list)
    BY <1>2, <1>3, <1>7, ItemsAreLists DEF ListAt
  <1>10. Readable(list) => <<>> \o list.value = list.value
    <2> HIDE DEF list
    <2>1. ASSUME Readable(list) PROVE <<>> \o list.value = list.value
      <3> DEFINE s == list.value
                 C == Range(s)
      <3>1. s \in Seq(C)
        BY <1>9, <2>1 DEF IsList, IsSequence
      <3> HIDE DEF s, C
      <3>2. <<>> \o s = s
        BY <3>1, ConcatEmptySeq
      <3>3. QED
        BY <3>2 DEF s
    <2>2. QED
      BY <2>1
  <1>11. Closed(c, list) = With(Array(<<>> \o list.value), list)
    <2> HIDE DEF c, list
    <2>1. QED
      BY <1>4 DEF Closed
  <1>12. Same(ReadFrom[b], Closed(c, list))
    <2> HIDE DEF c, list
    <2>1. QED
      BY <1>6, <1>7, <1>10, <1>11 DEF Same, With, Reading, Readable
  <1>13. QED
    BY <1>8, <1>12 DEF a

\* opening an object its members,
LEMMA ObjectBegins ==
    ASSUME NEW b, IsValueSpot(b), Present(b), Here(b) = begin_object, MayOpen(b)
    PROVE  LET a == Inward(b, "members")
           IN  /\ IsWithin(a, Object(<<>>))
               /\ Same(ReadFrom[b], Closed(Object(<<>>), MembersAt(a, ReadFrom)))
  <1> DEFINE a == Inward(b, "members")
             list == MembersAt(a, ReadFrom)
             c == Object(<<>>)
  <1>1. b \in Spots /\ b.what = "value"
    BY DEF IsValueSpot
  <1>2. a \in Spots
    <2>1. "members" \in Parts
      BY DEF Parts
    <2>2. QED
      BY <1>1, <2>1, InwardSpot, Zenon
  <1>3. a.what = "members" /\ a.taken = {}
    BY DEF Inward, Spot
  <1>4. c.type = "object" /\ c.members = <<>> /\ DOMAIN <<>> = {}
    BY EmptyContainers
  <1>5. IsAt(b.text, b.from, begin_object) /\ ~IsAt(b.text, b.from, begin_array)
    BY <1>1, SpotParts DEF IsAt, Present, Here, begin_object, begin_array
  <1>6. ReadFrom[b] = With(Object(ReadFrom[a].value), ReadFrom[a])
    <2>1. ReadFrom[b] = ValueAt(b, ReadFrom)
      BY <1>1, ReadParts
    <2>2. QED
      BY <1>5, <2>1 DEF ValueAt
  <1> HIDE DEF a
  <1>7. ReadFrom[a] = list
    BY <1>2, <1>3, ReadParts
  <1>8. IsWithin(a, c)
    <2> HIDE DEF c
    <2>1. QED
      BY <1>2, <1>3, <1>4 DEF IsWithin, Taken
  <1>9. Closed(c, list) = With(Object(list.value), list)
    <2> HIDE DEF c, list
    <2>1. QED
      BY <1>4 DEF Closed, Joined
  <1>10. Same(ReadFrom[b], Closed(c, list))
    <2> HIDE DEF c, list
    <2>1. QED
      BY <1>6, <1>7, <1>9 DEF Same
  <1>11. QED
    BY <1>8, <1>10 DEF a

\* and neither can be read below the limit.
LEMMA TooDeep ==
    ASSUME NEW b, IsValueSpot(b), Present(b), Here(b) \in {begin_array, begin_object},
           ~MayOpen(b)
    PROVE  ~Readable(ReadFrom[b])
  <1>1. b \in Spots /\ b.what = "value"
    BY DEF IsValueSpot
  <1>2. IsAt(b.text, b.from, begin_object) \/ IsAt(b.text, b.from, begin_array)
    BY <1>1, SpotParts DEF IsAt, Present, Here
  <1>3. ReadFrom[b] = ValueAt(b, ReadFrom)
    BY <1>1, ReadParts
  <1>4. ReadFrom[b] = Unreadable
    BY <1>2, <1>3 DEF ValueAt
  <1>5. QED
    BY <1>4, UnreadableIs

StringOf(reading) == With(String(reading.value), reading)

\* Strings are the same if their texts are.
LEMMA SameString ==
    ASSUME NEW r, NEW s, Same(r, s)
    PROVE  Same(StringOf(r), StringOf(s))
  BY DEF Same, StringOf, With, Reading, Readable

\* What a quote begins,
LEMMA StringBegins ==
    ASSUME NEW b, IsValueSpot(b), Present(b), Here(b) = string_begin_end
    PROVE  ReadFrom[b] = StringOf(Quoted[Mark(b.text, b.from + 1)])
  <1>1. b \in Spots /\ b.what = "value"
    BY DEF IsValueSpot
  <1>2. /\ IsAt(b.text, b.from, string_begin_end)
        /\ ~IsAt(b.text, b.from, begin_array) /\ ~IsAt(b.text, b.from, begin_object)
    BY <1>1, SpotParts
       DEF IsAt, Present, Here, begin_object, begin_array, string_begin_end
  <1>3. ReadFrom[b] = ValueAt(b, ReadFrom)
    BY <1>1, ReadParts
  <1>4. QED
    BY <1>2, <1>3 DEF ValueAt, StringOf

\* and what anything else does.
LEMMA LiteralBegins ==
    ASSUME NEW b, IsValueSpot(b), Present(b),
           Here(b) \notin {begin_array, begin_object, string_begin_end}
    PROVE  ReadFrom[b] = LiteralAt(b.text, b.from)
  <1>1. b \in Spots /\ b.what = "value"
    BY DEF IsValueSpot
  <1>2. /\ ~IsAt(b.text, b.from, string_begin_end)
        /\ ~IsAt(b.text, b.from, begin_array) /\ ~IsAt(b.text, b.from, begin_object)
    BY DEF IsAt, Here
  <1>3. ReadFrom[b] = ValueAt(b, ReadFrom)
    BY <1>1, ReadParts
  <1>4. QED
    BY <1>2, <1>3 DEF ValueAt
-----------------------------------------------------------------------------
(* The characters of a string, one by one.                                 *)

Behind(buffer, reading) ==
    IF Readable(reading) THEN With(buffer \o reading.value, reading) ELSE Unreadable

Escaped(t, i) ==
    IF i \in DOMAIN t /\ unescape(t[i]) # nullopt
    THEN Preceded(unescape(t[i]), Quoted[Mark(t, i + 1)]) ELSE Unreadable

\* A character may be added to what is before it or to what is behind it.
LEMMA BehindPreceded ==
    ASSUME NEW buffer \in Texts, NEW ch \in STRING, NEW reading,
           Readable(reading) => reading.value \in Texts
    PROVE  Same(Behind(buffer, Preceded(ch, reading)), Behind(Append(buffer, ch), reading))
  <1>1. CASE ~Readable(reading)
    BY <1>1, UnreadableIs, SameUnreadable DEF Behind, Preceded
  <1>2. CASE Readable(reading)
    <2> DEFINE v == reading.value
               p == Preceded(ch, reading)
    <2>1. v \in Texts
      BY <1>2
    <2>2. p = Reading(<<ch>> \o v, reading.next, reading.defects)
      BY <1>2 DEF Preceded, With
    <2>3. buffer \o (<<ch>> \o v) = Append(buffer, ch) \o v
      <3> HIDE DEF v
      <3>1. IsSequence(buffer) /\ IsSequence(v)
        BY <2>1, SeqOfRange DEF IsSequence, Texts
      <3>2. QED
        BY <3>1, AppendThenMore
    <2> DEFINE w == <<ch>> \o v
    <2> HIDE DEF v, p, w
    <2>4. p.next = reading.next /\ p.value = w
      BY <2>2 DEF Reading, w
    <2>5. Behind(buffer, p) = Reading(buffer \o w, reading.next, p.defects)
      BY <1>2, <2>4 DEF Behind, With, Readable
    <2>6. Behind(Append(buffer, ch), reading) = Reading(Append(buffer, ch) \o v, reading.next, reading.defects)
      BY <1>2 DEF Behind, With, v
    <2>7. Same(Behind(buffer, p), Behind(Append(buffer, ch), reading))
      BY <2>3, <2>5, <2>6 DEF Same, Reading, w
    <2>8. QED
      BY <2>7 DEF p
  <1>3. QED
    BY <1>1, <1>2

\* The characters of a string, one after the other.
LEMMA StringGoesOn ==
    ASSUME NEW t \in Texts, NEW i \in Nat \ {0}, NEW buffer \in Texts
    PROVE  LET r == Behind(buffer, Quoted[Mark(t, i)])
           IN  /\ i \in 1 .. Len(t) /\ t[i] = string_begin_end =>
                    Same(r, Reading(buffer, i + 1, {}))
               /\ i \in 1 .. Len(t) /\ t[i] = begin_esc_seq =>
                    r = Behind(buffer, Escaped(t, i + 1))
               /\ /\ i \in 1 .. Len(t) /\ t[i] \notin {string_begin_end, begin_esc_seq}
                  /\ char_should_be_escaped(t[i])
                  => ~Readable(r)
               /\ /\ i \in 1 .. Len(t) /\ t[i] \notin {string_begin_end, begin_esc_seq}
                  /\ ~char_should_be_escaped(t[i])
                  => Same(r, Behind(Append(buffer, t[i]), Quoted[Mark(t, i + 1)]))
               /\ i \notin 1 .. Len(t) => ~Readable(r)
  <1> DEFINE m == Mark(t, i)
             q == Quoted[m]
             r == Behind(buffer, q)
  <1>1. m \in Marks /\ m.text = t /\ m.from = i
    BY MarkParts
  <1>2. q = QuotedAt(m, Quoted)
    BY <1>1, QuotedEquation
  <1>3. DOMAIN t = 1 .. Len(t) /\ Len(t) \in Nat
    BY LenProperties DEF Texts
  <1> HIDE DEF m
  <1>4. ASSUME i \in 1 .. Len(t), t[i] = string_begin_end
        PROVE  Same(r, Reading(buffer, i + 1, {}))
    <2>1. q = Reading(<<>>, i + 1, {})
      BY <1>1, <1>2, <1>3, <1>4 DEF QuotedAt
    <2>2. buffer \o <<>> = buffer
      BY ConcatEmptySeq DEF Texts
    <2> HIDE DEF q
    <2>3. q.value = <<>> /\ q.next = i + 1 /\ Readable(q)
      BY <2>1 DEF Reading, Readable
    <2>4. r = Reading(buffer, i + 1, q.defects)
      BY <2>2, <2>3 DEF Behind, With
    <2> HIDE DEF r
    <2>5. QED
      BY <2>4 DEF Same, Reading
  <1>5. ASSUME i \in 1 .. Len(t), t[i] = begin_esc_seq
        PROVE  r = Behind(buffer, Escaped(t, i + 1))
    <2>1. begin_esc_seq # string_begin_end
      BY DEF begin_esc_seq, string_begin_end
    <2>2. i + 1 + 1 = i + 2
      OBVIOUS
    <2>3. q = Escaped(t, i + 1)
      BY <1>1, <1>2, <1>3, <1>5, <2>1, <2>2 DEF QuotedAt, Escaped
    <2>4. QED
      BY <2>3
  <1>6. ASSUME i \in 1 .. Len(t), t[i] \notin {string_begin_end, begin_esc_seq},
               char_should_be_escaped(t[i])
        PROVE  ~Readable(r)
    <2>1. q = Unreadable
      BY <1>1, <1>2, <1>3, <1>6 DEF QuotedAt
    <2> HIDE DEF q
    <2>2. QED
      BY <2>1, UnreadableIs DEF Behind
  <1>7. ASSUME i \in 1 .. Len(t), t[i] \notin {string_begin_end, begin_esc_seq},
               ~char_should_be_escaped(t[i])
        PROVE  Same(r, Behind(Append(buffer, t[i]), Quoted[Mark(t, i + 1)]))
    <2> DEFINE more == Quoted[Mark(t, i + 1)]
               ch == t[i]
    <2>1. q = Preceded(t[i], more)
      BY <1>1, <1>2, <1>3, <1>7 DEF QuotedAt
    <2>2. Mark(t, i + 1) \in Marks
      BY MarkParts
    <2>3. Readable(more) => more.value \in Texts
      BY <2>2, QuotedIsRead DEF IsRead
    <2>4. ch \in STRING
      BY <1>7, ElementOfSeq DEF Texts
    <2> HIDE DEF q, more, ch
    <2>5. Same(Behind(buffer, Preceded(ch, more)), Behind(Append(buffer, ch), more))
      BY <2>3, <2>4, BehindPreceded
    <2>6. QED
      BY <2>1, <2>5 DEF ch, more
  <1>8. ASSUME i \notin 1 .. Len(t) PROVE ~Readable(r)
    <2>1. q = Unreadable
      BY <1>1, <1>2, <1>3, <1>8 DEF QuotedAt
    <2> HIDE DEF q
    <2>2. QED
      BY <2>1, UnreadableIs DEF Behind
  <1>9. QED
    BY <1>4, <1>5, <1>6, <1>7, <1>8 DEF m

\* The second character of an escape sequence.
LEMMA EscapeGoesOn ==
    ASSUME NEW t \in Texts, NEW i \in Nat \ {0}, NEW buffer \in Texts
    PROVE  LET r == Behind(buffer, Escaped(t, i))
           IN  /\ i \in 1 .. Len(t) /\ unescape(t[i]) # nullopt =>
                    Same(r, Behind(Append(buffer, unescape(t[i])), Quoted[Mark(t, i + 1)]))
               /\ i \in 1 .. Len(t) /\ unescape(t[i]) = nullopt => ~Readable(r)
               /\ i \notin 1 .. Len(t) => ~Readable(r)
  <1> DEFINE r == Behind(buffer, Escaped(t, i))
  <1>1. DOMAIN t = 1 .. Len(t) /\ Len(t) \in Nat
    BY LenProperties DEF Texts
  <1>2. ASSUME i \in 1 .. Len(t), unescape(t[i]) # nullopt
        PROVE  Same(r, Behind(Append(buffer, unescape(t[i])), Quoted[Mark(t, i + 1)]))
    <2> DEFINE more == Quoted[Mark(t, i + 1)]
               ch == unescape(t[i])
    <2>1. Escaped(t, i) = Preceded(ch, more)
      BY <1>1, <1>2 DEF Escaped
    <2>2. Mark(t, i + 1) \in Marks
      BY MarkParts
    <2>3. Readable(more) => more.value \in Texts
      BY <2>2, QuotedIsRead DEF IsRead
    <2>4. ch \in STRING
      BY <1>2, EscapedIsString
    <2> HIDE DEF more, ch
    <2>5. Same(Behind(buffer, Preceded(ch, more)), Behind(Append(buffer, ch), more))
      BY <2>3, <2>4, BehindPreceded
    <2>6. QED
      BY <2>1, <2>5 DEF ch, more
  <1>3. ASSUME ~(i \in 1 .. Len(t) /\ unescape(t[i]) # nullopt) PROVE ~Readable(r)
    <2>1. Escaped(t, i) = Unreadable
      BY <1>1, <1>3 DEF Escaped
    <2>2. QED
      BY <2>1, UnreadableIs DEF Behind
  <1>4. QED
    BY <1>2, <1>3
-----------------------------------------------------------------------------
(* Keywords and numbers.                                                   *)

\* A run ends at the first character that has a role.
LEMMA EndOfRunIsFirst ==
    ASSUME NEW t \in Texts, NEW i \in 1 .. Len(t)
    PROVE  /\ EndOfRun(t, i) \in i .. Len(t) + 1
           /\ EndOfRun(t, i) <= Len(t) => t[EndOfRun(t, i)] \in Structural
           /\ \A j \in i .. Len(t) : j < EndOfRun(t, i) => t[j] \notin Structural
  <1> DEFINE S == {j \in i .. Len(t) : t[j] \in Structural} \cup {Len(t) + 1}
  <1>1. Len(t) \in Nat
    BY LenProperties DEF Texts
  <1>2. S \subseteq Nat /\ S # {}
    BY <1>1
  <1>3. Min(S) \in S /\ \A j \in S : Min(S) <= j
    <2> HIDE DEF S
    <2>1. QED
      BY <1>2, MinimumExists
  <1>4. EndOfRun(t, i) = Min(S)
    BY DEF EndOfRun
  <1>5. ASSUME NEW j \in i .. Len(t), j < Min(S) PROVE t[j] \notin Structural
    <2>1. j \notin S
      <3> HIDE DEF S
      <3>1. j \in Nat
        BY <1>1
      <3>2. j \in S => Min(S) <= j
        BY <1>3
      <3>3. Min(S) \in Nat
        BY <1>2, <1>3, Zenon
      <3>4. QED
        BY <1>5, <3>1, <3>2, <3>3
    <2>2. QED
      BY <2>1
  <1>6. /\ Min(S) \in i .. Len(t) + 1
        /\ Min(S) <= Len(t) => t[Min(S)] \in Structural
    BY <1>1, <1>3
  <1> HIDE DEF S
  <1>7. QED
    BY <1>4, <1>5, <1>6

\* The characters from i on, of which there are buffer, are read as a literal.
LiteralBegun(t, i, p, buffer) ==
    /\ i \in 1 .. p - 1
    /\ Len(buffer) = p - i
    /\ \A j \in i .. p - 1 : buffer[j - i + 1] = t[j]
    /\ t[i] \notin Blanks \cup {begin_array, begin_object, end_array, string_begin_end}
    /\ \A j \in i + 1 .. p - 1 : ~EndsLiteral(t[j])

\* A literal begins,
LEMMA FirstOfLiteral ==
    ASSUME NEW t \in Texts, NEW p \in 1 .. Len(t),
           t[p] \notin Blanks \cup {begin_array, begin_object, end_array, string_begin_end}
    PROVE  LiteralBegun(t, p, p + 1, Append(<<>>, t[p]))
  <1>1. Len(t) \in Nat /\ p \in Nat \ {0}
    BY LenProperties DEF Texts
  <1>2. Append(<<>>, t[p]) = <<t[p]>>
    OBVIOUS
  <1>3. Len(<<t[p]>>) = 1 /\ <<t[p]>>[1] = t[p]
    OBVIOUS
  <1> DEFINE b == <<t[p]>>
  <1> HIDE DEF b
  <1>4. \A j \in p .. p + 1 - 1 : b[j - p + 1] = t[j]
    <2> SUFFICES ASSUME NEW j \in p .. p + 1 - 1 PROVE b[j - p + 1] = t[j]
      OBVIOUS
    <2>1. j = p /\ j - p + 1 = 1
      BY <1>1
    <2>2. QED
      BY <1>3, <2>1 DEF b
  <1>5. p \in 1 .. p + 1 - 1 /\ Len(b) = p + 1 - p /\ p + 1 .. p + 1 - 1 = {}
    BY <1>1, <1>3 DEF b
  <1>6. QED
    BY <1>2, <1>4, <1>5 DEF LiteralBegun, b

\* goes on,
LEMMA NextOfLiteral ==
    ASSUME NEW t \in Texts, NEW p \in 1 .. Len(t), ~EndsLiteral(t[p]),
           NEW buffer \in Texts, NEW i \in Nat, LiteralBegun(t, i, p, buffer)
    PROVE  LiteralBegun(t, i, p + 1, Append(buffer, t[p]))
  <1> DEFINE b == Append(buffer, t[p])
  <1>1. Len(t) \in Nat /\ p \in Nat \ {0} /\ Len(buffer) \in Nat
    BY LenProperties DEF Texts
  <1>2. /\ i \in 1 .. p - 1 /\ Len(buffer) = p - i
        /\ \A j \in i .. p - 1 : buffer[j - i + 1] = t[j]
        /\ \A j \in i + 1 .. p - 1 : ~EndsLiteral(t[j])
        /\ t[i] \notin Blanks \cup {begin_array, begin_object, end_array, string_begin_end}
    BY DEF LiteralBegun
  <1>3. /\ Len(b) = Len(buffer) + 1 /\ b[Len(buffer) + 1] = t[p]
        /\ \A j \in 1 .. Len(buffer) : b[j] = buffer[j]
    <2>1. IsSequence(buffer)
      BY SeqOfRange DEF IsSequence, Texts
    <2>2. QED
      BY <2>1, Push
  <1> HIDE DEF b
  <1>4. \A j \in i .. p + 1 - 1 : b[j - i + 1] = t[j]
    <2> SUFFICES ASSUME NEW j \in i .. p + 1 - 1 PROVE b[j - i + 1] = t[j]
      OBVIOUS
    <2>1. CASE j = p
      BY <1>1, <1>2, <1>3, <2>1
    <2>2. CASE j # p
      <3>1. j \in i .. p - 1 /\ j - i + 1 \in 1 .. Len(buffer)
        BY <1>1, <1>2, <2>2
      <3>2. QED
        BY <1>2, <1>3, <3>1
    <2>3. QED
      BY <2>1, <2>2
  <1>5. \A j \in i + 1 .. p + 1 - 1 : ~EndsLiteral(t[j])
    <2> SUFFICES ASSUME NEW j \in i + 1 .. p + 1 - 1 PROVE ~EndsLiteral(t[j])
      OBVIOUS
    <2>1. j = p \/ j \in i + 1 .. p - 1
      BY <1>1, <1>2
    <2>2. QED
      BY <1>2, <2>1
  <1>6. i \in 1 .. p + 1 - 1 /\ Len(b) = p + 1 - i
    BY <1>1, <1>2, <1>3
  <1> DEFINE q == p + 1
  <1>7. /\ i \in 1 .. q - 1 /\ Len(b) = q - i
        /\ \A j \in i .. q - 1 : b[j - i + 1] = t[j]
        /\ \A j \in i + 1 .. q - 1 : ~EndsLiteral(t[j])
        /\ t[i] \notin Blanks \cup {begin_array, begin_object, end_array, string_begin_end}
    BY <1>2, <1>4, <1>5, <1>6
  <1> HIDE DEF q
  <1>8. LiteralBegun(t, i, q, b)
    BY <1>7 DEF LiteralBegun
  <1>9. QED
    BY <1>8 DEF b, q

\* The characters that end a literal have a role in the grammar, and of those
\* that do not end one few have.
LEMMA StructuralEnds ==
    /\ \A ch : EndsLiteral(ch) => ch \in Structural
    /\ \A ch : ch \in Structural /\ ~EndsLiteral(ch) =>
          ch \notin Blanks \cup {value_separator, end_array, end_object}
  BY DEF EndsLiteral, Structural, Blanks, is_whitespace, value_separator, end_array, end_object

\* and ends at the first character that has a role, as a literal or as nothing.
LEMMA WholeLiteral ==
    ASSUME NEW t \in Texts, NEW p \in 2 .. Len(t) + 1,
           p <= Len(t) => t[p] \in Structural,
           NEW buffer \in Texts, NEW i \in Nat, LiteralBegun(t, i, p, buffer),
           \A j \in i .. p - 1 : t[j] \notin Structural
    PROVE  LiteralAt(t, i) = IF buffer \in DOMAIN Literals
                             THEN Reading(Literals[buffer], p, {}) ELSE Unreadable
  <1> DEFINE e == EndOfRun(t, i)
             run == SubSeq(t, i, p - 1)
  <1>1. Len(t) \in Nat /\ p \in Nat /\ Len(buffer) \in Nat
    BY LenProperties DEF Texts
  <1>2. /\ i \in 1 .. p - 1 /\ Len(buffer) = p - i
        /\ \A j \in i .. p - 1 : buffer[j - i + 1] = t[j]
    BY DEF LiteralBegun
  <1>3. e = p
    <2>1. i \in 1 .. Len(t)
      BY <1>1, <1>2
    <2>2. /\ e \in i .. Len(t) + 1
          /\ e <= Len(t) => t[e] \in Structural
          /\ \A j \in i .. Len(t) : j < e => t[j] \notin Structural
      BY <2>1, EndOfRunIsFirst
    <2> HIDE DEF e
    <2>3. ~(e < p)
      BY <1>1, <1>2, <2>2
    <2>4. ~(p < e)
      BY <1>1, <1>2, <2>2
    <2>5. QED
      BY <1>1, <2>2, <2>3, <2>4
  <1>4. run = buffer
    <2>1. \A j \in i .. p - 1 : t[j] \in STRING
      <3>1. \A j \in i .. p - 1 : j \in 1 .. Len(t)
        BY <1>1, <1>2
      <3>2. QED
        BY <3>1, ElementOfSeq DEF Texts
    <2>2. /\ run \in Seq(STRING) /\ Len(run) = (IF i <= p - 1 THEN p - 1 - i + 1 ELSE 0)
          /\ \A j \in 1 .. p - 1 - i + 1 : run[j] = t[i + j - 1]
      <3> DEFINE m == p - 1
      <3>1. i \in Int /\ m \in Int /\ \A j \in i .. m : t[j] \in STRING
        BY <1>1, <1>2, <2>1
      <3> HIDE DEF m
      <3>2. /\ SubSeq(t, i, m) \in Seq(STRING)
            /\ Len(SubSeq(t, i, m)) = (IF i <= m THEN m - i + 1 ELSE 0)
            /\ \A j \in 1 .. m - i + 1 : SubSeq(t, i, m)[j] = t[i + j - 1]
        BY <3>1, SubSeqProperties
      <3>3. QED
        BY <3>2 DEF m
    <2> HIDE DEF run
    <2>3. Len(run) = Len(buffer)
      BY <1>1, <1>2, <2>2
    <2>4. \A j \in 1 .. Len(run) : run[j] = buffer[j]
      <3> SUFFICES ASSUME NEW j \in 1 .. Len(run) PROVE run[j] = buffer[j]
        OBVIOUS
      <3>1. j \in 1 .. p - 1 - i + 1 /\ i + j - 1 \in i .. p - 1 /\ (i + j - 1) - i + 1 = j
        BY <1>1, <1>2, <2>3
      <3>2. QED
        BY <1>2, <2>2, <3>1
    <2>5. QED
      BY <2>2, <2>3, <2>4, SeqEqual DEF Texts
  <1>5. LiteralAt(t, i) = IF run \in DOMAIN Literals THEN Reading(Literals[run], p, {}) ELSE Unreadable
    BY <1>3 DEF LiteralAt
  <1>6. QED
    BY <1>4, <1>5

\* A character with a role in the grammar breaks a literal off.
LEMMA BrokenLiteral ==
    ASSUME NEW t \in Texts, NEW p \in 2 .. Len(t) + 1,
           NEW buffer \in Texts, NEW i \in Nat, LiteralBegun(t, i, p, buffer),
           NEW k \in i .. p - 1, t[k] \in Structural
    PROVE  /\ buffer \notin DOMAIN Literals
           /\ LET r == LiteralAt(t, i)
              IN  \/ ~Readable(r)
                  \/ /\ r.next \in i + 1 .. Len(t)
                     /\ t[r.next] \notin Blanks \cup {value_separator, end_array, end_object}
  <1> DEFINE e == EndOfRun(t, i)
             r == LiteralAt(t, i)
  <1>1. Len(t) \in Nat /\ p \in Nat /\ Len(buffer) \in Nat /\ DOMAIN buffer = 1 .. Len(buffer)
    BY LenProperties DEF Texts
  <1>2. /\ i \in 1 .. p - 1 /\ Len(buffer) = p - i
        /\ \A j \in i .. p - 1 : buffer[j - i + 1] = t[j]
        /\ \A j \in i + 1 .. p - 1 : ~EndsLiteral(t[j])
    BY DEF LiteralBegun
  <1>3. buffer \notin DOMAIN Literals
    <2>1. k - i + 1 \in DOMAIN buffer /\ buffer[k - i + 1] \in Structural
      BY <1>1, <1>2
    <2>2. QED
      BY <2>1, RunsAssumption
  <1>4. /\ e \in i .. p - 1 /\ e \in i .. Len(t) /\ t[e] \in Structural
    <2>1. i \in 1 .. Len(t)
      BY <1>1, <1>2
    <2>2. /\ e \in i .. Len(t) + 1
          /\ e <= Len(t) => t[e] \in Structural
          /\ \A j \in i .. Len(t) : j < e => t[j] \notin Structural
      BY <2>1, EndOfRunIsFirst
    <2> HIDE DEF e
    <2>3. e <= k
      BY <1>1, <1>2, <2>2
    <2>4. QED
      BY <1>1, <1>2, <2>2, <2>3
  <1>5. CASE e = i
    <2>1. SubSeq(t, i, i - 1) = <<>>
      <3>1. \A j \in i .. i - 1 : t[j] \in STRING
        BY <1>1, <1>2
      <3>2. i \in Int /\ i - 1 \in Int
        BY <1>2
      <3> DEFINE m == i - 1
      <3>3. ~(i <= m)
        BY <1>2
      <3> HIDE DEF m
      <3>4. SubSeq(t, i, m) \in Seq(STRING) /\ Len(SubSeq(t, i, m)) = 0
        BY <3>1, <3>2, <3>3, SubSeqProperties DEF m
      <3>5. SubSeq(t, i, m) = <<>>
        BY <3>4, EmptySeq
      <3>6. QED
        BY <3>5 DEF m
    <2>2. r = Unreadable
      BY <1>5, <2>1, RunsAssumption DEF LiteralAt
    <2>3. QED
      BY <1>3, <2>2, UnreadableIs
  <1>6. CASE e # i
    <2>1. r = Unreadable \/ r.next = e
      BY DEF LiteralAt, Reading
    <2> HIDE DEF e, r
    <2>2. e \in i + 1 .. Len(t) /\ e \in i + 1 .. p - 1
      BY <1>1, <1>2, <1>4, <1>6
    <2>3. t[e] \notin Blanks \cup {value_separator, end_array, end_object}
      BY <1>2, <1>4, <2>2, StructuralEnds
    <2>4. QED
      BY <1>3, <2>1, <2>2, <2>3, UnreadableIs DEF r
  <1>7. QED
    BY <1>5, <1>6
-----------------------------------------------------------------------------
(* The place in a container at which the machine is.                       *)

PlaceIn(u, limit, depth, container, i) ==
    Spot(IF container.type = "array" THEN "items" ELSE "members",
         u, i, depth, limit, Taken(container))

\* A place is a spot in its container,
LEMMA PlaceWithin ==
    ASSUME NEW u \in Texts, NEW limit \in Nat \cup {nullopt}, NEW depth \in Nat,
           NEW c, IsContainer(c), NEW i \in Nat \ {0}
    PROVE  LET at == PlaceIn(u, limit, depth, c, i)
           IN  /\ IsWithin(at, c)
               /\ at.text = u /\ at.from = i /\ at.depth = depth /\ at.limit = limit
  <1> DEFINE w == IF c.type = "array" THEN "items" ELSE "members"
             k == Taken(c)
             at == Spot(w, u, i, depth, limit, k)
  <1>1. w \in Parts
    BY DEF Parts
  <1>2. k \in SUBSET Texts
    BY DEF Taken, IsContainer
  <1> HIDE DEF w, k
  <1>3. at \in Spots
    BY <1>1, <1>2, NewSpot, Zenon
  <1>4. /\ at.what = w /\ at.text = u /\ at.from = i /\ at.depth = depth /\ at.limit = limit
        /\ at.taken = k
    BY DEF Spot
  <1> HIDE DEF at
  <1>5. at = PlaceIn(u, limit, depth, c, i)
    BY DEF PlaceIn, at, w, k
  <1>6. QED
    BY <1>3, <1>4, <1>5 DEF IsWithin, w, k

\* at any index,
LEMMA PlaceFurther ==
    ASSUME NEW u, NEW limit, NEW depth, NEW c, NEW i, NEW j
    PROVE  Further(PlaceIn(u, limit, depth, c, i), j) = PlaceIn(u, limit, depth, c, j)
  BY DEF Further, Onward, PlaceIn, Spot

\* and all such spots are places.
LEMMA WithinIsPlace ==
    ASSUME NEW c, NEW at, IsWithin(at, c)
    PROVE  at = PlaceIn(at.text, at.limit, at.depth, c, at.from)
  <1>1. at \in Spots
    BY DEF IsWithin
  <1>2. at = [what |-> at.what, text |-> at.text, from |-> at.from, depth |-> at.depth,
              limit |-> at.limit, taken |-> at.taken]
    BY <1>1 DEF Spots
  <1>3. QED
    BY <1>2 DEF PlaceIn, Spot, IsWithin
-----------------------------------------------------------------------------
(* Values that have been read are stored.                                  *)

AfterEntry(at, container) ==
    IF container.type = "array" THEN MoreItemsAt(at, ReadFrom) ELSE MoreMembersAt(at, ReadFrom)

\* What store_value makes of an entry that has been read.
LEMMA StoredEntry ==
    ASSUME NEW context, IsContainer(context.value), context.key \in Texts,
           NEW at, IsWithin(at, context.value),
           NEW i \in Nat, NEW item, Advances(item, at.text, i)
    PROVE  LET c   == context.value
               res == store_value(c, context.key, item.value)
               d   == res.parent
               b   == PlaceIn(at.text, at.limit, at.depth, d, item.next)
               e   == Entry(at, context, i, item)
           IN  /\ IsContainer(d) /\ d.type = c.type
               /\ res.next_state = IF d.type = "array" THEN "after_value_array"
                                                       ELSE "after_value_object"
               /\ res.err = "more_data_needed" \/ at.text[item.next - 1] = end_array =>
                     Same(Closed(c, e), Closed(d, AfterEntry(b, d)))
               /\ res.err # "more_data_needed" /\ at.text[item.next - 1] # end_array =>
                     ~Readable(e)
  <1> DEFINE c   == context.value
             key == context.key
             v   == item.value
             n   == item.next
             res == store_value(c, key, v)
             d   == res.parent
             b   == PlaceIn(at.text, at.limit, at.depth, d, n)
             e   == Entry(at, context, i, item)
  <1>0. IsContainer(c) /\ key \in Texts
    OBVIOUS
  <1>1. at \in Spots /\ Len(at.text) \in Nat
    BY SpotParts DEF IsWithin
  <1>2. n \in Nat \ {0}
    BY <1>1 DEF Advances
  <1>3. c.type = "array" \/ c.type = "object"
    BY DEF IsContainer
  <1>4. CASE c.type = "array"
    <2>1. /\ d = push_back(c, v) /\ res.next_state = "after_value_array"
          /\ res.err = "more_data_needed"
      BY <1>4 DEF store_value
    <2>2. IsContainer(d) /\ d.type = "array"
      <3> HIDE DEF v, d
      <3>1. QED
        BY <1>4, <2>1, PushedContainer
    <2>3. Same(Closed(c, Item(at, i, item, ReadFrom)), Closed(d, MoreItemsAt(Further(at, n), ReadFrom)))
      <3> HIDE DEF d
      <3>1. QED
        BY <1>4, <2>1, StoredItem
    <2>4. Further(at, n) = b
      <3>1. Taken(d) = {} /\ at.taken = {} /\ at.what = "items"
        BY <1>4, <2>2 DEF Taken, IsWithin
      <3> HIDE DEF d, n
      <3>2. QED
        BY <2>2, <3>1 DEF Further, Onward, PlaceIn
    <2>5. e = Item(at, i, item, ReadFrom)
      BY <1>4 DEF Entry
    <2>6. AfterEntry(b, d) = MoreItemsAt(b, ReadFrom)
      BY <2>2 DEF AfterEntry
    <2> HIDE DEF d, e, b, res
    <2>7. QED
      BY <1>4, <2>1, <2>2, <2>3, <2>4, <2>5, <2>6 DEF d, e, b, res
  <1>5. CASE c.type = "object"
    <2> DEFINE ins == insert(c, key, v)
    <2>1. /\ d = ins.object /\ res.next_state = "after_value_object"
          /\ res.err = IF ins.second THEN "more_data_needed" ELSE "key_already_exists"
      BY <1>5 DEF store_value
    <2>2. e = Member(at, key, i, item, ReadFrom)
      BY <1>5 DEF Entry
    <2>3. CASE key \notin DOMAIN c.members
      <3>1. ins.second
        BY <2>3 DEF insert
      <3> DEFINE k == at.taken \cup {key}
                 f == Onward(at, "members", n, k)
      <3>2. /\ IsWithin(f, d)
            /\ Same(Closed(c, Member(at, key, i, item, ReadFrom)), Closed(d, MoreMembersAt(f, ReadFrom)))
        <4> HIDE DEF d
        <4>1. QED
          BY <1>5, <2>1, <2>3, StoredMember
      <3>3. IsContainer(d) /\ d.type = "object"
        <4> HIDE DEF v, key, d, c
        <4>1. LET o == insert(c, key, v).object
              IN  /\ IsContainer(o) /\ o.type = "object"
                  /\ DOMAIN o.members = DOMAIN c.members \cup {key}
                  /\ o.members = [x \in DOMAIN c.members \cup {key} |->
                                      IF x = key THEN v ELSE c.members[x]]
          BY <1>0, <1>5, <2>3, InsertedMember
        <4>2. QED
          BY <2>1, <4>1
      <3>4. f.text = at.text /\ f.from = n /\ f.depth = at.depth /\ f.limit = at.limit
        BY DEF Onward, Spot
      <3> HIDE DEF f
      <3>5. f = b
        <4> HIDE DEF d, n
        <4>1. QED
          BY <3>2, <3>4, WithinIsPlace
      <3>6. AfterEntry(b, d) = MoreMembersAt(f, ReadFrom)
        BY <3>3, <3>5 DEF AfterEntry
      <3> HIDE DEF d, e, b, res, ins
      <3>7. QED
        BY <1>5, <2>1, <2>2, <3>1, <3>2, <3>3, <3>6 DEF d, e, b, res
    <2>4. CASE key \in DOMAIN c.members
      <3>1. ~ins.second /\ d = c
        BY <2>1, <2>4 DEF insert
      <3>2. Further(at, n) = b
        <4>1. at.taken = Taken(c) /\ at.what = "members"
          BY <1>5 DEF IsWithin
        <4> HIDE DEF d, n
        <4>2. QED
          BY <1>5, <3>1, <4>1 DEF Further, Onward, PlaceIn
      <3>3. AfterEntry(b, d) = MoreMembersAt(b, ReadFrom)
        BY <1>5, <3>1 DEF AfterEntry
      <3>4. ASSUME at.text[n - 1] = end_array
            PROVE  Same(Closed(c, e), Closed(c, MoreMembersAt(Further(at, n), ReadFrom)))
        BY <1>5, <2>2, <2>4, <3>4, DroppedMember
      <3>5. ASSUME at.text[n - 1] # end_array PROVE ~Readable(e)
        BY <1>5, <2>2, <2>4, <3>5, RefusedMember
      <3> HIDE DEF d, e, b, res, ins, n
      <3>6. QED
        BY <1>5, <2>1, <3>1, <3>2, <3>3, <3>4, <3>5 DEF d, e, b, res, n
    <2>5. QED
      BY <2>3, <2>4
  <1>6. QED
    BY <1>3, <1>4, <1>5

\* The place behind an entry, in the container that holds it.
LEMMA PlaceAfter ==
    ASSUME NEW c, NEW at, IsWithin(at, c), NEW d, IsContainer(d), NEW n \in Nat \ {0}
    PROVE  IsWithin(PlaceIn(at.text, at.limit, at.depth, d, n), d)
  <1>1. at.text \in Texts /\ at.limit \in Nat \cup {nullopt} /\ at.depth \in Nat
    BY SpotParts DEF IsWithin
  <1>2. QED
    BY <1>1, PlaceWithin, Zenon

\* Nothing but blanks and delimiters may follow a value.
LEMMA NothingAfter ==
    ASSUME NEW context, IsContainer(context.value), context.key \in Texts,
           NEW at, IsWithin(at, context.value),
           NEW i \in Nat, NEW item, item.next \in 1 .. Len(at.text) + 1,
           item.next <= Len(at.text) =>
                at.text[item.next] \notin Blanks \cup {value_separator, end_array, end_object}
    PROVE  ~Readable(Entry(at, context, i, item))
  <1> DEFINE c   == context.value
             key == context.key
             n   == item.next
             res == store_value(c, key, item.value)
             d   == res.parent
             b   == PlaceIn(at.text, at.limit, at.depth, d, n)
             e   == Entry(at, context, i, item)
             ctx == [key |-> <<>>, value |-> d]
  <1>1. at.text \in Texts /\ Len(at.text) \in Nat /\ n \in Nat \ {0}
        /\ at.limit \in Nat \cup {nullopt} /\ at.depth \in Nat
    BY SpotParts DEF IsWithin
  <1>2. CASE ~Advances(item, at.text, i)
    BY <1>2, UnreadableIs DEF Entry, Item, Member
  <1>3. CASE Advances(item, at.text, i)
    <2>1. /\ IsContainer(d)
          /\ res.err = "more_data_needed" \/ at.text[n - 1] = end_array =>
                Same(Closed(c, e), Closed(d, AfterEntry(b, d)))
          /\ res.err # "more_data_needed" /\ at.text[n - 1] # end_array => ~Readable(e)
      BY <1>3, StoredEntry
    <2>2. IsWithin(b, d) /\ b.text = at.text /\ b.from = n
      <3> HIDE DEF d, n
      <3>1. n \in Nat \ {0} /\ IsContainer(d)
        BY <1>1, <2>1
      <3>2. IsWithin(b, d)
        BY <3>1, PlaceAfter, Zenon
      <3>3. b.text = at.text /\ b.from = n
        BY DEF PlaceIn, Spot
      <3>4. QED
        BY <3>2, <3>3
    <2>3. ~Readable(AfterEntry(b, d))
      <3>1. ctx.value = d
        OBVIOUS
      <3>2. \/ Present(b) /\ Here(b) \notin Blanks \cup {value_separator, end_array, end_object}
            \/ Missing(b)
        <4> HIDE DEF b, n
        <4>1. n \in 1 .. Len(at.text) \/ n = Len(at.text) + 1
          BY <1>1 DEF n
        <4>2. n <= Len(at.text) =>
                at.text[n] \notin Blanks \cup {value_separator, end_array, end_object}
          BY DEF n
        <4>3. QED
          BY <2>2, <4>1, <4>2 DEF Present, Missing, Here
      <3> HIDE DEF b, ctx
      <3>3. CASE d.type = "array"
        <4> HIDE DEF d
        <4>1. ~Readable(MoreItemsAt(b, ReadFrom))
          BY <2>2, <3>1, <3>2, <3>3, BetweenItems
        <4>2. QED
          BY <3>3, <4>1 DEF AfterEntry
      <3>4. CASE d.type # "array"
        <4> HIDE DEF d
        <4>0. d.type = "object"
          BY <2>1, <3>4 DEF IsContainer
        <4>1. ~Readable(MoreMembersAt(b, ReadFrom))
          BY <2>2, <3>1, <3>2, <4>0, BetweenMembers
        <4>2. QED
          BY <3>4, <4>1 DEF AfterEntry
      <3>5. QED
        BY <3>3, <3>4
    <2> HIDE DEF c, d, e, b, res, n
    <2>4. Closed(c, e).next = e.next /\ Closed(d, AfterEntry(b, d)).next = AfterEntry(b, d).next
      BY UnreadableClosed
    <2>5. QED
      BY <2>1, <2>3, <2>4 DEF Same, Readable, e
  <1>4. QED
    BY <1>2, <1>3

\* A literal that is read.
LEMMA LiteralFrom ==
    ASSUME NEW context, NEW at, IsWithin(at, context.value), NEW p, NEW buffer, NEW i \in Nat,
           LiteralBegun(at.text, i, p, buffer), p \in 2 .. Len(at.text) + 1
    PROVE  ValueFrom(at, i) = LiteralAt(at.text, i)
  <1> DEFINE b == Onward(at, "value", i, {})
  <1>1. Len(at.text) \in Nat /\ i \in Nat \ {0} /\ i \in 1 .. Len(at.text)
    BY SpotParts DEF IsWithin, LiteralBegun
  <1>2. /\ IsValueSpot(b) /\ ValueFrom(at, i) = ReadFrom[b]
        /\ b.text = at.text /\ b.from = i
    BY <1>1, ValueSpot
  <1> HIDE DEF b
  <1>3. Present(b) /\ Here(b) \notin {begin_array, begin_object, string_begin_end}
    BY <1>1, <1>2 DEF Present, Here, LiteralBegun
  <1>4. QED
    BY <1>2, <1>3, LiteralBegins

\* A literal that ends has been read as the grammar reads it.
LEMMA LiteralEnds ==
    ASSUME NEW context, IsContainer(context.value), context.key \in Texts,
           NEW at, IsWithin(at, context.value), NEW buffer \in Texts, NEW i \in Nat,
           LiteralBegun(at.text, i, at.from, buffer)
    PROVE  /\ Missing(at) => ~Readable(Entry(at, context, i, ValueFrom(at, i)))
           /\ Present(at) /\ EndsLiteral(Here(at)) =>
                IF buffer \in DOMAIN Literals
                THEN /\ ValueFrom(at, i) = Reading(Literals[buffer], at.from, {})
                     /\ at.from - 1 \in 1 .. Len(at.text) /\ at.text[at.from - 1] # end_array
                     /\ Advances(ValueFrom(at, i), at.text, i)
                ELSE ~Readable(Entry(at, context, i, ValueFrom(at, i)))
  <1> DEFINE t == at.text
             p == at.from
             r == ValueFrom(at, i)
  <1>1. t \in Texts /\ Len(t) \in Nat /\ p \in Nat \ {0}
    BY SpotParts DEF IsWithin
  <1>2. i \in 1 .. p - 1
    BY DEF LiteralBegun
  <1> SUFFICES ASSUME \/ Missing(at)
                      \/ Present(at) /\ EndsLiteral(Here(at))
               PROVE  IF buffer \in DOMAIN Literals /\ Present(at)
                      THEN /\ r = Reading(Literals[buffer], p, {})
                           /\ p - 1 \in 1 .. Len(t) /\ t[p - 1] # end_array
                           /\ Advances(r, t, i)
                      ELSE ~Readable(Entry(at, context, i, r))
    BY <1>1 DEF Missing, Present
  <1>3. p \in 2 .. Len(t) + 1 /\ (Missing(at) <=> ~Present(at)) /\ (p <= Len(t) <=> Present(at))
    BY <1>1, <1>2 DEF Missing, Present
  <1>4. p <= Len(t) => t[p] \in Structural
    BY <1>3, StructuralEnds DEF Here
  <1>5. r = LiteralAt(t, i)
    BY <1>3, LiteralFrom
  <1>6. CASE \A j \in i .. p - 1 : t[j] \notin Structural
    <2>1. r = IF buffer \in DOMAIN Literals THEN Reading(Literals[buffer], p, {}) ELSE Unreadable
      <3> HIDE DEF t, p, r
      <3>1. LiteralBegun(t, i, p, buffer)
        BY DEF t, p
      <3>2. QED
        BY <1>1, <1>3, <1>4, <1>5, <1>6, <3>1, WholeLiteral
    <2>2. CASE buffer \notin DOMAIN Literals
      BY <2>1, <2>2, UnreadableIs, UnreadableEntry
    <2>3. CASE buffer \in DOMAIN Literals /\ Present(at)
      <3>1. p - 1 \in i .. p - 1 /\ p - 1 \in 1 .. Len(t) /\ p \in i + 1 .. Len(t) + 1
        BY <1>1, <1>2, <1>3
      <3>2. t[p - 1] # end_array
        BY <1>6, <3>1 DEF Structural, end_array
      <3>3. r.next = p
        BY <2>1, <2>3 DEF Reading
      <3>4. QED
        BY <2>1, <2>3, <3>1, <3>2, <3>3 DEF Advances
    <2>4. CASE buffer \in DOMAIN Literals /\ ~Present(at)
      <3>1. r.next = p
        BY <2>1, <2>4 DEF Reading
      <3> HIDE DEF r
      <3>2. r.next \in 1 .. Len(t) + 1 /\ ~(r.next <= Len(t))
        BY <1>1, <1>3, <2>4, <3>1
      <3>3. QED
        BY <2>4, <3>2, NothingAfter
    <2>5. QED
      BY <2>2, <2>3, <2>4
  <1>7. CASE \E j \in i .. p - 1 : t[j] \in Structural
    <2> PICK k \in i .. p - 1 : t[k] \in Structural
      BY <1>7
    <2>1. /\ buffer \notin DOMAIN Literals
          /\ \/ ~Readable(r)
             \/ /\ r.next \in i + 1 .. Len(t)
                /\ t[r.next] \notin Blanks \cup {value_separator, end_array, end_object}
      <3> HIDE DEF t, p, r
      <3>1. LiteralBegun(t, i, p, buffer)
        BY DEF t, p
      <3>2. QED
        BY <1>1, <1>3, <1>5, <3>1, BrokenLiteral
    <2> HIDE DEF r
    <2>2. CASE ~Readable(r)
      BY <2>1, <2>2, UnreadableIs, UnreadableEntry
    <2>3. CASE Readable(r)
      <3>1. r.next \in 1 .. Len(t) + 1
        BY <1>1, <1>2, <2>1, <2>3
      <3>2. QED
        BY <2>1, <2>3, <3>1, NothingAfter
    <2>4. QED
      BY <2>2, <2>3
  <1>8. QED
    BY <1>6, <1>7

-----------------------------------------------------------------------------
(* What the open containers make of the rest of a text.                    *)

\* The reading of a container from that of the entry in it that is open, which
\* begins before p.
Link(u, limit, contexts, k, p, inner, outer) ==
    \E s \in 1 .. p - 1 :
        Same(outer, Closed(contexts[k].value,
                           Entry(PlaceIn(u, limit, k, contexts[k].value, 1), contexts[k], s, inner)))

\* What is read of the whole text if rest is read of the innermost container.
Denotes(u, limit, contexts, p, whole, rest) ==
    \E v :
        /\ Same(whole, v[1])
        /\ \A k \in 1 .. Len(contexts) - 1 : Link(u, limit, contexts, k, p, v[k + 1], v[k])
        /\ Same(v[Len(contexts)], Closed(contexts[Len(contexts)].value, rest))

\* Links and what they denote stay as they are while the text goes on.
LEMMA LinkOnward ==
    ASSUME NEW u, NEW limit, NEW S, NEW T, NEW k, S[k] = T[k], NEW p \in Nat, NEW q \in Nat, p <= q,
           NEW inner, NEW outer, Link(u, limit, S, k, p, inner, outer)
    PROVE  Link(u, limit, T, k, q, inner, outer)
  BY DEF Link

\* The innermost container takes in what has been read of it.
LEMMA DenotesInTop ==
    ASSUME NEW u, NEW limit, NEW S, NEW n \in Nat \ {0}, Len(S) = n,
           NEW T, Len(T) = n, \A k \in 1 .. n - 1 : T[k] = S[k],
           NEW p \in Nat, NEW q \in Nat, p <= q, NEW whole, NEW r, Denotes(u, limit, S, p, whole, r),
           NEW s, Same(Closed(S[n].value, r), Closed(T[n].value, s))
    PROVE  Denotes(u, limit, T, q, whole, s)
  <1> PICK v :
        /\ Same(whole, v[1])
        /\ \A k \in 1 .. n - 1 : Link(u, limit, S, k, p, v[k + 1], v[k])
        /\ Same(v[n], Closed(S[n].value, r))
    BY DEF Denotes
  <1>1. ASSUME NEW k \in 1 .. n - 1 PROVE Link(u, limit, T, k, q, v[k + 1], v[k])
    <2> DEFINE inner == v[k + 1]
               outer == v[k]
    <2>1. Link(u, limit, S, k, p, inner, outer) /\ S[k] = T[k]
      OBVIOUS
    <2> HIDE DEF inner, outer
    <2>2. Link(u, limit, T, k, q, inner, outer)
      BY <2>1, LinkOnward
    <2>3. QED
      BY <2>2 DEF inner, outer
  <1>2. Same(v[n], Closed(T[n].value, s))
    BY SameTwice
  <1>3. QED
    BY <1>1, <1>2 DEF Denotes

LEMMA DenotesOnward ==
    ASSUME NEW u, NEW limit, NEW S, Len(S) \in Nat \ {0},
           NEW p \in Nat, NEW q \in Nat, p <= q, NEW whole, NEW r, Denotes(u, limit, S, p, whole, r),
           NEW s, Same(r, s)
    PROVE  Denotes(u, limit, S, q, whole, s)
  <1> DEFINE n == Len(S)
             c == S[n].value
  <1> HIDE DEF c
  <1>1. Same(Closed(c, r), Closed(c, s))
    BY SameClosed
  <1> HIDE DEF n
  <1>2. Len(S) = n /\ n \in Nat \ {0}
    BY DEF n
  <1>3. Same(Closed(S[n].value, r), Closed(S[n].value, s))
    BY <1>1 DEF c
  <1>4. QED
    BY <1>2, <1>3, DenotesInTop

\* A container is opened.
LEMMA DenotesInside ==
    ASSUME NEW u, NEW limit, NEW S, NEW n \in Nat \ {0}, Len(S) = n,
           NEW T, Len(T) = n + 1, \A k \in 1 .. n : T[k] = S[k],
           NEW p \in Nat, NEW q \in Nat, p <= q, NEW whole, NEW r, Denotes(u, limit, S, p, whole, r),
           NEW i \in 1 .. q - 1, NEW x,
           Same(r, Entry(PlaceIn(u, limit, n, S[n].value, 1), S[n], i, x)),
           NEW s, Same(x, Closed(T[n + 1].value, s))
    PROVE  Denotes(u, limit, T, q, whole, s)
  <1> PICK v :
        /\ Same(whole, v[1])
        /\ \A k \in 1 .. n - 1 : Link(u, limit, S, k, p, v[k + 1], v[k])
        /\ Same(v[n], Closed(S[n].value, r))
    BY DEF Denotes
  <1> DEFINE w == [k \in 1 .. n + 1 |-> IF k = n + 1 THEN x ELSE v[k]]
  <1>1. w[n + 1] = x /\ \A k \in 1 .. n : w[k] = v[k]
    OBVIOUS
  <1> HIDE DEF w
  <1>2. Link(u, limit, T, n, q, x, v[n])
    <2> DEFINE c == S[n].value
               e == Entry(PlaceIn(u, limit, n, c, 1), S[n], i, x)
               y == v[n]
    <2>1. Same(r, e) /\ Same(y, Closed(c, r))
      OBVIOUS
    <2> HIDE DEF e, c, y
    <2>2. Same(y, Closed(c, e))
      BY <2>1, SameClosed, SameTwice
    <2>3. T[n] = S[n] /\ i \in 1 .. q - 1
      OBVIOUS
    <2>4. QED
      BY <2>2, <2>3 DEF e, c, y, Link
  <1>3. ASSUME NEW k \in 1 .. n - 1 PROVE Link(u, limit, T, k, q, v[k + 1], v[k])
    <2> DEFINE inner == v[k + 1]
               outer == v[k]
    <2>1. Link(u, limit, S, k, p, inner, outer) /\ S[k] = T[k]
      OBVIOUS
    <2> HIDE DEF inner, outer
    <2>2. Link(u, limit, T, k, q, inner, outer)
      BY <2>1, LinkOnward
    <2>3. QED
      BY <2>2 DEF inner, outer
  <1>4. ASSUME NEW k \in 1 .. (n + 1) - 1 PROVE Link(u, limit, T, k, q, w[k + 1], w[k])
    <2>1. CASE k = n
      BY <1>1, <1>2, <2>1
    <2>2. CASE k # n
      <3>0. k \in 1 .. n - 1 /\ k \in 1 .. n /\ k + 1 \in 1 .. n
        BY <2>2
      <3>1. k \in 1 .. n - 1 /\ w[k] = v[k] /\ w[k + 1] = v[k + 1]
        BY <1>1, <3>0
      <3>2. QED
        BY <1>3, <3>1
    <2>3. QED
      BY <2>1, <2>2
  <1>5. Same(whole, w[1]) /\ Same(w[n + 1], Closed(T[n + 1].value, s))
    BY <1>1
  <1>6. QED
    BY <1>4, <1>5 DEF Denotes

\* The innermost container becomes an entry of the one around it.
LEMMA DenotesOutside ==
    ASSUME NEW u, NEW limit, NEW S, NEW n \in Nat \ {0}, Len(S) = n + 1,
           NEW T, Len(T) = n, \A k \in 1 .. n : T[k] = S[k],
           NEW p \in Nat, NEW whole, NEW r, Denotes(u, limit, S, p, whole, r)
    PROVE  \E i \in 1 .. p - 1 :
                Denotes(u, limit, T, p, whole,
                        Entry(PlaceIn(u, limit, n, T[n].value, 1), T[n], i, Closed(S[n + 1].value, r)))
  <1> PICK v :
        /\ Same(whole, v[1])
        /\ \A k \in 1 .. (n + 1) - 1 : Link(u, limit, S, k, p, v[k + 1], v[k])
        /\ Same(v[n + 1], Closed(S[n + 1].value, r))
    BY DEF Denotes
  <1>1. Link(u, limit, T, n, p, v[n + 1], v[n])
    <2> DEFINE inner == v[n + 1]
               outer == v[n]
    <2>1. Link(u, limit, S, n, p, inner, outer) /\ S[n] = T[n] /\ p <= p
      OBVIOUS
    <2> HIDE DEF inner, outer
    <2>2. Link(u, limit, T, n, p, inner, outer)
      BY <2>1, LinkOnward
    <2>3. QED
      BY <2>2 DEF inner, outer
  <1>2. ASSUME NEW k \in 1 .. n - 1 PROVE Link(u, limit, T, k, p, v[k + 1], v[k])
    <2> DEFINE inner == v[k + 1]
               outer == v[k]
    <2>1. Link(u, limit, S, k, p, inner, outer) /\ S[k] = T[k] /\ p <= p
      OBVIOUS
    <2> HIDE DEF inner, outer
    <2>2. Link(u, limit, T, k, p, inner, outer)
      BY <2>1, LinkOnward
    <2>3. QED
      BY <2>2 DEF inner, outer
  <1> DEFINE c == T[n].value
             b == PlaceIn(u, limit, n, c, 1)
             x == Closed(S[n + 1].value, r)
             y == v[n + 1]
             z == v[n]
             o == T[n]
  <1>3. PICK i \in 1 .. p - 1 : Same(z, Closed(c, Entry(b, o, i, y)))
    BY <1>1 DEF Link
  <1>4. Same(y, x) /\ i \in Nat \ {0}
    OBVIOUS
  <1>5. Same(z, Closed(c, Entry(b, o, i, x)))
    <2> HIDE DEF b, c, x, y, z, o
    <2>1. Same(Entry(b, o, i, y), Entry(b, o, i, x))
      BY <1>4, SameEntry
    <2> DEFINE e == Entry(b, o, i, y)
               f == Entry(b, o, i, x)
    <2> HIDE DEF e, f
    <2>2. Same(Closed(c, e), Closed(c, f))
      BY <2>1, SameClosed DEF e, f
    <2>3. QED
      BY <1>3, <2>2, SameTwice DEF e, f
  <1>6. Denotes(u, limit, T, p, whole, Entry(b, o, i, x))
    <2> HIDE DEF b, x
    <2>1. QED
      BY <1>2, <1>5 DEF Denotes
  <1>7. QED
    BY <1>6

\* The last container is the whole text.
LEMMA DenotesWhole ==
    ASSUME NEW u, NEW limit, NEW S, Len(S) = 1, NEW p, NEW whole, NEW r
    PROVE  Denotes(u, limit, S, p, whole, r) <=> Same(whole, Closed(S[1].value, r))
  <1>1. ASSUME Denotes(u, limit, S, p, whole, r)
        PROVE  Same(whole, Closed(S[1].value, r))
    <2> PICK v : Same(whole, v[1]) /\ Same(v[1], Closed(S[1].value, r))
      BY <1>1 DEF Denotes
    <2> QED
      BY SameTwice
  <1>2. ASSUME Same(whole, Closed(S[1].value, r))
        PROVE  Denotes(u, limit, S, p, whole, r)
    <2> DEFINE v == [k \in {1} |-> whole]
    <2>1. v[1] = whole /\ Same(whole, whole)
      BY SameSelf
    <2> HIDE DEF v
    <2>2. QED
      BY <1>2, <2>1 DEF Denotes
  <1>3. QED
    BY <1>1, <1>2

\* If the rest cannot be read, the text cannot.
LEMMA DenotesUnreadable ==
    ASSUME NEW u, NEW limit, NEW S, NEW n \in Nat \ {0}, Len(S) = n,
           NEW p, NEW whole, NEW r, Denotes(u, limit, S, p, whole, r), ~Readable(r)
    PROVE  ~Readable(whole)
  <1> PICK v :
        /\ Same(whole, v[1])
        /\ \A k \in 1 .. n - 1 : Link(u, limit, S, k, p, v[k + 1], v[k])
        /\ Same(v[n], Closed(S[n].value, r))
    BY DEF Denotes
  <1>1. \A x, y, c : Same(x, Closed(c, y)) /\ ~Readable(y) => ~Readable(x)
    BY UnreadableClosed DEF Same, Readable
  <1>2. ASSUME NEW k \in 1 .. n - 1, ~Readable(v[k + 1])
        PROVE  ~Readable(v[k])
    <2> DEFINE inner == v[k + 1]
               c == S[k].value
               b == PlaceIn(u, limit, k, c, 1)
    <2>1. PICK s \in 1 .. p - 1 : Same(v[k], Closed(c, Entry(b, S[k], s, inner)))
      BY DEF Link
    <2> HIDE DEF inner, b, c
    <2>2. ~Readable(Entry(b, S[k], s, inner))
      BY <1>2, UnreadableIs, UnreadableEntry DEF inner
    <2>3. QED
      BY <1>1, <2>1, <2>2
  <1> DEFINE T == {j \in Nat : j < n => ~Readable(v[n - j])}
  <1>3. 0 \in T
    BY <1>1
  <1>4. ASSUME NEW j \in T PROVE j + 1 \in T
    <2>1. ASSUME j + 1 < n PROVE ~Readable(v[n - (j + 1)])
      <3> DEFINE k == n - (j + 1)
      <3>1. k \in 1 .. n - 1 /\ k + 1 = n - j
        BY <2>1
      <3>2. ~Readable(v[k + 1])
        BY <2>1, <3>1
      <3> HIDE DEF k
      <3>3. ~Readable(v[k])
        BY <1>2, <3>1, <3>2
      <3>4. QED
        BY <3>3 DEF k
    <2>2. QED
      BY <2>1
  <1>9. T \subseteq Nat
    OBVIOUS
  <1> HIDE DEF T
  <1>5. T = Nat
    BY <1>3, <1>4, <1>9, Induction
  <1>6. n - 1 \in T
    BY <1>5
  <1>7. ~Readable(v[1])
    <2>1. n - (n - 1) = 1
      OBVIOUS
    <2>2. QED
      BY <1>6, <2>1 DEF T
  <1>8. QED
    BY <1>7 DEF Same, Readable

\* A string that begins is read from its first character.
LEMMA BehindNothing ==
    ASSUME NEW t \in Texts, NEW i \in Nat \ {0}
    PROVE  Same(Quoted[Mark(t, i)], Behind(<<>>, Quoted[Mark(t, i)]))
  <1> DEFINE r == Quoted[Mark(t, i)]
  <1>1. Readable(r) => r.value \in Texts
    BY MarkParts, QuotedIsRead DEF IsRead
  <1> HIDE DEF r
  <1>2. CASE Readable(r)
    <2>1. <<>> \o r.value = r.value
      BY <1>1, <1>2, ConcatProperties, EmptySeq
    <2>2. Behind(<<>>, r) = With(r.value, r)
      BY <1>2, <2>1 DEF Behind
    <2>3. QED
      BY <2>2 DEF With, Reading, Same, r
  <1>3. CASE ~Readable(r)
    BY <1>3, SameUnreadable, UnreadableIs DEF Behind, r
  <1>4. QED
    BY <1>2, <1>3

\* A container of which nothing is left to read.
LEMMA ClosedNothing ==
    ASSUME NEW c, IsContainer(c), NEW n
    PROVE  LET r == Closed(c, Reading(<<>>, n, {}))
           IN  r.value = c /\ r.next = n
  <1> DEFINE e == Reading(<<>>, n, {})
  <1>1. e.value = <<>> /\ e.next = n
    BY DEF Reading
  <1> HIDE DEF e
  <1>2. CASE c.type = "array"
    <2>1. c = Array(c.items) /\ c.items \o <<>> = c.items
      BY <1>2, ConcatProperties, EmptySeq DEF IsContainer, IsSequence
    <2>2. QED
      BY <1>1, <1>2, <2>1 DEF Closed, With, Reading, e
  <1>3. CASE c.type # "array"
    <2> DEFINE m == c.members
    <2>1. c = Object(m) /\ m = [key \in DOMAIN m |-> m[key]]
      BY <1>3 DEF IsContainer
    <2> HIDE DEF m
    <2>2. Joined(m, <<>>) = m
      <3>1. DOMAIN <<>> = {} /\ <<>> = [key \in {} |-> 0]
        BY EmptySeq
      <3>2. CASE DOMAIN m = {}
        <4>1. m = [key \in {} |-> 0]
          BY <2>1, <3>2
        <4>2. QED
          BY <3>1, <3>2, <4>1 DEF Joined
      <3>3. CASE DOMAIN m # {}
        <4>1. DOMAIN m \cup DOMAIN <<>> = DOMAIN m
          BY <3>1
        <4>2. Joined(m, <<>>) = [key \in DOMAIN m |-> IF key \in DOMAIN m THEN m[key] ELSE <<>>[key]]
          BY <3>3, <4>1 DEF Joined
        <4>3. Joined(m, <<>>) = [key \in DOMAIN m |-> m[key]]
          BY <4>2
        <4>4. QED
          BY <2>1, <4>3
      <3>4. QED
        BY <3>2, <3>3
    <2>3. Closed(c, e) = Reading(Object(m), n, e.defects)
      BY <1>1, <1>3, <2>2 DEF Closed, With, m
    <2>4. QED
      BY <2>1, <2>3 DEF Reading, e
  <1>4. QED
    BY <1>2, <1>3

\* Behind the same key there is the same.
LEMMA SameKeyed ==
    ASSUME NEW at, NEW r, NEW s, Same(r, s)
    PROVE  Keyed(at, r) = Keyed(at, s)
  BY DEF Same, Keyed, Readable
-----------------------------------------------------------------------------
(* What a parse in progress can still read.                                *)

\* If whole is read of u, what remains to be read of the innermost container
\* at p is what the state reads.
Remains(u, limit, p, contexts, state, buffer, whole) ==
    LET context == contexts[Len(contexts)]
        at == PlaceIn(u, limit, Len(contexts), context.value, p)
        Is(rest) == Denotes(u, limit, contexts, p, whole, rest)
        chars == Behind(buffer, Quoted[Mark(u, p)])
        escaped == Behind(buffer, Escaped(u, p))
    IN  /\ state = "value" => Is(ToValue(at, context))
        /\ state = "literal" =>
              \E i \in Nat : /\ LiteralBegun(u, i, p, buffer)
                             /\ Is(Entry(at, context, i, ValueFrom(at, i)))
        /\ state = "string_value" => \E i \in 1 .. p - 1 : Is(Entry(at, context, i, StringOf(chars)))
        /\ state = "string_value_esc_seq" =>
              \E i \in 1 .. p - 1 : Is(Entry(at, context, i, StringOf(escaped)))
        /\ state = "before_key" => Is(MembersAt(at, ReadFrom))
        /\ state = "key" => Is(Keyed(at, chars))
        /\ state = "key_esc_seq" => Is(Keyed(at, escaped))
        /\ state = "before_value" => Is(Named(at, context.key, p, ReadFrom))
        /\ state = "after_value_object" => Is(MoreMembersAt(at, ReadFrom))
        /\ state = "after_value_array" =>
              IF context.value.type = "array" THEN Is(MoreItemsAt(at, ReadFrom))
              ELSE Is(Reading(<<>>, p + 1, {}))

AreContainers(contexts) == \A k \in 1 .. Len(contexts) : IsContainer(contexts[k].value)

\* An entry of the innermost container has been read up to where it is stored.
ToStore(S, u, limit, p, whole, j, i, item) ==
    /\ IsStack(S) /\ S # <<>> /\ AreContainers(S) /\ S[Len(S)].key \in Texts
    /\ u \in Texts /\ limit \in Nat \cup {nullopt} /\ p \in Nat /\ j \in Nat \ {0} /\ i \in Nat
    /\ Advances(item, u, i) /\ p <= item.next
    /\ Denotes(u, limit, S, p, whole,
               Entry(PlaceIn(u, limit, Len(S), S[Len(S)].value, j), S[Len(S)], i, item))

IsStored(S, u, limit, whole, item) ==
    LET T   == Stored(S, item.value)
        res == StoreIn(S, item.value)
        n   == Len(S)
        d   == T[n].value
        q   == item.next
    IN  /\ AreContainers(T) /\ Len(T) = n
        /\ res.next_state = IF d.type = "array" THEN "after_value_array"
                                                ELSE "after_value_object"
        /\ res.err = "more_data_needed" \/ u[q - 1] = end_array =>
               Denotes(u, limit, T, q, whole, AfterEntry(PlaceIn(u, limit, n, d, q), d))
        /\ res.err # "more_data_needed" /\ u[q - 1] # end_array => ~Readable(whole)

\* A value that has been read is stored in the innermost container.
LEMMA StoredMeaning ==
    ASSUME NEW S, NEW u, NEW limit, NEW p, NEW whole, NEW j, NEW i, NEW item,
           ToStore(S, u, limit, p, whole, j, i, item)
    PROVE  IsStored(S, u, limit, whole, item)
  <1> DEFINE n == Len(S)
             context == S[n]
             c == context.value
             v == item.value
             q == item.next
             at == PlaceIn(u, limit, n, c, j)
             e == Entry(at, context, i, item)
             T == Stored(S, v)
             res == StoreIn(S, v)
             d == T[n].value
             after == AfterEntry(PlaceIn(u, limit, n, d, q), d)
             o == store_value(c, context.key, v)
             parent == o.parent
             top == [key |-> <<>>, value |-> parent]
             more == AfterEntry(PlaceIn(u, limit, n, parent, q), parent)
  <1>0. /\ IsStack(S) /\ S # <<>> /\ AreContainers(S) /\ context.key \in Texts
        /\ u \in Texts /\ limit \in Nat \cup {nullopt} /\ p \in Nat /\ j \in Nat \ {0} /\ i \in Nat
        /\ Advances(item, u, i) /\ p <= q
        /\ Denotes(u, limit, S, p, whole, e)
    BY DEF ToStore
  <1>1. n \in Nat \ {0} /\ Len(u) \in Nat /\ q \in Nat /\ IsSequence(S)
    BY <1>0, SequenceIsFunction, EmptySeq DEF IsStack, Advances
  <1>2. IsContainer(c)
    BY <1>0, <1>1 DEF AreContainers
  <1>3. /\ IsWithin(at, c)
        /\ at.text = u /\ at.from = j /\ at.depth = n /\ at.limit = limit
    <2> HIDE DEF c
    <2>1. IsWithin(at, c)
      BY <1>0, <1>1, <1>2, PlaceWithin, Zenon
    <2>2. at.text = u /\ at.from = j /\ at.depth = n /\ at.limit = limit
      BY DEF PlaceIn, Spot
    <2>3. QED
      BY <2>1, <2>2
  <1>4. /\ IsContainer(parent) /\ parent.type = c.type
        /\ o.next_state = IF parent.type = "array" THEN "after_value_array"
                                                   ELSE "after_value_object"
        /\ o.err = "more_data_needed" \/ u[q - 1] = end_array =>
              Same(Closed(c, e), Closed(parent, more))
        /\ o.err # "more_data_needed" /\ u[q - 1] # end_array => ~Readable(e)
    <2>1. /\ IsContainer(context.value) /\ context.key \in Texts /\ Advances(item, at.text, i)
          /\ i \in Nat
      BY <1>0, <1>2, <1>3
    <2>2. LET res1 == store_value(context.value, context.key, item.value)
              d1   == res1.parent
              b1   == PlaceIn(at.text, at.limit, at.depth, d1, item.next)
              e1   == Entry(at, context, i, item)
          IN  /\ IsContainer(d1) /\ d1.type = context.value.type
              /\ res1.next_state = IF d1.type = "array" THEN "after_value_array"
                                                        ELSE "after_value_object"
              /\ res1.err = "more_data_needed" \/ at.text[item.next - 1] = end_array =>
                     Same(Closed(context.value, e1), Closed(d1, AfterEntry(b1, d1)))
              /\ res1.err # "more_data_needed" /\ at.text[item.next - 1] # end_array =>
                     ~Readable(e1)
      <3>1. IsWithin(at, context.value)
        BY <1>3
      <3> HIDE DEF at, context
      <3>2. QED
        BY <2>1, <3>1, StoredEntry
    <2>3. QED
      BY <1>3, <2>2
  <1>5. T = SetTop(S, top) /\ res = o
    <2>1. Last(S) = S[n]
      BY <1>1 DEF Last
    <2>2. QED
      BY <2>1 DEF Stored, StoreIn, SetTop
  <1>6. Len(T) = n /\ T[n] = top /\ \A k \in 1 .. n - 1 : T[k] = S[k]
    <2> HIDE DEF top, T
    <2>1. QED
      BY <1>0, <1>1, <1>5, ReplaceTop DEF IsStack
  <1>7. parent = d /\ more = after
    BY <1>6
  <1>8. AreContainers(T)
    <2> HIDE DEF T, d, parent
    <2>1. ASSUME NEW k \in 1 .. n PROVE IsContainer(T[k].value)
      <3>1. CASE k = n
        BY <1>4, <1>7, <3>1 DEF d
      <3>2. CASE k # n
        <4>1. k \in 1 .. n - 1 /\ k \in 1 .. Len(S)
          BY <1>1, <3>2
        <4>2. T[k] = S[k] /\ IsContainer(S[k].value)
          BY <1>0, <1>6, <4>1 DEF AreContainers
        <4>3. QED
          BY <4>2
      <3>3. QED
        BY <3>1, <3>2
    <2>2. QED
      BY <1>6, <2>1 DEF AreContainers
  <1>9. ASSUME Same(Closed(c, e), Closed(d, after)) PROVE Denotes(u, limit, T, q, whole, after)
    <2>1. Same(Closed(S[n].value, e), Closed(T[n].value, after))
      BY <1>9
    <2> HIDE DEF e, after, q, T, d
    <2>2. Len(S) = n
      OBVIOUS
    <2> HIDE DEF n
    <2>3. QED
      BY <1>0, <1>1, <1>6, <2>1, <2>2, DenotesInTop
  <1>10. ASSUME ~Readable(e) PROVE ~Readable(whole)
    <2>1. Len(S) = n
      OBVIOUS
    <2> HIDE DEF e, n
    <2>2. QED
      BY <1>0, <1>1, <1>10, <2>1, DenotesUnreadable
  <1>11. /\ AreContainers(T) /\ Len(T) = n
         /\ res.next_state = IF d.type = "array" THEN "after_value_array"
                                                ELSE "after_value_object"
         /\ res.err = "more_data_needed" \/ u[q - 1] = end_array =>
                Denotes(u, limit, T, q, whole, after)
         /\ res.err # "more_data_needed" /\ u[q - 1] # end_array => ~Readable(whole)
    <2> HIDE DEF o, parent, more, c, e, after, d, T, q, n, res
    <2>1. QED
      BY <1>4, <1>5, <1>6, <1>7, <1>8, <1>9, <1>10
  <1>12. QED
    BY <1>11 DEF IsStored

-----------------------------------------------------------------------------
(* Texts within a text.                                                    *)

\* The characters of u from i on begin with s.
Has(u, i, s) ==
    /\ i + Len(s) <= Len(u) + 1
    /\ \A k \in 1 .. Len(s) : u[i + k - 1] = s[k]

\* Two texts are there if the second is there behind the first.
LEMMA HasBoth ==
    ASSUME NEW u \in Texts, NEW i \in Nat \ {0}, NEW s \in Texts, NEW t \in Texts,
           Has(u, i, s \o t)
    PROVE  Has(u, i, s) /\ Has(u, i + Len(s), t)
  <1> DEFINE m == Len(s)
             n == Len(t)
             w == s \o t
  <1>1. Len(u) \in Nat /\ m \in Nat /\ n \in Nat
    BY LenProperties DEF Texts
  <1>2. /\ Len(w) = m + n
        /\ \A k \in 1 .. m : w[k] = s[k]
        /\ \A k \in 1 .. n : w[m + k] = t[k]
    BY Together DEF Texts
  <1>3. i + Len(w) <= Len(u) + 1 /\ \A k \in 1 .. Len(w) : u[i + k - 1] = w[k]
    BY DEF Has
  <1> HIDE DEF w, m, n
  <1>4. \A k \in 1 .. m : k \in 1 .. Len(w)
    BY <1>1, <1>2
  <1>5. ASSUME NEW k \in 1 .. n PROVE u[(i + m) + k - 1] = t[k]
    <2>1. m + k \in 1 .. Len(w) /\ i + (m + k) - 1 = (i + m) + k - 1
      BY <1>1, <1>2
    <2>2. QED
      BY <1>2, <1>3, <2>1
  <1>6. i + m <= Len(u) + 1 /\ (i + m) + n <= Len(u) + 1
    BY <1>1, <1>2, <1>3
  <1>7. QED
    BY <1>2, <1>3, <1>4, <1>5, <1>6 DEF Has, m, n

\* One character is there.
LEMMA HasChar ==
    ASSUME NEW u \in Texts, NEW i \in Nat \ {0}, NEW ch, Has(u, i, <<ch>>)
    PROVE  i \in 1 .. Len(u) /\ u[i] = ch /\ IsAt(u, i, ch)
  <1> DEFINE s == <<ch>>
  <1>1. Len(s) = 1 /\ s[1] = ch
    OBVIOUS
  <1>2. Len(u) \in Nat /\ DOMAIN u = 1 .. Len(u)
    BY LenProperties DEF Texts
  <1> HIDE DEF s
  <1>3. i + 1 <= Len(u) + 1 /\ u[i + 1 - 1] = s[1]
    BY <1>1 DEF Has, s
  <1>4. i \in 1 .. Len(u) /\ i + 1 - 1 = i
    BY <1>2, <1>3
  <1>5. QED
    BY <1>1, <1>2, <1>3, <1>4 DEF IsAt

\* The first character of a text that is there.
LEMMA HasFirst ==
    ASSUME NEW u \in Texts, NEW i \in Nat \ {0}, NEW s \in Texts, s # <<>>, Has(u, i, s)
    PROVE  i \in 1 .. Len(u) /\ u[i] = s[1] /\ Len(s) \in Nat \ {0}
  <1>1. Len(u) \in Nat /\ Len(s) \in Nat \ {0}
    BY LenProperties, EmptySeq DEF Texts
  <1>2. i + Len(s) <= Len(u) + 1 /\ u[i + 1 - 1] = s[1]
    BY <1>1 DEF Has
  <1>3. i \in 1 .. Len(u) /\ i + 1 - 1 = i
    BY <1>1, <1>2
  <1>4. QED
    BY <1>1, <1>2, <1>3

\* Blanks are skipped.
LEMMA TokenBehind ==
    ASSUME NEW u \in Texts, NEW i \in Nat \ {0}, NEW pad \in Seq(Blanks), Has(u, i, pad),
           i + Len(pad) \in 1 .. Len(u), u[i + Len(pad)] \notin Blanks
    PROVE  NextToken(u, i) = i + Len(pad)
  <1> DEFINE n == NextToken(u, i)
             m == i + Len(pad)
  <1>1. Len(u) \in Nat /\ Len(pad) \in Nat /\ m \in 1 .. Len(u) /\ m \in Nat
    BY LenProperties DEF Texts
  <1>2. /\ n \in 1 .. Len(u) + 1
        /\ i <= n \/ n = Len(u) + 1
        /\ n <= Len(u) => u[n] \notin Blanks
        /\ \A j \in i .. Len(u) : j < n => u[j] \in Blanks
    BY NextTokenIsFirst
  <1>3. \A k \in 1 .. Len(pad) : u[i + k - 1] \in Blanks
    <2>1. \A k \in 1 .. Len(pad) : u[i + k - 1] = pad[k]
      BY DEF Has
    <2>2. \A k \in 1 .. Len(pad) : pad[k] \in Blanks
      BY ElementOfSeq
    <2>3. QED
      BY <2>1, <2>2
  <1> HIDE DEF n
  <1>4. ~(m < n)
    <2>1. m \in i .. Len(u)
      BY <1>1
    <2>2. QED
      BY <1>2, <2>1
  <1>5. ~(n < m)
    <2>1. SUFFICES ASSUME n < m PROVE FALSE
      OBVIOUS
    <2>2. i <= n /\ n <= Len(u)
      BY <1>1, <1>2, <2>1
    <2>3. n - i + 1 \in 1 .. Len(pad) /\ i + (n - i + 1) - 1 = n
      BY <1>1, <1>2, <2>1, <2>2
    <2>4. u[n] \in Blanks
      BY <1>3, <2>3
    <2>5. QED
      BY <1>2, <2>2, <2>4
  <1>6. QED
    BY <1>1, <1>2, <1>4, <1>5 DEF n

-----------------------------------------------------------------------------
(* Strings within a text.                                                  *)

PlainTexts == Seq(STRING \ NoEscape)

\* A character of a string as it is written.
EscapedChars(ch) ==
    IF char_should_be_escaped(ch) THEN <<begin_esc_seq, get_escape_char(ch)>> ELSE <<ch>>

\* A character that can be written is written as one that stands for itself,
\* or as one behind a backslash that stands for it.
LEMMA EscapedIsRead ==
    ASSUME NEW ch \in STRING \ NoEscape
    PROVE  \/ /\ ~char_should_be_escaped(ch) /\ EscapedChars(ch) = <<ch>>
              /\ ch # string_begin_end /\ ch # begin_esc_seq
           \/ \E letter \in STRING :
                 /\ EscapedChars(ch) = <<begin_esc_seq, letter>>
                 /\ unescape(letter) = ch /\ ch # nullopt
  <1>1. CASE ~char_should_be_escaped(ch)
    BY <1>1 DEF EscapedChars, char_should_be_escaped
  <1>2. CASE char_should_be_escaped(ch)
    <2> DEFINE letter == get_escape_char(ch)
    <2>1. ch \in {"\t", "\n", "\"", "\\"}
      BY <1>2 DEF NoEscape, char_should_be_escaped, string_begin_end, begin_esc_seq
    <2>2. letter \in {"\"", "\\", "n", "t"} /\ EscapedChars(ch) = <<begin_esc_seq, letter>>
      BY <1>2, EscapedChar DEF EscapedChars
    <2>3. /\ ch = "\"" => letter = "\""
          /\ ch = "\\" => letter = "\\"
          /\ ch = "\n" => letter = "n"
          /\ ch = "\t" => letter = "t"
      <3>1. ch = "\"" => letter = "\""
        BY Zenon DEF get_escape_char
      <3>2. ch = "\\" => letter = "\\"
        <4>1. "\\" # "\""
          BY SMT
        <4>2. QED
          BY <4>1, Zenon DEF get_escape_char
      <3>3. ch = "\n" => letter = "n"
        <4>1. "\n" # "\"" /\ "\n" # "\\"
          BY SMT
        <4>2. QED
          BY <4>1, Zenon DEF get_escape_char
      <3>4. ch = "\t" => letter = "t"
        <4>1. "\t" # "\"" /\ "\t" # "\\" /\ "\t" # "\n"
          BY SMT
        <4>2. QED
          BY <4>1, Zenon DEF get_escape_char
      <3>5. QED
        BY <3>1, <3>2, <3>3, <3>4
    <2> HIDE DEF letter
    <2>4. unescape(letter) = ch
      <3>1. letter \in DOMAIN EscChars /\ unescape(letter) = EscChars[letter]
        BY <2>2 DEF unescape, EscChars
      <3>2. EscChars[letter] = CASE letter = "n" -> "\n" [] letter = "t" -> "\t" [] OTHER -> letter
        BY <2>2 DEF EscChars
      <3>3. CASE ch \in {"\"", "\\"}
        <4>1. letter = ch /\ letter # "n" /\ letter # "t"
          BY <2>3, <3>3
        <4>2. EscChars[letter] = letter
          BY <3>2, <4>1, Zenon
        <4>3. QED
          BY <3>1, <4>1, <4>2
      <3>4. CASE ch = "\n"
        <4>1. letter = "n"
          BY <2>3, <3>4
        <4>2. EscChars[letter] = "\n"
          BY <3>2, <4>1, Zenon
        <4>3. QED
          BY <3>1, <3>4, <4>2
      <3>5. CASE ch = "\t"
        <4>1. letter = "t" /\ "t" # "n"
          BY <2>3, <3>5
        <4>2. EscChars[letter] = "\t"
          BY <3>2, <4>1, Zenon
        <4>3. QED
          BY <3>1, <3>5, <4>2
      <3>6. QED
        BY <2>1, <3>3, <3>4, <3>5
    <2>5. letter \in STRING /\ ch # nullopt
      <3>1. {"\"", "\\", "n", "t"} \subseteq STRING
        BY FormatCharsAssumption DEF FormatChars, string_begin_end, begin_esc_seq
      <3>2. QED
        BY <2>2, <3>1, NulloptAssumption
    <2>6. QED
      BY <2>2, <2>4, <2>5
  <1>3. QED
    BY <1>1, <1>2

\* A text with one more in front.
LEMMA TextCons ==
    ASSUME NEW C, NEW x \in C, NEW s \in Seq(C)
    PROVE  /\ <<x>> \o s \in Seq(C) /\ Len(<<x>> \o s) = 1 + Len(s) /\ Len(s) \in Nat
           /\ (<<x>> \o s)[1] = x
           /\ \A i \in 1 .. Len(s) : (<<x>> \o s)[1 + i] = s[i]
  <1> DEFINE c == <<x>>
  <1>1. c \in Seq(C) /\ Len(c) = 1 /\ c[1] = x /\ 1 \in 1 .. 1
    BY ShortText
  <1> HIDE DEF c
  <1>2. /\ c \o s \in Seq(C) /\ Len(c \o s) = Len(c) + Len(s)
        /\ \A i \in 1 .. Len(c) : (c \o s)[i] = c[i]
        /\ \A i \in 1 .. Len(s) : (c \o s)[Len(c) + i] = s[i]
    BY <1>1, Together
  <1>3. (c \o s)[1] = x /\ Len(s) \in Nat
    BY <1>1, <1>2, LenProperties
  <1>4. QED
    BY <1>1, <1>2, <1>3 DEF c

\* A string between its quotes, as it is written.
EscapedText(s) == FlattenSeq([i \in DOMAIN s |-> EscapedChars(s[i])])

LEMMA EscapeIs ==
    ASSUME NEW s \in PlainTexts
    PROVE  /\ escape(s) = EscapedText(s) /\ EscapedText(s) \in Texts
           /\ wrap_string(s) = (<<string_begin_end>> \o EscapedText(s)) \o <<string_begin_end>>
  <1>1. /\ DOMAIN s = 1 .. Len(s) /\ Len(s) \in Nat
        /\ \A i \in DOMAIN s : s[i] \in STRING \ NoEscape
    BY ElementOfSeq, LenProperties DEF PlainTexts
  <1>2. /\ ~\E i \in DOMAIN s : /\ char_should_be_escaped(s[i])
                                /\ get_escape_char(s[i]) = nullopt
    BY <1>1, EscapedChar
  <1>3. escape(s) = EscapedText(s)
    BY <1>2 DEF escape, EscapedText, EscapedChars
  <1>4. \A ch \in STRING \ NoEscape : EscapedChars(ch) \in Texts
    <2>1. SUFFICES ASSUME NEW ch \in STRING \ NoEscape PROVE EscapedChars(ch) \in Texts
      OBVIOUS
    <2>2. begin_esc_seq \in STRING
      BY FormatCharsAssumption DEF FormatChars
    <2>3. QED
      BY <2>2, EscapedIsRead, ShortText DEF Texts
  <1>5. [i \in DOMAIN s |-> EscapedChars(s[i])] \in Seq(Texts)
    <2> DEFINE f == [i \in DOMAIN s |-> EscapedChars(s[i])]
    <2>1. f \in [1 .. Len(s) -> Texts]
      BY <1>1, <1>4
    <2> HIDE DEF f
    <2>2. f \in Seq(Texts)
      BY <1>1, <2>1, FunctionIsText
    <2>3. QED
      BY <2>2 DEF f
  <1>6. EscapedText(s) \in Texts
    BY <1>5, FlattenIsText DEF EscapedText, Texts
  <1>7. escape(s) # nullopt
    BY <1>3, <1>6, NulloptAssumption DEF Texts
  <1>8. QED
    BY <1>3, <1>6, <1>7 DEF wrap_string

\* The escaped text of a string is that of its first character and the rest.
LEMMA EscapedCons ==
    ASSUME NEW ch \in STRING \ NoEscape, NEW s \in PlainTexts
    PROVE  EscapedText(<<ch>> \o s) = EscapedChars(ch) \o EscapedText(s)
  <1> DEFINE t == <<ch>> \o s
             f == [i \in DOMAIN s |-> EscapedChars(s[i])]
             g == [i \in DOMAIN t |-> EscapedChars(t[i])]
             n == Len(s)
  <1>1. /\ DOMAIN s = 1 .. n /\ n \in Nat
        /\ \A i \in DOMAIN s : s[i] \in STRING \ NoEscape
    BY ElementOfSeq, LenProperties DEF PlainTexts
  <1>3. /\ t \in PlainTexts /\ Len(t) = 1 + n
        /\ t[1] = ch /\ \A i \in 1 .. n : t[1 + i] = s[i]
    <2>1. ASSUME NEW C, NEW x \in C, NEW r \in Seq(C)
          PROVE  /\ <<x>> \o r \in Seq(C) /\ Len(<<x>> \o r) = 1 + Len(r)
                 /\ (<<x>> \o r)[1] = x
                 /\ \A i \in 1 .. Len(r) : (<<x>> \o r)[1 + i] = r[i]
      BY TextCons
    <2>2. ch \in STRING \ NoEscape /\ s \in Seq(STRING \ NoEscape)
      BY DEF PlainTexts
    <2>3. t \in Seq(STRING \ NoEscape)
      BY <2>1, <2>2
    <2>4. Len(t) = 1 + Len(s)
      BY <2>1, <2>2
    <2>5. t[1] = ch
      BY <2>1, <2>2
    <2>6. \A i \in 1 .. n : t[1 + i] = s[i]
      BY <2>1, <2>2
    <2>7. QED
      BY <2>3, <2>4, <2>5, <2>6 DEF PlainTexts
  <1>4. \A x \in STRING \ NoEscape : EscapedChars(x) \in Texts
    <2>1. SUFFICES ASSUME NEW x \in STRING \ NoEscape PROVE EscapedChars(x) \in Texts
      OBVIOUS
    <2>2. begin_esc_seq \in STRING
      BY FormatCharsAssumption DEF FormatChars
    <2>3. QED
      BY <2>2, EscapedIsRead, ShortText DEF Texts
  <1>5. f \in Seq(Texts) /\ Len(f) = n
    <2>1. f \in [1 .. n -> Texts]
      BY <1>1, <1>4
    <2> HIDE DEF f
    <2>2. QED
      BY <1>1, <2>1, FunctionIsText
  <1>6. g = <<EscapedChars(ch)>> \o f
    <2> DEFINE e == EscapedChars(ch)
               h == <<e>> \o f
    <2>1. e \in Texts
      BY <1>4
    <2> HIDE DEF e, f
    <2>4. /\ h \in Seq(Texts) /\ Len(h) = 1 + n /\ h[1] = e
          /\ \A i \in 1 .. n : h[1 + i] = f[i]
      BY <1>5, <2>1, TextCons
    <2> HIDE DEF h
    <2>5. DOMAIN t = 1 .. 1 + n
      BY <1>3, LenProperties DEF PlainTexts
    <2> HIDE DEF t
    <2>6. g \in Seq(Texts) /\ Len(g) = 1 + n
      <3>1. \A i \in DOMAIN t : EscapedChars(t[i]) \in Texts
        BY <1>3, <1>4, ElementOfSeq, <2>5 DEF PlainTexts
      <3>2. g \in [1 .. 1 + n -> Texts]
        BY <2>5, <3>1
      <3> HIDE DEF g
      <3>3. 1 + n \in Nat
        BY <1>1
      <3>4. QED
        BY <3>2, <3>3, FunctionIsText
    <2>7. ASSUME NEW i \in 1 .. 1 + n PROVE g[i] = h[i]
      <3>1. g[i] = EscapedChars(t[i])
        BY <2>5
      <3>2. CASE i = 1
        BY <1>3, <2>4, <3>1, <3>2 DEF e
      <3>3. CASE i # 1
        <4>1. i - 1 \in 1 .. n /\ 1 + (i - 1) = i
          BY <1>1, <3>3
        <4> DEFINE j == i - 1
        <4>2. j \in 1 .. n /\ 1 + j = i
          BY <4>1
        <4> HIDE DEF j
        <4>3. t[i] = s[j] /\ h[i] = f[j]
          BY <1>3, <2>4, <4>2
        <4>4. f[j] = EscapedChars(s[j])
          BY <1>1, <4>2 DEF f
        <4>5. QED
          BY <3>1, <4>3, <4>4
      <3>4. QED
        BY <3>2, <3>3
    <2> HIDE DEF g, h
    <2>8. g = h
      BY <2>4, <2>6, <2>7, SeqEqual
    <2>9. QED
      BY <2>8 DEF h, e
  <1> HIDE DEF f, g
  <1>7. FlattenSeq(g) = EscapedChars(ch) \o FlattenSeq(f)
    BY <1>4, <1>5, <1>6, FlattenCons DEF Texts
  <1>8. QED
    BY <1>7 DEF EscapedText, f, g

LEMMA NoEscapes == EscapedText(<<>>) = <<>>
  <1>1. [i \in DOMAIN <<>> |-> EscapedChars(<<>>[i])] = <<>>
    OBVIOUS
  <1>2. <<>> \in Texts
    BY ShortText DEF Texts
  <1>3. QED
    BY <1>1, <1>2, FlattenFew DEF EscapedText, Texts

\* One more character of a string is read.
LEMMA PrecededBy ==
    ASSUME NEW ch, NEW s, NEW n \in Nat \ {0}
    PROVE  Preceded(ch, Reading(s, n, {})) = Reading(<<ch>> \o s, n, {})
  BY DEF Preceded, With, Reading, Readable

\* The string that is written at i.
StringIsAt(u, i, s) ==
    Has(u, i, EscapedText(s) \o <<string_begin_end>>) =>
        Quoted[Mark(u, i)] = Reading(s, i + Len(EscapedText(s)) + 1, {})

LEMMA EmptyStringIsRead ==
    ASSUME NEW u \in Texts, NEW i \in Nat \ {0}
    PROVE  StringIsAt(u, i, <<>>)
  <1> DEFINE q == <<string_begin_end>>
  <1>1. EscapedText(<<>>) \o q = q /\ Len(EscapedText(<<>>)) = 0
    <2>1. q \in Texts
      BY FormatCharsAssumption, ShortText DEF FormatChars, Texts
    <2> HIDE DEF q
    <2>2. <<>> \o q = q
      BY <2>1, ConcatEmptySeq DEF Texts
    <2>3. QED
      BY <2>2, NoEscapes, EmptySeq
  <1>2. SUFFICES ASSUME Has(u, i, q) PROVE Quoted[Mark(u, i)] = Reading(<<>>, i + 0 + 1, {})
    BY <1>1 DEF StringIsAt
  <1>3. i \in 1 .. Len(u) /\ u[i] = string_begin_end /\ DOMAIN u = 1 .. Len(u)
    BY <1>2, HasChar, LenProperties DEF Texts
  <1>4. /\ Mark(u, i) \in Marks /\ Mark(u, i).text = u /\ Mark(u, i).from = i
    BY MarkParts
  <1>5. Quoted[Mark(u, i)] = QuotedAt(Mark(u, i), Quoted)
    BY <1>4, QuotedEquation
  <1>6. QuotedAt(Mark(u, i), Quoted) = Reading(<<>>, i + 1, {})
    BY <1>3, <1>4 DEF QuotedAt
  <1>7. i + 0 + 1 = i + 1
    OBVIOUS
  <1>8. QED
    BY <1>5, <1>6, <1>7

\* The string behind a character that stands for itself,
LEMMA PlainCharIsRead ==
    ASSUME NEW u \in Texts, NEW i \in Nat \ {0}, NEW ch, Has(u, i, <<ch>>),
           ~char_should_be_escaped(ch), ch # string_begin_end, ch # begin_esc_seq
    PROVE  Quoted[Mark(u, i)] = Preceded(ch, Quoted[Mark(u, i + 1)])
  <1>1. i \in 1 .. Len(u) /\ u[i] = ch /\ DOMAIN u = 1 .. Len(u)
    BY HasChar, LenProperties DEF Texts
  <1>2. /\ Mark(u, i) \in Marks /\ Mark(u, i).text = u /\ Mark(u, i).from = i
    BY MarkParts
  <1>3. Quoted[Mark(u, i)] = QuotedAt(Mark(u, i), Quoted)
    BY <1>2, QuotedEquation
  <1>4. QuotedAt(Mark(u, i), Quoted) = Preceded(ch, Quoted[Mark(u, i + 1)])
    BY <1>1, <1>2 DEF QuotedAt
  <1>5. QED
    BY <1>3, <1>4

\* and the one behind an escape sequence.
LEMMA EscapedCharIsRead ==
    ASSUME NEW u \in Texts, NEW i \in Nat \ {0}, NEW letter,
           Has(u, i, <<begin_esc_seq, letter>>), unescape(letter) # nullopt
    PROVE  Quoted[Mark(u, i)] = Preceded(unescape(letter), Quoted[Mark(u, i + 2)])
  <1> DEFINE c == <<begin_esc_seq, letter>>
  <1>1. Len(c) = 2 /\ c[1] = begin_esc_seq /\ c[2] = letter
    OBVIOUS
  <1>2. Len(u) \in Nat /\ DOMAIN u = 1 .. Len(u)
    BY LenProperties DEF Texts
  <1> HIDE DEF c
  <1>3. i + 2 <= Len(u) + 1 /\ u[i + 1 - 1] = begin_esc_seq /\ u[i + 2 - 1] = letter
    <2>1. 1 \in 1 .. Len(c) /\ 2 \in 1 .. Len(c) /\ Has(u, i, c)
      BY <1>1 DEF c
    <2>2. QED
      BY <1>1, <2>1 DEF Has
  <1>4. /\ i \in DOMAIN u /\ i + 1 \in DOMAIN u
        /\ u[i] = begin_esc_seq /\ u[i + 1] = letter
    <2>1. i + 1 - 1 = i /\ i + 2 - 1 = i + 1
      OBVIOUS
    <2>2. QED
      BY <1>2, <1>3, <2>1
  <1>5. /\ Mark(u, i) \in Marks /\ Mark(u, i).text = u /\ Mark(u, i).from = i
    BY MarkParts
  <1>6. Quoted[Mark(u, i)] = QuotedAt(Mark(u, i), Quoted)
    BY <1>5, QuotedEquation
  <1>7. begin_esc_seq # string_begin_end
    BY DEF begin_esc_seq, string_begin_end
  <1>8. QuotedAt(Mark(u, i), Quoted) = Preceded(unescape(letter), Quoted[Mark(u, i + 2)])
    BY <1>4, <1>5, <1>7 DEF QuotedAt
  <1>9. QED
    BY <1>6, <1>8

LEMMA NextStringIsRead ==
    ASSUME NEW ch \in STRING \ NoEscape, NEW r \in PlainTexts,
           \A u \in Texts, i \in Nat \ {0} : StringIsAt(u, i, r),
           NEW u \in Texts, NEW i \in Nat \ {0}
    PROVE  StringIsAt(u, i, <<ch>> \o r)
  <1> DEFINE a == EscapedChars(ch)
             b == EscapedText(r)
             q == <<string_begin_end>>
             m == Len(a)
             n == Len(b)
  <1>1. EscapedText(<<ch>> \o r) = a \o b /\ b \in Texts
    BY EscapedCons, EscapeIs
  <1>2. a \in Texts /\ q \in Texts
    <2>1. begin_esc_seq \in STRING /\ string_begin_end \in STRING
      BY FormatCharsAssumption DEF FormatChars
    <2>2. QED
      BY <2>1, EscapedIsRead, ShortText DEF Texts
  <1>3. SUFFICES ASSUME Has(u, i, (a \o b) \o q)
                 PROVE  Quoted[Mark(u, i)] = Reading(<<ch>> \o r, i + Len(a \o b) + 1, {})
    BY <1>1 DEF StringIsAt
  <1>4. (a \o b) \o q = a \o (b \o q) /\ b \o q \in Texts
    <2> HIDE DEF a, b, q
    <2>1. QED
      BY <1>1, <1>2, ConcatAssociative, ConcatProperties DEF Texts
  <1>5. /\ Len(a \o b) = m + n /\ m \in Nat /\ n \in Nat
    <2> HIDE DEF a, b
    <2>1. QED
      BY <1>1, <1>2, Together, LenProperties DEF Texts
  <1>6. Has(u, i, a) /\ Has(u, i + m, b \o q)
    <2> DEFINE t == b \o q
    <2>1. Has(u, i, a \o t) /\ t \in Texts
      BY <1>3, <1>4
    <2> HIDE DEF a, t
    <2>2. QED
      BY <1>2, <2>1, HasBoth DEF t
  <1>7. Quoted[Mark(u, i + m)] = Reading(r, (i + m) + n + 1, {})
    <2>1. i + m \in Nat \ {0}
      <3> HIDE DEF m
      <3>1. QED
        BY <1>5
    <2>2. StringIsAt(u, i + m, r)
      BY <2>1
    <2>3. QED
      BY <1>6, <2>2 DEF StringIsAt
  <1> DEFINE e == i + Len(a \o b) + 1
  <1>8. e = (i + m) + n + 1 /\ e \in Nat \ {0}
    <2> DEFINE w == Len(a \o b)
    <2>1. e = i + w + 1 /\ w = m + n /\ m \in Nat /\ n \in Nat
      BY <1>5
    <2> HIDE DEF m, n, w, e
    <2>2. QED
      BY <2>1
  <1>9. CASE /\ ~char_should_be_escaped(ch) /\ a = <<ch>>
             /\ ch # string_begin_end /\ ch # begin_esc_seq
    <2>1. m = 1
      BY <1>9
    <2> HIDE DEF m, n, e, b
    <2>2. Quoted[Mark(u, i + 1)] = Reading(r, e, {}) /\ Has(u, i, <<ch>>)
      BY <1>6, <1>7, <1>8, <1>9, <2>1
    <2>3. Quoted[Mark(u, i)] = Preceded(ch, Quoted[Mark(u, i + 1)])
      BY <1>9, <2>2, PlainCharIsRead
    <2>4. QED
      BY <1>8, <2>2, <2>3, PrecededBy DEF e, b
  <1>10. CASE \E letter \in STRING : /\ a = <<begin_esc_seq, letter>>
                                     /\ unescape(letter) = ch /\ ch # nullopt
    <2>1. PICK letter \in STRING : /\ a = <<begin_esc_seq, letter>>
                                   /\ unescape(letter) = ch /\ ch # nullopt
      BY <1>10
    <2>2. m = 2
      BY <2>1
    <2> HIDE DEF m, n, e, b
    <2>3. Quoted[Mark(u, i + 2)] = Reading(r, e, {}) /\ Has(u, i, <<begin_esc_seq, letter>>)
      BY <1>6, <1>7, <1>8, <2>1, <2>2
    <2>4. Quoted[Mark(u, i)] = Preceded(ch, Quoted[Mark(u, i + 2)])
      BY <2>1, <2>3, EscapedCharIsRead
    <2>5. QED
      BY <1>8, <2>3, <2>4, PrecededBy DEF e, b
  <1>11. QED
    BY <1>9, <1>10, EscapedIsRead

\* A string is read as it has been written, wherever it is.
LEMMA StringIsRead ==
    ASSUME NEW s \in PlainTexts, NEW u \in Texts, NEW i \in Nat \ {0}
    PROVE  StringIsAt(u, i, s)
  <1> DEFINE Holds(t) == \A v \in Texts, j \in Nat \ {0} : StringIsAt(v, j, t)
             T == {n \in Nat : \A t \in PlainTexts : Len(t) = n => Holds(t)}
  <1>1. 0 \in T
    <2>1. ASSUME NEW t \in PlainTexts, Len(t) = 0 PROVE Holds(t)
      <3>1. t = <<>>
        BY <2>1, EmptySeq DEF PlainTexts
      <3>2. QED
        BY <3>1, EmptyStringIsRead
    <2>2. QED
      BY <2>1
  <1>2. ASSUME NEW n \in T PROVE n + 1 \in T
    <2>1. ASSUME NEW t \in PlainTexts, Len(t) = n + 1 PROVE Holds(t)
      <3>1. t # <<>> /\ n \in Nat
        BY <2>1, EmptySeq
      <3>2. PICK ch \in STRING \ NoEscape, r \in PlainTexts : t = <<ch>> \o r
        <4> DEFINE C == STRING \ NoEscape
        <4>1. t \in Seq(C) /\ PlainTexts = Seq(C)
          BY DEF PlainTexts
        <4> HIDE DEF C
        <4>2. Head(t) \in C /\ Tail(t) \in Seq(C) /\ t = <<Head(t)>> \o Tail(t)
          BY <3>1, <4>1, HeadTailProperties
        <4>3. QED
          BY <4>1, <4>2 DEF C
      <3>3. Len(r) = n
        <4>1. r \in Seq(STRING \ NoEscape)
          BY DEF PlainTexts
        <4>2. Len(t) = 1 + Len(r) /\ Len(r) \in Nat
          BY <3>2, <4>1, TextCons
        <4>3. QED
          BY <2>1, <3>1, <4>2
      <3>4. Holds(r)
        BY <3>3
      <3>5. QED
        BY <3>2, <3>4, NextStringIsRead
    <2> HIDE DEF Holds
    <2>2. QED
      BY <2>1
  <1>3. T = Nat
    <2>1. T \subseteq Nat
      OBVIOUS
    <2> HIDE DEF T
    <2>2. QED
      BY <1>1, <1>2, <2>1, Induction
  <1>4. Len(s) \in T
    BY <1>3, LenProperties DEF PlainTexts
  <1>5. QED
    BY <1>4

-----------------------------------------------------------------------------
(* Literals within a text.                                                 *)

\* Nothing at j belongs to a literal before it.
StopsAt(u, j) == j <= Len(u) => u[j] \in Structural

\* A literal is read as the value that it denotes.
LEMMA LiteralIsRead ==
    ASSUME NEW literal \in DOMAIN Literals, NEW u \in Texts, NEW i \in Nat \ {0},
           Has(u, i, literal), StopsAt(u, i + Len(literal))
    PROVE  /\ LiteralAt(u, i) = Reading(Literals[literal], i + Len(literal), {})
           /\ i \in 1 .. Len(u) /\ u[i] \notin Structural
  <1> DEFINE p == i + Len(literal)
  <1>1. /\ literal \in Texts /\ literal # <<>>
        /\ \A k \in DOMAIN literal : literal[k] \notin Structural
    BY LiteralsAssumption, RunsAssumption DEF Texts
  <1>2. /\ Len(literal) \in Nat \ {0} /\ DOMAIN literal = 1 .. Len(literal)
        /\ Len(u) \in Nat
    BY <1>1, LenProperties, EmptySeq DEF Texts
  <1>3. /\ p <= Len(u) + 1 /\ \A k \in 1 .. Len(literal) : u[i + k - 1] = literal[k]
        /\ p <= Len(u) => u[p] \in Structural
    BY DEF Has, StopsAt
  <1>4. p \in 2 .. Len(u) + 1 /\ i \in 1 .. p - 1 /\ Len(literal) = p - i /\ p \in Nat
    BY <1>2, <1>3
  <1> HIDE DEF p
  <1>5. \A j \in i .. p - 1 : literal[j - i + 1] = u[j] /\ u[j] \notin Structural
    <2> SUFFICES ASSUME NEW j \in i .. p - 1
                 PROVE  literal[j - i + 1] = u[j] /\ u[j] \notin Structural
      OBVIOUS
    <2> DEFINE k == j - i + 1
    <2>1. k \in 1 .. Len(literal) /\ i + k - 1 = j
      BY <1>2, <1>4
    <2> HIDE DEF k
    <2>2. u[j] = literal[k] /\ literal[k] \notin Structural
      BY <1>1, <1>2, <1>3, <2>1
    <2>3. QED
      BY <2>2 DEF k
  <1>6. LiteralBegun(u, i, p, literal)
    <2>1. \A ch : ch \notin Structural =>
             /\ ~EndsLiteral(ch)
             /\ ch \notin Blanks \cup {begin_array, begin_object, end_array, string_begin_end}
      BY StructuralEnds DEF Structural, begin_array, begin_object, end_array, string_begin_end
    <2>2. \A j \in i + 1 .. p - 1 : j \in i .. p - 1
      BY <1>4
    <2>3. i \in i .. p - 1
      BY <1>4
    <2>4. QED
      BY <1>4, <1>5, <2>1, <2>2, <2>3 DEF LiteralBegun
  <1>7. LiteralAt(u, i) = Reading(Literals[literal], p, {})
    <2>1. \A j \in i .. p - 1 : u[j] \notin Structural
      BY <1>5
    <2>2. LiteralAt(u, i) = IF literal \in DOMAIN Literals
                            THEN Reading(Literals[literal], p, {}) ELSE Unreadable
      BY <1>1, <1>3, <1>4, <1>6, <2>1, WholeLiteral
    <2>3. QED
      BY <2>2
  <1>8. i \in i .. p - 1 /\ i \in 1 .. Len(u)
    BY <1>2, <1>4
  <1>9. QED
    BY <1>5, <1>7, <1>8 DEF p

-----------------------------------------------------------------------------
(* What is read at a spot of which the next token is known.                *)

\* The spots of one text.
LEMMA SpotsOfText ==
    ASSUME NEW what \in Parts, NEW u \in Texts, NEW i \in Nat \ {0}, NEW d \in Nat,
           NEW l \in Nat \cup {nullopt}, NEW k \in SUBSET Texts
    PROVE  LET at == Spot(what, u, i, d, l, k)
           IN  /\ at \in Spots /\ at.what = what /\ at.text = u /\ at.from = i
               /\ at.depth = d /\ at.limit = l /\ at.taken = k
               /\ \A w, j, m : Onward(at, w, j, m) = Spot(w, u, j, d, l, m)
               /\ \A w : Inward(at, w) = Spot(w, u, i + 1, d + 1, l, {})
  <1> DEFINE at == Spot(what, u, i, d, l, k)
  <1>1. at \in Spots
    BY NewSpot
  <1>2. /\ at.what = what /\ at.text = u /\ at.from = i
        /\ at.depth = d /\ at.limit = l /\ at.taken = k
    BY DEF Spot
  <1> HIDE DEF at
  <1>3. /\ \A w, j, m : Onward(at, w, j, m) = Spot(w, u, j, d, l, m)
        /\ \A w : Inward(at, w) = Spot(w, u, i + 1, d + 1, l, {})
    BY <1>2 DEF Onward, Inward
  <1>4. QED
    BY <1>1, <1>2, <1>3 DEF at

\* Whether one more container may be opened inside d others.
IsAllowed(d, l) == l # nullopt => d < l

LEMMA ArrayFrom ==
    ASSUME NEW u \in Texts, NEW i \in Nat \ {0}, NEW d \in Nat, NEW l \in Nat \cup {nullopt},
           IsAt(u, i, begin_array)
    PROVE  LET r == ReadFrom[Spot("items", u, i + 1, d + 1, l, {})]
           IN  ReadFrom[Spot("value", u, i, d, l, {})] =
                   IF IsAllowed(d, l) THEN With(Array(r.value), r) ELSE Unreadable
  <1> DEFINE at == Spot("value", u, i, d, l, {})
             r == ReadFrom[Spot("items", u, i + 1, d + 1, l, {})]
  <1>1. "value" \in Parts /\ {} \in SUBSET Texts
    BY DEF Parts
  <1>2. /\ at \in Spots /\ at.what = "value" /\ at.text = u /\ at.from = i
        /\ at.depth = d /\ at.limit = l
        /\ Inward(at, "items") = Spot("items", u, i + 1, d + 1, l, {})
    BY <1>1, SpotsOfText
  <1> HIDE DEF at
  <1>3. ReadFrom[at] = ValueAt(at, ReadFrom)
    BY <1>2, ReadParts
  <1>4. ValueAt(at, ReadFrom) = IF IsAllowed(d, l) THEN With(Array(r.value), r) ELSE Unreadable
    BY <1>2, Zenon DEF ValueAt, MayOpen, IsAllowed
  <1>5. QED
    BY <1>3, <1>4 DEF at

LEMMA ObjectFrom ==
    ASSUME NEW u \in Texts, NEW i \in Nat \ {0}, NEW d \in Nat, NEW l \in Nat \cup {nullopt},
           IsAt(u, i, begin_object)
    PROVE  LET r == ReadFrom[Spot("members", u, i + 1, d + 1, l, {})]
           IN  ReadFrom[Spot("value", u, i, d, l, {})] =
                   IF IsAllowed(d, l) THEN With(Object(r.value), r) ELSE Unreadable
  <1> DEFINE at == Spot("value", u, i, d, l, {})
             r == ReadFrom[Spot("members", u, i + 1, d + 1, l, {})]
  <1>1. "value" \in Parts /\ {} \in SUBSET Texts
    BY DEF Parts
  <1>2. /\ at \in Spots /\ at.what = "value" /\ at.text = u /\ at.from = i
        /\ at.depth = d /\ at.limit = l
        /\ Inward(at, "members") = Spot("members", u, i + 1, d + 1, l, {})
    BY <1>1, SpotsOfText
  <1> HIDE DEF at
  <1>3. ReadFrom[at] = ValueAt(at, ReadFrom)
    BY <1>2, ReadParts
  <1>4. ~IsAt(u, i, begin_array)
    BY DEF IsAt, begin_array, begin_object
  <1>5. ValueAt(at, ReadFrom) = IF IsAllowed(d, l) THEN With(Object(r.value), r) ELSE Unreadable
    BY <1>2, <1>4, Zenon DEF ValueAt, MayOpen, IsAllowed
  <1>6. QED
    BY <1>3, <1>5 DEF at

LEMMA StringFrom ==
    ASSUME NEW u \in Texts, NEW i \in Nat \ {0}, NEW d \in Nat, NEW l \in Nat \cup {nullopt},
           IsAt(u, i, string_begin_end)
    PROVE  LET r == Quoted[Mark(u, i + 1)]
           IN  ReadFrom[Spot("value", u, i, d, l, {})] = With(String(r.value), r)
  <1> DEFINE at == Spot("value", u, i, d, l, {})
             r == Quoted[Mark(u, i + 1)]
  <1>1. "value" \in Parts /\ {} \in SUBSET Texts
    BY DEF Parts
  <1>2. at \in Spots /\ at.what = "value" /\ at.text = u /\ at.from = i
    BY <1>1, SpotsOfText
  <1> HIDE DEF at
  <1>3. ReadFrom[at] = ValueAt(at, ReadFrom)
    BY <1>2, ReadParts
  <1>4. ~IsAt(u, i, begin_array) /\ ~IsAt(u, i, begin_object)
    BY DEF IsAt, begin_array, begin_object, string_begin_end
  <1>5. ValueAt(at, ReadFrom) = With(String(r.value), r)
    BY <1>2, <1>4, Zenon DEF ValueAt
  <1>6. QED
    BY <1>3, <1>5 DEF at

LEMMA LiteralFromHere ==
    ASSUME NEW u \in Texts, NEW i \in 1 .. Len(u), NEW d \in Nat, NEW l \in Nat \cup {nullopt},
           u[i] \notin Structural
    PROVE  ReadFrom[Spot("value", u, i, d, l, {})] = LiteralAt(u, i)
  <1> DEFINE at == Spot("value", u, i, d, l, {})
  <1>1. "value" \in Parts /\ {} \in SUBSET Texts /\ i \in Nat \ {0}
    BY DEF Parts
  <1>2. at \in Spots /\ at.what = "value" /\ at.text = u /\ at.from = i
    BY <1>1, SpotsOfText
  <1> HIDE DEF at
  <1>3. ReadFrom[at] = ValueAt(at, ReadFrom)
    BY <1>2, ReadParts
  <1>4. ~IsAt(u, i, begin_array) /\ ~IsAt(u, i, begin_object) /\ ~IsAt(u, i, string_begin_end)
    BY DEF IsAt, begin_array, begin_object, string_begin_end, Structural
  <1>5. ValueAt(at, ReadFrom) = LiteralAt(u, i)
    BY <1>2, <1>4, Zenon DEF ValueAt
  <1>6. QED
    BY <1>3, <1>5 DEF at

-----------------------------------------------------------------------------
(* Texts of values, and of what is left of a container.                    *)

Pads == {pad \in Texts : pad \in Seq(Blanks)}

\* A text behind blanks begins at the next token.
BeginsBehind(u, i, pad, s) ==
    LET j == i + Len(pad)
    IN  /\ NextToken(u, i) = j /\ j \in 1 .. Len(u) /\ j \in Nat \ {0}
        /\ Has(u, j, s) /\ u[j] = s[1]
        /\ i + Len(pad \o s) = j + Len(s)

LEMMA TokenOf ==
    ASSUME NEW u \in Texts, NEW i \in Nat \ {0}, NEW pad \in Pads, NEW s \in Texts,
           s # <<>>, s[1] \notin Blanks, Has(u, i, pad \o s)
    PROVE  BeginsBehind(u, i, pad, s)
  <1> DEFINE j == i + Len(pad)
  <1>1. pad \in Texts /\ pad \in Seq(Blanks)
    BY DEF Pads
  <1>2. Has(u, i, pad) /\ Has(u, j, s)
    BY <1>1, HasBoth
  <1>3. Len(pad) \in Nat /\ Len(s) \in Nat /\ Len(pad \o s) = Len(pad) + Len(s)
    BY <1>1, Together, LenProperties DEF Texts
  <1> DEFINE w == Len(pad \o s)
  <1>4. j \in Nat \ {0} /\ i + w = j + Len(s)
    <2>1. w = Len(pad) + Len(s)
      BY <1>3
    <2> HIDE DEF w
    <2>2. QED
      BY <1>3, <2>1
  <1> HIDE DEF j, w
  <1>5. j \in 1 .. Len(u) /\ u[j] = s[1]
    BY <1>2, <1>4, HasFirst
  <1>6. NextToken(u, i) = j
    BY <1>1, <1>2, <1>5, TokenBehind DEF j
  <1>7. QED
    BY <1>2, <1>4, <1>5, <1>6 DEF j, w, BeginsBehind

\* Wherever s is, the value is read of it and nothing else; or, if it is no
\* text of a value, nothing is.  What follows a value does not belong to it.
ReadsAs(what, s, value, good, d, l, taken) ==
    \A u \in Texts, i \in Nat \ {0} :
        Has(u, i, s) /\ (what = "value" => StopsAt(u, i + Len(s))) =>
            LET r == ReadFrom[Spot(what, u, i, d, l, taken)]
            IN  IF good THEN r = Reading(value, i + Len(s), {}) ELSE ~Readable(r)

\* A string between quotes,
LEMMA WrappedIsRead ==
    ASSUME NEW s \in PlainTexts
    PROVE  LET w == wrap_string(s)
           IN  /\ w \in Texts /\ w # <<>> /\ w[1] = string_begin_end
               /\ \A u \in Texts, i \in Nat \ {0} : Has(u, i, w) =>
                     /\ IsAt(u, i, string_begin_end)
                     /\ Quoted[Mark(u, i + 1)] = Reading(s, i + Len(w), {})
  <1> DEFINE q == <<string_begin_end>>
             e == EscapedText(s)
             w == wrap_string(s)
             t == e \o q
             n == Len(w)
  <1>1. string_begin_end \in STRING
    BY FormatCharsAssumption DEF FormatChars
  <1>2. q \in Texts /\ Len(q) = 1
    BY <1>1, ShortText DEF Texts
  <1>3. e \in Texts /\ w = q \o t /\ t \in Texts
    <2>1. e \in Texts /\ w = q \o e \o q
      BY EscapeIs
    <2> HIDE DEF q, e, w
    <2>2. QED
      BY <1>2, <2>1, ConcatAssociative, ConcatProperties DEF Texts
  <1>4. n = Len(e) + 2 /\ Len(e) \in Nat /\ w \in Texts /\ w # <<>> /\ w[1] = string_begin_end
    <2>1. /\ <<string_begin_end>> \o t \in Texts /\ Len(<<string_begin_end>> \o t) = 1 + Len(t)
          /\ (<<string_begin_end>> \o t)[1] = string_begin_end
      <3> HIDE DEF t
      <3>1. QED
        BY <1>1, <1>3, TextCons DEF Texts
    <2> HIDE DEF e, w
    <2>2. Len(t) = Len(e) + Len(q)
      <3> HIDE DEF q
      <3>1. QED
        BY <1>2, <1>3, Together DEF Texts
    <2>3. Len(e) \in Nat
      BY <1>3, LenProperties DEF Texts
    <2> DEFINE a == Len(t)
    <2>4. w \in Texts /\ n = 1 + a /\ a = Len(e) + 1 /\ w[1] = string_begin_end
      BY <1>2, <1>3, <2>1, <2>2
    <2> HIDE DEF n, a
    <2>5. n = Len(e) + 2 /\ n # 0
      BY <2>3, <2>4
    <2>6. w # <<>>
      BY <2>5, EmptySeq DEF n
    <2>7. QED
      BY <2>3, <2>4, <2>5, <2>6
  <1> HIDE DEF n, t, e, w
  <1>5. ASSUME NEW u \in Texts, NEW i \in Nat \ {0}, Has(u, i, w)
        PROVE  IsAt(u, i, string_begin_end) /\ Quoted[Mark(u, i + 1)] = Reading(s, i + n, {})
    <2>1. Has(u, i, q \o t)
      BY <1>3, <1>5
    <2>2. Has(u, i, q) /\ Has(u, i + 1, t)
      <3> HIDE DEF q
      <3>1. Has(u, i, q) /\ Has(u, i + Len(q), t)
        BY <1>2, <1>3, <2>1, HasBoth
      <3>2. QED
        BY <1>2, <3>1
    <2>3. IsAt(u, i, string_begin_end)
      BY <2>2, HasChar
    <2>4. StringIsAt(u, i + 1, s)
      BY StringIsRead
    <2>5. Quoted[Mark(u, i + 1)] = Reading(s, (i + 1) + Len(e) + 1, {})
      BY <2>2, <2>4 DEF StringIsAt, t, e
    <2>6. (i + 1) + Len(e) + 1 = i + n
      BY <1>4
    <2>7. QED
      BY <2>3, <2>5, <2>6
  <1>6. QED
    BY <1>4, <1>5 DEF w, n

LEMMA StringReads ==
    ASSUME NEW s \in PlainTexts, NEW d \in Nat, NEW l \in Nat \cup {nullopt}
    PROVE  ReadsAs("value", wrap_string(s), String(s), TRUE, d, l, {})
  <1> DEFINE w == wrap_string(s)
             n == Len(w)
  <1>1. ASSUME NEW u \in Texts, NEW i \in Nat \ {0}, Has(u, i, w)
        PROVE  ReadFrom[Spot("value", u, i, d, l, {})] = Reading(String(s), i + n, {})
    <2> DEFINE r == Quoted[Mark(u, i + 1)]
    <2>1. IsAt(u, i, string_begin_end) /\ r = Reading(s, i + n, {})
      BY <1>1, WrappedIsRead
    <2>2. ReadFrom[Spot("value", u, i, d, l, {})] = With(String(r.value), r)
      BY <2>1, StringFrom
    <2> HIDE DEF r
    <2>3. With(String(r.value), r) = Reading(String(s), i + n, {})
      BY <2>1 DEF With, Reading
    <2>4. QED
      BY <2>2, <2>3 DEF r
  <1>2. QED
    BY <1>1 DEF ReadsAs

\* a keyword or a number,
LEMMA LiteralReads ==
    ASSUME NEW literal \in DOMAIN Literals, NEW d \in Nat, NEW l \in Nat \cup {nullopt}
    PROVE  ReadsAs("value", literal, Literals[literal], TRUE, d, l, {})
  <1>1. ASSUME NEW u \in Texts, NEW i \in Nat \ {0},
               Has(u, i, literal), StopsAt(u, i + Len(literal))
        PROVE  ReadFrom[Spot("value", u, i, d, l, {})] =
                   Reading(Literals[literal], i + Len(literal), {})
    <2>1. /\ LiteralAt(u, i) = Reading(Literals[literal], i + Len(literal), {})
          /\ i \in 1 .. Len(u) /\ u[i] \notin Structural
      BY <1>1, LiteralIsRead
    <2>2. QED
      BY <2>1, LiteralFromHere
  <1>2. QED
    BY <1>1 DEF ReadsAs

\* Behind a value comes blank space, a separator or the end of the container.
IsRest(s) == s \in Texts /\ s # <<>> /\ s[1] \in Blanks \cup {value_separator, end_array, end_object}

\* How the text of a value begins.
IsValueText(s) ==
    /\ s \in Texts /\ s # <<>>
    /\ s[1] \notin Blanks \cup {value_separator, name_separator, end_array, end_object}

\* and a container, from what is inside it.
LEMMA ArrayReads ==
    ASSUME NEW d \in Nat, NEW l \in Nat \cup {nullopt}, NEW s \in Texts, NEW items, NEW good \in BOOLEAN,
           ReadsAs("items", s, items, good, d + 1, l, {})
    PROVE  ReadsAs("value", <<begin_array>> \o s, Array(items), IsAllowed(d, l) /\ good, d, l, {})
  <1> DEFINE b == <<begin_array>>
             w == b \o s
             n == Len(w)
  <1>1. b \in Texts /\ Len(b) = 1
    BY FormatCharsAssumption, ShortText DEF FormatChars, Texts
  <1>2. n = 1 + Len(s) /\ Len(s) \in Nat
    <2>1. begin_array \in STRING /\ s \in Seq(STRING)
      BY FormatCharsAssumption DEF FormatChars, Texts
    <2>2. QED
      BY <2>1, TextCons
  <1> HIDE DEF n
  <1>3. ASSUME NEW u \in Texts, NEW i \in Nat \ {0}, Has(u, i, w)
        PROVE  LET r == ReadFrom[Spot("value", u, i, d, l, {})]
               IN  IF IsAllowed(d, l) /\ good THEN r = Reading(Array(items), i + n, {})
                   ELSE ~Readable(r)
    <2>1. Has(u, i, b) /\ Has(u, i + 1, s)
      <3> HIDE DEF b
      <3>1. Has(u, i, b) /\ Has(u, i + Len(b), s)
        BY <1>1, <1>3, HasBoth
      <3>2. QED
        BY <1>1, <3>1
    <2>2. IsAt(u, i, begin_array)
      BY <2>1, HasChar
    <2> DEFINE r == ReadFrom[Spot("items", u, i + 1, d + 1, l, {})]
               v == ReadFrom[Spot("value", u, i, d, l, {})]
    <2>3. v = IF IsAllowed(d, l) THEN With(Array(r.value), r) ELSE Unreadable
      BY <2>2, ArrayFrom
    <2>4. IF good THEN r = Reading(items, (i + 1) + Len(s), {}) ELSE ~Readable(r)
      BY <2>1 DEF ReadsAs
    <2>5. (i + 1) + Len(s) = i + n
      BY <1>2
    <2> HIDE DEF r, v
    <2>6. IF IsAllowed(d, l) /\ good THEN v = Reading(Array(items), i + n, {}) ELSE ~Readable(v)
      <3>1. CASE IsAllowed(d, l) /\ good
        <4>1. r = Reading(items, i + n, {})
          BY <2>4, <2>5, <3>1
        <4>2. QED
          BY <2>3, <3>1, <4>1 DEF With, Reading
      <3>2. CASE IsAllowed(d, l) /\ ~good
        BY <2>3, <2>4, <3>2 DEF With, Reading, Readable
      <3>3. CASE ~IsAllowed(d, l)
        BY <2>3, <3>3, UnreadableIs
      <3>4. QED
        BY <3>1, <3>2, <3>3
    <2>7. QED
      BY <2>6 DEF v
  <1>4. QED
    BY <1>3 DEF ReadsAs, n

LEMMA ObjectReads ==
    ASSUME NEW d \in Nat, NEW l \in Nat \cup {nullopt}, NEW s \in Texts, NEW members, NEW good \in BOOLEAN,
           ReadsAs("members", s, members, good, d + 1, l, {})
    PROVE  ReadsAs("value", <<begin_object>> \o s, Object(members), IsAllowed(d, l) /\ good,
                   d, l, {})
  <1> DEFINE b == <<begin_object>>
             w == b \o s
             n == Len(w)
  <1>1. b \in Texts /\ Len(b) = 1
    BY FormatCharsAssumption, ShortText DEF FormatChars, Texts
  <1>2. n = 1 + Len(s) /\ Len(s) \in Nat
    <2>1. begin_object \in STRING /\ s \in Seq(STRING)
      BY FormatCharsAssumption DEF FormatChars, Texts
    <2>2. QED
      BY <2>1, TextCons
  <1> HIDE DEF n
  <1>3. ASSUME NEW u \in Texts, NEW i \in Nat \ {0}, Has(u, i, w)
        PROVE  LET r == ReadFrom[Spot("value", u, i, d, l, {})]
               IN  IF IsAllowed(d, l) /\ good THEN r = Reading(Object(members), i + n, {})
                   ELSE ~Readable(r)
    <2>1. Has(u, i, b) /\ Has(u, i + 1, s)
      <3> HIDE DEF b
      <3>1. Has(u, i, b) /\ Has(u, i + Len(b), s)
        BY <1>1, <1>3, HasBoth
      <3>2. QED
        BY <1>1, <3>1
    <2>2. IsAt(u, i, begin_object)
      BY <2>1, HasChar
    <2> DEFINE r == ReadFrom[Spot("members", u, i + 1, d + 1, l, {})]
               v == ReadFrom[Spot("value", u, i, d, l, {})]
    <2>3. v = IF IsAllowed(d, l) THEN With(Object(r.value), r) ELSE Unreadable
      BY <2>2, ObjectFrom
    <2>4. IF good THEN r = Reading(members, (i + 1) + Len(s), {}) ELSE ~Readable(r)
      BY <2>1 DEF ReadsAs
    <2>5. (i + 1) + Len(s) = i + n
      BY <1>2
    <2> HIDE DEF r, v
    <2>6. IF IsAllowed(d, l) /\ good THEN v = Reading(Object(members), i + n, {}) ELSE ~Readable(v)
      <3>1. CASE IsAllowed(d, l) /\ good
        <4>1. r = Reading(members, i + n, {})
          BY <2>4, <2>5, <3>1
        <4>2. QED
          BY <2>3, <3>1, <4>1 DEF With, Reading
      <3>2. CASE IsAllowed(d, l) /\ ~good
        BY <2>3, <2>4, <3>2 DEF With, Reading, Readable
      <3>3. CASE ~IsAllowed(d, l)
        BY <2>3, <3>3, UnreadableIs
      <3>4. QED
        BY <3>1, <3>2, <3>3
    <2>7. QED
      BY <2>6 DEF v
  <1>4. QED
    BY <1>3 DEF ReadsAs, n

\* What is left of a container, behind one of its entries.
MoreItemsFrom(u, i, d, l) == ReadFrom[Spot("more items", u, i, d, l, {})]

MoreItemsRead(s, items, good, d, l) ==
    \A u \in Texts, i \in Nat \ {0} :
        Has(u, i, s) =>
            LET r == MoreItemsFrom(u, i, d, l)
            IN  IF good THEN r = Reading(items, i + Len(s), {}) ELSE ~Readable(r)

MoreMembersFrom(u, i, d, l, taken) == ReadFrom[Spot("more members", u, i, d, l, taken)]

MoreMembersRead(s, members, good, d, l, taken) ==
    \A u \in Texts, i \in Nat \ {0} :
        Has(u, i, s) =>
            LET r == MoreMembersFrom(u, i, d, l, taken)
            IN  IF good THEN r = Reading(members, i + Len(s), {}) ELSE ~Readable(r)

\* The end of a container,
LEMMA ClosingAt ==
    ASSUME NEW ch \in {end_array, end_object}, NEW pad \in Pads,
           NEW u \in Texts, NEW i \in Nat \ {0}, Has(u, i, pad \o <<ch>>)
    PROVE  /\ IsAt(u, NextToken(u, i), ch)
           /\ NextToken(u, i) + 1 = i + Len(pad \o <<ch>>)
  <1> DEFINE s == <<ch>>
             j == i + Len(pad)
             w == Len(pad \o s)
  <1>1. s \in Texts /\ Len(s) = 1 /\ s # <<>> /\ s[1] = ch
    <2>1. ch \in STRING
      BY FormatCharsAssumption DEF FormatChars
    <2>2. QED
      BY <2>1, ShortText DEF Texts
  <1>2. s[1] \notin Blanks
    BY <1>1 DEF Blanks, end_array, end_object
  <1>3. Has(u, i, pad \o s)
    OBVIOUS
  <1> HIDE DEF s
  <1>4. /\ NextToken(u, i) = j /\ j \in 1 .. Len(u) /\ j \in Nat /\ u[j] = s[1]
        /\ i + w = j + Len(s)
    <2>1. BeginsBehind(u, i, pad, s)
      BY <1>1, <1>2, <1>3, TokenOf
    <2>2. QED
      BY <2>1 DEF BeginsBehind
  <1>5. DOMAIN u = 1 .. Len(u)
    BY LenProperties DEF Texts
  <1> HIDE DEF j, w
  <1>6. j + 1 = i + w
    BY <1>1, <1>4
  <1>7. QED
    BY <1>1, <1>4, <1>5, <1>6 DEF IsAt, j, w, s

LEMMA EndOfArrayReads ==
    ASSUME NEW d \in Nat, NEW l \in Nat \cup {nullopt}, NEW pad \in Pads
    PROVE  /\ ReadsAs("items", pad \o <<end_array>>, <<>>, TRUE, d, l, {})
           /\ MoreItemsRead(pad \o <<end_array>>, <<>>, TRUE, d, l)
  <1>1. ASSUME NEW u \in Texts, NEW i \in Nat \ {0}, Has(u, i, pad \o <<end_array>>)
        PROVE  /\ ReadFrom[Spot("items", u, i, d, l, {})] =
                      Reading(<<>>, i + Len(pad \o <<end_array>>), {})
               /\ ReadFrom[Spot("more items", u, i, d, l, {})] =
                      Reading(<<>>, i + Len(pad \o <<end_array>>), {})
    <2> DEFINE at == Spot("items", u, i, d, l, {})
               more == Spot("more items", u, i, d, l, {})
               j == NextToken(u, i)
    <2>1. IsAt(u, j, end_array) /\ j + 1 = i + Len(pad \o <<end_array>>)
      BY <1>1, ClosingAt
    <2>2. at \in Spots /\ at.what = "items" /\ at.text = u /\ at.from = i
      <3>1. "items" \in Parts /\ {} \in SUBSET Texts
        BY DEF Parts
      <3>2. QED
        BY <3>1, NewSpot DEF Spot
    <2>3. more \in Spots /\ more.what = "more items" /\ more.text = u /\ more.from = i
      <3>1. "more items" \in Parts /\ {} \in SUBSET Texts
        BY DEF Parts
      <3>2. QED
        BY <3>1, NewSpot DEF Spot
    <2> HIDE DEF at, more
    <2>4. ReadFrom[at] = ItemsAt(at, ReadFrom) /\ ReadFrom[more] = MoreItemsAt(more, ReadFrom)
      BY <2>2, <2>3, ReadParts
    <2>5. ItemsAt(at, ReadFrom) = Reading(<<>>, j + 1, {})
      BY <2>1, <2>2, Zenon DEF ItemsAt
    <2>6. ~IsAt(u, j, value_separator)
      BY <2>1 DEF IsAt, end_array, value_separator
    <2>7. MoreItemsAt(more, ReadFrom) = Reading(<<>>, j + 1, {})
      BY <2>1, <2>3, <2>6, Zenon DEF MoreItemsAt
    <2>8. QED
      BY <2>1, <2>4, <2>5, <2>7 DEF at, more
  <1>2. QED
    BY <1>1 DEF ReadsAs, MoreItemsRead, MoreItemsFrom

LEMMA EndOfObjectReads ==
    ASSUME NEW d \in Nat, NEW l \in Nat \cup {nullopt}, NEW taken \in SUBSET Texts, NEW pad \in Pads
    PROVE  /\ ReadsAs("members", pad \o <<end_object>>, <<>>, TRUE, d, l, taken)
           /\ MoreMembersRead(pad \o <<end_object>>, <<>>, TRUE, d, l, taken)
  <1>1. ASSUME NEW u \in Texts, NEW i \in Nat \ {0}, Has(u, i, pad \o <<end_object>>)
        PROVE  /\ ReadFrom[Spot("members", u, i, d, l, taken)] =
                      Reading(<<>>, i + Len(pad \o <<end_object>>), {})
               /\ ReadFrom[Spot("more members", u, i, d, l, taken)] =
                      Reading(<<>>, i + Len(pad \o <<end_object>>), {})
    <2> DEFINE at == Spot("members", u, i, d, l, taken)
               more == Spot("more members", u, i, d, l, taken)
               j == NextToken(u, i)
    <2>1. IsAt(u, j, end_object) /\ j + 1 = i + Len(pad \o <<end_object>>)
      BY <1>1, ClosingAt
    <2>2. at \in Spots /\ at.what = "members" /\ at.text = u /\ at.from = i
      <3>1. "members" \in Parts
        BY DEF Parts
      <3>2. QED
        BY <3>1, NewSpot DEF Spot
    <2>3. more \in Spots /\ more.what = "more members" /\ more.text = u /\ more.from = i
      <3>1. "more members" \in Parts
        BY DEF Parts
      <3>2. QED
        BY <3>1, NewSpot DEF Spot
    <2> HIDE DEF at, more
    <2>4. /\ ReadFrom[at] = MembersAt(at, ReadFrom)
          /\ ReadFrom[more] = MoreMembersAt(more, ReadFrom)
      BY <2>2, <2>3, ReadParts
    <2>5. MembersAt(at, ReadFrom) = Reading(<<>>, j + 1, {})
      BY <2>1, <2>2, Zenon DEF MembersAt
    <2>6. ~IsAt(u, j, value_separator)
      BY <2>1 DEF IsAt, end_object, value_separator
    <2>7. MoreMembersAt(more, ReadFrom) = Reading(<<>>, j + 1, {})
      BY <2>1, <2>3, <2>6, Zenon DEF MoreMembersAt
    <2>8. QED
      BY <2>1, <2>4, <2>5, <2>7 DEF at, more
  <1>2. QED
    BY <1>1 DEF ReadsAs, MoreMembersRead, MoreMembersFrom

-----------------------------------------------------------------------------
(* Entries of a container.                                                 *)

LEMMA ReadingIs ==
    \A value, next, defects :
        LET r == Reading(value, next, defects)
        IN  r.value = value /\ r.next = next /\ r.defects = defects
  BY DEF Reading

\* What is read of the elements from one that is at j.
LEMMA ItemsFrom ==
    ASSUME NEW u \in Texts, NEW i \in Nat \ {0}, NEW d \in Nat, NEW l \in Nat \cup {nullopt},
           ~IsAt(u, NextToken(u, i), end_array)
    PROVE  LET j    == NextToken(u, i)
               item == ReadFrom[Spot("value", u, j, d, l, {})]
               rest == MoreItemsFrom(u, item.next, d, l)
           IN  ReadFrom[Spot("items", u, i, d, l, {})] =
                   IF ~Advances(item, u, j) \/ ~Readable(rest) THEN Unreadable
                   ELSE Reading(<<item.value>> \o rest.value, rest.next,
                                item.defects \cup rest.defects)
  <1> DEFINE at == Spot("items", u, i, d, l, {})
             j == NextToken(u, i)
             item == ReadFrom[Spot("value", u, j, d, l, {})]
             rest == MoreItemsFrom(u, item.next, d, l)
  <1>1. at \in Spots /\ at.what = "items"
    <2>1. "items" \in Parts /\ {} \in SUBSET Texts
      BY DEF Parts
    <2>2. QED
      BY <2>1, NewSpot DEF Spot
  <1>2. /\ at.text = u /\ at.from = i
        /\ \A w, p : Onward(at, w, p, {}) = Spot(w, u, p, d, l, {})
    BY DEF Spot, Onward
  <1> HIDE DEF at
  <1>3. ReadFrom[at] = ItemsAt(at, ReadFrom)
    BY <1>1, ReadParts
  <1>4. ItemsAt(at, ReadFrom) = Item(at, j, item, ReadFrom)
    BY <1>2, Zenon DEF ItemsAt
  <1> HIDE DEF item, j
  <1>5. Item(at, j, item, ReadFrom) =
            IF ~Advances(item, u, j) \/ ~Readable(rest) THEN Unreadable
            ELSE Reading(<<item.value>> \o rest.value, rest.next, item.defects \cup rest.defects)
    BY <1>2, Zenon DEF Item, MoreItemsFrom
  <1>6. QED
    BY <1>3, <1>4, <1>5 DEF at, item, j

\* What follows a value stops a keyword or a number.
LEMMA RestStops ==
    ASSUME NEW u \in Texts, NEW i \in Nat \ {0}, NEW s, IsRest(s), Has(u, i, s)
    PROVE  StopsAt(u, i)
  <1>1. u[i] = s[1]
    BY HasFirst DEF IsRest
  <1>2. QED
    BY <1>1 DEF StopsAt, IsRest, Structural, value_separator, end_array, end_object

\* The part of a text behind another, and its end.
Follows(u, i, s, t) ==
    /\ Has(u, i, s) /\ Has(u, i + Len(s), t)
    /\ i + Len(s) \in Nat \ {0} /\ i + Len(s \o t) = (i + Len(s)) + Len(t)

LEMMA TextFollows ==
    ASSUME NEW u \in Texts, NEW i \in Nat \ {0}, NEW s \in Texts, NEW t \in Texts,
           Has(u, i, s \o t)
    PROVE  Follows(u, i, s, t)
  <1>1. Has(u, i, s) /\ Has(u, i + Len(s), t)
    BY HasBoth
  <1>2. Len(s) \in Nat /\ Len(t) \in Nat /\ Len(s \o t) = Len(s) + Len(t)
    BY Together, LenProperties DEF Texts
  <1> DEFINE m == Len(s)
             n == Len(t)
             w == Len(s \o t)
  <1>3. m \in Nat /\ n \in Nat /\ w = m + n
    BY <1>2
  <1> HIDE DEF m, n, w
  <1>4. i + m \in Nat \ {0} /\ i + w = (i + m) + n
    BY <1>3
  <1>5. QED
    BY <1>1, <1>4 DEF m, n, w, Follows

\* Behind the text of a value, a value has been read unless there is none.
LEMMA ValueEnds ==
    ASSUME NEW u \in Texts, NEW j \in Nat \ {0}, NEW t, IsValueText(t), Has(u, j, t)
    PROVE  /\ \A value : Advances(Reading(value, j + Len(t), {}), u, j)
           /\ j + Len(t) \in Nat \ {0}
           /\ \A r : ~Readable(r) => ~Advances(r, u, j)
  <1> DEFINE n == Len(t)
  <1>1. n \in Nat \ {0} /\ Len(u) \in Nat /\ j + n <= Len(u) + 1
    BY LenProperties, EmptySeq DEF IsValueText, Has, Texts
  <1> HIDE DEF n
  <1>2. j + n \in j + 1 .. Len(u) + 1 /\ j + n \in Nat \ {0} /\ 0 \notin j + 1 .. Len(u) + 1
    BY <1>1
  <1>3. QED
    BY <1>2 DEF Advances, Reading, Readable, n

\* Two texts that are put together begin like the first.
LEMMA JoinedText ==
    ASSUME NEW t \in Texts, NEW s \in Texts, t # <<>>
    PROVE  t \o s \in Texts /\ t \o s # <<>> /\ (t \o s)[1] = t[1]
  <1> DEFINE w == t \o s
  <1>1. /\ w \in Texts /\ Len(w) = Len(t) + Len(s)
        /\ \A k \in 1 .. Len(t) : w[k] = t[k]
    BY Together DEF Texts
  <1>2. Len(t) \in Nat \ {0} /\ Len(s) \in Nat
    BY LenProperties, EmptySeq DEF Texts
  <1> HIDE DEF w
  <1>3. 1 \in 1 .. Len(t) /\ Len(w) # 0
    BY <1>1, <1>2
  <1>4. QED
    BY <1>1, <1>3, EmptySeq DEF w

\* A value that is read behind i, and where the rest of its container begins.
IsFound(u, i, pad, t, s, value, good, d, l) ==
    LET start == NextToken(u, i)
        item  == ReadFrom[Spot("value", u, start, d, l, {})]
        p     == start + Len(t)
    IN  /\ u[start] = t[1]
        /\ p \in Nat \ {0} /\ Has(u, p, s) /\ i + Len(pad \o (t \o s)) = p + Len(s)
        /\ good => Advances(item, u, start) /\ item = Reading(value, p, {})
        /\ ~good => ~Advances(item, u, start)

LEMMA ValueIsFound ==
    ASSUME NEW d \in Nat, NEW l \in Nat \cup {nullopt}, NEW pad \in Pads,
           NEW t, IsValueText(t), NEW value, NEW good \in BOOLEAN,
           ReadsAs("value", t, value, good, d, l, {}),
           NEW s, IsRest(s),
           NEW u \in Texts, NEW i \in Nat \ {0}, Has(u, i, pad \o (t \o s))
    PROVE  IsFound(u, i, pad, t, s, value, good, d, l)
  <1> DEFINE w == t \o s
             n == Len(pad \o w)
             j == NextToken(u, i)
             p == j + Len(t)
             item == ReadFrom[Spot("value", u, j, d, l, {})]
  <1>1. t \in Texts /\ s \in Texts /\ t # <<>> /\ t[1] \notin Blanks
    BY DEF IsValueText, IsRest
  <1>2. w \in Texts /\ w # <<>> /\ w[1] = t[1]
    BY <1>1, JoinedText
  <1>3. j \in Nat \ {0} /\ Has(u, j, w) /\ u[j] = t[1] /\ i + n = j + Len(w)
    <2> HIDE DEF w
    <2>1. BeginsBehind(u, i, pad, w)
      BY <1>1, <1>2, TokenOf DEF w
    <2>2. QED
      BY <1>2, <2>1 DEF BeginsBehind
  <1> HIDE DEF j, n
  <1>4. /\ Has(u, j, t) /\ Has(u, p, s) /\ p \in Nat \ {0} /\ i + n = p + Len(s)
    <2>1. Follows(u, j, t, s)
      BY <1>1, <1>3, TextFollows
    <2>2. QED
      BY <1>3, <2>1 DEF Follows
  <1>5. StopsAt(u, p)
    BY <1>4, RestStops
  <1>6. IF good THEN item = Reading(value, p, {}) ELSE ~Readable(item)
    BY <1>3, <1>4, <1>5 DEF ReadsAs
  <1>7. /\ good => Advances(item, u, j)
        /\ ~good => ~Advances(item, u, j)
    BY <1>3, <1>4, <1>6, ValueEnds
  <1>8. QED
    BY <1>3, <1>4, <1>6, <1>7 DEF IsFound, j, n

\* An element and those behind it,
LEMMA ItemReads ==
    ASSUME NEW d \in Nat, NEW l \in Nat \cup {nullopt}, NEW pad \in Pads,
           NEW t, IsValueText(t), NEW value, NEW good \in BOOLEAN,
           ReadsAs("value", t, value, good, d, l, {}),
           NEW s, IsRest(s), NEW items, NEW goods \in BOOLEAN,
           MoreItemsRead(s, items, goods, d, l)
    PROVE  ReadsAs("items", pad \o (t \o s), <<value>> \o items, good /\ goods, d, l, {})
  <1> DEFINE n == Len(pad \o (t \o s))
  <1>1. ASSUME NEW u \in Texts, NEW i \in Nat \ {0}, Has(u, i, pad \o (t \o s))
        PROVE  LET r == ReadFrom[Spot("items", u, i, d, l, {})]
               IN  IF good /\ goods THEN r = Reading(<<value>> \o items, i + n, {})
                   ELSE ~Readable(r)
    <2> DEFINE j == NextToken(u, i)
               p == j + Len(t)
               item == ReadFrom[Spot("value", u, j, d, l, {})]
               rest == MoreItemsFrom(u, item.next, d, l)
               r == ReadFrom[Spot("items", u, i, d, l, {})]
               e == i + n
    <2>1. IsFound(u, i, pad, t, s, value, good, d, l)
      BY <1>1, ValueIsFound
    <2>2. /\ u[j] = t[1] /\ p \in Nat \ {0} /\ Has(u, p, s) /\ e = p + Len(s)
          /\ good => Advances(item, u, j) /\ item = Reading(value, p, {})
          /\ ~good => ~Advances(item, u, j)
      BY <2>1 DEF IsFound
    <2>3. r = IF ~Advances(item, u, j) \/ ~Readable(rest) THEN Unreadable
              ELSE Reading(<<item.value>> \o rest.value, rest.next, item.defects \cup rest.defects)
      <3>1. ~IsAt(u, j, end_array)
        BY <2>2 DEF IsAt, IsValueText
      <3>2. QED
        BY <3>1, ItemsFrom
    <2> HIDE DEF j, p, item, r, e
    <2>4. CASE ~good
      BY <2>2, <2>3, <2>4, UnreadableIs DEF r
    <2>5. CASE good
      <3>1. item.next = p /\ item.value = value /\ item.defects = {}
        BY <2>2, <2>5, ReadingIs
      <3>2. IF goods THEN rest = Reading(items, e, {}) ELSE ~Readable(rest)
        BY <2>2, <3>1 DEF MoreItemsRead
      <3> HIDE DEF rest
      <3>3. CASE ~goods
        BY <2>3, <3>2, <3>3, UnreadableIs DEF r
      <3>4. CASE goods
        <4>1. rest.next = e /\ rest.value = items /\ rest.defects = {}
          BY <3>2, <3>4, ReadingIs
        <4>2. e # 0
          <5>1. Len(s) \in Nat
            BY LenProperties DEF IsRest, Texts
          <5>2. QED
            BY <2>2, <5>1
        <4>3. r = Reading(<<item.value>> \o rest.value, rest.next, item.defects \cup rest.defects)
          BY <2>2, <2>3, <2>5, <4>1, <4>2 DEF Readable
        <4>4. item.defects \cup rest.defects = {}
          BY <3>1, <4>1
        <4>5. r = Reading(<<value>> \o items, e, {})
          BY <3>1, <4>1, <4>3, <4>4
        <4>6. QED
          BY <2>5, <3>4, <4>5 DEF r, e
      <3>5. QED
        BY <3>3, <3>4
    <2>6. QED
      BY <2>4, <2>5
  <1>2. QED
    BY <1>1 DEF ReadsAs

\* and behind a comma.
SeparatedBy(ch, u, i, pad, s) ==
    LET j == NextToken(u, i)
    IN  /\ IsAt(u, j, ch) /\ j + 1 \in Nat \ {0} /\ Has(u, j + 1, s)
        /\ i + Len(pad \o (<<ch>> \o s)) = (j + 1) + Len(s)

LEMMA SeparatorBefore ==
    ASSUME NEW ch \in {value_separator, name_separator},
           NEW u \in Texts, NEW i \in Nat \ {0}, NEW pad \in Pads, NEW s \in Texts,
           Has(u, i, pad \o (<<ch>> \o s))
    PROVE  SeparatedBy(ch, u, i, pad, s)
  <1> DEFINE c == <<ch>>
             w == c \o s
             j == NextToken(u, i)
             e == i + Len(pad \o w)
  <1>1. ch \in STRING /\ ch \notin Blanks
    BY FormatCharsAssumption DEF FormatChars, Blanks, value_separator, name_separator
  <1>2. c \in Texts /\ Len(c) = 1
    BY <1>1, ShortText DEF Texts
  <1>3. w \in Texts /\ w # <<>> /\ w[1] = ch
    <2>1. w \in Seq(STRING) /\ Len(w) = 1 + Len(s) /\ Len(s) \in Nat /\ w[1] = ch
      BY <1>1, TextCons DEF Texts
    <2> HIDE DEF w
    <2>2. Len(w) # 0
      BY <2>1
    <2>3. QED
      BY <2>1, <2>2, EmptySeq DEF Texts
  <1>4. j \in Nat \ {0} /\ j \in 1 .. Len(u) /\ Has(u, j, w) /\ u[j] = w[1] /\ e = j + Len(w)
    <2> HIDE DEF w
    <2>1. BeginsBehind(u, i, pad, w)
      BY <1>1, <1>3, TokenOf DEF w
    <2>2. QED
      BY <2>1 DEF BeginsBehind
  <1> HIDE DEF j, e
  <1>5. Follows(u, j, c, s)
    <2> HIDE DEF c
    <2>1. Has(u, j, c \o s)
      BY <1>4
    <2>2. QED
      BY <1>2, <1>4, <2>1, TextFollows
  <1>6. Has(u, j + 1, s) /\ j + 1 \in Nat \ {0} /\ e = (j + 1) + Len(s)
    <2> HIDE DEF c
    <2>1. QED
      BY <1>2, <1>4, <1>5 DEF Follows
  <1>7. IsAt(u, j, ch)
    <2>1. DOMAIN u = 1 .. Len(u)
      BY LenProperties DEF Texts
    <2>2. QED
      BY <1>3, <1>4, <2>1 DEF IsAt
  <1>8. QED
    BY <1>6, <1>7 DEF j, e, SeparatedBy

LEMMA MoreItemsReads ==
    ASSUME NEW d \in Nat, NEW l \in Nat \cup {nullopt}, NEW pad \in Pads, NEW s \in Texts,
           NEW items, NEW good \in BOOLEAN, ReadsAs("items", s, items, good, d, l, {})
    PROVE  MoreItemsRead(pad \o (<<value_separator>> \o s), items, good, d, l)
  <1> DEFINE w == pad \o (<<value_separator>> \o s)
  <1>1. ASSUME NEW u \in Texts, NEW i \in Nat \ {0}, Has(u, i, w)
        PROVE  LET r == MoreItemsFrom(u, i, d, l)
               IN  IF good THEN r = Reading(items, i + Len(w), {}) ELSE ~Readable(r)
    <2> DEFINE at == Spot("more items", u, i, d, l, {})
               j == NextToken(u, i)
               r == ReadFrom[Spot("items", u, j + 1, d, l, {})]
               e == i + Len(w)
    <2>1. /\ IsAt(u, j, value_separator) /\ j + 1 \in Nat \ {0} /\ Has(u, j + 1, s)
          /\ e = (j + 1) + Len(s)
      <3>1. SeparatedBy(value_separator, u, i, pad, s)
        BY <1>1, SeparatorBefore
      <3>2. QED
        BY <3>1 DEF SeparatedBy
    <2>2. at \in Spots /\ at.what = "more items"
      <3>1. "more items" \in Parts /\ {} \in SUBSET Texts
        BY DEF Parts
      <3>2. QED
        BY <3>1, NewSpot DEF Spot
    <2>3. /\ at.text = u /\ at.from = i
          /\ \A v, p : Onward(at, v, p, {}) = Spot(v, u, p, d, l, {})
      BY DEF Spot, Onward
    <2> HIDE DEF at, j, e
    <2>4. ReadFrom[at] = MoreItemsAt(at, ReadFrom)
      BY <2>2, ReadParts
    <2>5. MoreItemsAt(at, ReadFrom) = r
      BY <2>1, <2>3, Zenon DEF MoreItemsAt, j
    <2>6. IF good THEN r = Reading(items, e, {}) ELSE ~Readable(r)
      BY <2>1 DEF ReadsAs
    <2>7. QED
      BY <2>4, <2>5, <2>6 DEF at, e, MoreItemsFrom
  <1>2. QED
    BY <1>1 DEF MoreItemsRead

LEMMA MoreMembersReads ==
    ASSUME NEW d \in Nat, NEW l \in Nat \cup {nullopt}, NEW taken \in SUBSET Texts,
           NEW pad \in Pads, NEW s \in Texts,
           NEW members, NEW good \in BOOLEAN, ReadsAs("members", s, members, good, d, l, taken)
    PROVE  MoreMembersRead(pad \o (<<value_separator>> \o s), members, good, d, l, taken)
  <1> DEFINE w == pad \o (<<value_separator>> \o s)
  <1>1. ASSUME NEW u \in Texts, NEW i \in Nat \ {0}, Has(u, i, w)
        PROVE  LET r == MoreMembersFrom(u, i, d, l, taken)
               IN  IF good THEN r = Reading(members, i + Len(w), {}) ELSE ~Readable(r)
    <2> DEFINE at == Spot("more members", u, i, d, l, taken)
               j == NextToken(u, i)
               r == ReadFrom[Spot("members", u, j + 1, d, l, taken)]
               e == i + Len(w)
    <2>1. /\ IsAt(u, j, value_separator) /\ j + 1 \in Nat \ {0} /\ Has(u, j + 1, s)
          /\ e = (j + 1) + Len(s)
      <3>1. SeparatedBy(value_separator, u, i, pad, s)
        BY <1>1, SeparatorBefore
      <3>2. QED
        BY <3>1 DEF SeparatedBy
    <2>2. at \in Spots /\ at.what = "more members"
      <3>1. "more members" \in Parts
        BY DEF Parts
      <3>2. QED
        BY <3>1, NewSpot DEF Spot
    <2>3. /\ at.text = u /\ at.from = i
          /\ \A v, p : Onward(at, v, p, at.taken) = Spot(v, u, p, d, l, taken)
      BY DEF Spot, Onward
    <2> HIDE DEF at, j, e
    <2>4. ReadFrom[at] = MoreMembersAt(at, ReadFrom)
      BY <2>2, ReadParts
    <2>5. MoreMembersAt(at, ReadFrom) = r
      BY <2>1, <2>3, Zenon DEF MoreMembersAt, j
    <2>6. IF good THEN r = Reading(members, e, {}) ELSE ~Readable(r)
      BY <2>1 DEF ReadsAs
    <2>7. QED
      BY <2>4, <2>5, <2>6 DEF at, e, MoreMembersFrom
  <1>2. QED
    BY <1>1 DEF MoreMembersRead

\* What is read of the members from one at j whose key is new,
MemberFollows(u, i, taken) ==
    LET key   == Quoted[Mark(u, NextToken(u, i) + 1)]
        colon == NextToken(u, key.next)
    IN  /\ IsAt(u, NextToken(u, i), string_begin_end) /\ Readable(key)
        /\ key.value \notin taken
        /\ IsAt(u, colon, name_separator)
        /\ ~IsAt(u, NextToken(u, colon + 1), end_array)

IsReadBehind(u, i, d, l, taken) ==
    LET key   == Quoted[Mark(u, NextToken(u, i) + 1)]
        colon == NextToken(u, key.next)
        start == NextToken(u, colon + 1)
        value == ReadFrom[Spot("value", u, start, d, l, {})]
        rest  == MoreMembersFrom(u, value.next, d, l, taken \cup {key.value})
    IN  ReadFrom[Spot("members", u, i, d, l, taken)] =
            IF ~Advances(value, u, start) \/ ~Readable(rest) THEN Unreadable
            ELSE Reading(Bound(key.value, value.value, rest.value), rest.next,
                         value.defects \cup rest.defects)

LEMMA MembersFrom ==
    ASSUME NEW u \in Texts, NEW i \in Nat \ {0}, NEW d \in Nat, NEW l \in Nat \cup {nullopt},
           NEW taken \in SUBSET Texts, MemberFollows(u, i, taken)
    PROVE  IsReadBehind(u, i, d, l, taken)
  <1> DEFINE at    == Spot("members", u, i, d, l, taken)
             j     == NextToken(u, i)
             key   == Quoted[Mark(u, j + 1)]
             colon == NextToken(u, key.next)
             start == NextToken(u, colon + 1)
             value == ReadFrom[Spot("value", u, start, d, l, {})]
             rest  == MoreMembersFrom(u, value.next, d, l, taken \cup {key.value})
  <1>1. at \in Spots /\ at.what = "members"
    <2>1. "members" \in Parts
      BY DEF Parts
    <2>2. QED
      BY <2>1, NewSpot DEF Spot
  <1>2. /\ at.text = u /\ at.from = i /\ at.taken = taken
        /\ \A w, p, k : Onward(at, w, p, k) = Spot(w, u, p, d, l, k)
    BY DEF Spot, Onward
  <1>3. /\ IsAt(u, j, string_begin_end) /\ Readable(key) /\ key.value \notin taken
        /\ IsAt(u, colon, name_separator) /\ ~IsAt(u, start, end_array)
    BY DEF MemberFollows
  <1>4. ~IsAt(u, j, end_object)
    BY <1>3 DEF IsAt, string_begin_end, end_object
  <1> HIDE DEF at
  <1>5. ReadFrom[at] = MembersAt(at, ReadFrom)
    BY <1>1, ReadParts
  <1>6. MembersAt(at, ReadFrom) = Named(at, key.value, key.next, ReadFrom)
    BY <1>2, <1>3, <1>4, Zenon DEF MembersAt
  <1> HIDE DEF key, j
  <1>7. Named(at, key.value, key.next, ReadFrom) = Valued(at, key.value, colon + 1, ReadFrom)
    BY <1>2, <1>3, Zenon DEF Named
  <1> HIDE DEF colon
  <1>8. Valued(at, key.value, colon + 1, ReadFrom) =
            Member(at, key.value, start, value, ReadFrom)
    BY <1>2, <1>3, Zenon DEF Valued
  <1> HIDE DEF value, start
  <1>9. Member(at, key.value, start, value, ReadFrom) =
            IF ~Advances(value, u, start) \/ ~Readable(rest) THEN Unreadable
            ELSE Reading(Bound(key.value, value.value, rest.value), rest.next,
                         value.defects \cup rest.defects)
    BY <1>2, <1>3, Zenon DEF Member, MoreMembersFrom
  <1>10. QED
    BY <1>5, <1>6, <1>7, <1>8, <1>9 DEF at, j, key, colon, value, start, IsReadBehind

\* and from one that has no key.
LEMMA NamelessFrom ==
    ASSUME NEW u \in Texts, NEW i \in Nat \ {0}, NEW d \in Nat, NEW l \in Nat \cup {nullopt},
           NEW taken \in SUBSET Texts, ~IsAt(u, NextToken(u, i), end_object),
           LET key == Quoted[Mark(u, NextToken(u, i) + 1)]
           IN  IsAt(u, NextToken(u, i), string_begin_end) =>
                   ~IsAt(u, NextToken(u, key.next), name_separator)
    PROVE  ~Readable(ReadFrom[Spot("members", u, i, d, l, taken)])
  <1> DEFINE at  == Spot("members", u, i, d, l, taken)
             j   == NextToken(u, i)
             key == Quoted[Mark(u, j + 1)]
  <1>1. at \in Spots /\ at.what = "members"
    <2>1. "members" \in Parts
      BY DEF Parts
    <2>2. QED
      BY <2>1, NewSpot DEF Spot
  <1>2. at.text = u /\ at.from = i
    BY DEF Spot
  <1> HIDE DEF at
  <1>3. ReadFrom[at] = MembersAt(at, ReadFrom)
    BY <1>1, ReadParts
  <1>4. CASE IsAt(u, j, string_begin_end) /\ Readable(key)
    <2>1. MembersAt(at, ReadFrom) = Named(at, key.value, key.next, ReadFrom)
      BY <1>2, <1>4, Zenon DEF MembersAt
    <2>2. ~IsAt(u, NextToken(u, key.next), name_separator)
      BY <1>4
    <2> HIDE DEF key
    <2>3. Named(at, key.value, key.next, ReadFrom) = Unreadable
      BY <1>2, <2>2, Zenon DEF Named
    <2>4. QED
      BY <1>3, <2>1, <2>3, UnreadableIs DEF at
  <1>5. CASE ~(IsAt(u, j, string_begin_end) /\ Readable(key))
    <2>1. MembersAt(at, ReadFrom) = Unreadable
      BY <1>2, <1>5, Zenon DEF MembersAt
    <2>2. QED
      BY <1>3, <2>1, UnreadableIs DEF at
  <1>6. QED
    BY <1>4, <1>5

\* A member and those behind it.  Its key is none of those before it.
LEMMA MemberReads ==
    ASSUME NEW d \in Nat, NEW l \in Nat \cup {nullopt}, NEW taken \in SUBSET Texts,
           NEW before \in Pads, NEW between \in Pads, NEW pad \in Pads,
           NEW key \in PlainTexts, key \notin taken,
           NEW t, IsValueText(t), NEW value, NEW good \in BOOLEAN,
           ReadsAs("value", t, value, good, d, l, {}),
           NEW s, IsRest(s), NEW members, NEW goods \in BOOLEAN,
           MoreMembersRead(s, members, goods, d, l, taken \cup {key})
    PROVE  ReadsAs("members",
                   before \o (wrap_string(key) \o (between \o (<<name_separator>> \o
                       (pad \o (t \o s))))),
                   Bound(key, value, members), good /\ goods, d, l, taken)
  <1> DEFINE w == pad \o (t \o s)
             c == between \o (<<name_separator>> \o w)
             k == wrap_string(key)
             a == k \o c
             n == Len(before \o a)
  <1>1. /\ k \in Texts /\ k # <<>> /\ k[1] = string_begin_end
        /\ w \in Texts /\ c \in Texts
    <2>1. k \in Texts /\ k # <<>> /\ k[1] = string_begin_end
      BY WrappedIsRead
    <2>2. t \in Texts /\ s \in Texts /\ pad \in Texts /\ between \in Texts
      BY DEF IsValueText, IsRest, Pads
    <2>3. t \o s \in Texts
      BY <2>2, ConcatProperties DEF Texts
    <2>4. w \in Texts
      BY <2>2, <2>3, ConcatProperties DEF Texts
    <2> HIDE DEF w
    <2>5. <<name_separator>> \o w \in Texts
      <3>1. name_separator \in STRING
        BY FormatCharsAssumption DEF FormatChars
      <3>2. QED
        BY <2>4, <3>1, TextCons DEF Texts
    <2>6. c \in Texts
      BY <2>2, <2>5, ConcatProperties DEF Texts
    <2>7. QED
      BY <2>1, <2>4, <2>6
  <1> HIDE DEF k
  <1>2. a \in Texts /\ a # <<>> /\ a[1] = string_begin_end
    <2> HIDE DEF c
    <2>1. QED
      BY <1>1, JoinedText
  <1>3. ASSUME NEW u \in Texts, NEW i \in Nat \ {0}, Has(u, i, before \o a)
        PROVE  LET r == ReadFrom[Spot("members", u, i, d, l, taken)]
               IN  IF good /\ goods THEN r = Reading(Bound(key, value, members), i + n, {})
                   ELSE ~Readable(r)
    <2> DEFINE j     == NextToken(u, i)
               q     == j + Len(k)
               named == Quoted[Mark(u, j + 1)]
               colon == NextToken(u, named.next)
               start == NextToken(u, colon + 1)
               p     == start + Len(t)
               item  == ReadFrom[Spot("value", u, start, d, l, {})]
               rest  == MoreMembersFrom(u, item.next, d, l, taken \cup {named.value})
               r     == ReadFrom[Spot("members", u, i, d, l, taken)]
               e     == i + n
    <2>1. j \in Nat \ {0} /\ Has(u, j, a) /\ e = j + Len(a)
      <3> HIDE DEF a
      <3>1. string_begin_end \notin Blanks
        BY DEF Blanks, string_begin_end
      <3>2. BeginsBehind(u, i, before, a)
        BY <1>2, <1>3, <3>1, TokenOf
      <3>3. QED
        BY <3>2 DEF BeginsBehind
    <2> HIDE DEF j, e
    <2>2. Has(u, j, k) /\ Has(u, q, c) /\ q \in Nat \ {0} /\ e = q + Len(c)
      <3> HIDE DEF c
      <3>1. Follows(u, j, k, c)
        BY <1>1, <2>1, TextFollows
      <3>2. QED
        BY <2>1, <3>1 DEF Follows
    <2>3. /\ IsAt(u, j, string_begin_end)
          /\ named.next = q /\ named.value = key /\ Readable(named)
      <3>1. IsAt(u, j, string_begin_end) /\ named = Reading(key, q, {})
        BY <2>1, <2>2, WrappedIsRead DEF k
      <3> HIDE DEF named, q
      <3>2. QED
        BY <2>2, <3>1, ReadingIs DEF Readable
    <2> HIDE DEF named, q
    <2>4. /\ IsAt(u, colon, name_separator) /\ colon + 1 \in Nat \ {0}
          /\ Has(u, colon + 1, w) /\ e = (colon + 1) + Len(w)
      <3> HIDE DEF w
      <3>1. SeparatedBy(name_separator, u, q, between, w)
        BY <1>1, <2>2, SeparatorBefore
      <3>2. QED
        BY <2>2, <2>3, <3>1 DEF SeparatedBy
    <2> HIDE DEF colon
    <2>5. IsFound(u, colon + 1, pad, t, s, value, good, d, l)
      BY <2>4, ValueIsFound
    <2>6. /\ u[start] = t[1] /\ p \in Nat \ {0} /\ Has(u, p, s) /\ e = p + Len(s)
          /\ good => Advances(item, u, start) /\ item = Reading(value, p, {})
          /\ ~good => ~Advances(item, u, start)
      BY <2>4, <2>5 DEF IsFound
    <2>7. r = IF ~Advances(item, u, start) \/ ~Readable(rest) THEN Unreadable
              ELSE Reading(Bound(named.value, item.value, rest.value), rest.next,
                           item.defects \cup rest.defects)
      <3>1. ~IsAt(u, start, end_array)
        BY <2>6 DEF IsAt, IsValueText
      <3>2. MemberFollows(u, i, taken)
        BY <2>3, <2>4, <3>1 DEF MemberFollows, j, named, colon
      <3>3. IsReadBehind(u, i, d, l, taken)
        BY <3>2, MembersFrom
      <3>4. QED
        BY <3>3 DEF IsReadBehind, j, named, colon
    <2> HIDE DEF start, p, item, r
    <2>8. CASE ~good
      BY <2>6, <2>7, <2>8, UnreadableIs DEF r
    <2>9. CASE good
      <3>1. item.next = p /\ item.value = value /\ item.defects = {}
        BY <2>6, <2>9, ReadingIs
      <3>2. IF goods THEN rest = Reading(members, e, {}) ELSE ~Readable(rest)
        BY <2>3, <2>6, <3>1 DEF MoreMembersRead
      <3> HIDE DEF rest
      <3>3. CASE ~goods
        BY <2>7, <3>2, <3>3, UnreadableIs DEF r
      <3>4. CASE goods
        <4>1. rest.next = e /\ rest.value = members /\ rest.defects = {}
          BY <3>2, <3>4, ReadingIs
        <4>2. e # 0
          <5>1. Len(s) \in Nat
            BY LenProperties DEF IsRest, Texts
          <5>2. QED
            BY <2>6, <5>1
        <4>3. r = Reading(Bound(named.value, item.value, rest.value), rest.next,
                          item.defects \cup rest.defects)
          BY <2>6, <2>7, <2>9, <4>1, <4>2 DEF Readable
        <4>4. item.defects \cup rest.defects = {}
          BY <3>1, <4>1
        <4>5. r = Reading(Bound(key, value, members), e, {})
          BY <2>3, <3>1, <4>1, <4>3, <4>4
        <4>6. QED
          BY <2>9, <3>4, <4>5 DEF r, e
      <3>5. QED
        BY <3>3, <3>4
    <2>10. QED
      BY <2>8, <2>9
  <1>4. QED
    BY <1>3 DEF ReadsAs, a, k

\* A member without a key is not read.
LEMMA NamelessReads ==
    ASSUME NEW d \in Nat, NEW l \in Nat \cup {nullopt}, NEW taken \in SUBSET Texts,
           NEW pad \in Pads, NEW t, IsValueText(t),
           t[1] # string_begin_end \/ \E string \in PlainTexts : t = wrap_string(string),
           NEW s, IsRest(s), s[1] \in {value_separator, end_object}, NEW members
    PROVE  ReadsAs("members", pad \o (t \o s), members, FALSE, d, l, taken)
  <1>1. t \in Texts /\ s \in Texts /\ t # <<>> /\ s # <<>> /\ t[1] \notin Blanks
    BY DEF IsValueText, IsRest
  <1> DEFINE w == t \o s
  <1>2. w \in Texts /\ w # <<>> /\ w[1] = t[1]
    BY <1>1, JoinedText
  <1>3. ASSUME NEW u \in Texts, NEW i \in Nat \ {0}, Has(u, i, pad \o w)
        PROVE  ~Readable(ReadFrom[Spot("members", u, i, d, l, taken)])
    <2> DEFINE j   == NextToken(u, i)
               p   == j + Len(t)
               key == Quoted[Mark(u, j + 1)]
    <2>1. j \in Nat \ {0} /\ Has(u, j, w) /\ u[j] = t[1]
      <3> HIDE DEF w
      <3>1. BeginsBehind(u, i, pad, w)
        BY <1>1, <1>2, <1>3, TokenOf
      <3>2. QED
        BY <1>2, <3>1 DEF BeginsBehind
    <2> HIDE DEF j
    <2>2. Has(u, j, t) /\ Has(u, p, s) /\ p \in Nat \ {0}
      <3>1. Follows(u, j, t, s)
        BY <1>1, <2>1, TextFollows
      <3>2. QED
        BY <3>1 DEF Follows
    <2>3. ~IsAt(u, j, end_object)
      BY <2>1 DEF IsAt, IsValueText
    <2>4. ASSUME IsAt(u, j, string_begin_end)
          PROVE  ~IsAt(u, NextToken(u, key.next), name_separator)
      <3>1. PICK string \in PlainTexts : t = wrap_string(string)
        BY <2>1, <2>4 DEF IsAt
      <3>2. key = Reading(string, p, {})
        BY <2>1, <2>2, <3>1, WrappedIsRead
      <3> HIDE DEF key
      <3>3. key.next = p
        BY <3>2, ReadingIs
      <3>4. p \in 1 .. Len(u) /\ u[p] = s[1]
        <4> HIDE DEF p
        <4>1. QED
          BY <1>1, <2>2, HasFirst
      <3>5. NextToken(u, p) = p
        <4>1. u[p] \notin Blanks
          BY <3>4 DEF Blanks, value_separator, end_object
        <4>2. QED
          BY <3>4, <4>1, TokenHere
      <3>6. QED
        BY <3>3, <3>4, <3>5 DEF IsAt, name_separator, value_separator, end_object
    <2>5. QED
      BY <2>3, <2>4, NamelessFrom DEF j
  <1>4. QED
    BY <1>3 DEF ReadsAs

\* A document is read like the container that it begins with.
LEMMA DocumentReads ==
    ASSUME NEW l \in Nat \cup {nullopt}, NEW s \in Texts, s # <<>>,
           s[1] \in {begin_array, begin_object},
           NEW value, NEW good \in BOOLEAN, ReadsAs("value", s, value, good, 0, l, {}),
           NEW u \in Texts, Has(u, 1, s), StopsAt(u, 1 + Len(s))
    PROVE  IF good THEN Document(u, l) = Reading(value, 1 + Len(s), {})
           ELSE ~Readable(Document(u, l))
  <1> DEFINE r == ReadFrom[Spot("value", u, 1, 0, l, {})]
             e == 1 + Len(s)
  <1>1. 1 \in 1 .. Len(u) /\ u[1] = s[1]
    BY HasFirst
  <1>2. u[1] \notin Blanks
    BY <1>1 DEF Blanks, begin_array, begin_object
  <1>3. NextToken(u, 1) = 1 /\ DOMAIN u = 1 .. Len(u)
    BY <1>1, <1>2, TokenHere, LenProperties DEF Texts
  <1>4. IsAt(u, 1, begin_array) \/ IsAt(u, 1, begin_object)
    BY <1>1, <1>3 DEF IsAt
  <1>5. Document(u, l) = r
    BY <1>3, <1>4 DEF Document
  <1>6. IF good THEN r = Reading(value, e, {}) ELSE ~Readable(r)
    BY 1 \in Nat \ {0} DEF ReadsAs
  <1> HIDE DEF r, e
  <1>7. QED
    BY <1>5, <1>6 DEF e
=============================================================================
