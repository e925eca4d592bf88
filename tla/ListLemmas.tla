---------------------------- MODULE ListLemmas ----------------------------
(***************************************************************************)
(* What place in a list an element is put in and taken from, and that a    *)
(* list that is in order stays so: lemmas about Append, Tail, InsertAt and *)
(* RemoveFirst, which model the LIST1 macros of include/core/list.h.       *)
(***************************************************************************)
EXTENDS Integers, Sequences, FiniteSets, SequencesExt, FiniteSetsExt,
        WellFoundedInduction, TLAPS

Once(q) == \A i, j \in DOMAIN q : q[i] = q[j] => i = j

\* w is q with e at position k, and without what is at position k.
Inserted(w, q, k, e) ==
  /\ Len(w) = Len(q) + 1
  /\ \A j \in 1 .. Len(q) + 1 :
       w[j] = IF j < k THEN q[j] ELSE IF j = k THEN e ELSE q[j - 1]
Deleted(w, q, k) ==
  /\ Len(w) = Len(q) - 1
  /\ \A j \in 1 .. Len(q) - 1 : w[j] = IF j < k THEN q[j] ELSE q[j + 1]

LEMMA Least ==
  ASSUME NEW S, S \subseteq Nat, S # {}
  PROVE  \E m \in S : \A k \in S : m <= k
<1>1. PICK m \in S : \A k \in S : ~ (<<k, m>> \in OpToRel(<, Nat))
  BY NatLessThanWellFounded, WFMin, Zenon
<1>2. ASSUME NEW k \in S PROVE m <= k
  <2>1. ASSUME k < m PROVE FALSE
    <3>1. <<k, m>> \in {ss \in Nat \X Nat : ss[1] < ss[2]} BY <2>1
    <3> QED BY <1>1, <3>1, Zenon DEF OpToRel
  <2> QED BY <2>1
<1> QED BY <1>2

\* The first of some places of some lists.
LEMMA FirstPlace ==
  ASSUME NEW E, E \subseteq Nat \X Nat, E # {}
  PROVE  \E p \in E : \A q \in E : p[1] < q[1] \/ (p[1] = q[1] /\ p[2] <= q[2])
<1>1. PICK i \in {q[1] : q \in E} : \A k \in {q[1] : q \in E} : i <= k
  <2>1. {q[1] : q \in E} \subseteq Nat /\ {q[1] : q \in E} # {} OBVIOUS
  <2> QED BY <2>1, Least, Zenon
<1> DEFINE J == {j \in Nat : <<i, j>> \in E}
<1>2. PICK j \in J : \A k \in J : j <= k
  <2>1. PICK q \in E : i = q[1] BY <1>1
  <2>2. q = <<q[1], q[2]>> /\ q[2] \in Nat BY <2>1
  <2>3. q[2] \in J BY <2>1, <2>2
  <2>4. J \subseteq Nat /\ J # {} BY <2>3
  <2> QED BY <2>4, Least, Zenon
<1>3. ASSUME NEW q \in E PROVE i < q[1] \/ (i = q[1] /\ j <= q[2])
  <2>1. q = <<q[1], q[2]>> /\ q[1] \in Nat /\ q[2] \in Nat BY <1>3
  <2>2. i <= q[1] /\ i \in Nat BY <1>1, <1>3
  <2>3. i = q[1] => q[2] \in J BY <1>3, <2>1
  <2> QED BY <1>2, <2>1, <2>2, <2>3
<1>4. <<i, j>> \in E BY <1>2
<1> QED BY <1>3, <1>4

LEMMA MinIs ==
  ASSUME NEW S, S \subseteq Nat, S # {}
  PROVE  Min(S) \in S /\ \A k \in S : Min(S) <= k
BY Least DEF Min

LEMMA SeqOfElements ==
  ASSUME NEW S, NEW q \in Seq(S), NEW T, ToSet(q) \subseteq T
  PROVE  q \in Seq(T)
BY DEF ToSet

LEMMA Elements ==
  ASSUME NEW S, NEW q \in Seq(S)
  PROVE  /\ Len(q) \in Nat /\ DOMAIN q = 1 .. Len(q)
         /\ ToSet(q) \subseteq S
         /\ \A i \in 1 .. Len(q) : q[i] \in ToSet(q) /\ q[i] \in S
         /\ \A e \in ToSet(q) : \E i \in 1 .. Len(q) : q[i] = e
BY DEF ToSet

\* What is inserted is there once more.
LEMMA InsertedElements ==
  ASSUME NEW S, NEW q \in Seq(S), NEW e \in S, NEW k \in 1 .. Len(q) + 1,
         NEW w \in Seq(S), Inserted(w, q, k, e)
  PROVE  /\ ToSet(w) = ToSet(q) \cup {e}
         /\ Once(q) /\ e \notin ToSet(q) => Once(w)
<1> PICK n : n = Len(q) OBVIOUS
<1>1. /\ n \in Nat /\ DOMAIN q = 1 .. n /\ DOMAIN w = 1 .. n + 1
      /\ \A j \in 1 .. n + 1 :
           w[j] = IF j < k THEN q[j] ELSE IF j = k THEN e ELSE q[j - 1]
      /\ k \in 1 .. n + 1
  BY DEF Inserted
<1>2. ToSet(w) = ToSet(q) \cup {e}
  <2>1. ASSUME NEW j \in 1 .. n + 1 PROVE w[j] \in ToSet(q) \cup {e}
    BY <1>1 DEF ToSet
  <2>2. ASSUME NEW j \in 1 .. n PROVE \E l \in 1 .. n + 1 : w[l] = q[j]
    <3>1. CASE j < k BY <1>1, <3>1
    <3>2. CASE j >= k
      <4>1. j + 1 \in 1 .. n + 1 /\ w[j + 1] = q[j] BY <1>1, <3>2
      <4> QED BY <4>1
    <3> QED BY <1>1, <3>1, <3>2
  <2>3. w[k] = e BY <1>1
  <2>4. ASSUME NEW x \in ToSet(q) \cup {e} PROVE x \in ToSet(w)
    <3>1. CASE x = e BY <1>1, <2>3, <3>1 DEF ToSet
    <3>2. CASE x \in ToSet(q)
      <4>1. PICK j \in 1 .. n : x = q[j] BY <1>1, <3>2 DEF ToSet
      <4> QED BY <1>1, <2>2, <4>1 DEF ToSet
    <3> QED BY <2>4, <3>1, <3>2
  <2>5. ASSUME NEW x \in ToSet(w) PROVE x \in ToSet(q) \cup {e}
    BY <1>1, <2>1, <2>5 DEF ToSet
  <2> QED BY <2>4, <2>5
<1>3. ASSUME Once(q), e \notin ToSet(q), NEW i \in 1 .. n + 1, NEW j \in 1 .. n + 1,
             w[i] = w[j]
      PROVE  i = j
  <2>1. \A l \in 1 .. n : q[l] # e BY <1>1, <1>3 DEF ToSet
  <2>2. \A a, b \in 1 .. n : q[a] = q[b] => a = b BY <1>1, <1>3 DEF Once
  <2>3. \A a \in 1 .. n + 1 :
          /\ a < k => a \in 1 .. n /\ w[a] = q[a]
          /\ a > k => a - 1 \in 1 .. n /\ w[a] = q[a - 1]
    BY <1>1
  <2>4. w[k] = e BY <1>1
  <2>5. \A a \in 1 .. n + 1 : a # k => w[a] # e BY <1>1, <2>1, <2>3
  <2>6. CASE i = k \/ j = k BY <1>3, <2>4, <2>5, <2>6
  <2>7. CASE i < k /\ j < k BY <1>3, <2>2, <2>3, <2>7
  <2>8. CASE i > k /\ j > k
    <3>1. i - 1 = j - 1 BY <1>3, <2>2, <2>3, <2>8
    <3> QED BY <3>1
  <2>9. CASE i < k /\ j > k
    <3>1. i = j - 1 BY <1>3, <2>2, <2>3, <2>9
    <3> QED BY <1>1, <2>9, <3>1
  <2>10. CASE i > k /\ j < k
    <3>1. i - 1 = j BY <1>3, <2>2, <2>3, <2>10
    <3> QED BY <1>1, <2>10, <3>1
  <2> QED BY <1>1, <2>6, <2>7, <2>8, <2>9, <2>10
<1> QED BY <1>1, <1>2, <1>3 DEF Once

LEMMA DeletedElements ==
  ASSUME NEW S, NEW q \in Seq(S), NEW k \in 1 .. Len(q), NEW w \in Seq(S),
         Deleted(w, q, k), Once(q)
  PROVE  ToSet(w) = ToSet(q) \ {q[k]} /\ Once(w)
<1> PICK n : n = Len(q) OBVIOUS
<1>1. /\ n \in Nat /\ DOMAIN q = 1 .. n /\ DOMAIN w = 1 .. n - 1 /\ k \in 1 .. n
      /\ \A j \in 1 .. n - 1 : w[j] = IF j < k THEN q[j] ELSE q[j + 1]
      /\ \A a, b \in 1 .. n : q[a] = q[b] => a = b
  BY DEF Deleted, Once
<1>2. ASSUME NEW j \in 1 .. n - 1 PROVE w[j] \in ToSet(q) \ {q[k]}
  <2>1. PICK l \in 1 .. n : l # k /\ w[j] = q[l]
    <3>1. CASE j < k BY <1>1, <3>1
    <3>2. CASE j >= k
      <4>1. j + 1 \in 1 .. n /\ j + 1 # k /\ w[j] = q[j + 1] BY <1>1, <3>2
      <4> QED BY <4>1
    <3> QED BY <1>1, <3>1, <3>2
  <2> QED BY <1>1, <2>1 DEF ToSet
<1>3. ASSUME NEW j \in 1 .. n, q[j] # q[k] PROVE \E l \in 1 .. n - 1 : w[l] = q[j]
  <2>1. CASE j < k BY <1>1, <2>1
  <2>2. CASE j > k
    <3>1. j - 1 \in 1 .. n - 1 /\ w[j - 1] = q[j] BY <1>1, <2>2
    <3> QED BY <3>1
  <2> QED BY <1>1, <1>3, <2>1, <2>2
<1>4. ToSet(w) = ToSet(q) \ {q[k]}
  <2>1. ASSUME NEW x \in ToSet(w) PROVE x \in ToSet(q) \ {q[k]}
    BY <1>1, <1>2, <2>1 DEF ToSet
  <2>2. ASSUME NEW x \in ToSet(q) \ {q[k]} PROVE x \in ToSet(w)
    <3>1. PICK j \in 1 .. n : x = q[j] BY <1>1 DEF ToSet
    <3> QED BY <1>1, <1>3, <2>2, <3>1 DEF ToSet
  <2> QED BY <2>1, <2>2
<1>5. Once(w) BY <1>1 DEF Once
<1> QED BY <1>4, <1>5

LEMMA Concat ==
  ASSUME NEW S, NEW a \in Seq(S), NEW b \in Seq(S)
  PROVE  /\ a \o b \in Seq(S) /\ Len(a \o b) = Len(a) + Len(b)
         /\ \A j \in 1 .. Len(a) + Len(b) :
              (a \o b)[j] = IF j <= Len(a) THEN a[j] ELSE b[j - Len(a)]
OBVIOUS

LEMMA AppendIs ==
  ASSUME NEW S, NEW q \in Seq(S), NEW e \in S
  PROVE  Append(q, e) \in Seq(S) /\ Inserted(Append(q, e), q, Len(q) + 1, e)
BY DEF Inserted

LEMMA TailIs ==
  ASSUME NEW S, NEW q \in Seq(S), q # <<>>
  PROVE  /\ Tail(q) \in Seq(S) /\ Deleted(Tail(q), q, 1) /\ 1 \in 1 .. Len(q)
         /\ Head(q) = q[1] /\ Head(q) \in S /\ Head(q) \in ToSet(q)
BY DEF Deleted, ToSet

LEMMA InsertAtIs ==
  ASSUME NEW S, NEW q \in Seq(S), NEW e \in S, NEW k \in 1 .. Len(q)
  PROVE  InsertAt(q, k, e) \in Seq(S) /\ Inserted(InsertAt(q, k, e), q, k, e)
<1> DEFINE a == SubSeq(q, 1, k - 1)
           b == SubSeq(q, k, Len(q))
<1>1. /\ a \in Seq(S) /\ Len(a) = k - 1 /\ \A j \in 1 .. k - 1 : a[j] = q[j]
  OBVIOUS
<1>2. /\ b \in Seq(S) /\ Len(b) = Len(q) - k + 1
      /\ \A j \in 1 .. Len(q) - k + 1 : b[j] = q[k + j - 1]
  OBVIOUS
<1>3. InsertAt(q, k, e) = (a \o <<e>>) \o b BY DEF InsertAt
<1> HIDE DEF a, b
<1>4. /\ a \o <<e>> \in Seq(S) /\ Len(a \o <<e>>) = k
      /\ \A j \in 1 .. k : (a \o <<e>>)[j] = IF j < k THEN q[j] ELSE e
  BY <1>1
<1> DEFINE c == a \o <<e>>
<1> HIDE DEF c
<1>5. /\ c \in Seq(S) /\ Len(c) = k
      /\ \A j \in 1 .. k : c[j] = IF j < k THEN q[j] ELSE e
  BY <1>4 DEF c
<1>6. /\ c \o b \in Seq(S) /\ Len(c \o b) = Len(q) + 1
      /\ \A j \in 1 .. Len(q) + 1 : (c \o b)[j] = IF j <= k THEN c[j] ELSE b[j - k]
  <2>1. PICK n : n = Len(b) OBVIOUS
  <2>2. /\ c \o b \in Seq(S) /\ Len(c \o b) = k + n
        /\ \A j \in 1 .. k + n : (c \o b)[j] = IF j <= k THEN c[j] ELSE b[j - k]
    <3>1. c \in Seq(S) /\ b \in Seq(S) /\ k = Len(c) BY <1>2, <1>5
    <3> QED BY <2>1, <3>1, Concat
  <2>3. k + n = Len(q) + 1 BY <1>2, <2>1
  <2> QED BY <2>2, <2>3
<1>7. \A j \in 1 .. Len(q) + 1 : j > k => j - k \in 1 .. Len(q) - k + 1
                                         /\ k + (j - k) - 1 = j - 1
  OBVIOUS
<1>8. \A j \in 1 .. Len(q) + 1 :
        (c \o b)[j] = IF j < k THEN q[j] ELSE IF j = k THEN e ELSE q[j - 1]
  BY <1>2, <1>5, <1>6, <1>7
<1> QED BY <1>3, <1>6, <1>8 DEF c, Inserted

LEMMA RemoveAtIs ==
  ASSUME NEW S, NEW q \in Seq(S), NEW k \in 1 .. Len(q)
  PROVE  RemoveAt(q, k) \in Seq(S) /\ Deleted(RemoveAt(q, k), q, k)
<1> DEFINE a == SubSeq(q, 1, k - 1)
           b == SubSeq(q, k + 1, Len(q))
<1>1. /\ a \in Seq(S) /\ Len(a) = k - 1 /\ \A j \in 1 .. k - 1 : a[j] = q[j]
  OBVIOUS
<1>2. /\ b \in Seq(S) /\ Len(b) = Len(q) - k
      /\ \A j \in 1 .. Len(q) - k : b[j] = q[k + j]
  OBVIOUS
<1>3. RemoveAt(q, k) = a \o b BY DEF RemoveAt
<1> HIDE DEF a, b
<1>4. /\ a \o b \in Seq(S) /\ Len(a \o b) = Len(q) - 1
      /\ \A j \in 1 .. Len(q) - 1 :
           (a \o b)[j] = IF j < k THEN a[j] ELSE b[j - (k - 1)]
  <2>1. PICK m, n : m = Len(a) /\ n = Len(b) OBVIOUS
  <2>2. /\ a \o b \in Seq(S) /\ Len(a \o b) = m + n
        /\ \A j \in 1 .. m + n : (a \o b)[j] = IF j <= m THEN a[j] ELSE b[j - m]
    <3>1. a \in Seq(S) /\ b \in Seq(S) BY <1>1, <1>2
    <3> QED BY <2>1, <3>1, Concat
  <2>3. m = k - 1 /\ m + n = Len(q) - 1 BY <1>1, <1>2, <2>1
  <2> QED BY <2>2, <2>3
<1>5. \A j \in 1 .. Len(q) - 1 :
        /\ j < k => j \in 1 .. k - 1
        /\ j >= k => j - (k - 1) \in 1 .. Len(q) - k /\ k + (j - (k - 1)) = j + 1
  OBVIOUS
<1>6. \A j \in 1 .. Len(q) - 1 : (a \o b)[j] = IF j < k THEN q[j] ELSE q[j + 1]
  BY <1>1, <1>2, <1>4, <1>5
<1> QED BY <1>3, <1>4, <1>6 DEF Deleted

LEMMA RemoveFirstIs ==
  ASSUME NEW S, NEW q \in Seq(S), NEW e \in ToSet(q)
  PROVE  \E k \in 1 .. Len(q) :
           /\ q[k] = e
           /\ RemoveFirst(q, e) \in Seq(S) /\ Deleted(RemoveFirst(q, e), q, k)
<1> DEFINE I == {i \in 1 .. Len(q) : q[i] = e}
<1>1. I \subseteq Nat /\ I # {} BY Elements
<1>2. Min(I) \in I BY <1>1, MinIs, Zenon
<1>3. SelectInSeq(q, LAMBDA v : v = e) = Min(I) BY <1>1, Zenon DEF SelectInSeq
<1>4. RemoveFirst(q, e) = RemoveAt(q, Min(I))
  BY <1>1, <1>3, Zenon DEF RemoveFirst
<1> PICK k : k = Min(I) OBVIOUS
<1>5. k \in 1 .. Len(q) /\ q[k] = e BY <1>2
<1> QED BY <1>4, <1>5, RemoveAtIs

\* Put before the first of the places I, or at the end.
Before(q, I, e) == IF I = {} THEN Append(q, e) ELSE InsertAt(q, Min(I), e)

LEMMA PutBefore ==
  ASSUME NEW S, NEW q \in Seq(S), NEW e \in S, NEW I, I \subseteq 1 .. Len(q)
  PROVE  \E k \in 1 .. Len(q) + 1 :
           /\ Before(q, I, e) \in Seq(S) /\ Inserted(Before(q, I, e), q, k, e)
           /\ \A j \in 1 .. k - 1 : j \notin I
           /\ k <= Len(q) => k \in I
<1> PICK w : w = Before(q, I, e) OBVIOUS
<1>1. CASE I = {}
  <2>1. Len(q) \in Nat /\ w = Append(q, e) BY <1>1 DEF Before
  <2>2. w \in Seq(S) /\ Inserted(w, q, Len(q) + 1, e) BY <2>1, AppendIs
  <2>3. PICK k : k = Len(q) + 1 OBVIOUS
  <2>4. k \in 1 .. Len(q) + 1 /\ ~(k <= Len(q)) BY <2>1, <2>3
  <2> QED BY <1>1, <2>2, <2>3, <2>4
<1>2. CASE I # {}
  <2>1. I \subseteq Nat OBVIOUS
  <2>2. PICK k : k = Min(I) OBVIOUS
  <2>3. k \in I /\ \A j \in I : k <= j BY <1>2, <2>1, <2>2, MinIs, Zenon
  <2>4. k \in 1 .. Len(q) /\ k \in Nat BY <2>3
  <2>5. \A j \in 1 .. k - 1 : j \notin I BY <2>3, <2>4
  <2>6. k \in 1 .. Len(q) + 1 BY <2>4
  <2>7. w = InsertAt(q, k, e) BY <1>2, <2>2 DEF Before
  <2> QED BY <2>3, <2>4, <2>5, <2>6, <2>7, InsertAtIs
<1> QED BY <1>1, <1>2

-----------------------------------------------------------------------------
\* The elements of a list are in order, by numbers x.
InOrder(q, x) == \A i, j \in 1 .. Len(q) : i < j => x[q[i]] <= x[q[j]]

LEMMA DeletedInOrder ==
  ASSUME NEW S, NEW x, NEW q \in Seq(S), NEW k \in 1 .. Len(q),
         NEW w \in Seq(S), Deleted(w, q, k), InOrder(q, x)
  PROVE  InOrder(w, x)
<1> SUFFICES ASSUME NEW i \in 1 .. Len(w), NEW j \in 1 .. Len(w), i < j
             PROVE  x[w[i]] <= x[w[j]]
  BY DEF InOrder
<1>1. PICK n : n = Len(q) OBVIOUS
<1>2. /\ n \in Nat /\ i \in 1 .. n - 1 /\ j \in 1 .. n - 1
      /\ \A a \in 1 .. n - 1 : w[a] = IF a < k THEN q[a] ELSE q[a + 1]
  BY <1>1 DEF Deleted
<1>3. PICK a, b \in 1 .. n : a < b /\ w[i] = q[a] /\ w[j] = q[b]
  <2>1. PICK a, b : a = (IF i < k THEN i ELSE i + 1) /\ b = IF j < k THEN j ELSE j + 1
    OBVIOUS
  <2>2. a \in 1 .. n /\ b \in 1 .. n /\ a < b BY <1>2, <2>1
  <2>3. w[i] = q[a] /\ w[j] = q[b] BY <1>2, <2>1
  <2> QED BY <2>2, <2>3
<1> QED BY <1>1, <1>3 DEF InOrder

\* Numbers in order, and one more before the first that is greater.
Grown(n, k, e, v, u) ==
  /\ n \in Nat /\ k \in 1 .. n + 1 /\ e \in Nat
  /\ \A a \in 1 .. n : v[a] \in Nat
  /\ \A a \in 1 .. n + 1 :
       u[a] = IF a < k THEN v[a] ELSE IF a = k THEN e ELSE v[a - 1]
  /\ \A a, b \in 1 .. n : a < b => v[a] <= v[b]
  /\ \A a \in 1 .. k - 1 : v[a] <= e
  /\ k <= n => v[k] > e

LEMMA OneMore ==
  ASSUME NEW n, NEW k, NEW e, NEW v, NEW u, Grown(n, k, e, v, u)
  PROVE  \A i, j \in 1 .. n + 1 : i < j => u[i] <= u[j]
<1> USE DEF Grown
<1> SUFFICES ASSUME NEW i \in 1 .. n + 1, NEW j \in 1 .. n + 1, i < j
             PROVE  u[i] <= u[j]
  OBVIOUS
<1>1. \A a \in 1 .. n : a >= k => e <= v[a]
  <2>1. ASSUME NEW a \in 1 .. n, a >= k PROVE e <= v[a]
    <3>1. k \in 1 .. n BY <2>1
    <3>2. v[k] > e /\ v[k] \in Nat /\ v[a] \in Nat BY <3>1
    <3>3. a = k \/ v[k] <= v[a] BY <2>1, <3>1
    <3> QED BY <3>2, <3>3
  <2> QED BY <2>1
<1>2. CASE j < k
  <2>1. i \in 1 .. n /\ j \in 1 .. n /\ u[i] = v[i] /\ u[j] = v[j] BY <1>2
  <2> QED BY <2>1
<1>3. CASE i < k /\ j = k
  <2>1. i \in 1 .. k - 1 /\ u[i] = v[i] /\ u[j] = e BY <1>3
  <2> QED BY <2>1
<1>4. CASE i < k /\ j > k
  <2>1. i \in 1 .. n /\ j - 1 \in 1 .. n /\ u[i] = v[i] /\ u[j] = v[j - 1]
        /\ i \in 1 .. k - 1 /\ j - 1 >= k
    BY <1>4
  <2> QED BY <1>1, <2>1
<1>5. CASE i = k
  <2>1. j - 1 \in 1 .. n /\ u[i] = e /\ u[j] = v[j - 1] /\ j - 1 >= k BY <1>5
  <2> QED BY <1>1, <2>1
<1>6. CASE i > k
  <2>1. i - 1 \in 1 .. n /\ j - 1 \in 1 .. n /\ u[i] = v[i - 1] /\ u[j] = v[j - 1]
        /\ i - 1 < j - 1
    BY <1>6
  <2> QED BY <2>1
<1> QED BY <1>2, <1>3, <1>4, <1>5, <1>6

\* Put before the first that is greater, in the order of new numbers y.
LEMMA InsertedInOrder ==
  ASSUME NEW S, NEW x \in [S -> Nat], NEW y \in [S -> Nat],
         NEW q \in Seq(S), NEW t \in S,
         NEW k \in 1 .. Len(q) + 1, NEW w \in Seq(S), Inserted(w, q, k, t),
         InOrder(q, x), t \notin ToSet(q),
         \A d \in S \ {t} : y[d] = x[d],
         \A j \in 1 .. k - 1 : x[q[j]] <= y[t],
         k <= Len(q) => x[q[k]] > y[t]
  PROVE  InOrder(w, y)
<1>n. PICK n : n = Len(q) OBVIOUS
<1>v. PICK v : v = [a \in 1 .. n |-> x[q[a]]] OBVIOUS
<1>u. PICK u : u = [a \in 1 .. n + 1 |-> y[w[a]]] OBVIOUS
<1>1. n \in Nat /\ k \in 1 .. n + 1 /\ y[t] \in Nat BY <1>n
<1>2. \A a \in 1 .. n : q[a] \in S /\ q[a] # t BY <1>n, Elements
<1>3. \A a \in 1 .. n : v[a] \in Nat /\ v[a] = x[q[a]] /\ v[a] = y[q[a]]
  BY <1>2, <1>v
<1>4. \A a \in 1 .. n + 1 :
        u[a] = IF a < k THEN v[a] ELSE IF a = k THEN y[t] ELSE v[a - 1]
  <2> TAKE a \in 1 .. n + 1
  <2>1. w[a] = IF a < k THEN q[a] ELSE IF a = k THEN t ELSE q[a - 1]
    BY <1>n DEF Inserted
  <2>2. /\ a < k => a \in 1 .. n
        /\ a > k => a - 1 \in 1 .. n
    BY <1>1
  <2>3. u[a] = y[w[a]] BY <1>u
  <2>4. CASE a < k
    <3>1. w[a] = q[a] BY <2>1, <2>4
    <3> QED BY <1>3, <2>2, <2>3, <2>4, <3>1, Zenon
  <2>5. CASE a = k BY <1>1, <2>1, <2>3, <2>5
  <2>6. CASE a > k
    <3>1. w[a] = q[a - 1] /\ ~(a < k) /\ a # k BY <1>1, <2>1, <2>6
    <3> QED BY <1>3, <2>2, <2>3, <2>6, <3>1, Zenon
  <2> QED BY <1>1, <2>4, <2>5, <2>6
<1>5. \A a, b \in 1 .. n : a < b => v[a] <= v[b] BY <1>3, <1>n DEF InOrder
<1>6. \A a \in 1 .. k - 1 : v[a] <= y[t]
  <2>1. \A a \in 1 .. k - 1 : a \in 1 .. n BY <1>1
  <2> QED BY <1>3, <2>1
<1>7. k <= n => v[k] > y[t]
  <2>1. k <= n => k \in 1 .. n BY <1>1
  <2> QED BY <1>3, <1>n, <2>1
<1>8. \A i, j \in 1 .. n + 1 : i < j => u[i] <= u[j]
  <2>1. \A a \in 1 .. n : v[a] \in Nat BY <1>3
  <2>2. Grown(n, k, y[t], v, u)
    BY <1>1, <1>4, <1>5, <1>6, <1>7, <2>1, Zenon DEF Grown
  <2> QED BY <2>2, OneMore, Zenon
<1>9. \A i, j \in 1 .. n + 1 : i < j => y[w[i]] <= y[w[j]] BY <1>8, <1>u
<1> QED BY <1>9, <1>n DEF InOrder, Inserted

LEMMA SameOrder ==
  ASSUME NEW S, NEW x, NEW y, NEW q \in Seq(S), InOrder(q, x),
         \A d \in ToSet(q) : y[d] = x[d]
  PROVE  InOrder(q, y)
<1>1. \A i \in 1 .. Len(q) : y[q[i]] = x[q[i]] BY Elements
<1> QED BY <1>1, Zenon DEF InOrder

\* What is in no place of a list is put at the end of it.
LEMMA PutLast ==
  ASSUME NEW S, NEW q \in Seq(S), NEW e \in S, Once(q), e \notin ToSet(q)
  PROVE  /\ Append(q, e) \in Seq(S)
         /\ ToSet(Append(q, e)) = ToSet(q) \cup {e} /\ Once(Append(q, e))
         /\ Len(Append(q, e)) = Len(q) + 1
<1>1. Append(q, e) \in Seq(S) /\ Inserted(Append(q, e), q, Len(q) + 1, e)
  BY AppendIs
<1>2. Len(q) + 1 \in 1 .. Len(q) + 1 OBVIOUS
<1>3. PICK k \in 1 .. Len(q) + 1 : Inserted(Append(q, e), q, k, e)
  BY <1>1, <1>2
<1>4. ToSet(Append(q, e)) = ToSet(q) \cup {e} /\ Once(Append(q, e))
  <2>1. PICK w : w = Append(q, e) OBVIOUS
  <2>2. w \in Seq(S) /\ Inserted(w, q, k, e) BY <1>1, <1>3, <2>1
  <2>3. ToSet(w) = ToSet(q) \cup {e} /\ Once(w) BY <2>2, InsertedElements
  <2> QED BY <2>1, <2>3
<1> QED BY <1>1, <1>4 DEF Inserted

LEMMA HeadTaken ==
  ASSUME NEW S, NEW q \in Seq(S), q # <<>>, Once(q)
  PROVE  /\ Tail(q) \in Seq(S)
         /\ ToSet(Tail(q)) = ToSet(q) \ {Head(q)} /\ Once(Tail(q))
         /\ Len(Tail(q)) = Len(q) - 1
         /\ Head(q) \in S /\ Head(q) \in ToSet(q)
         /\ \A x : InOrder(q, x) => InOrder(Tail(q), x)
<1> PICK w : w = Tail(q) OBVIOUS
<1>1. /\ w \in Seq(S) /\ Deleted(w, q, 1) /\ 1 \in 1 .. Len(q)
      /\ Head(q) = q[1] /\ Head(q) \in S /\ Head(q) \in ToSet(q)
  BY TailIs, Zenon
<1>2. ToSet(w) = ToSet(q) \ {q[1]} /\ Once(w) BY <1>1, DeletedElements, Zenon
<1>3. \A x : InOrder(q, x) => InOrder(w, x) BY <1>1, DeletedInOrder, Zenon
<1> QED BY <1>1, <1>2, <1>3 DEF Deleted

\* What is in a list is taken out of it.
LEMMA TakenOut ==
  ASSUME NEW S, NEW q \in Seq(S), Once(q), NEW t \in ToSet(q)
  PROVE  /\ RemoveFirst(q, t) \in Seq(S)
         /\ ToSet(RemoveFirst(q, t)) = ToSet(q) \ {t} /\ Once(RemoveFirst(q, t))
         /\ Len(RemoveFirst(q, t)) = Len(q) - 1
         /\ \A x : InOrder(q, x) => InOrder(RemoveFirst(q, t), x)
<1>1. PICK k \in 1 .. Len(q) :
        /\ q[k] = t
        /\ RemoveFirst(q, t) \in Seq(S) /\ Deleted(RemoveFirst(q, t), q, k)
  BY RemoveFirstIs
<1> PICK w : w = RemoveFirst(q, t) OBVIOUS
<1>2. w \in Seq(S) /\ Deleted(w, q, k) BY <1>1
<1>3. ToSet(w) = ToSet(q) \ {t} /\ Once(w) BY <1>1, <1>2, DeletedElements
<1>4. Len(w) = Len(q) - 1 BY <1>2 DEF Deleted
<1>5. \A x : InOrder(q, x) => InOrder(w, x) BY <1>2, DeletedInOrder
<1> QED BY <1>2, <1>3, <1>4, <1>5
=============================================================================
