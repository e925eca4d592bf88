-------------------------- MODULE EptTablesProofs --------------------------
(***************************************************************************)
(* Theorems about EptTables: the tables in use are a tree, the kept walk   *)
(* is a walk of it, and what it maps is right, for any number of levels,   *)
(* any pool and any ranges.                                                *)
(***************************************************************************)
EXTENDS EptTables, ListLemmas, FiniteSetTheorems

\* The slots of the tables in use.
Slots(e) == (0 .. e.cnt) \X {0, 1}

\* Slot s is the entry of level l for page g, if lev and pre say of every table
\* its level and which entry of the level above it is under.
Stands(lev, pre, s, l, g) ==
  lev[s[1]] = l /\ pre[s[1]] = Above(g, l + 1) /\ s[2] = Index(g, l)

\* The tables are a tree: no two of them are for the same pages, an entry leads to
\* the table for its pages, and every table is led to.
Numbered(e, lev, pre) ==
  /\ lev \in [Table -> Level] /\ pre \in [Table -> Nat]
  /\ lev[Root] = Top /\ pre[Root] = 0
  /\ \A t, u \in 0 .. e.cnt : lev[t] = lev[u] /\ pre[t] = pre[u] => t = u
  /\ \A s \in Slots(e) : Read(e, s).to = "table" =>
       LET a == Read(e, s).at
       IN a \in 1 .. e.cnt /\ lev[s[1]] = lev[a] + 1 /\ pre[a] = 2 * pre[s[1]] + s[2]
  /\ \A a \in 1 .. e.cnt :
       \E s \in Slots(e) : Read(e, s).to = "table" /\ Read(e, s).at = a

\* x may be entry n of level l while the pages of M are in areas.
Right(x, l, n, M) ==
  /\ x.to # "garbage"
  /\ x.to = "page" => l = 0 /\ x = PageEntry(n) /\ n \notin M
  /\ x.to = "large" => /\ l = 1 /\ x.at = 2 * n /\ n \notin Uneven
                       /\ 2 * n \notin Vmm /\ 2 * n + 1 \notin Vmm
                       /\ 2 * n \notin M /\ 2 * n + 1 \notin M

AllRight(e, lev, pre, M) ==
  \A s \in Slots(e) : Right(Read(e, s), lev[s[1]], 2 * pre[s[1]] + s[2], M)

\* The kept walk, from the kept level up.
KeptOn(e, lev, pre) ==
  \A l \in Level : l >= e.level =>
    e.entry[l] \in Slots(e) /\ Stands(lev, pre, e.entry[l], l, e.gphys)

Tree(e, lev, pre, M) == e \in Ept /\ Numbered(e, lev, pre) /\ AllRight(e, lev, pre, M)

\* Tables of pages are in use only for the large pages of X.
Lean(e, lev, pre, X) == \A t \in 1 .. e.cnt : lev[t] = 0 => pre[t] \in X

Good(e, M, X) ==
  \E lev, pre : Tree(e, lev, pre, M) /\ KeptOn(e, lev, pre) /\ Lean(e, lev, pre, X)

-----------------------------------------------------------------------------
\* Induction, for sets of numbers.
LEMMA Upward ==
  ASSUME NEW n \in Nat, NEW T, 0 \in T, \A i \in 0 .. n - 1 : i \in T => i + 1 \in T
  PROVE  \A i \in 0 .. n : i \in T
<1> SUFFICES ASSUME NEW i \in 0 .. n, i \notin T PROVE FALSE OBVIOUS
<1> DEFINE S == {k \in 0 .. n : k \notin T}
<1>1. S \subseteq Nat /\ S # {} OBVIOUS
<1>2. PICK m \in S : \A k \in S : m <= k BY <1>1, Least, Zenon
<1>3. m \in 0 .. n /\ m \notin T /\ m # 0 OBVIOUS
<1>4. m - 1 \in 0 .. n - 1 /\ m - 1 \in 0 .. n BY <1>3
<1>5. m - 1 \in T
  <2>1. ASSUME m - 1 \notin T PROVE FALSE
    <3>1. m - 1 \in S BY <1>4, <2>1
    <3> QED BY <1>2, <1>3, <3>1
  <2> QED BY <2>1
<1>6. (m - 1) + 1 \in T BY <1>4, <1>5
<1> QED BY <1>3, <1>6

LEMMA Downward ==
  ASSUME NEW n \in Nat, NEW T, n \in T, \A i \in 0 .. n - 1 : i + 1 \in T => i \in T
  PROVE  \A i \in 0 .. n : i \in T
<1> DEFINE U == {k \in 0 .. n : n - k \in T}
<1>1. 0 \in U OBVIOUS
<1>2. ASSUME NEW i \in 0 .. n - 1, i \in U PROVE i + 1 \in U
  <2>1. n - (i + 1) \in 0 .. n - 1 /\ (n - (i + 1)) + 1 = n - i OBVIOUS
  <2>2. n - (i + 1) \in T BY <1>2, <2>1
  <2> QED BY <2>2
<1>3. \A i \in 0 .. n : i \in U
  <2> HIDE DEF U
  <2> QED BY <1>1, <1>2, Upward
<1> SUFFICES ASSUME NEW i \in 0 .. n PROVE i \in T OBVIOUS
<1>4. n - i \in 0 .. n BY <1>3
<1>5. n - i \in U BY <1>3, <1>4
<1>6. n - (n - i) = i OBVIOUS
<1> QED BY <1>5, <1>6

\* A sequence of values, each made from the one before it.
Stays(n, S, F)     == \A i \in 1 .. n : \A v \in S : F[i][v] \in S
Goes(n, S, a, F) == \E r \in [0 .. n -> S] :
                        r[0] = a /\ \A i \in 1 .. n : r[i] = F[i][r[i - 1]]

LEMMA Sequence ==
  ASSUME NEW n \in Nat, NEW S, NEW a \in S, NEW F, Stays(n, S, F)
  PROVE  Goes(n, S, a, F)
<1> DEFINE Upto(r, k) == r \in [0 .. n -> S] /\ r[0] = a
                         /\ \A i \in 1 .. k : r[i] = F[i][r[i - 1]]
           T == {k \in 0 .. n : \E r : Upto(r, k)}
<1>1. 0 \in T
  <2>1. Upto([i \in 0 .. n |-> a], 0) OBVIOUS
  <2> HIDE DEF Upto
  <2> QED BY <2>1
<1>2. ASSUME NEW k \in 0 .. n - 1, k \in T PROVE k + 1 \in T
  <2>1. PICK r : Upto(r, k) BY <1>2
  <2>2. PICK x : x = F[k + 1][r[k]] OBVIOUS
  <2>3. k + 1 \in 1 .. n /\ k \in 0 .. n OBVIOUS
  <2>4. x \in S BY <2>1, <2>2, <2>3 DEF Stays
  <2>5. PICK q : q = [r EXCEPT ![k + 1] = x] OBVIOUS
  <2>6. q \in [0 .. n -> S] /\ q[0] = a BY <2>1, <2>3, <2>4, <2>5
  <2>7. \A i \in 0 .. k : q[i] = r[i] BY <2>1, <2>5
  <2>8. q[k + 1] = x BY <2>1, <2>3, <2>5
  <2>9. ASSUME NEW i \in 1 .. k + 1 PROVE q[i] = F[i][q[i - 1]]
    <3>1. CASE i = k + 1
      <4>1. i - 1 = k /\ k \in 0 .. k BY <3>1
      <4> QED BY <2>2, <2>7, <2>8, <3>1, <4>1
    <3>2. CASE i # k + 1
      <4>1. i \in 1 .. k /\ i \in 0 .. k /\ i - 1 \in 0 .. k BY <3>2
      <4> QED BY <2>1, <2>7, <4>1
    <3> QED BY <3>1, <3>2
  <2>10. Upto(q, k + 1) BY <2>6, <2>9
  <2> QED BY <2>3, <2>10
<1>3. n \in T
  <2> HIDE DEF T
  <2>1. \A i \in 0 .. n : i \in T BY <1>1, <1>2, Upward
  <2> QED BY <2>1
<1> QED BY <1>3 DEF Goes

-----------------------------------------------------------------------------
\* Division, and the entries above a page.
LEMMA DivIs ==
  ASSUME NEW g \in Nat, NEW P \in Nat \ {0}
  PROVE  /\ (g \div P) \in Nat
         /\ (g \div P) * P <= g /\ g < (g \div P) * P + P
OBVIOUS

LEMMA DivUnique ==
  ASSUME NEW g \in Nat, NEW P \in Nat \ {0}, NEW q \in Nat, q * P <= g, g < q * P + P
  PROVE  g \div P = q
<1> PICK r : r = g \div P OBVIOUS
<1>1. r \in Nat /\ r * P <= g /\ g < r * P + P BY DivIs
<1>2. ASSUME r < q PROVE FALSE
  <2>1. r + 1 <= q BY <1>1, <1>2
  <2>2. (r + 1) * P <= q * P BY <1>1, <2>1
  <2>3. (r + 1) * P = r * P + P BY <1>1
  <2> QED BY <1>1, <2>2, <2>3
<1>3. ASSUME q < r PROVE FALSE
  <2>1. q + 1 <= r BY <1>1, <1>3
  <2>2. (q + 1) * P <= r * P BY <1>1, <2>1
  <2>3. (q + 1) * P = q * P + P OBVIOUS
  <2> QED BY <1>1, <2>2, <2>3
<1> QED BY <1>1, <1>2, <1>3

LEMMA DivTwice ==
  ASSUME NEW g \in Nat, NEW P \in Nat \ {0}
  PROVE  g \div (2 * P) = (g \div P) \div 2
<1> PICK q : q = g \div P OBVIOUS
<1>1. q \in Nat /\ q * P <= g /\ g < q * P + P BY DivIs
<1> PICK r : r = q \div 2 OBVIOUS
<1>2. r \in Nat /\ 2 * r <= q /\ q <= 2 * r + 1 BY <1>1
<1>3. (2 * r) * P <= q * P BY <1>1, <1>2
<1>4. (q + 1) * P <= (2 * r + 2) * P BY <1>1, <1>2
<1>5. /\ (2 * r) * P = r * (2 * P) /\ (2 * r + 2) * P = r * (2 * P) + 2 * P
      /\ (q + 1) * P = q * P + P
  BY <1>1, <1>2
<1>6. r * (2 * P) <= g /\ g < r * (2 * P) + 2 * P BY <1>1, <1>3, <1>4, <1>5
<1>7. 2 * P \in Nat \ {0} OBVIOUS
<1> QED BY <1>2, <1>6, <1>7, DivUnique

LEMMA Levels ==
  /\ EPT_LEVELS \in Nat /\ Top \in Level /\ Top + 1 = EPT_LEVELS /\ Top >= 2
  /\ 0 \in Level /\ 1 \in Level /\ Level = 0 .. Top /\ Level \subseteq Nat
  /\ 2 ^ 0 = 1 /\ 2 ^ 1 = 2 /\ 2 ^ EPT_LEVELS \in Nat \ {0}
  /\ NUM_OF_EPTBL \in Nat /\ Table = 0 .. NUM_OF_EPTBL /\ Root \in Table /\ Root = 0
<1>1. 0 \in Level /\ Top \in Level /\ Top + 1 = EPT_LEVELS
  BY EptAssumption DEF Level, Top
<1>2. 2 ^ (0 + 1) = 2 * 2 ^ 0 /\ 2 ^ (Top + 1) = 2 * 2 ^ Top
  BY <1>1, EptAssumption
<1>3. 2 ^ Top \in Nat \ {0} BY <1>1, EptAssumption
<1>4. 0 + 1 = 1 OBVIOUS
<1> HIDE DEF Top
<1>5. 2 ^ 1 = 2 BY <1>2, <1>4, EptAssumption
<1>6. 2 ^ EPT_LEVELS \in Nat \ {0} BY <1>1, <1>2, <1>3
<1> QED BY <1>1, <1>5, <1>6, EptAssumption DEF Level, Top, Table, Root

LEMMA AboveIs ==
  ASSUME NEW g \in Page, NEW l \in Level
  PROVE  /\ Above(g, l) \in Nat /\ Above(g, l + 1) \in Nat
         /\ Above(g, l + 1) = Above(g, l) \div 2
         /\ Index(g, l) \in {0, 1}
         /\ Above(g, l) = 2 * Above(g, l + 1) + Index(g, l)
<1>1. g \in Nat BY Levels DEF Page
<1>2. PICK P : P = 2 ^ l OBVIOUS
<1>3. P \in Nat \ {0} /\ 2 ^ (l + 1) = 2 * P BY <1>2, EptAssumption
<1>4. PICK q : q = g \div P OBVIOUS
<1>5. q \in Nat BY <1>1, <1>3, <1>4, DivIs
<1>6. Above(g, l) = q BY <1>2, <1>4 DEF Above
<1>7. Above(g, l + 1) = q \div 2
  BY <1>1, <1>3, <1>4, DivTwice DEF Above
<1>8. Index(g, l) = q % 2 BY <1>6 DEF Index
<1> QED BY <1>5, <1>6, <1>7, <1>8

LEMMA AboveEnds ==
  ASSUME NEW g \in Page
  PROVE  /\ g \in Nat /\ Above(g, 0) = g /\ Above(g, 1) = LargeOf(g)
         /\ Above(g, EPT_LEVELS) = 0
<1>1. g \in Nat /\ g < 2 ^ EPT_LEVELS BY Levels DEF Page
<1>2. Above(g, 0) = g BY <1>1, Levels DEF Above
<1>3. Above(g, 1) = LargeOf(g) BY <1>1, Levels DEF Above, LargeOf
<1>4. PICK P : P = 2 ^ EPT_LEVELS OBVIOUS
<1>5. P \in Nat \ {0} BY <1>4, Levels
<1>6. 0 * P <= g /\ g < 0 * P + P BY <1>1, <1>4, <1>5
<1>7. g \div P = 0 BY <1>1, <1>5, <1>6, DivUnique
<1> QED BY <1>1, <1>2, <1>3, <1>4, <1>7 DEF Above

LEMMA SameAbove ==
  ASSUME NEW g \in Page, NEW h \in Page, NEW l \in Level, NEW k \in Level, l <= k,
         Above(g, l) = Above(h, l)
  PROVE  /\ Above(g, k) = Above(h, k) /\ Above(g, k + 1) = Above(h, k + 1)
         /\ Index(g, k) = Index(h, k)
<1> DEFINE T == {i \in 0 .. k - l : Above(g, l + i) = Above(h, l + i)}
<1>1. k - l \in Nat BY Levels
<1>2. 0 \in T BY <1>1, Levels
<1>3. ASSUME NEW i \in 0 .. (k - l) - 1, i \in T PROVE i + 1 \in T
  <2>1. l + i \in Level /\ (l + i) + 1 = l + (i + 1) BY Levels
  <2>2. Above(g, (l + i) + 1) = Above(g, l + i) \div 2 BY <2>1, AboveIs
  <2>3. Above(h, (l + i) + 1) = Above(h, l + i) \div 2 BY <2>1, AboveIs
  <2> QED BY <1>1, <1>3, <2>1, <2>2, <2>3
<1>4. \A i \in 0 .. k - l : i \in T
  <2> HIDE DEF T
  <2> QED BY <1>1, <1>2, <1>3, Upward
<1>5. k - l \in 0 .. k - l /\ l + (k - l) = k BY <1>1, Levels
<1>6. Above(g, k) = Above(h, k) BY <1>4, <1>5
<1> QED BY <1>6, AboveIs DEF Index

-----------------------------------------------------------------------------
\* What the parts of a tree say, entry by entry.
LEMMA SlotOf ==
  ASSUME NEW e \in Ept, NEW s \in Slots(e)
  PROVE  /\ s = <<s[1], s[2]>> /\ s[1] \in 0 .. e.cnt /\ s[1] \in Table /\ s[2] \in {0, 1}
         /\ s \in Slot /\ s # NoSlot
         /\ Read(e, s) \in Entry
BY Levels DEF Slots, Ept, Slot, NoSlot, Read

LEMMA EntryIs ==
  ASSUME NEW x \in Entry
  PROVE  /\ x.to \in {"none", "garbage", "table", "page", "large"}
         /\ x.to = "table" => x.at \in Table \ {Root} /\ x.write = TRUE
         /\ x.to = "large" => x = [to |-> "large", at |-> x.at, write |-> TRUE]
         /\ x.to = "large" => x.at \in Page
<1>1. CASE x \in {NoEntry, Garbage} BY <1>1 DEF NoEntry, Garbage
<1>2. CASE x \in [to : {"table"}, at : Table \ {Root}, write : {TRUE}] BY <1>2
<1>3. CASE x \in [to : {"page"}, at : Page \cup {Blank}, write : BOOLEAN] BY <1>3
<1>4. CASE x \in [to : {"large"}, at : Page, write : {TRUE}] BY <1>4
<1> QED BY <1>1, <1>2, <1>3, <1>4, Zenon DEF Entry

\* Two tables for the same pages are one, and so are two slots.
LEMMA OneSlot ==
  ASSUME NEW e \in Ept, NEW lev, NEW pre, Numbered(e, lev, pre), NEW g, NEW l,
         NEW s \in Slots(e), NEW q \in Slots(e),
         Stands(lev, pre, s, l, g), Stands(lev, pre, q, l, g)
  PROVE  s = q
BY SlotOf DEF Numbered, Stands

\* What is above a table for page g.
LEMMA Parent ==
  ASSUME NEW e \in Ept, NEW lev, NEW pre, Numbered(e, lev, pre), NEW g \in Page,
         NEW a \in 0 .. e.cnt, lev[a] # Top, pre[a] = Above(g, lev[a] + 1)
  PROVE  \E s \in Slots(e) : /\ Stands(lev, pre, s, lev[a] + 1, g)
                             /\ Read(e, s).to = "table" /\ Read(e, s).at = a
<1>1. a \in 1 .. e.cnt /\ a \in Table /\ e.cnt \in Nat
  <2>1. e.cnt \in Nat /\ e.cnt <= NUM_OF_EPTBL BY Levels DEF Ept
  <2>2. a # 0 BY Levels DEF Numbered
  <2> QED BY <2>1, <2>2, Levels
<1>2. lev[a] \in Level BY <1>1 DEF Numbered
<1>3. PICK s \in Slots(e) : Read(e, s).to = "table" /\ Read(e, s).at = a
  BY <1>1 DEF Numbered
<1>4. lev[s[1]] = lev[a] + 1 /\ pre[a] = 2 * pre[s[1]] + s[2]
  BY <1>3 DEF Numbered
<1>5. s[1] \in Table /\ s[2] \in {0, 1} BY SlotOf
<1>6. pre[s[1]] \in Nat /\ lev[s[1]] \in Level BY <1>5 DEF Numbered
<1>7. lev[a] + 1 \in Level BY <1>4, <1>6
<1>8. Above(g, lev[a] + 1) = 2 * Above(g, (lev[a] + 1) + 1) + Index(g, lev[a] + 1)
  BY <1>7, AboveIs
<1>9. Above(g, (lev[a] + 1) + 1) \in Nat /\ Index(g, lev[a] + 1) \in {0, 1} BY <1>7, AboveIs
<1>10. pre[s[1]] = Above(g, (lev[a] + 1) + 1) /\ s[2] = Index(g, lev[a] + 1)
  <2> PICK p, i, q, j : p = pre[s[1]] /\ i = s[2] /\ q = Above(g, (lev[a] + 1) + 1)
                        /\ j = Index(g, lev[a] + 1)
    OBVIOUS
  <2>1. 2 * p + i = 2 * q + j BY <1>4, <1>8
  <2>2. p \in Nat /\ q \in Nat /\ i \in {0, 1} /\ j \in {0, 1} BY <1>5, <1>6, <1>9
  <2>3. p = q /\ i = j BY <2>1, <2>2
  <2> QED BY <2>3
<1> QED BY <1>3, <1>4, <1>10 DEF Stands

\* And so on up to the root.
LEMMA Ancestor ==
  ASSUME NEW e \in Ept, NEW lev, NEW pre, Numbered(e, lev, pre), NEW g \in Page,
         NEW a \in 0 .. e.cnt, pre[a] = Above(g, lev[a] + 1),
         NEW l \in Level, lev[a] < l
  PROVE  \E s \in Slots(e) : Stands(lev, pre, s, l, g) /\ Read(e, s).to = "table"
<1> DEFINE Has(k) == \E s \in Slots(e) : Stands(lev, pre, s, k, g) /\ Read(e, s).to = "table"
<1>1. lev[a] \in Level /\ a \in Table
  <2>1. a \in Table BY Levels DEF Ept
  <2> QED BY <2>1 DEF Numbered
<1>2. Has(lev[a] + 1) BY <1>1, Levels, Parent
<1>3. ASSUME NEW k \in Level, k # Top, Has(k) PROVE Has(k + 1)
  <2>1. PICK s \in Slots(e) : Stands(lev, pre, s, k, g) BY <1>3
  <2>2. s[1] \in 0 .. e.cnt BY SlotOf
  <2>3. lev[s[1]] = k /\ pre[s[1]] = Above(g, k + 1) BY <2>1 DEF Stands
  <2> QED BY <1>3, <2>2, <2>3, Parent
<1> DEFINE n == l - (lev[a] + 1)
           T == {i \in 0 .. n : Has(lev[a] + 1 + i)}
<1>4. n \in Nat BY <1>1, Levels
<1>5. 0 \in T
  <2> HIDE DEF Has
  <2>1. lev[a] + 1 + 0 = lev[a] + 1 BY <1>1, Levels
  <2> QED BY <1>2, <1>4, <2>1
<1>6. ASSUME NEW i \in 0 .. n - 1, i \in T PROVE i + 1 \in T
  <2> HIDE DEF Has
  <2>1. lev[a] + 1 + i \in Level /\ lev[a] + 1 + i # Top
    <3>1. lev[a] \in Nat /\ l \in Nat /\ l <= Top /\ Top \in Nat /\ Level = 0 .. Top
      BY <1>1, Levels
    <3>2. i \in Nat /\ i <= l - (lev[a] + 1) - 1 BY <1>4, <3>1
    <3> HIDE DEF T
    <3> QED BY <3>1, <3>2
  <2>2. Has((lev[a] + 1 + i) + 1) BY <1>3, <1>6, <2>1
  <2>3. (lev[a] + 1 + i) + 1 = lev[a] + 1 + (i + 1)
    <3>1. lev[a] \in Nat /\ i \in Int BY <1>1, <1>4, Levels
    <3> QED BY <3>1
  <2> QED BY <1>4, <2>2, <2>3
<1>7. \A i \in 0 .. n : i \in T
  <2> HIDE DEF T, n
  <2> QED BY <1>4, <1>5, <1>6, Upward
<1>8. Has(l)
  <2>1. lev[a] + 1 + n = l /\ n \in 0 .. n BY <1>1, <1>4, Levels
  <2>2. n \in T BY <1>7, <2>1
  <2> HIDE DEF Has, n
  <2> QED BY <2>1, <2>2
<1> QED BY <1>8

-----------------------------------------------------------------------------
\* A walk is what its definition says of it.
IsWalk(path, e, g, kept, l) ==
  /\ path \in [Level -> Slot \cup {NoSlot}]
  /\ \A k \in Level :
       path[k] = IF k >= l THEN kept[k]
                 ELSE IF path[k + 1] # NoSlot /\ Read(e, path[k + 1]).to = "table"
                 THEN <<Read(e, path[k + 1]).at, Index(g, k)>>
                 ELSE NoSlot

LEMMA WalkedIs ==
  ASSUME NEW e \in Ept, NEW g \in Page, NEW kept \in [Level -> Slot \cup {NoSlot}],
         NEW l \in Level
  PROVE  IsWalk(Walked(e, g, kept, l), e, g, kept, l)
<1> DEFINE Sl == Slot \cup {NoSlot}
           Next1(up, k) == IF up # NoSlot /\ Read(e, up).to = "table"
                           THEN <<Read(e, up).at, Index(g, k)>> ELSE NoSlot
           F == [i \in 1 .. l |-> [up \in Sl |-> Next1(up, l - i)]]
<1>1. \A i \in 1 .. l, v \in Sl : F[i][v] \in Sl
  <2>1. ASSUME NEW i \in 1 .. l, NEW up \in Sl PROVE Next1(up, l - i) \in Sl
    <3>1. l - i \in Level BY Levels
    <3>2. Index(g, l - i) \in {0, 1} BY <3>1, AboveIs
    <3>3. up # NoSlot => Read(e, up) \in Entry BY DEF Ept, Slot, Read
    <3>4. up # NoSlot /\ Read(e, up).to = "table" => Read(e, up).at \in Table
      BY <3>3, EntryIs
    <3> QED BY <3>2, <3>4 DEF Slot
  <2> HIDE DEF Next1, Sl
  <2> QED BY <2>1
<1>2. kept[l] \in Sl /\ l \in Nat BY Levels
<1>3. PICK r \in [0 .. l -> Sl] : r[0] = kept[l] /\ \A i \in 1 .. l : r[i] = F[i][r[i - 1]]
  <2> HIDE DEF F, Sl
  <2>1. Stays(l, Sl, F) BY <1>1 DEF Stays
  <2>2. Goes(l, Sl, kept[l], F) BY <1>2, <2>1, Sequence, Zenon
  <2> QED BY <2>2 DEF Goes
<1>4. \A i \in 1 .. l : r[i] = Next1(r[i - 1], l - i)
  <2> SUFFICES ASSUME NEW i \in 1 .. l PROVE r[i] = Next1(r[i - 1], l - i) OBVIOUS
  <2>1. r[i - 1] \in Sl BY <1>2, <1>3
  <2> HIDE DEF Next1, Sl
  <2> QED BY <1>3, <2>1
<1> PICK p : p = [k \in Level |-> IF k >= l THEN kept[k] ELSE r[l - k]] OBVIOUS
<1>5. ASSUME NEW k \in Level, ~ (k >= l) PROVE p[k] = Next1(p[k + 1], k)
  <2>1. k + 1 \in Level /\ l - k \in 1 .. l /\ (l - k) - 1 = l - (k + 1) /\ l - (l - k) = k
    BY <1>5, Levels
  <2>2. p[k] = r[l - k] BY <1>5
  <2>3. p[k + 1] = r[l - (k + 1)]
    <3>1. CASE k + 1 >= l
      <4>1. k + 1 = l /\ l - (k + 1) = 0 BY <1>5, <3>1, Levels
      <4> QED BY <1>3, <2>1, <4>1, Levels
    <3>2. CASE ~ (k + 1 >= l) BY <2>1, <3>2
    <3> QED BY <3>1, <3>2
  <2> HIDE DEF Next1
  <2>4. r[l - k] = Next1(r[(l - k) - 1], l - (l - k)) BY <1>4, <2>1
  <2> QED BY <2>1, <2>2, <2>3, <2>4
<1> DEFINE Body(q) == [k \in Level |->
                        IF k >= l THEN kept[k]
                        ELSE LET up == q[k + 1] IN
                             IF up # NoSlot /\ Read(e, up).to = "table"
                             THEN <<Read(e, up).at, Index(g, k)>>
                             ELSE NoSlot]
<1>6. p = Body(p)
  <2>1. ASSUME NEW k \in Level PROVE p[k] = Body(p)[k]
    <3>1. CASE k >= l BY <3>1
    <3>2. CASE ~ (k >= l)
      <4>1. Body(p)[k] = Next1(p[k + 1], k) BY <3>2
      <4> HIDE DEF Body, Next1
      <4> QED BY <1>5, <3>2, <4>1
    <3> QED BY <3>1, <3>2
  <2> QED BY <2>1
<1> PICK path : path = Walked(e, g, kept, l) OBVIOUS
<1>7. path = Body(path)
  <2>1. path = CHOOSE q : q = Body(q) BY DEF Walked
  <2> HIDE DEF Body
  <2> QED BY <1>6, <2>1
<1>8. \A k \in Level : path[k] = IF k >= l THEN kept[k] ELSE Next1(path[k + 1], k)
  BY <1>7
<1>9. path = p
  <2> DEFINE T == {k \in 0 .. Top : path[k] = p[k]}
  <2> HIDE DEF Next1
  <2>1. Top \in T
    BY <1>2, <1>8, Levels
  <2>2. ASSUME NEW k \in 0 .. Top - 1, k + 1 \in T PROVE k \in T
    <3>1. k \in Level /\ k \in 0 .. Top BY Levels
    <3> QED BY <1>5, <1>8, <2>2, <3>1
  <2>3. \A k \in 0 .. Top : k \in T
    <3> HIDE DEF T
    <3> QED BY <2>1, <2>2, Levels, Downward
  <2>4. \A k \in Level : path[k] = p[k] BY <2>3, Levels
  <2>5. p = [k \in Level |-> p[k]] OBVIOUS
  <2>6. path = [k \in Level |-> path[k]]
    <3> HIDE DEF T
    <3> QED BY <1>7
  <2> QED BY <2>4, <2>5, <2>6
<1>10. p \in [Level -> Sl]
  <2>1. ASSUME NEW k \in Level PROVE (IF k >= l THEN kept[k] ELSE r[l - k]) \in Sl
    <3>1. ~ (k >= l) => l - k \in 0 .. l BY Levels
    <3> QED BY <1>3, <3>1
  <2> QED BY <2>1
<1>11. path \in [Level -> Slot \cup {NoSlot}] BY <1>9, <1>10
<1>12. \A k \in Level :
         path[k] = IF k >= l THEN kept[k]
                   ELSE IF path[k + 1] # NoSlot /\ Read(e, path[k + 1]).to = "table"
                   THEN <<Read(e, path[k + 1]).at, Index(g, k)>>
                   ELSE NoSlot
  BY <1>8
<1> HIDE DEF Sl, Next1, Body
<1> QED BY <1>11, <1>12 DEF IsWalk

LEMMA MinimumIs ==
  ASSUME NEW S, S \subseteq Nat, S # {}
  PROVE  Minimum(S) \in S /\ \A k \in S : Minimum(S) <= k
BY Least DEF Minimum

\* The table an entry leads to is for the page the entry stands for.
LEMMA Child ==
  ASSUME NEW e \in Ept, NEW lev, NEW pre, Numbered(e, lev, pre), NEW g \in Page,
         NEW s \in Slots(e), NEW l, l + 1 \in Level, l \in Int,
         Stands(lev, pre, s, l + 1, g),
         Read(e, s).to = "table"
  PROVE  LET a == Read(e, s).at
         IN  /\ a \in 1 .. e.cnt /\ l \in Level /\ <<a, Index(g, l)>> \in Slots(e)
             /\ Stands(lev, pre, <<a, Index(g, l)>>, l, g)
<1> PICK a : a = Read(e, s).at OBVIOUS
<1>1. a \in 1 .. e.cnt /\ lev[s[1]] = lev[a] + 1 /\ pre[a] = 2 * pre[s[1]] + s[2]
  BY DEF Numbered
<1>2. a \in 0 .. e.cnt /\ a \in Table
  BY <1>1, Levels DEF Ept
<1>3. lev[a] \in Level BY <1>2 DEF Numbered
<1>4. lev[s[1]] = l + 1 /\ pre[s[1]] = Above(g, (l + 1) + 1) /\ s[2] = Index(g, l + 1)
  BY DEF Stands
<1>5. lev[a] = l BY <1>1, <1>3, <1>4, Levels
<1>6. Above(g, l + 1) = 2 * Above(g, (l + 1) + 1) + Index(g, l + 1) BY AboveIs
<1>7. pre[a] = Above(g, l + 1) BY <1>1, <1>4, <1>6
<1>8. Index(g, l) \in {0, 1} BY <1>3, <1>5, AboveIs
<1> QED BY <1>1, <1>2, <1>3, <1>5, <1>7, <1>8 DEF Slots, Stands

\* A walk from the right entries finds the right entries, and stops where no entry
\* leads further.
LEMMA WalkedStands ==
  ASSUME NEW e \in Ept, NEW lev, NEW pre, Numbered(e, lev, pre), NEW g \in Page,
         NEW kept \in [Level -> Slot \cup {NoSlot}], NEW l \in Level,
         \A k \in Level : k >= l => kept[k] \in Slots(e) /\ Stands(lev, pre, kept[k], k, g)
  PROVE  LET path == Walked(e, g, kept, l)
             m == Lowest(path)
         IN  /\ path \in [Level -> Slot \cup {NoSlot}]
             /\ m \in Level /\ m <= l
             /\ \A k \in Level : k >= m => path[k] \in Slots(e) /\ Stands(lev, pre, path[k], k, g)
             /\ m = 0 \/ Read(e, path[m]).to # "table"
             /\ \A k \in Level : k >= l => path[k] = kept[k]
             /\ \A k \in Level : k >= m /\ k < l => Read(e, path[k + 1]).to = "table"
<1> PICK path : path = Walked(e, g, kept, l) OBVIOUS
<1>1. path \in [Level -> Slot \cup {NoSlot}]
  <2>1. IsWalk(path, e, g, kept, l) BY WalkedIs
  <2> QED BY <2>1, Zenon DEF IsWalk
<1>2. \A k \in Level :
        path[k] = IF k >= l THEN kept[k]
                  ELSE IF path[k + 1] # NoSlot /\ Read(e, path[k + 1]).to = "table"
                  THEN <<Read(e, path[k + 1]).at, Index(g, k)>>
                  ELSE NoSlot
  <2>1. IsWalk(path, e, g, kept, l) BY WalkedIs
  <2> QED BY <2>1, Zenon DEF IsWalk
<1> DEFINE Fine(k) == path[k] \in Slots(e) /\ Stands(lev, pre, path[k], k, g)
<1>3. \A k \in Level : k >= l => path[k] = kept[k] /\ Fine(k) BY <1>2
<1>4. ASSUME NEW k \in Level, k < l, path[k] # NoSlot
      PROVE  /\ k + 1 \in Level /\ path[k + 1] # NoSlot /\ Read(e, path[k + 1]).to = "table"
             /\ path[k] = <<Read(e, path[k + 1]).at, Index(g, k)>>
  <2>1. k + 1 \in Level /\ ~ (k >= l) BY <1>4, Levels
  <2> QED BY <1>2, <1>4, <2>1, Zenon
<1>5. \A k \in 0 .. l : path[k] # NoSlot => Fine(k)
  <2> DEFINE T == {k \in 0 .. l : path[k] # NoSlot => Fine(k)}
  <2>1. l \in T BY <1>3, Levels
  <2>2. ASSUME NEW k \in 0 .. l - 1, k + 1 \in T PROVE k \in T
    <3>1. k \in Level /\ k < l /\ k \in Int BY Levels
    <3> SUFFICES ASSUME path[k] # NoSlot PROVE Fine(k) BY <2>2, Levels
    <3>2. /\ k + 1 \in Level /\ path[k + 1] # NoSlot /\ Read(e, path[k + 1]).to = "table"
          /\ path[k] = <<Read(e, path[k + 1]).at, Index(g, k)>>
      BY <1>4, <3>1
    <3>3. Fine(k + 1) BY <2>2, <3>2
    <3> QED BY <3>1, <3>2, <3>3, Child
  <2>3. \A k \in 0 .. l : k \in T
    <3> HIDE DEF T
    <3> QED BY <2>1, <2>2, Levels, Downward
  <2> QED BY <2>3
<1> DEFINE S == {k \in Level : path[k] # NoSlot}
<1> PICK m : m = Minimum(S) OBVIOUS
<1>6. l \in S
  <2>1. Fine(l) BY <1>3, Levels
  <2> QED BY <2>1, SlotOf
<1>7. m \in S /\ \A k \in S : m <= k BY <1>6, MinimumIs, Levels
<1>8. m \in Level /\ path[m] # NoSlot /\ m <= l BY <1>6, <1>7
<1>9. \A k \in Level : k >= m => path[k] # NoSlot
  <2> DEFINE T == {i \in 0 .. l - m : path[m + i] # NoSlot}
  <2>1. l - m \in Nat BY <1>8, Levels
  <2>2. 0 \in T BY <1>8, <2>1, Levels
  <2>3. ASSUME NEW i \in 0 .. (l - m) - 1, i \in T PROVE i + 1 \in T
    <3>1. m + i \in Level /\ m + i < l /\ (m + i) + 1 = m + (i + 1) BY <1>8, <2>1, Levels
    <3> QED BY <1>4, <2>1, <2>3, <3>1
  <2>4. \A i \in 0 .. l - m : i \in T
    <3> HIDE DEF T
    <3> QED BY <2>1, <2>2, <2>3, Upward
  <2>5. ASSUME NEW k \in Level, k >= m PROVE path[k] # NoSlot
    <3>1. CASE k >= l BY <1>3, <3>1, SlotOf
    <3>2. CASE k < l
      <4>1. k - m \in 0 .. l - m /\ m + (k - m) = k BY <1>8, <2>5, <3>2, Levels
      <4> QED BY <2>4, <4>1
    <3> QED BY <3>1, <3>2, Levels
  <2> QED BY <2>5
<1>10. ASSUME NEW k \in Level, k >= m PROVE Fine(k)
  <2>1. path[k] # NoSlot BY <1>9, <1>10
  <2>2. CASE k >= l BY <1>3, <2>2
  <2>3. CASE k < l
    <3>1. k \in 0 .. l BY <2>3, Levels
    <3> QED BY <1>5, <2>1, <3>1
  <2> QED BY <2>2, <2>3, Levels
<1>11. ASSUME m # 0, Read(e, path[m]).to = "table" PROVE FALSE
  <2>1. m - 1 \in Level /\ (m - 1) + 1 = m /\ m - 1 < l /\ m - 1 \in Int
    BY <1>8, <1>11, Levels
  <2>2. path[m - 1] = <<Read(e, path[m]).at, Index(g, m - 1)>>
    <3>1. ~ (m - 1 >= l) BY <1>8, <2>1, Levels
    <3>2. path[m - 1] = IF path[m] # NoSlot /\ Read(e, path[m]).to = "table"
                        THEN <<Read(e, path[m]).at, Index(g, m - 1)>> ELSE NoSlot
      BY <1>2, <2>1, <3>1
    <3> QED BY <1>8, <1>11, <3>2
  <2>3. <<Read(e, path[m]).at, Index(g, m - 1)>> \in Slots(e)
    <3>1. Fine(m) BY <1>8, <1>10, Levels
    <3> QED BY <1>8, <1>11, <2>1, <3>1, Child
  <2>4. path[m - 1] # NoSlot BY <2>2, <2>3, SlotOf
  <2>5. m - 1 \in S BY <2>1, <2>4
  <2> QED BY <1>7, <1>8, <2>5, Levels
<1>12. \A k \in Level : k >= m /\ k < l => Read(e, path[k + 1]).to = "table"
  BY <1>4, <1>9
<1>13. m = Lowest(path) BY DEF Lowest
<1> QED BY <1>1, <1>3, <1>8, <1>10, <1>11, <1>12, <1>13

-----------------------------------------------------------------------------
\* What a walk of the processor finds.
LEMMA RootStands ==
  ASSUME NEW e \in Ept, NEW lev, NEW pre, Numbered(e, lev, pre), NEW g \in Page
  PROVE  RootSlot(g) \in Slots(e) /\ Stands(lev, pre, RootSlot(g), Top, g)
<1>1. Index(g, Top) \in {0, 1} BY AboveIs, Levels
<1>2. Above(g, Top + 1) = 0 BY AboveEnds, Levels
<1>3. Root \in 0 .. e.cnt BY Levels DEF Ept
<1> QED BY <1>1, <1>2, <1>3 DEF RootSlot, Slots, Stands, Numbered

LEMMA WalkStands ==
  ASSUME NEW e \in Ept, NEW lev, NEW pre, Numbered(e, lev, pre), NEW g \in Page
  PROVE  LET path == Walk(e, g)
             m == Lowest(path)
         IN  /\ m \in Level
             /\ \A k \in Level : k >= m => path[k] \in Slots(e) /\ Stands(lev, pre, path[k], k, g)
             /\ Read(e, path[m]).to # "table"
<1> PICK kept : kept = [l \in Level |-> RootSlot(g)] OBVIOUS
<1>1. RootSlot(g) \in Slots(e) /\ Stands(lev, pre, RootSlot(g), Top, g) BY RootStands
<1>2. kept \in [Level -> Slot \cup {NoSlot}] BY <1>1, SlotOf
<1>3. \A k \in Level : k >= Top => kept[k] \in Slots(e) /\ Stands(lev, pre, kept[k], k, g)
  <2>1. \A k \in Level : k >= Top => k = Top BY Levels
  <2> QED BY <1>1, <2>1
<1> PICK path : path = Walked(e, g, kept, Top) OBVIOUS
<1> PICK m : m = Lowest(path) OBVIOUS
<1>4. path = Walk(e, g) BY DEF Walk
<1>5. /\ m \in Level
      /\ \A k \in Level : k >= m => path[k] \in Slots(e) /\ Stands(lev, pre, path[k], k, g)
      /\ m = 0 \/ Read(e, path[m]).to # "table"
  <2> HIDE <1>4
  <2> QED BY <1>2, <1>3, Levels, WalkedStands
<1>6. Read(e, path[m]).to # "table"
  <2>1. ASSUME m = 0, Read(e, path[m]).to = "table" PROVE FALSE
    <3>1. path[m] \in Slots(e) /\ lev[path[m][1]] = 0
      <4>1. path[m] \in Slots(e) /\ Stands(lev, pre, path[m], m, g) BY <1>5, Levels
      <4> QED BY <2>1, <4>1 DEF Stands
    <3>2. Read(e, path[m]).at \in 1 .. e.cnt /\ lev[path[m][1]] = lev[Read(e, path[m]).at] + 1
      BY <2>1, <3>1 DEF Numbered
    <3>3. Read(e, path[m]).at \in Table BY <3>2, Levels DEF Ept
    <3>4. lev[Read(e, path[m]).at] \in Nat BY <3>3, Levels DEF Numbered
    <3> QED BY <3>1, <3>2, <3>4
  <2> QED BY <1>5, <2>1
<1> QED BY <1>4, <1>5, <1>6

LEMMA FoundIs ==
  ASSUME NEW e \in Ept, NEW lev, NEW pre, Numbered(e, lev, pre), NEW g \in Page
  PROVE  \E s \in Slots(e) : /\ Stands(lev, pre, s, lev[s[1]], g)
                             /\ Read(e, s).to # "table" /\ Found(e, g) = Read(e, s)
<1> PICK path : path = Walk(e, g) OBVIOUS
<1> PICK m : m = Lowest(path) OBVIOUS
<1>1. /\ m \in Level /\ path[m] \in Slots(e) /\ Stands(lev, pre, path[m], m, g)
      /\ Read(e, path[m]).to # "table"
  <2>1. /\ m \in Level
        /\ \A k \in Level : k >= m => path[k] \in Slots(e) /\ Stands(lev, pre, path[k], k, g)
        /\ Read(e, path[m]).to # "table"
    BY WalkStands
  <2> QED BY <2>1, Levels
<1>2. lev[path[m][1]] = m BY <1>1 DEF Stands
<1>3. Found(e, g) = Read(e, path[m]) BY DEF Found
<1> QED BY <1>1, <1>2, <1>3

\* A table entry above where another entry for the page stands.
LEMMA AncestorIs ==
  ASSUME NEW e \in Ept, NEW lev, NEW pre, Numbered(e, lev, pre), NEW g \in Page,
         NEW s \in Slots(e), NEW l \in Level, Stands(lev, pre, s, l, g),
         NEW q \in Slots(e), NEW k \in Level, Stands(lev, pre, q, k, g), l < k
  PROVE  Read(e, q).to = "table"
<1>1. s[1] \in 0 .. e.cnt /\ lev[s[1]] = l /\ pre[s[1]] = Above(g, l + 1)
  BY SlotOf DEF Stands
<1>2. PICK p \in Slots(e) : Stands(lev, pre, p, k, g) /\ Read(e, p).to = "table"
  BY <1>1, Ancestor
<1> QED BY <1>2, OneSlot

LEMMA FoundWhere ==
  ASSUME NEW e \in Ept, NEW lev, NEW pre, Numbered(e, lev, pre), NEW g \in Page,
         NEW s \in Slots(e), Stands(lev, pre, s, lev[s[1]], g), Read(e, s).to # "table"
  PROVE  Found(e, g) = Read(e, s)
<1>1. PICK q \in Slots(e) : /\ Stands(lev, pre, q, lev[q[1]], g)
                            /\ Read(e, q).to # "table" /\ Found(e, g) = Read(e, q)
  BY FoundIs
<1>2. lev[s[1]] \in Level /\ lev[q[1]] \in Level BY SlotOf DEF Numbered
<1>3. ~ (lev[s[1]] < lev[q[1]]) /\ ~ (lev[q[1]] < lev[s[1]])
  BY <1>1, <1>2, AncestorIs
<1>4. lev[s[1]] = lev[q[1]] BY <1>2, <1>3, Levels
<1>5. s = q BY <1>1, <1>4, OneSlot
<1> QED BY <1>1, <1>5

\* The entry of a level for a page is on its walk.
LEMMA WalkAt ==
  ASSUME NEW e \in Ept, NEW lev, NEW pre, Numbered(e, lev, pre), NEW g \in Page,
         NEW s \in Slots(e), NEW l \in Level, Stands(lev, pre, s, l, g)
  PROVE  Walk(e, g)[l] = s
<1> PICK path : path = Walk(e, g) OBVIOUS
<1> PICK m : m = Lowest(path) OBVIOUS
<1>1. /\ m \in Level
      /\ \A k \in Level : k >= m => path[k] \in Slots(e) /\ Stands(lev, pre, path[k], k, g)
      /\ Read(e, path[m]).to # "table"
  BY WalkStands
<1>2. ~ (l < m) BY <1>1, AncestorIs, Levels
<1>3. path[l] \in Slots(e) /\ Stands(lev, pre, path[l], l, g) BY <1>1, <1>2, Levels
<1>4. path[l] = s BY <1>3, OneSlot
<1> QED BY <1>4

-----------------------------------------------------------------------------
\* What the tree says is not about the kept walk.
LEMMA SameTables ==
  ASSUME NEW e \in Ept, NEW r \in Ept, r.tables = e.tables, r.cnt = e.cnt,
         NEW lev, NEW pre, NEW M, Tree(e, lev, pre, M)
  PROVE  /\ Tree(r, lev, pre, M)
         /\ \A g \in Page : Found(r, g) = Found(e, g)
<1>1. Slots(r) = Slots(e) /\ \A s : Read(r, s) = Read(e, s) BY DEF Slots, Read
<1>2. Tree(r, lev, pre, M)
  <2>1. Numbered(r, lev, pre)
    <3> PICK n : n = e.cnt OBVIOUS
    <3>1. n = r.cnt OBVIOUS
    <3>2. \A s \in Slots(e) : Read(e, s).to = "table" =>
            LET a == Read(e, s).at
            IN a \in 1 .. n /\ lev[s[1]] = lev[a] + 1 /\ pre[a] = 2 * pre[s[1]] + s[2]
      BY DEF Tree, Numbered
    <3>3. \A a \in 1 .. n :
            \E s \in Slots(e) : Read(e, s).to = "table" /\ Read(e, s).at = a
      BY DEF Tree, Numbered
    <3>4. \A t, u \in 0 .. n : lev[t] = lev[u] /\ pre[t] = pre[u] => t = u
      BY DEF Tree, Numbered
    <3>5. \A s \in Slots(r) : Read(r, s).to = "table" =>
            LET a == Read(r, s).at
            IN a \in 1 .. r.cnt /\ lev[s[1]] = lev[a] + 1 /\ pre[a] = 2 * pre[s[1]] + s[2]
      <4> SUFFICES ASSUME NEW s \in Slots(r), Read(r, s).to = "table"
                   PROVE  LET a == Read(r, s).at
                          IN a \in 1 .. n /\ lev[s[1]] = lev[a] + 1
                             /\ pre[a] = 2 * pre[s[1]] + s[2]
        BY <3>1
      <4>1. s \in Slots(e) /\ Read(r, s) = Read(e, s) BY <1>1
      <4> QED BY <3>2, <4>1
    <3>6. \A a \in 1 .. r.cnt :
            \E s \in Slots(r) : Read(r, s).to = "table" /\ Read(r, s).at = a
      <4> SUFFICES ASSUME NEW a \in 1 .. n
                   PROVE  \E s \in Slots(r) : Read(r, s).to = "table" /\ Read(r, s).at = a
        BY <3>1
      <4>1. PICK s \in Slots(e) : Read(e, s).to = "table" /\ Read(e, s).at = a BY <3>3
      <4>2. s \in Slots(r) /\ Read(r, s) = Read(e, s) BY <1>1
      <4> QED BY <4>1, <4>2
    <3> QED BY <3>1, <3>4, <3>5, <3>6 DEF Tree, Numbered
  <2>2. AllRight(r, lev, pre, M) BY <1>1, Zenon DEF Tree, AllRight
  <2> QED BY <2>1, <2>2 DEF Tree
<1>3. ASSUME NEW g \in Page PROVE Found(r, g) = Found(e, g)
  <2>1. PICK s \in Slots(e) : /\ Stands(lev, pre, s, lev[s[1]], g)
                              /\ Read(e, s).to # "table" /\ Found(e, g) = Read(e, s)
    BY FoundIs DEF Tree
  <2>2. Numbered(r, lev, pre) BY <1>2 DEF Tree
  <2>3. s \in Slots(r) /\ Read(r, s) = Read(e, s) BY <1>1
  <2>4. Found(r, g) = Read(r, s) BY <2>1, <2>2, <2>3, FoundWhere, Zenon
  <2> QED BY <2>1, <2>3, <2>4
<1> QED BY <1>2, <1>3

\* The walk is at page g, as far as the tables lead.
Ready(e, lev, pre, M, g) ==
  /\ Tree(e, lev, pre, M) /\ KeptOn(e, lev, pre)
  /\ e.gphys = g /\ e.level \in Level
  /\ e.entry[e.level] \in Slots(e) /\ Stands(lev, pre, e.entry[e.level], e.level, g)
  /\ Read(e, e.entry[e.level]).to # "table"


\* cur_move brings the walk to page g and changes nothing else.
LEMMA Move ==
  ASSUME NEW e \in Ept, NEW lev, NEW pre, NEW M, Tree(e, lev, pre, M), KeptOn(e, lev, pre),
         NEW g \in Page
  PROVE  LET r == cur_move(e, g)
         IN  /\ Ready(r, lev, pre, M, g)
             /\ r.tables = e.tables /\ r.cnt = e.cnt /\ r.cleared = e.cleared
<1> PICK l : l = parting(e, g) OBVIOUS
<1> DEFINE S == {EPT_LEVELS} \cup
                {k \in Level : k >= e.level /\ Above(g, k) = Above(e.gphys, k)}
<1>1. l \in S
  <2>1. S \subseteq Nat /\ S # {} BY Levels
  <2>2. l = Minimum(S) BY DEF parting
  <2> HIDE DEF S
  <2> QED BY <2>1, <2>2, MinimumIs
<1> PICK from, kept : /\ from = IF l > Top THEN Top ELSE l
                      /\ kept = IF l > Top THEN [e.entry EXCEPT ![Top] = RootSlot(g)]
                                ELSE e.entry
  OBVIOUS
<1> PICK path : path = Walked(e, g, kept, from) OBVIOUS
<1> PICK m : m = Lowest(path) OBVIOUS
<1>2. PICK r : r = [e EXCEPT !.gphys = g, !.level = m, !.entry = path] OBVIOUS
<1>3. r = cur_move(e, g) BY <1>2 DEF cur_move
<1> HIDE DEF S
<1>4. Numbered(e, lev, pre) BY DEF Tree
<1>5. e.entry \in [Level -> Slot \cup {NoSlot}] /\ e.gphys \in Page BY DEF Ept
<1>6. from \in Level BY <1>1, Levels DEF S
<1>7. kept \in [Level -> Slot \cup {NoSlot}]
  <2>1. RootSlot(g) \in Slot BY <1>4, RootStands, SlotOf
  <2> QED BY <1>5, <2>1
<1>8. ASSUME NEW k \in Level, k >= from
      PROVE  kept[k] \in Slots(e) /\ Stands(lev, pre, kept[k], k, g)
  <2>1. CASE l > Top
    <3>1. k = Top /\ kept[k] = RootSlot(g) BY <1>5, <1>8, <2>1, Levels
    <3> QED BY <1>4, <3>1, RootStands
  <2>2. CASE ~ (l > Top)
    <3>1. l \in Level /\ l >= e.level /\ Above(g, l) = Above(e.gphys, l)
      BY <1>1, <2>2, Levels DEF S
    <3>2. from = l /\ kept = e.entry BY <2>2
    <3>3. k >= e.level
      <4>1. e.level \in Int BY Levels DEF Ept
      <4> QED BY <1>8, <3>1, <3>2, <4>1, Levels
    <3>4. e.entry[k] \in Slots(e) /\ Stands(lev, pre, e.entry[k], k, e.gphys)
      BY <3>3 DEF KeptOn
    <3>5. Above(g, k + 1) = Above(e.gphys, k + 1) /\ Index(g, k) = Index(e.gphys, k)
      BY <1>5, <1>8, <3>1, <3>2, SameAbove, Levels
    <3> QED BY <3>2, <3>4, <3>5 DEF Stands
  <2> QED BY <2>1, <2>2
<1>9. /\ path \in [Level -> Slot \cup {NoSlot}]
      /\ m \in Level
      /\ \A k \in Level : k >= m => path[k] \in Slots(e) /\ Stands(lev, pre, path[k], k, g)
      /\ m = 0 \/ Read(e, path[m]).to # "table"
  BY <1>4, <1>6, <1>7, <1>8, WalkedStands
<1>10. path[m] \in Slots(e) /\ Stands(lev, pre, path[m], m, g)
  <2>1. m >= m BY <1>9, Levels
  <2> QED BY <1>9, <2>1
<1>11. Read(e, path[m]).to # "table"
  <2>1. ASSUME m = 0, Read(e, path[m]).to = "table" PROVE FALSE
    <3>1. Read(e, path[m]).at \in 1 .. e.cnt /\ lev[path[m][1]] = lev[Read(e, path[m]).at] + 1
      BY <1>4, <1>10, <2>1 DEF Numbered
    <3>2. Read(e, path[m]).at \in Table BY <3>1, Levels DEF Ept
    <3>3. lev[Read(e, path[m]).at] \in Nat BY <1>4, <3>2, Levels DEF Numbered
    <3>4. lev[path[m][1]] = 0 BY <1>10, <2>1 DEF Stands
    <3> QED BY <3>1, <3>3, <3>4
  <2> QED BY <1>9, <2>1
<1>12. r \in Ept
  <2>1. m \in 0 .. EPT_LEVELS BY <1>9, Levels
  <2> QED BY <1>9, <1>2, <2>1 DEF Ept
<1>13. /\ r.tables = e.tables /\ r.cnt = e.cnt /\ r.cleared = e.cleared
       /\ r.gphys = g /\ r.level = m /\ r.entry = path
  BY <1>2 DEF Ept
<1>14. Tree(r, lev, pre, M) BY <1>12, <1>13, SameTables
<1>15. Slots(r) = Slots(e) /\ Read(r, path[m]) = Read(e, path[m]) BY <1>13 DEF Slots, Read
<1>16. KeptOn(r, lev, pre) BY <1>9, <1>13, <1>15 DEF KeptOn
<1>17. Ready(r, lev, pre, M, g)
  BY <1>9, <1>10, <1>11, <1>13, <1>14, <1>15, <1>16 DEF Ready
<1> QED BY <1>3, <1>13, <1>17

LEMMA EnoughTables == NUM_OF_EPTBL \in Nat /\ Top \in Nat /\ Top >= 2 /\ NUM_OF_EPTBL >= Top
BY EptAssumption, Levels DEF Top

\* cur_fill forgets everything when the tables it needs are not left, and nothing
\* of the walk but the entry of the root.
LEMMA MakeRoom ==
  ASSUME NEW e, NEW lev, NEW pre, NEW M, NEW g \in Page, Ready(e, lev, pre, M, g),
         NEW level \in {0, 1}, level <= e.level
  PROVE  LET r == make_room(e, level)
         IN  /\ Ready(r, lev, pre, M, g)
             /\ level <= r.level /\ r.cnt + (r.level - level) <= NUM_OF_EPTBL
             /\ r = e \/ (r.cleared /\ r.cnt = 0 /\ pool_used_up(e, level))
<1> PICK r : r = make_room(e, level) OBVIOUS
<1>1. e \in Ept /\ Numbered(e, lev, pre) /\ e.gphys = g /\ e.level \in Level
  BY DEF Ready, Tree
<1>2. e.cnt \in Nat BY <1>1, Levels DEF Ept
<1>3. CASE ~ pool_used_up(e, level)
  <2>1. r = e BY <1>3 DEF make_room
  <2>2. r.cnt + (r.level - level) <= NUM_OF_EPTBL
    BY <1>1, <1>2, <1>3, <2>1, Levels DEF pool_used_up
  <2> QED BY <2>1, <2>2
<1>4. CASE pool_used_up(e, level)
  <2>1. r = forget(e, Top) BY <1>4 DEF make_room
  <2> PICK entry : entry = [l \in Level |-> IF l < Top THEN NoSlot ELSE e.entry[l]] OBVIOUS
  <2>2. r = [e EXCEPT !.tables = FirstTables, !.cleared = TRUE, !.cnt = 0,
                      !.level = Top, !.entry = entry]
    BY <2>1 DEF forget
  <2>3. /\ r.tables = FirstTables /\ r.cleared = TRUE /\ r.cnt = 0 /\ r.level = Top
        /\ r.gphys = g /\ r.entry = entry
    BY <1>1, <2>2 DEF Ept
  <2>4. RootSlot(g) \in Slots(e) /\ Stands(lev, pre, RootSlot(g), Top, g)
        /\ RootSlot(g) = <<0, Index(g, Top)>> /\ Index(g, Top) \in {0, 1}
    BY <1>1, RootStands, Levels, AboveIs DEF RootSlot
  <2>5. e.entry[Top] = RootSlot(g)
    <3>1. Top >= e.level BY <1>1, Levels
    <3>2. e.entry[Top] \in Slots(e) /\ Stands(lev, pre, e.entry[Top], Top, g)
      BY <1>1, <3>1, Levels DEF Ready, KeptOn
    <3> QED BY <1>1, <2>4, <3>2, OneSlot
  <2>6. entry[Top] = RootSlot(g) BY <2>5, Levels
  <2>7. FirstTables \in [Table -> [{0, 1} -> Entry]]
    BY DEF FirstTables, NoTable, OldTable, Entry
  <2>8. entry \in [Level -> Slot \cup {NoSlot}]
    BY <1>1 DEF Ept
  <2>9. r \in Ept
    <3>1. 0 \in 0 .. NUM_OF_EPTBL /\ Top \in 0 .. EPT_LEVELS BY Levels
    <3> QED BY <1>1, <2>2, <2>7, <2>8, <3>1 DEF Ept
  <2>10. ASSUME NEW s \in Slots(r) PROVE s[1] = 0 /\ Read(r, s) = NoEntry
    <3>1. s[1] = 0 /\ s[2] \in {0, 1} BY <2>3, <2>10 DEF Slots
    <3> QED BY <2>3, <3>1, Levels DEF Read, FirstTables, NoTable
  <2>11. Numbered(r, lev, pre)
    <3>1. \A s \in Slots(r) : Read(r, s).to # "table" BY <2>10 DEF NoEntry
    <3>2. r.cnt = 0 BY <2>3
    <3> QED BY <1>1, <3>1, <3>2 DEF Numbered
  <2>12. AllRight(r, lev, pre, M)
    BY <2>10 DEF AllRight, Right, NoEntry
  <2>13. RootSlot(g) \in Slots(r) BY <2>3, <2>4 DEF Slots
  <2>14. KeptOn(r, lev, pre)
    <3>1. \A l \in Level : l >= Top => l = Top BY Levels
    <3> QED BY <2>3, <2>4, <2>6, <2>13, <3>1 DEF KeptOn
  <2>15. Read(r, r.entry[r.level]).to # "table"
    BY <2>3, <2>6, <2>10, <2>13 DEF NoEntry
  <2>16. Ready(r, lev, pre, M, g)
    <3>1. Top \in Level BY Levels
    <3> QED BY <2>3, <2>4, <2>6, <2>9, <2>11, <2>12, <2>13, <2>14, <2>15, <3>1
          DEF Ready, Tree
  <2>17. r.cnt + (r.level - level) <= NUM_OF_EPTBL /\ level <= r.level
    <3>1. level \in Nat /\ level <= 1 OBVIOUS
    <3> QED BY <2>3, <3>1, EnoughTables
  <2> QED BY <1>4, <2>3, <2>16, <2>17
<1> QED BY <1>3, <1>4

\* cur_fill takes table e.cnt + k for level e.level - k.
TakenLev(e, lev, level) ==
  [t \in Table |-> IF t \in e.cnt + 1 .. e.cnt + (e.level - level)
                   THEN e.level - (t - e.cnt) ELSE lev[t]]
TakenPre(e, pre, level, g) ==
  [t \in Table |-> IF t \in e.cnt + 1 .. e.cnt + (e.level - level)
                   THEN Above(g, (e.level - (t - e.cnt)) + 1) ELSE pre[t]]

\* What is in the n tables taken, up to entry p of the last one.
TakenReads(r, c, b, n, p, g) ==
  \A k \in 1 .. n, i \in {0, 1} : <<c + k, i>> # p =>
    Read(r, <<c + k, i>>) = IF i = Index(g, b - k)
                            THEN [to |-> "table", at |-> c + (k + 1), write |-> TRUE]
                            ELSE NoEntry

LEMMA Store ==
  ASSUME NEW A, NEW B, NEW C, NEW T \in [A -> [B -> C]], NEW a \in A, NEW b \in B, NEW x \in C
  PROVE  [T EXCEPT ![a][b] = x] \in [A -> [B -> C]]
OBVIOUS

\* What is in the tables after cur_fill and the store of its caller.
Fills(e, g, level, x, p, r) ==
  LET n == e.level - level
      at == e.entry[e.level]
  IN  /\ n \in Nat /\ r \in Ept /\ r.cnt = e.cnt + n
      /\ r.cleared = e.cleared /\ r.level = e.level
      /\ r.gphys = e.gphys /\ r.entry = e.entry
      /\ p \in Slots(r) /\ Read(r, p) = x
      /\ n = 0 => p = at
      /\ n > 0 => /\ p = <<e.cnt + n, Index(g, level)>>
                  /\ Read(r, at) = [to |-> "table", at |-> e.cnt + 1, write |-> TRUE]
      /\ \A s \in Slots(e) : s # at => Read(r, s) = Read(e, s)
      /\ TakenReads(r, e.cnt, e.level, n, p, g)

\* What the provers do not find among larger facts.
LEMMA LessOrIs == \A k, n \in Int : k <= n /\ k # n => k < n
OBVIOUS

LEMMA FillReads ==
  ASSUME NEW e, NEW lev, NEW pre, NEW M, NEW g \in Page, Ready(e, lev, pre, M, g),
         NEW level \in {0, 1}, level <= e.level, e.cnt + (e.level - level) <= NUM_OF_EPTBL,
         NEW x \in Entry
  PROVE  Fills(e, g, level, x, filled(e, g, level), Put(fill(e, g, level), filled(e, g, level), x))
<1> PICK n, at, p, c : /\ n = e.level - level /\ at = e.entry[e.level]
                       /\ p = filled(e, g, level) /\ c = e.cnt
  OBVIOUS
<1> DEFINE Points(k) == [to |-> "table", at |-> c + k, write |-> TRUE]
<1>1. PICK f : f = fill(e, g, level) OBVIOUS
<1>2. PICK r : r = Put(f, p, x) OBVIOUS
<1>3. e \in Ept /\ e.level \in Level /\ at \in Slots(e)
  BY DEF Ready, Tree
<1>4. c \in Nat /\ n \in Nat /\ c + n <= NUM_OF_EPTBL
  <2>1. c \in Nat /\ e.level \in Nat BY <1>3, Levels DEF Ept
  <2>2. level \in Nat OBVIOUS
  <2> QED BY <2>1, <2>2
<1>5. \A k \in 0 .. n : c + k \in Table /\ e.level - k \in Level
  <2> SUFFICES ASSUME NEW k \in 0 .. n PROVE c + k \in Table /\ e.level - k \in Level
    OBVIOUS
  <2>1. /\ Table = 0 .. NUM_OF_EPTBL /\ NUM_OF_EPTBL \in Nat
        /\ Level = 0 .. Top /\ Top \in Nat
    BY Levels
  <2>2. k \in Nat /\ k <= n BY <1>4
  <2>3. c + k \in Nat /\ c + k <= NUM_OF_EPTBL BY <1>4, <2>1, <2>2
  <2>4. e.level \in Nat /\ e.level <= Top BY <1>3, <2>1
  <2>5. level \in Nat /\ n = e.level - level OBVIOUS
  <2>6. e.level - k \in Nat /\ e.level - k <= Top BY <2>1, <2>2, <2>4, <2>5
  <2> QED BY <2>1, <2>3, <2>6
<1>6. at[1] \in 0 .. c /\ at[2] \in {0, 1} /\ at = <<at[1], at[2]>>
  BY <1>3, SlotOf
<1> DEFINE New(t, i) ==
             IF t - c \in 1 .. n
             THEN IF t - c < n /\ i = Index(g, e.level - (t - c)) THEN Points(t - c + 1) ELSE NoEntry
             ELSE IF n > 0 /\ <<t, i>> = at THEN Points(1)
             ELSE e.tables[t][i]
<1> HIDE DEF New, Points
<1>7. PICK T : T = [t \in Table |-> [i \in {0, 1} |-> New(t, i)]] OBVIOUS
<1>8. f = [e EXCEPT !.cnt = c + n, !.tables = T]
  <2>1. \A t \in Table : e.tables[t] \in [{0, 1} -> Entry] BY <1>3 DEF Ept
  <2> QED BY <1>3, <1>7, <1>1 DEF fill, Ept, New, Points
<1>9. ASSUME NEW t \in Table, NEW i \in {0, 1} PROVE New(t, i) \in Entry
  <2>1. \A k \in 1 .. n : c + k \in Table \ {Root} BY <1>4, <1>5, Levels
  <2>2. \A k \in 1 .. n : Points(k) \in Entry BY <2>1 DEF Entry, Points
  <2>3. NoEntry \in Entry BY DEF Entry
  <2>4. e.tables[t][i] \in Entry BY <1>3 DEF Ept
  <2>5. t \in Nat BY Levels
  <2>6. t - c \in 1 .. n /\ t - c < n => t - c + 1 \in 1 .. n BY <1>4, <2>5
  <2>7. n > 0 => 1 \in 1 .. n BY <1>4
  <2> QED BY <2>2, <2>3, <2>4, <2>6, <2>7 DEF New
<1>10. T \in [Table -> [{0, 1} -> Entry]] BY <1>9, <1>7
<1>11. p = IF n = 0 THEN at ELSE <<c + n, Index(g, level)>>
  <2>1. e.level = level <=> n = 0 BY <1>3, Levels
  <2>2. n # 0 => c + e.level - level = c + n BY <1>3, <1>4, Levels
  <2> QED BY <2>1, <2>2 DEF filled
<1>12. p \in (0 .. c + n) \X {0, 1} /\ p = <<p[1], p[2]>> /\ p[1] \in Table /\ p[2] \in {0, 1}
  <2>1. Index(g, level) \in {0, 1} BY Levels, AboveIs
  <2>2. n = 0 => p[1] \in 0 .. c + n /\ p[2] \in {0, 1} /\ p = <<p[1], p[2]>>
    BY <1>4, <1>6, <1>11
  <2>3. n # 0 => p[1] \in 0 .. c + n /\ p[2] \in {0, 1} /\ p = <<p[1], p[2]>>
    BY <1>4, <1>11, <2>1
  <2> QED BY <1>4, <2>2, <2>3, Levels
<1>13. r = [e EXCEPT !.cnt = c + n, !.tables = [T EXCEPT ![p[1]][p[2]] = x]]
  <2>1. f.tables = T BY <1>3, <1>8 DEF Ept
  <2> QED BY <1>3, <1>8, <1>2, <2>1 DEF Put, Ept
<1>14. PICK U : U = [T EXCEPT ![p[1]][p[2]] = x] OBVIOUS
<1>15. U \in [Table -> [{0, 1} -> Entry]] BY <1>10, <1>12, <1>14, Store, Zenon
<1>16. /\ r.cnt = c + n /\ r.tables = U /\ r.cleared = e.cleared /\ r.level = e.level
       /\ r.gphys = e.gphys /\ r.entry = e.entry
  BY <1>3, <1>13, <1>14 DEF Ept
<1>17. r \in Ept
  <2>1. c + n \in 0 .. NUM_OF_EPTBL BY <1>4, Levels
  <2> QED BY <1>3, <1>13, <1>15, <1>14, <2>1 DEF Ept
<1>18. p \in Slots(r) BY <1>12, <1>16 DEF Slots
<1>19. Read(r, p) = x
  <2>1. U[p[1]][p[2]] = x BY <1>10, <1>12, <1>14
  <2> QED BY <1>16, <2>1 DEF Read
<1>20. ASSUME NEW t \in Table, NEW i \in {0, 1}, <<t, i>> # p
       PROVE  Read(r, <<t, i>>) = New(t, i)
  <2>1. U[t][i] = T[t][i] BY <1>10, <1>12, <1>20, <1>14
  <2>2. T[t][i] = New(t, i) BY <1>20, <1>7
  <2> QED BY <1>16, <2>1, <2>2 DEF Read
<1>21. ASSUME NEW s \in Slots(e), s # at PROVE Read(r, s) = Read(e, s)
  <2>1. s[1] \in 0 .. c /\ s[1] \in Table /\ s[2] \in {0, 1} /\ s = <<s[1], s[2]>>
    BY <1>3, <1>21, SlotOf
  <2>2. s # p
    <3>1. CASE n = 0 BY <1>11, <1>21, <3>1
    <3>2. CASE n # 0
      <4>1. p[1] = c + n BY <1>11, <3>2
      <4> QED BY <1>4, <2>1, <3>2, <4>1
    <3> QED BY <3>1, <3>2
  <2>3. Read(r, s) = New(s[1], s[2]) BY <1>20, <2>1, <2>2
  <2>4. ~ (s[1] - c \in 1 .. n) BY <1>4, <2>1
  <2>5. New(s[1], s[2]) = e.tables[s[1]][s[2]] BY <1>21, <2>1, <2>4 DEF New
  <2> QED BY <2>3, <2>5 DEF Read
<1>22. ASSUME n > 0 PROVE p = <<c + n, Index(g, level)>>
  <2>1. n # 0 BY <1>4, <1>22
  <2> QED BY <1>11, <2>1, Zenon
<1>23. ASSUME n > 0 PROVE Read(r, at) = Points(1)
  <2>1. at # p
    <3>1. p[1] = c + n BY <1>23, <1>22
    <3>2. at[1] <= c BY <1>4, <1>6
    <3> QED BY <1>4, <1>23, <3>1, <3>2
  <2>2. at[1] \in Table BY <1>3, SlotOf
  <2>3. Read(r, at) = New(at[1], at[2])
    <3> PICK t, i : t = at[1] /\ i = at[2] OBVIOUS
    <3>1. <<t, i>> = at /\ t \in Table /\ i \in {0, 1} BY <1>6, <2>2
    <3>2. Read(r, <<t, i>>) = New(t, i) BY <1>20, <2>1, <3>1
    <3> QED BY <3>1, <3>2
  <2>4. ~ (at[1] - c \in 1 .. n) BY <1>4, <1>6
  <2> QED BY <1>6, <1>23, <2>3, <2>4 DEF New, Points
<1>24. ASSUME NEW k \in 1 .. n, NEW i \in {0, 1}, <<c + k, i>> # p
       PROVE  Read(r, <<c + k, i>>) =
                IF i = Index(g, e.level - k) THEN Points(k + 1) ELSE NoEntry
  <2>1. c + k \in Table /\ (c + k) - c = k BY <1>4, <1>5
  <2>2. Read(r, <<c + k, i>>) = New(c + k, i) BY <1>20, <1>24, <2>1
  <2>3. ASSUME k = n PROVE i # Index(g, e.level - k)
    <3>1. n # 0 /\ e.level - k = level BY <1>3, <1>4, <2>3, Levels
    <3> QED BY <1>11, <1>24, <2>3, <3>1
  <2>4. k # n => k < n
    <3>1. k \in Int /\ n \in Int /\ k <= n BY <1>4, <1>24
    <3> QED BY <3>1, LessOrIs
  <2> QED BY <1>24, <2>1, <2>2, <2>3, <2>4 DEF New
<1>25. n = 0 => p = at BY <1>11
<1>26. TakenReads(r, c, e.level, n, p, g) BY <1>24 DEF TakenReads, Points
<1>27. Fills(e, g, level, x, p, r)
  <2>1. /\ n \in Nat /\ r \in Ept /\ r.cnt = c + n
        /\ r.cleared = e.cleared /\ r.level = e.level
        /\ r.gphys = e.gphys /\ r.entry = e.entry
        /\ p \in Slots(r) /\ Read(r, p) = x
    BY <1>4, <1>16, <1>17, <1>18, <1>19
  <2>2. n > 0 => /\ p = <<c + n, Index(g, level)>>
                 /\ Read(r, at) = [to |-> "table", at |-> c + 1, write |-> TRUE]
    BY <1>22, <1>23 DEF Points
  <2>3. \A s \in Slots(e) : s # at => Read(r, s) = Read(e, s) BY <1>21
  <2> QED BY <2>1, <2>2, <2>3, <1>25, <1>26, Zenon DEF Fills
<1> QED BY <1>27, <1>2, <1>1

\* And the tables are a tree again, with x where it belongs.
LEMMA FillTree ==
  ASSUME NEW e, NEW lev, NEW pre, NEW M, NEW g \in Page, Ready(e, lev, pre, M, g),
         NEW level \in {0, 1}, level <= e.level, e.cnt + (e.level - level) <= NUM_OF_EPTBL,
         NEW x \in Entry, x.to \in {"page", "large"}, Right(x, level, Above(g, level), M)
  PROVE  LET p == filled(e, g, level)
             r == Put(fill(e, g, level), p, x)
             lev2 == TakenLev(e, lev, level)
             pre2 == TakenPre(e, pre, level, g)
         IN  /\ Tree(r, lev2, pre2, M) /\ KeptOn(r, lev2, pre2)
             /\ p \in Slots(r) /\ Stands(lev2, pre2, p, level, g)
             /\ \A t \in 0 .. e.cnt : lev2[t] = lev[t] /\ pre2[t] = pre[t]
<1> DEFINE n == e.level - level
           b == e.level
           c == e.cnt
           at == e.entry[e.level]
           p == filled(e, g, level)
           r == Put(fill(e, g, level), p, x)
           lev2 == TakenLev(e, lev, level)
           pre2 == TakenPre(e, pre, level, g)
<1>0. Fills(e, g, level, x, p, r) BY FillReads
<1>1. /\ n \in Nat /\ r \in Ept /\ r.cnt = c + n
      /\ r.level = b /\ r.gphys = e.gphys /\ r.entry = e.entry
      /\ p \in Slots(r) /\ Read(r, p) = x
      /\ n = 0 => p = at
      /\ n > 0 => /\ p = <<c + n, Index(g, level)>>
                  /\ Read(r, at) = [to |-> "table", at |-> c + 1, write |-> TRUE]
  BY <1>0 DEF Fills
<1>2. \A s \in Slots(e) : s # at => Read(r, s) = Read(e, s)
  BY <1>0 DEF Fills
<1>3. TakenReads(r, c, b, n, p, g) BY <1>0 DEF Fills
<1>4. /\ c = e.cnt /\ e \in Ept /\ Numbered(e, lev, pre) /\ AllRight(e, lev, pre, M) /\ KeptOn(e, lev, pre)
      /\ b \in Level /\ at \in Slots(e) /\ Stands(lev, pre, at, b, g)
      /\ Read(e, at).to # "table" /\ e.gphys = g
  BY Zenon DEF Ready, Tree
<1>5. /\ c \in Nat /\ c + n \in Nat /\ c + n <= NUM_OF_EPTBL
      /\ b \in 0 .. Top /\ level = b - n /\ level \in Nat /\ n <= b
  <2>1. e \in Ept /\ e.level \in Level BY DEF Ready, Tree
  <2> QED BY <2>1, Levels DEF Ept
<1>6. \A t \in 0 .. c + n : t \in Table BY <1>5, Levels
<1>7. ASSUME NEW k \in 0 .. n PROVE b - k \in Level
  <2>1. k \in Nat /\ k <= n BY <1>1, <1>7
  <2>2. b - k \in 0 .. Top
    <3>1. Top \in Nat BY Levels
    <3> QED BY <1>5, <2>1, <3>1
  <2> QED BY <2>2, Levels
<1>8. ASSUME NEW k \in 1 .. n
      PROVE  lev2[c + k] = b - k /\ pre2[c + k] = Above(g, (b - k) + 1)
  <2>1. c + k \in Table /\ (c + k) - c = k /\ c + k \in c + 1 .. c + n
    BY <1>5, <1>6
  <2> QED BY <2>1 DEF TakenLev, TakenPre
<1>9. ASSUME NEW t \in 0 .. c PROVE lev2[t] = lev[t] /\ pre2[t] = pre[t] /\ t \in Table
  <2>1. t \in Table /\ t \notin c + 1 .. c + n BY <1>1, <1>5, <1>6
  <2> QED BY <2>1 DEF TakenLev, TakenPre
<1> HIDE DEF n, b, c, at, p, r
<1>10. ASSUME NEW t \in 0 .. c + n
       PROVE  t \in 0 .. c \/ \E k \in 1 .. n : t = c + k
  <2>1. CASE t <= c BY <1>5, <2>1
  <2>2. CASE t > c
    <3>1. t - c \in 1 .. n /\ t = c + (t - c) BY <1>1, <1>5, <2>2
    <3> QED BY <3>1
  <2> QED BY <1>5, <2>1, <2>2
<1>11. ASSUME NEW s \in Slots(r)
       PROVE  \/ s \in Slots(e)
              \/ \E k \in 1 .. n, i \in {0, 1} : s = <<c + k, i>>
  <2>1. s[1] \in 0 .. c + n /\ s[2] \in {0, 1} /\ s = <<s[1], s[2]>> BY <1>1, SlotOf
  <2> QED BY <1>4, <1>10, <2>1 DEF Slots
<1>12. ASSUME NEW s \in Slots(e)
       PROVE  s \in Slots(r) /\ lev2[s[1]] = lev[s[1]] /\ pre2[s[1]] = pre[s[1]]
  <2>1. s[1] \in 0 .. c /\ s[2] \in {0, 1} /\ s = <<s[1], s[2]>> BY <1>4, SlotOf
  <2>2. s[1] \in 0 .. c + n BY <1>1, <1>5, <2>1
  <2> QED BY <1>1, <1>9, <2>1, <2>2 DEF Slots
<1>13. lev2 \in [Table -> Level] /\ pre2 \in [Table -> Nat]
  <2>1. lev \in [Table -> Level] /\ pre \in [Table -> Nat] BY <1>4 DEF Numbered
  <2>2. ASSUME NEW t \in Table, t \in c + 1 .. c + n
        PROVE  b - (t - c) \in Level /\ Above(g, (b - (t - c)) + 1) \in Nat
    <3>1. t - c \in 0 .. n
      <4>1. t \in Nat BY <2>2, Levels
      <4> QED BY <1>1, <1>5, <2>2, <4>1
    <3> QED BY <1>7, <3>1, AboveIs
  <2> QED BY <2>1, <2>2 DEF TakenLev, TakenPre, b, c, n
<1> HIDE DEF lev2, pre2
<1>14. lev2[Root] = Top /\ pre2[Root] = 0
  <2>1. Root \in 0 .. c BY <1>5, Levels
  <2> QED BY <1>4, <1>9, <2>1 DEF Numbered
\* A table for the same pages as a new one would be under the last entry.
<1>15. ASSUME NEW t \in 0 .. c, NEW k \in 1 .. n,
              lev[t] = b - k, pre[t] = Above(g, (b - k) + 1)
       PROVE  FALSE
  <2>1. lev[t] < b BY <1>5, <1>15
  <2>2. PICK q \in Slots(e) : Stands(lev, pre, q, b, g) /\ Read(e, q).to = "table"
    BY <1>4, <1>15, <2>1, Ancestor
  <2>3. q = at BY <1>4, <2>2, OneSlot
  <2> QED BY <1>4, <2>2, <2>3
<1>16. ASSUME NEW t \in 0 .. c + n, NEW u \in 0 .. c + n,
              lev2[t] = lev2[u], pre2[t] = pre2[u]
       PROVE  t = u
  <2>1. CASE t \in 0 .. c /\ u \in 0 .. c
    <3>1. lev[t] = lev[u] /\ pre[t] = pre[u] BY <1>9, <1>16, <2>1
    <3> QED BY <1>4, <2>1, <3>1 DEF Numbered
  <2>2. CASE t \in 0 .. c /\ u \notin 0 .. c
    <3>1. PICK k \in 1 .. n : u = c + k BY <1>10, <2>2
    <3> QED BY <1>8, <1>9, <1>15, <1>16, <2>2, <3>1
  <2>3. CASE t \notin 0 .. c /\ u \in 0 .. c
    <3>1. PICK k \in 1 .. n : t = c + k BY <1>10, <2>3
    <3> QED BY <1>8, <1>9, <1>15, <1>16, <2>3, <3>1
  <2>4. CASE t \notin 0 .. c /\ u \notin 0 .. c
    <3>1. PICK k \in 1 .. n : t = c + k BY <1>10, <2>4
    <3>2. PICK j \in 1 .. n : u = c + j BY <1>10, <2>4
    <3>3. b - k = b - j BY <1>8, <1>16, <3>1, <3>2
    <3> QED BY <1>5, <3>1, <3>2, <3>3
  <2> QED BY <2>1, <2>2, <2>3, <2>4
\* The entry that leads to new table k, for k from 1 on.
<1>17. ASSUME NEW k \in 1 .. n, NEW s, lev2[s[1]] = b - k + 1,
              pre2[s[1]] = Above(g, (b - k + 1) + 1), s[2] = Index(g, b - k + 1)
       PROVE  /\ c + k \in 1 .. c + n /\ lev2[s[1]] = lev2[c + k] + 1
              /\ pre2[c + k] = 2 * pre2[s[1]] + s[2]
  <2>1. b - k + 1 = b - (k - 1) /\ k - 1 \in 0 .. n BY <1>1, <1>5
  <2>2. b - k + 1 \in Level BY <1>7, <2>1
  <2>3. Above(g, b - k + 1) = 2 * Above(g, (b - k + 1) + 1) + Index(g, b - k + 1)
    BY <2>2, AboveIs
  <2>4. lev2[c + k] = b - k /\ pre2[c + k] = Above(g, b - k + 1) BY <1>8
  <2> QED BY <1>1, <1>5, <1>17, <2>3, <2>4
<1>18. ASSUME n > 0
       PROVE  /\ 1 \in 1 .. n /\ lev2[at[1]] = b - 1 + 1
              /\ pre2[at[1]] = Above(g, (b - 1 + 1) + 1) /\ at[2] = Index(g, b - 1 + 1)
  <2>1. b - 1 + 1 = b /\ 1 \in 1 .. n BY <1>1, <1>5, <1>18
  <2> QED BY <1>4, <1>12, <2>1 DEF Stands
<1>19. ASSUME NEW s \in Slots(r), Read(r, s).to = "table"
       PROVE  LET a == Read(r, s).at
              IN a \in 1 .. c + n /\ lev2[s[1]] = lev2[a] + 1 /\ pre2[a] = 2 * pre2[s[1]] + s[2]
  <2>1. CASE s \in Slots(e) /\ s # at
    <3>1. Read(r, s) = Read(e, s) BY <1>2, <2>1
    <3> PICK a : a = Read(e, s).at OBVIOUS
    <3>2. a \in 1 .. c /\ lev[s[1]] = lev[a] + 1 /\ pre[a] = 2 * pre[s[1]] + s[2]
      BY <1>4, <1>19, <2>1, <3>1 DEF Numbered
    <3>3. a \in 0 .. c /\ a \in 1 .. c + n BY <1>1, <1>5, <3>2
    <3> QED BY <1>9, <1>12, <2>1, <3>1, <3>2, <3>3
  <2>2. CASE s = at
    <3>1. n > 0
      <4>1. ASSUME n = 0 PROVE FALSE BY <1>1, <1>19, <2>2, <4>1
      <4> QED BY <1>1, <4>1
    <3>2. Read(r, s).at = c + 1 BY <1>1, <2>2, <3>1
    <3> QED BY <1>17, <1>18, <2>2, <3>1, <3>2
  <2>3. CASE s \notin Slots(e)
    <3>1. PICK k \in 1 .. n, i \in {0, 1} : s = <<c + k, i>> BY <1>11, <2>3
    <3>2. s # p BY <1>1, <1>19
    <3>3. i = Index(g, b - k) /\ Read(r, s).at = c + (k + 1)
      <4>1. Read(r, s) = IF i = Index(g, b - k)
                         THEN [to |-> "table", at |-> c + (k + 1), write |-> TRUE]
                         ELSE NoEntry
        BY <1>3, <3>1, <3>2, Zenon DEF TakenReads
      <4>2. i = Index(g, b - k) BY <1>19, <4>1 DEF NoEntry
      <4> QED BY <4>1, <4>2
    <3>4. k # n
      <4>1. ASSUME k = n PROVE FALSE
        <5>1. n > 0 /\ b - k = level BY <1>1, <1>5, <4>1
        <5> QED BY <1>1, <3>1, <3>2, <3>3, <4>1, <5>1
      <4> QED BY <4>1
    <3>5. k + 1 \in 1 .. n /\ b - (k + 1) + 1 = b - k BY <1>1, <1>5, <3>4
    <3>6. lev2[s[1]] = b - k /\ pre2[s[1]] = Above(g, (b - k) + 1) /\ s[2] = Index(g, b - k)
      BY <1>8, <3>1, <3>3
    <3> QED BY <1>17, <3>3, <3>5, <3>6
  <2> QED BY <2>1, <2>2, <2>3
<1>20. ASSUME NEW a \in 1 .. c + n
       PROVE  \E s \in Slots(r) : Read(r, s).to = "table" /\ Read(r, s).at = a
  <2>1. CASE a \in 1 .. c
    <3>1. PICK s \in Slots(e) : Read(e, s).to = "table" /\ Read(e, s).at = a
      BY <1>4, <2>1 DEF Numbered
    <3>2. s # at BY <1>4, <3>1
    <3> QED BY <1>2, <1>12, <3>1, <3>2
  <2>2. CASE a = c + 1
    <3>1. n > 0 BY <1>1, <1>5, <2>2
    <3> QED BY <1>1, <1>4, <1>12, <2>2, <3>1
  <2>3. CASE a > c + 1
    <3> PICK k : k = a - c - 1 OBVIOUS
    <3>1. k \in 1 .. n /\ k # n /\ c + (k + 1) = a /\ n > 0 BY <1>1, <1>5, <2>3
    <3> PICK s : s = <<c + k, Index(g, b - k)>> OBVIOUS
    <3>2. Index(g, b - k) \in {0, 1} BY <1>7, <3>1, AboveIs
    <3>3. s \in Slots(r)
      <4>1. c + k \in 0 .. c + n BY <1>1, <1>5, <3>1
      <4> QED BY <1>1, <3>2, <4>1 DEF Slots
    <3>4. s # p
      <4>1. c + k # c + n BY <1>1, <1>5, <3>1
      <4> QED BY <1>1, <3>1, <4>1
    <3>5. Read(r, s) = [to |-> "table", at |-> c + (k + 1), write |-> TRUE]
      BY <1>3, <3>1, <3>2, <3>4, Zenon DEF TakenReads
    <3> QED BY <3>1, <3>3, <3>5
  <2> QED BY <1>1, <1>5, <2>1, <2>2, <2>3
<1>21. Numbered(r, lev2, pre2)
  BY <1>1, <1>13, <1>14, <1>16, <1>19, <1>20 DEF Numbered
<1>22. Stands(lev2, pre2, p, level, g)
  <2>1. CASE n = 0
    <3>1. p = at /\ level = b BY <1>1, <1>5, <2>1
    <3> QED BY <1>4, <1>12, <3>1 DEF Stands
  <2>2. CASE n # 0
    <3>1. n > 0 /\ n \in 1 .. n /\ b - n = level BY <1>1, <1>5, <2>2
    <3> QED BY <1>1, <1>8, <3>1 DEF Stands
  <2> QED BY <2>1, <2>2
<1>23. AllRight(r, lev2, pre2, M)
  <2> SUFFICES ASSUME NEW s \in Slots(r)
               PROVE  Right(Read(r, s), lev2[s[1]], 2 * pre2[s[1]] + s[2], M)
    BY DEF AllRight
  <2>1. CASE s = p
    <3>1. Above(g, level) = 2 * Above(g, level + 1) + Index(g, level) BY AboveIs, Levels
    <3>2. lev2[s[1]] = level /\ 2 * pre2[s[1]] + s[2] = Above(g, level)
      BY <1>22, <2>1, <3>1 DEF Stands
    <3> QED BY <1>1, <2>1, <3>2
  <2>2. CASE s # p /\ s \in Slots(e) /\ s # at
    <3>1. Right(Read(e, s), lev[s[1]], 2 * pre[s[1]] + s[2], M)
      BY <1>4, <2>2 DEF AllRight
    <3> QED BY <1>2, <1>12, <2>2, <3>1
  <2>3. CASE s # p /\ s = at
    <3>1. n > 0 BY <1>1, <2>3
    <3> QED BY <1>1, <2>3, <3>1 DEF Right
  <2>4. CASE s # p /\ s \notin Slots(e)
    <3>1. PICK k \in 1 .. n, i \in {0, 1} : s = <<c + k, i>> BY <1>11, <2>4
    <3>2. Read(r, s) = IF i = Index(g, b - k)
                       THEN [to |-> "table", at |-> c + (k + 1), write |-> TRUE]
                       ELSE NoEntry
      BY <1>3, <2>4, <3>1, Zenon DEF TakenReads
    <3> QED BY <3>2 DEF Right, NoEntry
  <2> QED BY <2>1, <2>2, <2>3, <2>4
<1>24. KeptOn(r, lev2, pre2)
  <2> SUFFICES ASSUME NEW l \in Level, l >= b
               PROVE  e.entry[l] \in Slots(r) /\ Stands(lev2, pre2, e.entry[l], l, g)
    BY <1>1, <1>4 DEF KeptOn
  <2>1. e.entry[l] \in Slots(e) /\ Stands(lev, pre, e.entry[l], l, g) BY <1>4 DEF KeptOn, b
  <2> QED BY <1>12, <2>1 DEF Stands
<1>25. Tree(r, lev2, pre2, M) BY <1>1, <1>21, <1>23 DEF Tree
<1> QED BY <1>1, <1>9, <1>22, <1>24, <1>25 DEF c, p, r, lev2, pre2

-----------------------------------------------------------------------------
\* An entry for page g that leads no further is what a walk for g finds.
LEMMA ReadyFound ==
  ASSUME NEW e, NEW lev, NEW pre, NEW M, NEW g \in Page, Ready(e, lev, pre, M, g)
  PROVE  Found(e, g) = Read(e, e.entry[e.level])
<1>1. /\ e \in Ept /\ Numbered(e, lev, pre) /\ e.entry[e.level] \in Slots(e)
      /\ Stands(lev, pre, e.entry[e.level], e.level, g)
      /\ Read(e, e.entry[e.level]).to # "table"
  BY DEF Ready, Tree
<1>2. Stands(lev, pre, e.entry[e.level], lev[e.entry[e.level][1]], g) BY <1>1 DEF Stands
<1> QED BY <1>1, <1>2, FoundWhere

\* A large page stays in the tables as long as nothing smaller is put under it.
Splits(e, level, g, h) ==
  level = 0 /\ Found(e, g).to = "large" /\ LargeOf(h) = LargeOf(g)

\* The tables taken for page g: the one of pages, if any, is that of its large page.
LEMMA TakenLean ==
  ASSUME NEW e, NEW lev, NEW pre, NEW M, NEW g \in Page, Ready(e, lev, pre, M, g),
         NEW level \in {0, 1}, level <= e.level, e.cnt + (e.level - level) <= NUM_OF_EPTBL,
         NEW X, e.cnt = 0 \/ Lean(e, lev, pre, X), level = 0 => LargeOf(g) \in X,
         NEW r, r.cnt = e.cnt + (e.level - level)
  PROVE  Lean(r, TakenLev(e, lev, level), TakenPre(e, pre, level, g), X)
<1>1. e.cnt \in Nat /\ e.level \in 0 .. Top /\ Top \in Nat /\ Table = 0 .. NUM_OF_EPTBL
      /\ NUM_OF_EPTBL \in Nat
  BY Levels DEF Ready, Tree, Ept
<1> PICK c : c = e.cnt OBVIOUS
<1> PICK b : b = e.level OBVIOUS
<1> PICK n : n = b - level OBVIOUS
<1>2. c \in Nat /\ b \in Nat /\ n \in Nat /\ c + n <= NUM_OF_EPTBL /\ r.cnt = c + n BY <1>1
<1> SUFFICES ASSUME NEW t \in 1 .. c + n, TakenLev(e, lev, level)[t] = 0
             PROVE  TakenPre(e, pre, level, g)[t] \in X
  BY <1>2 DEF Lean
<1>3. t \in Table /\ t \in Nat
  <2>1. c + n \in Nat BY <1>2
  <2>2. t \in Nat /\ t <= c + n BY <2>1
  <2>3. t <= NUM_OF_EPTBL BY <1>1, <1>2, <2>1, <2>2
  <2> QED BY <1>1, <2>2, <2>3
<1>4. CASE t \in 1 .. c
  <2>1. t \notin c + 1 .. c + n BY <1>2, <1>4
  <2>2. TakenLev(e, lev, level)[t] = lev[t] /\ TakenPre(e, pre, level, g)[t] = pre[t]
    BY <1>3, <2>1 DEF TakenLev, TakenPre
  <2>3. c # 0 BY <1>2, <1>4
  <2> QED BY <1>4, <2>2, <2>3 DEF Lean
<1>5. CASE t \notin 1 .. c
  <2>1. t \in c + 1 .. c + n BY <1>2, <1>3, <1>5
  <2>2. /\ TakenLev(e, lev, level)[t] = b - (t - c)
        /\ TakenPre(e, pre, level, g)[t] = Above(g, (b - (t - c)) + 1)
    BY <1>3, <2>1 DEF TakenLev, TakenPre
  <2>3. b - (t - c) = 0 /\ level = 0 BY <1>2, <1>3, <2>1, <2>2
  <2>4. TakenPre(e, pre, level, g)[t] = Above(g, 0 + 1) BY <2>2, <2>3
  <2>5. Above(g, 1) = LargeOf(g) BY AboveEnds
  <2> QED BY <2>3, <2>4, <2>5
<1> QED BY <1>4, <1>5

\* cur_fill and its caller's store: the page is mapped, the tables are right, and if
\* they were not forgotten what was mapped before still is.
MapsEntry(e, r, M, X, g, level, x) ==
  /\ Good(r, M, X)
  /\ ~ pool_used_up(e, level) => r.cleared = e.cleared
  /\ pool_used_up(e, level) => Good(r, M, IF level = 0 THEN {LargeOf(g)} ELSE {})
  /\ \A h \in Page : Above(h, level) = Above(g, level) => Found(r, h) = x
  /\ e.cleared => r.cleared
  /\ ~ r.cleared => \A h \in Page : Mapped(e, h) =>
                       Mapped(r, h) \/ Splits(e, level, g, h)

LEMMA MapEntry ==
  ASSUME NEW e, NEW lev, NEW pre, NEW M, NEW X, NEW g \in Page,
         Ready(e, lev, pre, M, g), Lean(e, lev, pre, X),
         NEW level \in {0, 1}, level <= e.level, level = 0 => LargeOf(g) \in X,
         NEW x \in Entry, x.to \in {"page", "large"}, Right(x, level, Above(g, level), M)
  PROVE  MapsEntry(e, map_entry(e, g, level, x), M, X, g, level, x)
<1> DEFINE o == make_room(e, level)
           p == filled(o, g, level)
           r == Put(fill(o, g, level), p, x)
           lev2 == TakenLev(o, lev, level)
           pre2 == TakenPre(o, pre, level, g)
<1>1. /\ Ready(o, lev, pre, M, g)
      /\ level <= o.level /\ o.cnt + (o.level - level) <= NUM_OF_EPTBL
      /\ o = e \/ (o.cleared /\ o.cnt = 0 /\ pool_used_up(e, level))
  BY MakeRoom
<1>2. r = map_entry(e, g, level, x) BY DEF map_entry
<1>3. pool_used_up(e, level) => o.cnt = 0 /\ o.cleared
  BY DEF make_room, forget
<1> HIDE DEF o
<1>4. /\ Tree(r, lev2, pre2, M) /\ KeptOn(r, lev2, pre2)
      /\ p \in Slots(r) /\ Stands(lev2, pre2, p, level, g)
      /\ \A t \in 0 .. o.cnt : lev2[t] = lev[t] /\ pre2[t] = pre[t]
  BY <1>1, FillTree
<1>5. Fills(o, g, level, x, p, r) BY <1>1, FillReads
<1>6. /\ o.level - level \in Nat /\ r.cleared = o.cleared /\ Read(r, p) = x
      /\ r.cnt = o.cnt + (o.level - level)
  BY <1>5 DEF Fills
<1>7. \A s \in Slots(o) : s # o.entry[o.level] => Read(r, s) = Read(o, s)
  BY <1>5 DEF Fills
<1>8. ASSUME NEW Y, o.cnt = 0 \/ Y = X, level = 0 => LargeOf(g) \in Y
       PROVE  Good(r, M, Y)
  <2>1. o.cnt = 0 \/ Lean(o, lev, pre, Y) BY <1>1, <1>8
  <2>2. Lean(r, lev2, pre2, Y) BY <1>1, <1>6, <1>8, <2>1, TakenLean
  <2> HIDE DEF p, r, lev2, pre2
  <2> QED BY <1>4, <2>2 DEF Good
<1>9. r \in Ept /\ Numbered(r, lev2, pre2) BY <1>4 DEF Tree
<1> HIDE DEF p, r, lev2, pre2
<1>10. Good(r, M, X) BY <1>8
<1>11. pool_used_up(e, level) => Good(r, M, IF level = 0 THEN {LargeOf(g)} ELSE {}) BY <1>3, <1>8
<1>12. ASSUME NEW h \in Page, Above(h, level) = Above(g, level) PROVE Found(r, h) = x
  <2>1. level \in Level BY Levels
  <2>2. Above(h, level + 1) = Above(g, level + 1) /\ Index(h, level) = Index(g, level)
    BY <1>12, <2>1, SameAbove, Levels
  <2>3. Stands(lev2, pre2, p, lev2[p[1]], h) BY <1>4, <2>2 DEF Stands
  <2> QED BY <1>4, <1>6, <1>9, <2>3, FoundWhere
<1>13. ASSUME ~ r.cleared, NEW h \in Page, Mapped(e, h)
      PROVE  Mapped(r, h) \/ Splits(e, level, g, h)
  <2>1. o = e BY <1>1, <1>6, <1>13
  <2>2. e \in Ept /\ Numbered(e, lev, pre) /\ AllRight(e, lev, pre, M) /\ e.level \in Level
    BY DEF Ready, Tree
  <2>3. PICK s \in Slots(e) : /\ Stands(lev, pre, s, lev[s[1]], h)
                              /\ Read(e, s).to # "table" /\ Found(e, h) = Read(e, s)
    BY <2>2, FoundIs
  <2>4. s[1] \in 0 .. e.cnt /\ s[2] \in {0, 1} /\ s = <<s[1], s[2]>> BY <2>2, SlotOf
  <2>5. CASE s # e.entry[e.level]
    <3>1. Read(r, s) = Read(e, s) BY <1>7, <2>1, <2>5
    <3>2. s \in Slots(r)
      <4>1. e.cnt \in Nat /\ r.cnt >= e.cnt BY <1>6, <2>1, <2>2, Levels DEF Ept
      <4>2. r.cnt \in Nat BY <1>9, Levels DEF Ept
      <4>3. s[1] \in 0 .. r.cnt BY <2>4, <4>1, <4>2
      <4> QED BY <2>4, <4>3 DEF Slots
    <3>3. Stands(lev2, pre2, s, lev2[s[1]], h) BY <1>4, <2>1, <2>3, <2>4 DEF Stands
    <3>4. Found(r, h) = Read(e, s) BY <1>9, <2>3, <3>1, <3>2, <3>3, FoundWhere
    <3> QED BY <1>13, <2>3, <3>4 DEF Mapped
  <2>6. CASE s = e.entry[e.level]
    <3>1. Stands(lev, pre, s, e.level, g) BY <2>6 DEF Ready
    <3>2. lev[s[1]] = e.level BY <3>1 DEF Stands
    <3>3. Above(h, e.level + 1) = Above(g, e.level + 1) /\ Index(h, e.level) = Index(g, e.level)
      BY <2>3, <3>1, <3>2 DEF Stands
    <3>4. Above(h, e.level) = Above(g, e.level) BY <2>2, <3>3, AboveIs
    <3>5. Right(Read(e, s), e.level, 2 * pre[s[1]] + s[2], M) BY <2>2, <3>2 DEF AllRight
    <3>6. Read(e, s).to \in {"page", "large"} BY <1>13, <2>3 DEF Mapped
    <3>7. Found(e, g) = Read(e, s) BY <2>6, ReadyFound
    <3>8. CASE e.level = level
      <4>1. Found(r, h) = x BY <1>12, <3>4, <3>8
      <4> QED BY <4>1 DEF Mapped
    <3>9. CASE e.level # level
      <4>1. e.level # 0 BY <2>2, <3>9, Levels
      <4>2. Read(e, s).to = "large" /\ e.level = 1 BY <3>5, <3>6, <4>1 DEF Right
      <4>3. level = 0 BY <3>9, <4>2
      <4>4. LargeOf(h) = LargeOf(g) BY <3>4, <4>2, AboveEnds
      <4> QED BY <3>7, <4>2, <4>3, <4>4 DEF Splits
    <3> QED BY <3>8, <3>9
  <2> QED BY <2>5, <2>6
<1>14. e.cleared => r.cleared BY <1>1, <1>6
<1>15. ~ pool_used_up(e, level) => r.cleared = e.cleared BY <1>1, <1>6
<1> QED BY <1>2, <1>10, <1>12, <1>13, <1>14, <1>11, <1>15 DEF MapsEntry

\* The entries the code makes for page g are right.
LEMMA PageIsRight ==
  ASSUME NEW g \in Page, NEW M, g \notin M
  PROVE  /\ PageEntry(g) \in Entry /\ PageEntry(g).to = "page"
         /\ Right(PageEntry(g), 0, Above(g, 0), M)
<1>1. Above(g, 0) = g BY AboveEnds
<1>2. PageEntry(g) \in Entry BY DEF PageEntry, Entry
<1>3. PageEntry(g).to = "page" BY DEF PageEntry
<1> QED BY <1>1, <1>2, <1>3 DEF Right

LEMMA LargePageIs ==
  ASSUME NEW g \in Page
  PROVE  /\ LargeOf(g) \in Nat /\ g \in LargePage(g) /\ LargePage(g) \subseteq Page
         /\ LargePage(g) = {2 * LargeOf(g), 2 * LargeOf(g) + 1}
         /\ \A h \in LargePage(g) : LargeOf(h) = LargeOf(g)
         /\ \A h \in Page : LargeOf(h) = LargeOf(g) => h \in LargePage(g)
         /\ \A h \in LargePage(g) : h \in Vmm <=> g \in Vmm
<1>1. 2 ^ EPT_LEVELS = 2 * 2 ^ Top /\ 2 ^ Top \in Nat BY Levels, EptAssumption
<1>2. g \in Nat /\ g < 2 * 2 ^ Top BY <1>1, Levels DEF Page
<1>3. PICK N : N = 2 ^ Top OBVIOUS
<1>4. PICK q : q = LargeOf(g) OBVIOUS
<1>5. q \in Nat /\ (g = 2 * q \/ g = 2 * q + 1) BY <1>2, <1>4 DEF LargeOf
<1>6. 2 * q + 1 < 2 * N /\ N \in Nat BY <1>1, <1>2, <1>3, <1>5
<1>7. 2 * q \in Page /\ 2 * q + 1 \in Page BY <1>1, <1>3, <1>5, <1>6 DEF Page
<1>8. LargePage(g) = {2 * q, 2 * q + 1} BY <1>4 DEF LargePage
<1>9. \A h \in LargePage(g) : LargeOf(h) = q BY <1>5, <1>8 DEF LargeOf
<1>10. ASSUME NEW h \in Page, LargeOf(h) = q PROVE h \in {2 * q, 2 * q + 1}
  <2>1. h \in Nat BY Levels DEF Page
  <2> QED BY <1>5, <1>10, <2>1 DEF LargeOf
<1>11. ASSUME NEW h \in LargePage(g), h \in Vmm PROVE g \in Vmm
  <2>1. LargePage(h) \subseteq Vmm BY <1>11, EptAssumption
  <2>2. LargePage(h) = LargePage(g) BY <1>4, <1>9 DEF LargePage
  <2> QED BY <1>5, <1>8, <2>1, <2>2
<1>12. g \in Vmm => LargePage(g) \subseteq Vmm BY EptAssumption
<1> QED BY <1>4, <1>5, <1>7, <1>8, <1>9, <1>10, <1>11, <1>12

LEMMA LargeIsRight ==
  ASSUME NEW g \in Page, NEW M, LargePage(g) \cap M = {}, g \notin Vmm, LargeOf(g) \notin Uneven
  PROVE  /\ LargeEntry(g) \in Entry /\ LargeEntry(g).to = "large"
         /\ Right(LargeEntry(g), 1, Above(g, 1), M)
<1>1. Above(g, 1) = LargeOf(g) BY AboveEnds
<1>2. /\ 2 * LargeOf(g) \in LargePage(g) /\ 2 * LargeOf(g) + 1 \in LargePage(g)
      /\ 2 * LargeOf(g) \in Page
  BY LargePageIs
<1>3. 2 * LargeOf(g) \notin Vmm /\ 2 * LargeOf(g) + 1 \notin Vmm BY <1>2, LargePageIs
<1>4. LargeEntry(g) \in Entry BY <1>2 DEF LargeEntry, Entry
<1> QED BY <1>1, <1>2, <1>3, <1>4 DEF LargeEntry, Right

-----------------------------------------------------------------------------
\* How many tables there can be.
LEMMA Powers ==
  /\ \A l \in Level : 2 ^ (Top - l) \in Nat \ {0} /\ 2 ^ (Top - l) <= 2 ^ EPT_LEVELS
  /\ \A l \in Level : l # Top => 2 ^ (Top - l) = 2 * 2 ^ (Top - (l + 1))
<1>1. ASSUME NEW l \in Level PROVE Top - l \in Level BY Levels
<1>2. ASSUME NEW l \in Level PROVE 2 ^ l \in Nat \ {0} /\ 2 ^ (l + 1) = 2 * 2 ^ l
  BY EptAssumption
<1>3. ASSUME NEW l \in Level, l # Top PROVE 2 ^ (Top - l) = 2 * 2 ^ (Top - (l + 1))
  <2>1. l + 1 \in Level /\ Top - l = (Top - (l + 1)) + 1 BY <1>3, Levels
  <2> QED BY <1>1, <1>2, <2>1
<1> DEFINE T == {l \in 0 .. Top : 2 ^ l <= 2 ^ EPT_LEVELS}
<1>4. Top \in T
  <2>1. 2 ^ (Top + 1) = 2 * 2 ^ Top /\ 2 ^ Top \in Nat \ {0} BY <1>2, Levels
  <2> PICK P, Q : P = 2 ^ Top /\ Q = 2 ^ EPT_LEVELS OBVIOUS
  <2>2. Q = 2 * P /\ P \in Nat BY <2>1, Levels
  <2>3. P <= Q BY <2>2
  <2> QED BY <2>3, Levels
<1>5. ASSUME NEW l \in 0 .. Top - 1, l + 1 \in T PROVE l \in T
  <2>1. l \in Level /\ l + 1 \in Level /\ l \in 0 .. Top BY Levels
  <2> PICK P, Q : P = 2 ^ l /\ Q = 2 ^ EPT_LEVELS OBVIOUS
  <2>2. 2 * P <= Q /\ P \in Nat BY <1>2, <1>5, <2>1
  <2>3. Q \in Nat BY Levels
  <2>4. P <= Q BY <2>2, <2>3
  <2> QED BY <2>1, <2>4
<1>6. \A l \in 0 .. Top : l \in T
  <2> HIDE DEF T
  <2> QED BY <1>4, <1>5, Downward, Levels
<1>7. ASSUME NEW l \in Level PROVE 2 ^ (Top - l) <= 2 ^ EPT_LEVELS
  BY <1>1, <1>6, Levels
<1> QED BY <1>1, <1>2, <1>3, <1>7

\* Something that is true for the root and goes down a level is true for all levels.
LEMMA DownLevels ==
  ASSUME NEW T, Top \in T, \A l \in Level : l # Top /\ l + 1 \in T => l \in T
  PROVE  \A l \in Level : l \in T
<1>1. \A l \in 0 .. Top - 1 : l + 1 \in T => l \in T BY Levels
<1> QED BY <1>1, Downward, Levels

LEMMA Places ==
  /\ \A g \in Page, l \in Level : Above(g, l + 1) < 2 ^ (Top - l)
  /\ \A e \in Ept : \A lev, pre : Numbered(e, lev, pre) =>
       \A t \in 0 .. e.cnt : pre[t] < 2 ^ (Top - lev[t])
<1>1. ASSUME NEW g \in Page, NEW l \in Level PROVE Above(g, l + 1) < 2 ^ (Top - l)
  <2> DEFINE T == {k \in Level : Above(g, k + 1) < 2 ^ (Top - k)}
  <2>1. Top \in T
    <3>1. Above(g, Top + 1) = 0 /\ Top - Top = 0 /\ 2 ^ 0 = 1 BY AboveEnds, Levels
    <3> QED BY <3>1, Levels
  <2>2. ASSUME NEW k \in Level, k # Top, k + 1 \in T PROVE k \in T
    <3>1. k + 1 \in Level BY <2>2, Levels
    <3> PICK a, q, i, P : a = Above(g, k + 1) /\ q = Above(g, (k + 1) + 1)
                          /\ i = Index(g, k + 1) /\ P = 2 ^ (Top - (k + 1))
      OBVIOUS
    <3>2. q < P BY <2>2
    <3>3. a = 2 * q + i /\ q \in Nat /\ i \in {0, 1} BY <3>1, AboveIs
    <3>4. P \in Nat /\ 2 ^ (Top - k) = 2 * P BY <2>2, <3>1, Powers
    <3>5. a < 2 * P BY <3>2, <3>3, <3>4
    <3> QED BY <3>4, <3>5
  <2> HIDE DEF T
  <2>3. l \in T BY <2>1, <2>2, DownLevels
  <2> QED BY <2>3 DEF T
<1>2. ASSUME NEW e \in Ept, NEW lev, NEW pre, Numbered(e, lev, pre), NEW t \in 0 .. e.cnt
      PROVE  pre[t] < 2 ^ (Top - lev[t])
  <2> DEFINE T == {k \in Level : \A u \in 0 .. e.cnt : lev[u] = k => pre[u] < 2 ^ (Top - k)}
  <2>0. \A u \in 0 .. e.cnt : u \in Table /\ lev[u] \in Level /\ pre[u] \in Nat
    <3>1. \A u \in 0 .. e.cnt : u \in Table BY Levels DEF Ept
    <3> QED BY <1>2, <3>1 DEF Numbered
  <2>3. ASSUME NEW u \in 0 .. e.cnt, u # 0
        PROVE  \E v \in 0 .. e.cnt, i \in {0, 1} : lev[v] = lev[u] + 1 /\ pre[u] = 2 * pre[v] + i
    <3>1. u \in 1 .. e.cnt BY <2>3, Levels DEF Ept
    <3>2. PICK s \in Slots(e) : Read(e, s).to = "table" /\ Read(e, s).at = u
      BY <1>2, <3>1 DEF Numbered
    <3>3. lev[s[1]] = lev[u] + 1 /\ pre[u] = 2 * pre[s[1]] + s[2]
      BY <1>2, <3>2 DEF Numbered
    <3>4. s[1] \in 0 .. e.cnt /\ s[2] \in {0, 1} BY SlotOf
    <3> QED BY <3>3, <3>4
  <2>1. Top \in T
    <3> SUFFICES ASSUME NEW u \in 0 .. e.cnt, lev[u] = Top PROVE pre[u] < 2 ^ (Top - Top)
      BY Levels
    <3>1. u = 0
      <4>1. ASSUME u # 0 PROVE FALSE
        <5>1. PICK v \in 0 .. e.cnt : lev[v] = Top + 1 BY <2>3, <4>1
        <5>2. Top + 1 \in Level BY <2>0, <5>1
        <5> QED BY <5>2, Levels
      <4> QED BY <4>1
    <3>2. pre[u] = 0 BY <1>2, <3>1, Levels DEF Numbered
    <3> PICK z : z = Top - Top OBVIOUS
    <3>3. z = 0 BY Levels
    <3>4. 2 ^ z = 1 BY <3>3, Levels
    <3> QED BY <3>2, <3>4
  <2>2. ASSUME NEW k \in Level, k # Top, k + 1 \in T PROVE k \in T
    <3> SUFFICES ASSUME NEW u \in 0 .. e.cnt, lev[u] = k PROVE pre[u] < 2 ^ (Top - k)
      OBVIOUS
    <3>1. u # 0
      <4>1. lev[0] = Top BY <1>2, Levels DEF Numbered
      <4> QED BY <2>2, <4>1
    <3>2. PICK v \in 0 .. e.cnt, i \in {0, 1} : lev[v] = k + 1 /\ pre[u] = 2 * pre[v] + i
      BY <2>3, <3>1
    <3> PICK a, q, P : a = pre[u] /\ q = pre[v] /\ P = 2 ^ (Top - (k + 1)) OBVIOUS
    <3>3. q < P BY <2>2, <3>2
    <3>4. a = 2 * q + i /\ q \in Nat BY <2>0, <3>2
    <3>5. k + 1 \in Level BY <2>2, Levels
    <3>6. P \in Nat /\ 2 ^ (Top - k) = 2 * P BY <2>2, <3>5, Powers
    <3>7. a < 2 * P BY <3>3, <3>4, <3>6
    <3> QED BY <3>6, <3>7
  <2> HIDE DEF T
  <2>4. \A k \in Level : k \in T BY <2>1, <2>2, DownLevels
  <2> QED BY <2>0, <2>4 DEF T
<1> QED BY <1>1, <1>2

\* The tables of pages of X fit the pool beside all those above them.
Fits(X) == IsFiniteSet(X) /\ Cardinality(Upper) + Cardinality(X) <= NUM_OF_EPTBL

LEMMA UpperFinite == IsFiniteSet(Upper) /\ Cardinality(Upper) \in Nat
<1>1. IsFiniteSet(1 .. Top - 1) BY Levels, FS_Interval
<1>2. IsFiniteSet(Page) BY Levels, FS_Interval DEF Page
<1>3. IsFiniteSet((1 .. Top - 1) \X Page) BY <1>1, <1>2, FS_Product
<1>4. Upper \in SUBSET ((1 .. Top - 1) \X Page) BY DEF Upper
<1> QED BY <1>3, <1>4, FS_Subset, FS_CardinalityType

\* Where table t of a tree is, and the tables that cur_fill is about to take.
NodeOf(e, lev, pre, g, t) ==
  IF t <= e.cnt THEN <<lev[t], pre[t]>>
  ELSE <<e.level - (t - e.cnt), Above(g, (e.level - (t - e.cnt)) + 1)>>

LEMMA RoomLeft ==
  ASSUME NEW e, NEW lev, NEW pre, NEW M, NEW X, NEW g \in Page,
         Ready(e, lev, pre, M, g), Lean(e, lev, pre, X), Fits(X),
         NEW level \in {0, 1}, level <= e.level, level = 0 => LargeOf(g) \in X
  PROVE  ~ pool_used_up(e, level)
<1>1. e \in Ept /\ Numbered(e, lev, pre) /\ e.level \in Level
      /\ e.entry[e.level] \in Slots(e) /\ Stands(lev, pre, e.entry[e.level], e.level, g)
      /\ Read(e, e.entry[e.level]).to # "table"
  BY DEF Ready, Tree
<1> PICK c : c = e.cnt OBVIOUS
<1> PICK b : b = e.level OBVIOUS
<1> PICK n : n = b - level OBVIOUS
<1>2. c \in Nat /\ b \in 0 .. Top /\ n \in Nat /\ b - n = level /\ Top \in Nat
  BY <1>1, Levels DEF Ept
<1>3. \A t \in 0 .. c : t \in Table /\ lev[t] \in Level /\ pre[t] \in Nat
  <2>1. \A t \in 0 .. c : t \in Table BY <1>1, Levels DEF Ept
  <2> QED BY <1>1, <2>1 DEF Numbered
<1> DEFINE S == 1 .. c + n
           N(t) == NodeOf(e, lev, pre, g, t)
           Y == Upper \cup ({0} \X X)
\* A table for the same pages as a new one would be under the last entry.
<1>4. ASSUME NEW t \in 1 .. c, NEW k \in 1 .. n, N(t) = N(c + k) PROVE FALSE
  <2>1. N(t) = <<lev[t], pre[t]>> BY <1>2 DEF NodeOf
  <2>2. N(c + k) = <<b - k, Above(g, (b - k) + 1)>>
    <3>1. ~ (c + k <= e.cnt) /\ (c + k) - e.cnt = k BY <1>2
    <3> QED BY <3>1 DEF NodeOf
  <2>3. lev[t] = b - k /\ pre[t] = Above(g, lev[t] + 1) BY <1>4, <2>1, <2>2
  <2>4. lev[t] < b /\ t \in 0 .. e.cnt BY <1>2, <2>3
  <2>5. PICK q \in Slots(e) : Stands(lev, pre, q, b, g) /\ Read(e, q).to = "table"
    BY <1>1, <2>3, <2>4, Ancestor
  <2>6. q = e.entry[e.level] BY <1>1, <2>5, OneSlot
  <2> QED BY <1>1, <2>5, <2>6
<1>5. ASSUME NEW t \in S, NEW u \in S, t # u PROVE N(t) # N(u)
  <2>0. \A v \in S : v \in 1 .. c \/ (v - c \in 1 .. n /\ v = c + (v - c) /\ v > c) BY <1>2
  <2>1. CASE t \in 1 .. c /\ u \in 1 .. c
    <3>1. N(t) = <<lev[t], pre[t]>> /\ N(u) = <<lev[u], pre[u]>> BY <1>2, <2>1 DEF NodeOf
    <3>2. t \in 0 .. c /\ u \in 0 .. c BY <2>1
    <3> QED BY <1>1, <1>5, <3>1, <3>2 DEF Numbered
  <2>2. CASE t \in 1 .. c /\ u \notin 1 .. c BY <1>4, <2>0, <2>2
  <2>3. CASE t \notin 1 .. c /\ u \in 1 .. c BY <1>4, <2>0, <2>3
  <2>4. CASE t \notin 1 .. c /\ u \notin 1 .. c
    <3>1. t > c /\ u > c /\ t \in Nat /\ u \in Nat BY <1>2, <2>0, <2>4
    <3>2. N(t)[1] = b - (t - c) /\ N(u)[1] = b - (u - c) BY <1>2, <3>1 DEF NodeOf
    <3>3. b - (t - c) # b - (u - c) BY <1>2, <1>5, <3>1
    <3> QED BY <3>2, <3>3
  <2> QED BY <2>1, <2>2, <2>3, <2>4
<1>6. ASSUME NEW l \in Level, NEW p \in Nat, p < 2 ^ (Top - l), l # Top, l = 0 => p \in X
      PROVE  <<l, p>> \in Y
  <2>1. CASE l = 0 BY <1>6, <2>1
  <2>2. CASE l # 0
    <3>1. l \in 1 .. Top - 1 BY <1>6, <2>2, Levels
    <3> PICK P, Q : P = 2 ^ (Top - l) /\ Q = 2 ^ EPT_LEVELS OBVIOUS
    <3>2. p < P /\ P <= Q /\ P \in Nat /\ Q \in Nat BY <1>6, Powers, Levels
    <3>3. p \in 0 .. Q - 1 BY <1>6, <3>2
    <3>4. p \in Page BY <3>3 DEF Page
    <3> QED BY <1>6, <3>1, <3>4 DEF Upper
  <2> QED BY <2>1, <2>2
<1>7. ASSUME NEW t \in S PROVE N(t) \in Y
  <2>1. CASE t \in 1 .. c
    <3>1. N(t) = <<lev[t], pre[t]>> /\ t \in 0 .. c BY <1>2, <2>1 DEF NodeOf
    <3>2. lev[t] # Top
      <4>1. PICK s \in Slots(e) : Read(e, s).to = "table" /\ Read(e, s).at = t
        BY <1>1, <2>1 DEF Numbered
      <4>2. lev[s[1]] = lev[t] + 1 BY <1>1, <4>1 DEF Numbered
      <4>3. lev[s[1]] \in Level BY <1>1, <1>3, SlotOf
      <4> QED BY <4>2, <4>3, Levels
    <3>3. pre[t] < 2 ^ (Top - lev[t]) BY <1>1, <3>1, Places
    <3>4. lev[t] = 0 => pre[t] \in X BY <2>1 DEF Lean
    <3> QED BY <1>3, <1>6, <3>1, <3>2, <3>3, <3>4
  <2>2. CASE t \notin 1 .. c
    <3> PICK l : l = b - (t - c) OBVIOUS
    <3>1. t \in Nat /\ t > c /\ t <= c + n BY <1>2, <2>2
    <3>2. l \in 0 .. Top /\ l # Top /\ l >= level BY <1>2, <3>1
    <3>3. N(t) = <<l, Above(g, l + 1)>> BY <1>2, <3>1 DEF NodeOf
    <3>4. l \in Level BY <3>2, Levels
    <3>5. Above(g, l + 1) \in Nat /\ Above(g, l + 1) < 2 ^ (Top - l) BY <3>4, AboveIs, Places
    <3>6. l = 0 => Above(g, l + 1) \in X
      <4>1. ASSUME l = 0 PROVE Above(g, l + 1) \in X
        <5>1. level = 0 BY <3>2, <4>1
        <5>2. 0 + 1 = 1 OBVIOUS
        <5> QED BY <4>1, <5>1, <5>2, AboveEnds
      <4> QED BY <4>1
    <3> QED BY <1>6, <3>2, <3>3, <3>4, <3>5, <3>6
  <2> QED BY <2>1, <2>2
<1>8. IsFiniteSet(Y) /\ Cardinality(Y) <= NUM_OF_EPTBL /\ Cardinality(Y) \in Nat
  <2>1. IsFiniteSet({0}) /\ Cardinality({0}) = 1 BY FS_Singleton
  <2>2. IsFiniteSet(X) /\ Cardinality(X) \in Nat BY FS_CardinalityType DEF Fits
  <2>3. IsFiniteSet({0} \X X) /\ Cardinality({0} \X X) = 1 * Cardinality(X)
    BY <2>1, <2>2, FS_Product
  <2>4. /\ IsFiniteSet(Y)
        /\ Cardinality(Y) = Cardinality(Upper) + Cardinality({0} \X X)
                            - Cardinality(Upper \cap ({0} \X X))
    BY <2>3, UpperFinite, FS_Union
  <2>5. Cardinality(Upper \cap ({0} \X X)) \in Nat
    BY UpperFinite, FS_Intersection, FS_CardinalityType
  <2>6. Cardinality(Y) \in Nat BY <2>4, FS_CardinalityType
  <2> HIDE DEF Y
  <2>7. Cardinality({0} \X X) = Cardinality(X) BY <2>2, <2>3
  <2>8. Cardinality(Y) <= Cardinality(Upper) + Cardinality(X)
    BY <2>2, <2>4, <2>5, <2>6, <2>7, UpperFinite
  <2>9. Cardinality(Upper) + Cardinality(X) <= NUM_OF_EPTBL BY DEF Fits
  <2>10. NUM_OF_EPTBL \in Nat BY Levels
  <2> QED BY <2>2, <2>4, <2>6, <2>8, <2>9, <2>10, UpperFinite
<1>9. c + n <= Cardinality(Y)
  <2>1. IsFiniteSet(S) /\ Cardinality(S) = c + n
    <3>1. 1 \in Int /\ c + n \in Int BY <1>2
    <3>2. 1 > c + n => c + n = 0 BY <1>2
    <3> QED BY <1>2, <3>1, <3>2, FS_Interval
  <2>2. ASSUME ~ (c + n <= Cardinality(Y)) PROVE FALSE
    <3> PICK f : f = [t \in S |-> N(t)] OBVIOUS
    <3>1. f \in [S -> Y] BY <1>7
    <3> HIDE DEF S, Y, N
    <3>0. c + n \in Nat BY <1>2
    <3>2. Cardinality(Y) < Cardinality(S) BY <1>8, <2>1, <2>2, <3>0
    <3>3. PICK x, y \in S : x # y /\ f[x] = f[y]
      BY <1>8, <2>1, <3>1, <3>2, FS_PigeonHole
    <3> QED BY <1>5, <3>3
  <2> QED BY <2>2
<1>10. c + n <= NUM_OF_EPTBL /\ e.cnt + e.level - level = c + n
  <2> HIDE DEF Y
  <2>1. NUM_OF_EPTBL \in Nat BY Levels
  <2> QED BY <1>2, <1>8, <1>9, <2>1
<1>11. c + n \in Nat /\ NUM_OF_EPTBL \in Nat BY <1>2, Levels
<1> QED BY <1>10, <1>11 DEF pool_used_up

-----------------------------------------------------------------------------
\* The operations of a virtual processor on its tables, one after the other.
LEMMA GoodMove ==
  ASSUME NEW e, NEW M, NEW X, Good(e, M, X), NEW g \in Page
  PROVE  \E lev, pre :
           LET r == cur_move(e, g)
           IN  /\ Ready(r, lev, pre, M, g) /\ Lean(r, lev, pre, X)
               /\ r.cleared = e.cleared /\ r.tables = e.tables /\ r.cnt = e.cnt
               /\ Good(r, M, X) /\ e \in Ept /\ r \in Ept
               /\ \A h \in Page : Found(r, h) = Found(e, h)
<1>1. PICK lev, pre : Tree(e, lev, pre, M) /\ KeptOn(e, lev, pre) /\ Lean(e, lev, pre, X)
  BY DEF Good
<1> PICK r : r = cur_move(e, g) OBVIOUS
<1>2. e \in Ept BY <1>1 DEF Tree
<1>3. /\ Ready(r, lev, pre, M, g)
      /\ r.tables = e.tables /\ r.cnt = e.cnt /\ r.cleared = e.cleared
  BY <1>1, <1>2, Move
<1>4. r \in Ept /\ KeptOn(r, lev, pre) /\ Tree(r, lev, pre, M) BY <1>3 DEF Ready, Tree
<1>5. \A h \in Page : Found(r, h) = Found(e, h) BY <1>1, <1>2, <1>3, <1>4, SameTables
<1>6. Lean(r, lev, pre, X) BY <1>1, <1>3 DEF Lean
<1>7. Good(r, M, X) BY <1>4, <1>6 DEF Good
<1> QED BY <1>2, <1>3, <1>4, <1>5, <1>6, <1>7

\* What is found for a page is right for it, at some level.
LEMMA FoundRight ==
  ASSUME NEW e, NEW M, NEW X, Good(e, M, X), NEW g \in Page
  PROVE  \E l \in Level : Right(Found(e, g), l, Above(g, l), M)
<1>1. PICK lev, pre : Tree(e, lev, pre, M) BY DEF Good
<1>2. e \in Ept /\ Numbered(e, lev, pre) /\ AllRight(e, lev, pre, M) BY <1>1 DEF Tree
<1>3. PICK s \in Slots(e) : Stands(lev, pre, s, lev[s[1]], g) /\ Found(e, g) = Read(e, s)
  BY <1>2, FoundIs
<1>4. lev[s[1]] \in Level BY <1>2, SlotOf DEF Numbered
<1>5. 2 * pre[s[1]] + s[2] = Above(g, lev[s[1]]) BY <1>3, <1>4, AboveIs DEF Stands
<1>6. Right(Read(e, s), lev[s[1]], 2 * pre[s[1]] + s[2], M) BY <1>2 DEF AllRight
<1> QED BY <1>3, <1>4, <1>5, <1>6

\* What one mapping at page g does to the tables.
Keeps(e, r, g, split) ==
  ~ r.cleared => \A h \in Page : Mapped(e, h) =>
                    Mapped(r, h) \/ (split /\ LargeOf(h) = LargeOf(g))

Maps(e, r, M, X, Own) ==
  /\ Good(r, M, X)
  /\ e.cleared => r.cleared
  /\ Fits(X) => r.cleared = e.cleared
  /\ ~ e.cleared /\ r.cleared => Good(r, M, Own)

LEMMA PageSub ==
  ASSUME NEW e, NEW M, NEW X, Good(e, M, X), NEW g \in Page, g \notin M, LargeOf(g) \in X
  PROVE  LET r == vt_ept_map_page_sub(e, g)
         IN  /\ Maps(e, r, M, X, {LargeOf(g)})
             /\ Mapped(r, g)
             /\ Keeps(e, r, g, Found(e, g).to = "large")
<1> PICK m : m = cur_move(e, g) OBVIOUS
<1> PICK r : r = map_entry(m, g, 0, PageEntry(g)) OBVIOUS
<1>1. PICK lev, pre : /\ Ready(m, lev, pre, M, g) /\ Lean(m, lev, pre, X)
                      /\ m.cleared = e.cleared /\ m \in Ept
                      /\ \A h \in Page : Found(m, h) = Found(e, h)
  BY GoodMove
<1>2. /\ PageEntry(g) \in Entry /\ PageEntry(g).to = "page"
      /\ Right(PageEntry(g), 0, Above(g, 0), M)
  BY PageIsRight
<1>3. 0 <= m.level /\ 0 \in {0, 1} BY <1>1, Levels DEF Ept
<1>4. /\ Good(r, M, X)
      /\ ~ pool_used_up(m, 0) => r.cleared = m.cleared
      /\ pool_used_up(m, 0) => Good(r, M, {LargeOf(g)})
      /\ \A h \in Page : Above(h, 0) = Above(g, 0) => Found(r, h) = PageEntry(g)
      /\ m.cleared => r.cleared
      /\ ~ r.cleared => \A h \in Page : Mapped(m, h) =>
                           Mapped(r, h) \/ Splits(m, 0, g, h)
  <2>1. MapsEntry(m, r, M, X, g, 0, PageEntry(g)) BY <1>1, <1>2, <1>3, MapEntry
  <2> QED BY <2>1 DEF MapsEntry
<1>5. Fits(X) => ~ pool_used_up(m, 0) BY <1>1, <1>3, RoomLeft
<1>6. Maps(e, r, M, X, {LargeOf(g)}) BY <1>1, <1>4, <1>5 DEF Maps
<1>7. Mapped(r, g) BY <1>2, <1>4 DEF Mapped
<1>8. Keeps(e, r, g, Found(e, g).to = "large")
  <2> SUFFICES ASSUME ~ r.cleared, NEW h \in Page, Mapped(e, h)
               PROVE  Mapped(r, h) \/ (Found(e, g).to = "large" /\ LargeOf(h) = LargeOf(g))
    BY DEF Keeps
  <2>1. Mapped(m, h) BY <1>1 DEF Mapped
  <2> QED BY <1>1, <1>4, <2>1 DEF Splits
<1>9. r = vt_ept_map_page_sub(e, g) BY DEF vt_ept_map_page_sub
<1> QED BY <1>6, <1>7, <1>8, <1>9

LEMMA Map2m ==
  ASSUME NEW e, NEW X, Good(e, Mmio, X), NEW g \in Page, large_fits(e, g)
  PROVE  LET r == vt_ept_map_2mpage(cur_move(e, g), g)
         IN  /\ Maps(e, r, Mmio, X, {})
             /\ \A h \in LargePage(g) : Mapped(r, h)
             /\ Keeps(e, r, g, FALSE)
<1> PICK M : M = Mmio OBVIOUS
<1> PICK m : m = cur_move(e, g) OBVIOUS
<1> PICK x : x = LargeEntry(g) OBVIOUS
<1> PICK r : r = map_entry(m, g, 1, x) OBVIOUS
<1>1. PICK lev, pre : /\ Ready(m, lev, pre, M, g) /\ Lean(m, lev, pre, X)
                      /\ m.cleared = e.cleared /\ m \in Ept
                      /\ \A h \in Page : Found(m, h) = Found(e, h)
  BY GoodMove
<1>2. /\ LargePage(g) \cap M = {} /\ m.level > 0 /\ g \notin Vmm /\ LargeOf(g) \notin Uneven
  BY DEF large_fits, may_map_large
<1>3. /\ x \in Entry /\ x.to = "large" /\ Right(x, 1, Above(g, 1), M)
  BY <1>2, LargeIsRight
<1>4. 1 <= m.level /\ 1 \in {0, 1} BY <1>1, <1>2, Levels DEF Ept
<1>5. /\ Good(r, M, X)
      /\ ~ pool_used_up(m, 1) => r.cleared = m.cleared
      /\ pool_used_up(m, 1) => Good(r, M, {})
      /\ \A h \in Page : Above(h, 1) = Above(g, 1) => Found(r, h) = x
      /\ m.cleared => r.cleared
      /\ ~ r.cleared => \A h \in Page : Mapped(m, h) =>
                           Mapped(r, h) \/ Splits(m, 1, g, h)
  <2>1. MapsEntry(m, r, M, X, g, 1, x) BY <1>1, <1>3, <1>4, MapEntry
  <2> QED BY <2>1 DEF MapsEntry
<1>6. Fits(X) => ~ pool_used_up(m, 1) BY <1>1, <1>4, RoomLeft
<1>7. Maps(e, r, M, X, {}) BY <1>1, <1>5, <1>6 DEF Maps
<1>8. \A h \in LargePage(g) : Mapped(r, h)
  <2> SUFFICES ASSUME NEW h \in LargePage(g) PROVE Mapped(r, h) OBVIOUS
  <2>1. h \in Page /\ LargeOf(h) = LargeOf(g) BY LargePageIs
  <2>2. Above(h, 1) = Above(g, 1) BY <2>1, AboveEnds
  <2> QED BY <1>3, <1>5, <2>1, <2>2 DEF Mapped
<1>9. Keeps(e, r, g, FALSE)
  <2> SUFFICES ASSUME ~ r.cleared, NEW h \in Page, Mapped(e, h) PROVE Mapped(r, h)
    BY DEF Keeps
  <2>1. Mapped(m, h) BY <1>1 DEF Mapped
  <2> QED BY <1>5, <2>1 DEF Splits
<1>10. r = vt_ept_map_2mpage(m, g) BY DEF vt_ept_map_2mpage
<1> QED BY <1>7, <1>8, <1>9, <1>10

\* A large page that is mapped may be mapped again.
LEMMA LargeMeansFits ==
  ASSUME NEW e, NEW X, Good(e, Mmio, X), NEW g \in Page, Found(e, g).to = "large"
  PROVE  large_fits(e, g)
<1> PICK M : M = Mmio OBVIOUS
<1> PICK m : m = cur_move(e, g) OBVIOUS
<1>1. PICK lev, pre : /\ Ready(m, lev, pre, M, g) /\ m \in Ept
                      /\ \A h \in Page : Found(m, h) = Found(e, h)
  BY GoodMove
<1> PICK s : s = m.entry[m.level] OBVIOUS
<1>2. /\ AllRight(m, lev, pre, M) /\ Stands(lev, pre, s, m.level, g) /\ s \in Slots(m)
      /\ m.level \in Level
  BY <1>1 DEF Ready, Tree
<1>3. Read(m, s).to = "large" BY <1>1, ReadyFound
<1>4. Right(Read(m, s), m.level, Above(g, m.level), M)
  <2>1. 2 * pre[s[1]] + s[2] = Above(g, m.level) BY <1>2, AboveIs DEF Stands
  <2>2. Right(Read(m, s), lev[s[1]], 2 * pre[s[1]] + s[2], M) BY <1>2 DEF AllRight
  <2> QED BY <1>2, <2>1, <2>2 DEF Stands
<1> PICK n : n = LargeOf(g) OBVIOUS
<1>5. /\ m.level = 1 /\ n \notin Uneven
      /\ 2 * n \notin Vmm /\ 2 * n + 1 \notin Vmm /\ 2 * n \notin M /\ 2 * n + 1 \notin M
  BY <1>3, <1>4, AboveEnds DEF Right
<1>6. LargePage(g) = {2 * n, 2 * n + 1} /\ g \in LargePage(g) BY LargePageIs
<1>7. LargePage(g) \cap M = {} /\ g \notin Vmm BY <1>5, <1>6
<1> QED BY <1>5, <1>7 DEF large_fits, may_map_large

-----------------------------------------------------------------------------
\* getforcemap's ranges, page by page.
LEMMA AreaEnd ==
  ASSUME areas \subseteq Areas, NEW g \in Mmio
  PROVE  area_end(g) \in Nat /\ area_end(g) > g /\ \A h \in g .. area_end(g) - 1 : h \in Mmio
<1> PICK A : A = CHOOSE B \in areas : g \in B OBVIOUS
<1>1. A \in areas /\ g \in A BY DEF Mmio
<1>2. A \subseteq Page /\ g \in Page BY <1>1, EptAssumption
<1>3. g \in Nat /\ g < 2 ^ EPT_LEVELS /\ 2 ^ EPT_LEVELS \in Nat /\ 2 ^ EPT_LEVELS \notin A
  BY <1>2, Levels DEF Page
<1> DEFINE S == {h \in g + 1 .. 2 ^ EPT_LEVELS : h \notin A}
<1>4. S \subseteq Nat /\ 2 ^ EPT_LEVELS \in S BY <1>3
<1>5. area_end(g) = Minimum(S) BY DEF area_end
<1>6. Minimum(S) \in S /\ \A k \in S : Minimum(S) <= k
  <2> HIDE DEF S
  <2> QED BY <1>4, MinimumIs
<1> PICK m : m = Minimum(S) OBVIOUS
<1>7. m \in Nat /\ m > g /\ m <= 2 ^ EPT_LEVELS BY <1>3, <1>6
<1>8. ASSUME NEW h \in g .. m - 1 PROVE h \in A
  <2>1. CASE h = g BY <1>1, <2>1
  <2>2. CASE h # g
    <3>1. h \in g + 1 .. 2 ^ EPT_LEVELS /\ ~ (m <= h) BY <1>3, <1>7, <2>2
    <3> QED BY <1>6, <3>1
  <2> QED BY <2>1, <2>2
<1> QED BY <1>1, <1>5, <1>7, <1>8 DEF Mmio

\* From the tables e to r nothing is lost, and the pages from first to before last,
\* but those of areas, are mapped.
Forces(e, r, X, first, last) ==
  /\ Good(r, Mmio, X)
  /\ Fits(X) => r.cleared = e.cleared
  /\ e.cleared => r.cleared
  /\ ~ r.cleared => /\ \A h \in Page : Mapped(e, h) => Mapped(r, h)
                    /\ \A h \in Page \ Mmio : first <= h /\ h < last => Mapped(r, h)

LEMMA ForcePage ==
  ASSUME areas \subseteq Areas, NEW s, NEW X, Good(s.ept, Mmio, X),
         s.at \in Page, LargeOf(s.at) \in X
  PROVE  LET r == force_page(s)
         IN  /\ r = [ept |-> r.ept, at |-> r.at] /\ r.at \in Nat /\ r.at > s.at
             /\ Forces(s.ept, r.ept, X, s.at, r.at)
<1> PICK o, g : o = s.ept /\ g = s.at OBVIOUS
<1> PICK e : e = cur_move(o, g) OBVIOUS
<1> PICK r : r = force_page(s) OBVIOUS
<1>0. g \in Page /\ g \in Nat /\ Good(o, Mmio, X) /\ LargeOf(g) \in X BY AboveEnds
<1>1. r = IF large_fits(o, g)
          THEN [ept |-> vt_ept_map_2mpage(e, g), at |-> 2 * LargeOf(g) + 2]
          ELSE IF g \notin Mmio
          THEN [ept |-> vt_ept_map_page_sub(e, g), at |-> g + 1]
          ELSE [ept |-> e, at |-> area_end(g)]
  BY DEF force_page
<1>2. CASE large_fits(o, g)
  <2>1. r.ept = vt_ept_map_2mpage(e, g) /\ r.at = 2 * LargeOf(g) + 2
        /\ r = [ept |-> r.ept, at |-> r.at]
    BY <1>1, <1>2
  <2>2. /\ Maps(o, r.ept, Mmio, X, {})
        /\ \A h \in LargePage(g) : Mapped(r.ept, h)
        /\ Keeps(o, r.ept, g, FALSE)
    BY <1>0, <1>2, <2>1, Map2m
  <2> PICK n : n = LargeOf(g) OBVIOUS
  <2>3. n \in Nat /\ (g = 2 * n \/ g = 2 * n + 1) /\ LargePage(g) = {2 * n, 2 * n + 1}
    BY <1>0, LargePageIs
  <2>4. r.at \in Nat /\ r.at > g BY <1>0, <2>1, <2>3
  <2>5. \A h \in Page : g <= h /\ h < r.at => h \in LargePage(g)
    <3> SUFFICES ASSUME NEW h \in Page, g <= h, h < r.at PROVE h \in {2 * n, 2 * n + 1}
      BY <2>3
    <3>1. h \in Nat /\ h < 2 * n + 2 BY <2>1, AboveEnds
    <3>2. 2 * n <= h BY <1>0, <2>3, <3>1
    <3> QED BY <2>3, <3>1, <3>2
  <2> QED BY <2>1, <2>2, <2>4, <2>5 DEF Forces, Maps, Keeps
<1>3. CASE ~ large_fits(o, g) /\ g \notin Mmio
  <2>1. r.ept = vt_ept_map_page_sub(e, g) /\ r.at = g + 1 /\ r = [ept |-> r.ept, at |-> r.at]
    BY <1>1, <1>3
  <2>2. e.cleared = o.cleared /\ Good(e, Mmio, X) /\ \A h \in Page : Found(e, h) = Found(o, h)
    BY <1>0, GoodMove
  <2>3. /\ Maps(e, r.ept, Mmio, X, {LargeOf(g)})
        /\ Mapped(r.ept, g)
        /\ Keeps(e, r.ept, g, Found(e, g).to = "large")
    BY <1>0, <1>3, <2>1, <2>2, PageSub
  <2>4. Found(e, g).to # "large" BY <1>0, <1>3, <2>2, LargeMeansFits
  <2>5. r.at \in Nat /\ r.at > g BY <1>0, <2>1
  <2>6. \A h \in Page : g <= h /\ h < r.at => h = g
    <3>1. \A h \in Page : h \in Nat BY Levels DEF Page
    <3> QED BY <1>0, <2>1, <3>1
  <2>7. \A h \in Page : Mapped(o, h) => Mapped(e, h) BY <2>2 DEF Mapped
  <2> QED BY <2>1, <2>2, <2>3, <2>4, <2>5, <2>6, <2>7 DEF Forces, Maps, Keeps
<1>4. CASE ~ large_fits(o, g) /\ g \in Mmio
  <2>1. r.ept = e /\ r.at = area_end(g) /\ r = [ept |-> r.ept, at |-> r.at]
    BY <1>1, <1>4
  <2>2. e.cleared = o.cleared /\ Good(e, Mmio, X) /\ \A h \in Page : Found(e, h) = Found(o, h)
    BY <1>0, GoodMove
  <2>3. r.at \in Nat /\ r.at > g /\ \A h \in g .. r.at - 1 : h \in Mmio
    BY <1>4, <2>1, AreaEnd
  <2>4. \A h \in Page : g <= h /\ h < r.at => h \in Mmio
    <3>1. \A h \in Page : h \in Nat BY Levels DEF Page
    <3> QED BY <1>0, <2>3, <3>1
  <2>5. \A h \in Page : Mapped(o, h) => Mapped(e, h) BY <2>2 DEF Mapped
  <2> QED BY <2>1, <2>2, <2>3, <2>4, <2>5 DEF Forces
<1> QED BY <1>2, <1>3, <1>4

LEMMA ForcesTwice ==
  ASSUME NEW e, NEW r, NEW q, NEW X, NEW a, NEW b \in Nat, NEW c,
         Forces(e, r, X, a, b), Forces(r, q, X, b, c)
  PROVE  Forces(e, q, X, a, c)
<1>1. ASSUME NEW h \in Page \ Mmio, ~ q.cleared, a <= h, h < c PROVE Mapped(q, h)
  <2>1. h \in Nat BY AboveEnds
  <2>2. h < b \/ b <= h BY <2>1
  <2> QED BY <1>1, <2>2 DEF Forces
<1> QED BY <1>1 DEF Forces

\* A range needs no more turns than it has pages.
Turned(e, f, i, s, X) ==
  /\ s = [ept |-> s.ept, at |-> s.at] /\ s.at \in Nat /\ s.at >= f.base + i
  /\ Forces(e, s.ept, X, f.base, s.at)

TurnOf(f, s) == IF s.at < f.base + f.len THEN force_page(s) ELSE s

LEMMA Turn ==
  ASSUME areas \subseteq Areas, NEW e, NEW X, NEW f \in [base : Page, len : Nat],
         \A g \in f.base .. f.base + f.len - 1 : g \in Page /\ LargeOf(g) \in X,
         NEW i \in Nat, NEW s, Turned(e, f, i, s, X)
  PROVE  /\ i < f.len => Turned(e, f, i + 1, TurnOf(f, s), X)
         /\ Turned(e, f, 0, TurnOf(f, s), X)
<1> PICK base, len, at : base = f.base /\ len = f.len /\ at = s.at OBVIOUS
<1>1. base \in Nat /\ len \in Nat /\ at \in Nat /\ at >= base + i /\ base \in Page
  BY AboveEnds DEF Turned
<1>2. CASE at < base + len
  <2> PICK r : r = force_page(s) OBVIOUS
  <2>1. at \in base .. base + len - 1 BY <1>1, <1>2
  <2>2. at \in Page /\ LargeOf(at) \in X BY <2>1
  <2>3. Good(s.ept, Mmio, X) BY DEF Turned, Forces
  <2>4. /\ r = [ept |-> r.ept, at |-> r.at] /\ r.at \in Nat /\ r.at > at
        /\ Forces(s.ept, r.ept, X, at, r.at)
    BY <2>2, <2>3, ForcePage
  <2>5. Forces(e, s.ept, X, base, at) BY DEF Turned
  <2>6. Forces(e, r.ept, X, base, r.at) BY <1>1, <2>4, <2>5, ForcesTwice
  <2>7. r.at >= base + (i + 1) /\ r.at >= base + 0 BY <1>1, <2>4
  <2>8. TurnOf(f, s) = r BY <1>2 DEF TurnOf
  <2> QED BY <2>4, <2>6, <2>7, <2>8 DEF Turned
<1>3. CASE ~ (at < base + len)
  <2>1. TurnOf(f, s) = s BY <1>3 DEF TurnOf
  <2>2. i < len => at >= base + (i + 1) BY <1>1, <1>3
  <2>3. at >= base + 0 BY <1>1
  <2> QED BY <2>1, <2>2, <2>3 DEF Turned
<1> QED BY <1>2, <1>3

LEMMA ForceRange ==
  ASSUME areas \subseteq Areas, NEW e, NEW X, Good(e, Mmio, X),
         NEW f \in [base : Page, len : Nat],
         \A g \in f.base .. f.base + f.len - 1 : g \in Page /\ LargeOf(g) \in X
  PROVE  Forces(e, force_range(e, f), X, f.base, f.base + f.len)
<1> PICK n : n = f.len OBVIOUS
<1> PICK a : a = [ept |-> e, at |-> f.base] OBVIOUS
<1>1. n \in Nat /\ f.base \in Nat /\ f.base \in Page BY AboveEnds
<1>2. Turned(e, f, 0, a, X)
  <2>1. a.at = f.base /\ a.ept = e /\ a = [ept |-> a.ept, at |-> a.at] OBVIOUS
  <2>2. f.base >= f.base + 0 BY <1>1
  <2>3. \A h \in Page : ~ (f.base <= h /\ h < f.base)
    <3>1. \A h \in Page : h \in Nat BY Levels DEF Page
    <3> QED BY <1>1, <3>1
  <2> QED BY <1>1, <2>1, <2>2, <2>3 DEF Turned, Forces
<1> DEFINE S == {s \in [ept : Ept, at : Nat] : Turned(e, f, 0, s, X)}
           F == [i \in 1 .. n |-> [s \in S |-> TurnOf(f, s)]]
<1>3. ASSUME NEW s, Turned(e, f, 0, s, X) PROVE s \in S
  <2>1. s = [ept |-> s.ept, at |-> s.at] /\ s.at \in Nat /\ Good(s.ept, Mmio, X)
    BY <1>3 DEF Turned, Forces
  <2>2. s.ept \in Ept BY <2>1 DEF Good, Tree
  <2>3. s \in [ept : Ept, at : Nat] BY <2>1, <2>2
  <2> QED BY <1>3, <2>3
<1>4. ASSUME NEW s \in S PROVE TurnOf(f, s) \in S
  <2>1. Turned(e, f, 0, TurnOf(f, s), X)
    <3>1. Turned(e, f, 0, s, X) /\ 0 \in Nat BY <1>4
    <3> QED BY <3>1, Turn
  <2> QED BY <1>3, <2>1
<1>5. a \in S BY <1>2, <1>3
<1> HIDE DEF S
<1>6. PICK r \in [0 .. n -> S] : r[0] = a /\ \A i \in 1 .. n : r[i] = F[i][r[i - 1]]
  <2>1. Stays(n, S, F) BY <1>4 DEF Stays
  <2> HIDE DEF F
  <2>2. Goes(n, S, a, F) BY <1>1, <1>5, <2>1, Sequence, Zenon
  <2> QED BY <2>2 DEF Goes
<1> DEFINE Body(q) == [i \in 0 .. f.len |->
                        IF i = 0 THEN a
                        ELSE LET s == q[i - 1]
                             IN IF s.at < f.base + f.len THEN force_page(s) ELSE s]
<1>7. r = Body(r)
  <2>1. ASSUME NEW i \in 0 .. n PROVE r[i] = Body(r)[i]
    <3>1. CASE i = 0 BY <1>6, <3>1
    <3>2. CASE i # 0
      <4>1. i \in 1 .. n /\ i - 1 \in 0 .. n BY <1>1, <3>2
      <4>2. r[i] = TurnOf(f, r[i - 1]) BY <1>6, <4>1
      <4> QED BY <3>2, <4>2 DEF TurnOf
    <3> QED BY <3>1, <3>2
  <2>2. r = [i \in 0 .. n |-> r[i]] BY <1>6
  <2>3. Body(r) = [i \in 0 .. n |-> Body(r)[i]] OBVIOUS
  <2> HIDE DEF Body
  <2> QED BY <2>1, <2>2, <2>3
<1> PICK turn : turn = CHOOSE q : q = Body(q) OBVIOUS
<1>8. turn = Body(turn)
  <2> HIDE DEF Body
  <2> QED BY <1>7
<1>9. force_range(e, f) = turn[n].ept BY DEF force_range
<1>10. /\ turn[0] = a
       /\ \A i \in 1 .. n : turn[i] = TurnOf(f, turn[i - 1])
  <2>1. turn = [i \in 0 .. f.len |->
                 IF i = 0 THEN a
                 ELSE IF turn[i - 1].at < f.base + f.len THEN force_page(turn[i - 1])
                      ELSE turn[i - 1]]
    BY <1>8, Zenon
  <2> HIDE DEF Body
  <2>2. 0 \in 0 .. f.len /\ \A i \in 1 .. n : i \in 0 .. f.len /\ i # 0 BY <1>1
  <2>3. turn[0] = a BY <2>1, <2>2
  <2>4. ASSUME NEW i \in 1 .. n PROVE turn[i] = TurnOf(f, turn[i - 1])
    <3>1. i \in 0 .. f.len /\ i # 0 BY <2>2
    <3> QED BY <2>1, <3>1 DEF TurnOf
  <2> QED BY <2>3, <2>4
<1> HIDE DEF Body
<1> DEFINE T == {i \in 0 .. n : Turned(e, f, i, turn[i], X)}
<1>11. 0 \in T BY <1>1, <1>2, <1>10
<1>12. ASSUME NEW i \in 0 .. n - 1, i \in T PROVE i + 1 \in T
  <2>1. i + 1 \in 1 .. n /\ (i + 1) - 1 = i /\ i \in Nat /\ i < f.len /\ i + 1 \in 0 .. n
    BY <1>1
  <2>2. turn[i + 1] = TurnOf(f, turn[i]) BY <1>10, <2>1
  <2>3. Turned(e, f, i, turn[i], X) BY <1>12
  <2>4. Turned(e, f, i + 1, turn[i + 1], X) BY <2>1, <2>2, <2>3, Turn
  <2> QED BY <2>1, <2>4
<1>13. n \in T
  <2> HIDE DEF T
  <2>1. \A i \in 0 .. n : i \in T BY <1>1, <1>11, <1>12, Upward
  <2> QED BY <1>1, <2>1
<1>14. Forces(e, turn[n].ept, X, f.base, turn[n].at) /\ turn[n].at >= f.base + n
       /\ turn[n].at \in Nat
  BY <1>13 DEF Turned
<1>15. \A h \in Page : h < f.base + n => h < turn[n].at
  <2>1. \A h \in Page : h \in Nat BY Levels DEF Page
  <2> QED BY <1>1, <1>14, <2>1
<1> QED BY <1>9, <1>14, <1>15 DEF Forces

LEMMA ForcedRange ==
  ASSUME NEW i \in 1 .. Len(ForceMap)
  PROVE  LET f == ForceMap[i]
         IN  /\ f \in [base : Page, len : Nat]
             /\ \A g \in f.base .. f.base + f.len - 1 : g \in Forced /\ g \in Page
<1>1. ForceMap \in Seq([base : Page, len : Nat]) /\ Forced \subseteq Page BY EptAssumption
<1> PICK f : f = ForceMap[i] OBVIOUS
<1>2. f \in [base : Page, len : Nat] /\ i \in DOMAIN ForceMap
  <2> PICK R : R = [base : Page, len : Nat] OBVIOUS
  <2>1. ForceMap \in Seq(R) BY <1>1
  <2>2. ForceMap[i] \in R BY <2>1, Elements
  <2>3. DOMAIN ForceMap = 1 .. Len(ForceMap) BY <2>1
  <2> QED BY <2>2, <2>3
<1>3. f \in {ForceMap[j] : j \in DOMAIN ForceMap} BY <1>2
<1>4. \A g \in f.base .. f.base + f.len - 1 : g \in Forced BY <1>3 DEF Forced
<1> QED BY <1>1, <1>2, <1>4

LEMMA ForcedWhere ==
  \A g \in Forced : \E i \in 1 .. Len(ForceMap) :
     g \in ForceMap[i].base .. ForceMap[i].base + ForceMap[i].len - 1
<1>1. ForceMap \in Seq([base : Page, len : Nat]) BY EptAssumption
<1>2. DOMAIN ForceMap = 1 .. Len(ForceMap) BY <1>1
<1> QED BY <1>2 DEF Forced

\* After ranges 1 to i.
Upto(e, r, X, i) ==
  /\ Forces(e, r, X, 0, 0)
  /\ ~ r.cleared => \A j \in 1 .. i : \A h \in Page \ Mmio :
                       ForceMap[j].base <= h /\ h < ForceMap[j].base + ForceMap[j].len
                         => Mapped(r, h)

LEMMA NextRange ==
  ASSUME areas \subseteq Areas, NEW X, \A g \in Forced : LargeOf(g) \in X,
         NEW e, NEW r, NEW i \in 1 .. Len(ForceMap), Upto(e, r, X, i - 1)
  PROVE  Upto(e, force_range(r, ForceMap[i]), X, i)
<1> PICK f : f = ForceMap[i] OBVIOUS
<1> PICK q : q = force_range(r, f) OBVIOUS
<1>1. /\ f \in [base : Page, len : Nat]
      /\ \A g \in f.base .. f.base + f.len - 1 : g \in Page /\ LargeOf(g) \in X
  BY ForcedRange
<1>2. Good(r, Mmio, X) BY DEF Upto, Forces
<1>3. Forces(r, q, X, f.base, f.base + f.len) BY <1>1, <1>2, ForceRange
<1>4. Forces(e, q, X, 0, 0)
  <2>1. \A h \in Page : ~ (0 <= h /\ h < 0)
    <3>1. \A h \in Page : h \in Nat BY Levels DEF Page
    <3> QED BY <3>1
  <2>2. Forces(e, r, X, 0, 0) BY DEF Upto
  <2> QED BY <1>3, <2>1, <2>2 DEF Forces
<1>5. ASSUME ~ q.cleared, NEW j \in 1 .. i, NEW h \in Page \ Mmio,
             ForceMap[j].base <= h, h < ForceMap[j].base + ForceMap[j].len
      PROVE  Mapped(q, h)
  <2>1. CASE j = i BY <1>3, <1>5, <2>1 DEF Forces
  <2>2. CASE j # i
    <3>1. j \in 1 .. i - 1 BY <2>2
    <3>2. ~ r.cleared BY <1>3, <1>5 DEF Forces
    <3>3. Mapped(r, h) BY <1>5, <3>1, <3>2 DEF Upto
    <3> QED BY <1>3, <1>5, <3>3 DEF Forces
  <2> QED BY <2>1, <2>2
<1> QED BY <1>4, <1>5 DEF Upto

\* What vt_ept_map_page_clear_cleared promises, unless the pool is used up on the way.
LEMMA ClearCleared ==
  ASSUME areas \subseteq Areas, NEW e, NEW X, Good(e, Mmio, X),
         \A g \in Forced : LargeOf(g) \in X
  PROVE  LET r == vt_ept_map_page_clear_cleared(e)
         IN  /\ Good(r, Mmio, X)
             /\ Fits(X) => ~ r.cleared
             /\ ~ r.cleared => /\ \A h \in Page : Mapped(e, h) => Mapped(r, h)
                               /\ \A h \in Forced \ Mmio : Mapped(r, h)
<1> PICK n : n = Len(ForceMap) OBVIOUS
<1> PICK a : a = [e EXCEPT !.cleared = FALSE] OBVIOUS
<1>1. n \in Nat BY EptAssumption
<1>2. PICK lev, pre : Tree(e, lev, pre, Mmio) /\ KeptOn(e, lev, pre) /\ Lean(e, lev, pre, X)
  BY DEF Good
<1>3. e \in Ept BY <1>2 DEF Tree
<1>4. /\ a \in Ept /\ a.tables = e.tables /\ a.cnt = e.cnt /\ a.cleared = FALSE
      /\ a.level = e.level /\ a.entry = e.entry /\ a.gphys = e.gphys
  BY <1>3 DEF Ept
<1>5. Tree(a, lev, pre, Mmio) /\ \A h \in Page : Found(a, h) = Found(e, h)
  BY <1>2, <1>3, <1>4, SameTables
<1>6. Good(a, Mmio, X)
  <2>1. Slots(a) = Slots(e) BY <1>4 DEF Slots
  <2>2. KeptOn(a, lev, pre) BY <1>2, <1>4, <2>1 DEF KeptOn
  <2>3. Lean(a, lev, pre, X) BY <1>2, <1>4 DEF Lean
  <2> QED BY <1>5, <2>2, <2>3 DEF Good
<1>7. Upto(a, a, X, 0)
  <2>1. \A h \in Page : ~ (0 <= h /\ h < 0)
    <3>1. \A h \in Page : h \in Nat BY Levels DEF Page
    <3> QED BY <3>1
  <2> QED BY <1>6, <2>1 DEF Upto, Forces
<1> DEFINE S == {r \in Ept : Forces(a, r, X, 0, 0)}
           F == [i \in 1 .. n |-> [r \in S |-> force_range(r, ForceMap[i])]]
<1>8. ASSUME NEW r, Forces(a, r, X, 0, 0) PROVE r \in S
  BY <1>8 DEF Forces, Good, Tree
<1>9. ASSUME NEW i \in 1 .. n, NEW r \in S PROVE force_range(r, ForceMap[i]) \in S
  <2> PICK f : f = ForceMap[i] OBVIOUS
  <2> PICK q : q = force_range(r, f) OBVIOUS
  <2>1. /\ f \in [base : Page, len : Nat]
        /\ \A g \in f.base .. f.base + f.len - 1 : g \in Page /\ LargeOf(g) \in X
    BY ForcedRange
  <2>2. Forces(a, r, X, 0, 0) /\ Good(r, Mmio, X) BY DEF Forces
  <2>3. Forces(r, q, X, f.base, f.base + f.len) BY <2>1, <2>2, ForceRange
  <2>4. \A h \in Page : ~ (0 <= h /\ h < 0)
    <3>1. \A h \in Page : h \in Nat BY Levels DEF Page
    <3> QED BY <3>1
  <2>5. Forces(a, q, X, 0, 0) BY <2>2, <2>3, <2>4 DEF Forces
  <2> QED BY <1>8, <2>5
<1>10. a \in S BY <1>7, <1>8 DEF Upto
<1> HIDE DEF S
<1>11. PICK r \in [0 .. n -> S] : r[0] = a /\ \A i \in 1 .. n : r[i] = F[i][r[i - 1]]
  <2>1. Stays(n, S, F) BY <1>9 DEF Stays
  <2> HIDE DEF F
  <2>2. Goes(n, S, a, F) BY <1>1, <1>10, <2>1, Sequence, Zenon
  <2> QED BY <2>2 DEF Goes
<1> DEFINE Body(q) == [i \in 0 .. Len(ForceMap) |->
                        IF i = 0 THEN [e EXCEPT !.cleared = FALSE]
                        ELSE force_range(q[i - 1], ForceMap[i])]
<1>12. r = Body(r)
  <2>1. ASSUME NEW i \in 0 .. n PROVE r[i] = Body(r)[i]
    <3>1. CASE i = 0 BY <1>11, <3>1
    <3>2. CASE i # 0
      <4>1. i \in 1 .. n /\ i - 1 \in 0 .. n BY <1>1, <3>2
      <4>2. r[i] = force_range(r[i - 1], ForceMap[i]) BY <1>11, <4>1
      <4> QED BY <3>2, <4>2
    <3> QED BY <3>1, <3>2
  <2>2. r = [i \in 0 .. n |-> r[i]] BY <1>11
  <2>3. Body(r) = [i \in 0 .. n |-> Body(r)[i]] OBVIOUS
  <2> HIDE DEF Body
  <2> QED BY <2>1, <2>2, <2>3
<1> PICK after : after = CHOOSE q : q = Body(q) OBVIOUS
<1>13. after = Body(after)
  <2> HIDE DEF Body
  <2> QED BY <1>12
<1>14. vt_ept_map_page_clear_cleared(e) = after[n] BY DEF vt_ept_map_page_clear_cleared
<1>15. /\ after[0] = a
       /\ \A i \in 1 .. n : after[i] = force_range(after[i - 1], ForceMap[i])
  <2>1. after = [i \in 0 .. Len(ForceMap) |->
                  IF i = 0 THEN [e EXCEPT !.cleared = FALSE]
                  ELSE force_range(after[i - 1], ForceMap[i])]
    BY <1>13, Zenon
  <2> HIDE DEF Body
  <2>2. 0 \in 0 .. Len(ForceMap)
        /\ \A i \in 1 .. n : i \in 0 .. Len(ForceMap) /\ i # 0
    BY <1>1
  <2>3. after[0] = a BY <2>1, <2>2
  <2>4. ASSUME NEW i \in 1 .. n PROVE after[i] = force_range(after[i - 1], ForceMap[i])
    <3>1. i \in 0 .. Len(ForceMap) /\ i # 0 BY <2>2
    <3> QED BY <2>1, <3>1
  <2> QED BY <2>3, <2>4
<1> HIDE DEF Body
<1> DEFINE T == {i \in 0 .. n : Upto(a, after[i], X, i)}
<1>16. 0 \in T BY <1>1, <1>7, <1>15
<1>17. ASSUME NEW i \in 0 .. n - 1, i \in T PROVE i + 1 \in T
  <2>1. i + 1 \in 1 .. Len(ForceMap) /\ (i + 1) - 1 = i /\ i + 1 \in 0 .. n BY <1>1
  <2>2. after[i + 1] = force_range(after[i], ForceMap[i + 1]) BY <1>15, <2>1
  <2>3. Upto(a, after[i], X, i) BY <1>17
  <2>4. Upto(a, after[i + 1], X, i + 1) BY <2>1, <2>2, <2>3, NextRange
  <2> QED BY <2>1, <2>4
<1>18. Upto(a, after[n], X, n)
  <2> HIDE DEF T
  <2>1. \A i \in 0 .. n : i \in T BY <1>1, <1>16, <1>17, Upward
  <2>2. n \in T BY <1>1, <2>1
  <2> QED BY <2>2 DEF T
<1> PICK z : z = after[n] OBVIOUS
<1>19. Good(z, Mmio, X) /\ (Fits(X) => ~ z.cleared) BY <1>4, <1>18 DEF Upto, Forces
<1>20. ASSUME ~ z.cleared, NEW h \in Page, Mapped(e, h) PROVE Mapped(z, h)
  <2>1. Mapped(a, h) BY <1>5, <1>20 DEF Mapped
  <2> QED BY <1>18, <1>20, <2>1 DEF Upto, Forces
<1>21. ASSUME ~ z.cleared, NEW h \in Forced \ Mmio PROVE Mapped(z, h)
  <2>1. PICK i \in 1 .. Len(ForceMap) :
           h \in ForceMap[i].base .. ForceMap[i].base + ForceMap[i].len - 1
    BY ForcedWhere
  <2> PICK f : f = ForceMap[i] OBVIOUS
  <2>2. h \in Page BY EptAssumption
  <2>3. f.base \in Nat /\ f.len \in Nat BY ForcedRange, AboveEnds
  <2>4. f.base <= h /\ h < f.base + f.len BY <2>1, <2>3
  <2> QED BY <1>18, <1>21, <2>1, <2>2, <2>4 DEF Upto
<1> QED BY <1>14, <1>19, <1>20, <1>21

-----------------------------------------------------------------------------
\* When a page or an area makes no difference.
LEMMA GoodLess ==
  ASSUME NEW e, NEW M, NEW N, N \subseteq M, NEW X, NEW Y, Y \cap Nat \subseteq X,
         Good(e, M, Y)
  PROVE  Good(e, N, X)
<1>1. PICK lev, pre : Tree(e, lev, pre, M) /\ KeptOn(e, lev, pre) /\ Lean(e, lev, pre, Y)
  BY DEF Good
<1>2. Tree(e, lev, pre, N) BY <1>1 DEF Tree, AllRight, Right
<1>3. Lean(e, lev, pre, X)
  <2> SUFFICES ASSUME NEW t \in 1 .. e.cnt, lev[t] = 0 PROVE pre[t] \in X BY DEF Lean
  <2>1. t \in Table BY <1>1, Levels DEF Tree, Ept
  <2>2. pre[t] \in Nat BY <1>1, <2>1 DEF Tree, Numbered
  <2>3. pre[t] \in Y BY <1>1 DEF Lean
  <2> QED BY <2>2, <2>3
<1> QED BY <1>1, <1>2, <1>3 DEF Good

\* The ranges of getforcemap and a page fit when Room says so.
ForcedLarge == {LargeOf(g) : g \in Forced}

LEMMA RoomFits ==
  ASSUME Room, NEW g \in Page
  PROVE  /\ Fits(ForcedLarge \cup {LargeOf(g)}) /\ Fits(ForcedLarge)
         /\ \A h \in Forced : LargeOf(h) \in ForcedLarge
<1> DEFINE X == ForcedLarge
           Y == X \cup {LargeOf(g)}
<1>1. IsFiniteSet(X)
  <2>1. IsFiniteSet(Page) BY Levels, FS_Interval DEF Page
  <2>2. ASSUME NEW h \in Page PROVE LargeOf(h) \in Page
    <3>1. h \in Nat /\ h <= 2 ^ EPT_LEVELS - 1 /\ 2 ^ EPT_LEVELS \in Nat
      BY AboveEnds, Levels DEF Page
    <3>2. LargeOf(h) \in Nat /\ LargeOf(h) <= h BY <3>1 DEF LargeOf
    <3>3. LargeOf(h) <= 2 ^ EPT_LEVELS - 1 BY <3>1, <3>2
    <3> QED BY <3>1, <3>2, <3>3 DEF Page
  <2>3. X \in SUBSET Page BY <2>2, EptAssumption DEF ForcedLarge
  <2> QED BY <2>1, <2>3, FS_Subset
<1> PICK u, c, d, n : u = Cardinality(Upper) /\ c = Cardinality(X) /\ d = Cardinality(Y)
                      /\ n = NUM_OF_EPTBL
  OBVIOUS
<1>2. u \in Nat /\ c \in Nat /\ n \in Nat BY <1>1, UpperFinite, FS_CardinalityType, Levels
<1>3. u + c + 1 <= n BY DEF Room, ForcedLarge
<1>4. IsFiniteSet(Y) /\ (d = c \/ d = c + 1) BY <1>1, FS_AddElement
<1>5. u + d <= n /\ u + c <= n BY <1>2, <1>3, <1>4
<1> HIDE DEF X
<1>6. Fits(Y) /\ Fits(X) BY <1>1, <1>4, <1>5 DEF Fits
<1> QED BY <1>6 DEF X, ForcedLarge

\* vt_ept_map_page.
LEMMA MapPage ==
  ASSUME areas \subseteq Areas, NEW e, Good(e, Mmio, Nat), NEW g \in Page, g \notin Mmio
  PROVE  LET o == force_if_cleared(e)
             r == vt_ept_map_page(e, g)
         IN  /\ Good(r, Mmio, Nat) /\ Good(o, Mmio, Nat)
             /\ ~ r.cleared =>
                  /\ Mapped(r, g)
                  /\ \A h \in Forced \ Mmio : e.cleared \/ Mapped(e, h) =>
                       Mapped(r, h) \/ (Found(o, g).to = "large" /\ LargeOf(h) = LargeOf(g))
             /\ Room /\ (e.cleared => Good(e, Mmio, {})) => ~ o.cleared /\ ~ r.cleared
<1> PICK M : M = Mmio OBVIOUS
<1> PICK o : o = force_if_cleared(e) OBVIOUS
<1> PICK q : q = vt_ept_map_page_sub(o, g) OBVIOUS
<1> PICK r : r = vt_ept_map_page(e, g) OBVIOUS
<1>1. r = force_if_cleared(q) BY DEF vt_ept_map_page
<1>2. \A h \in Forced : LargeOf(h) \in Nat /\ h \in Page
  <2>1. Forced \subseteq Page BY EptAssumption
  <2> QED BY <2>1, LargePageIs
<1>3. LargeOf(g) \in Nat BY LargePageIs
<1>4. ASSUME NEW p, Good(p, M, Nat)
      PROVE  LET f == force_if_cleared(p)
             IN  /\ Good(f, M, Nat)
                 /\ ~ f.cleared => /\ \A h \in Page : Mapped(p, h) => Mapped(f, h)
                                   /\ p.cleared => \A h \in Forced \ M : Mapped(f, h)
  BY <1>2, <1>4, ClearCleared DEF force_if_cleared
<1>5. ASSUME NEW p, NEW X, p.cleared => Good(p, M, X), Fits(X),
             \A h \in Forced : LargeOf(h) \in X
      PROVE  ~ force_if_cleared(p).cleared
  BY <1>5, ClearCleared DEF force_if_cleared
<1>6. Good(o, M, Nat) BY <1>4
<1>7. /\ Maps(o, q, M, Nat, {LargeOf(g)}) /\ Mapped(q, g)
      /\ Keeps(o, q, g, Found(o, g).to = "large")
  BY <1>3, <1>6, PageSub
<1>8. Good(q, M, Nat) BY <1>7 DEF Maps
<1>9. Good(r, M, Nat) BY <1>1, <1>4, <1>8
<1>10. ~ r.cleared => \A h \in Page : Mapped(q, h) => Mapped(r, h) BY <1>1, <1>4, <1>8
<1>11. ASSUME ~ r.cleared, NEW h \in Forced \ M, e.cleared \/ Mapped(e, h)
       PROVE  Mapped(r, h) \/ (Found(o, g).to = "large" /\ LargeOf(h) = LargeOf(g))
  <2>1. CASE q.cleared BY <1>1, <1>4, <1>8, <1>11, <2>1
  <2>2. CASE ~ q.cleared
    <3>1. ~ o.cleared BY <1>7, <2>2 DEF Maps
    <3>2. h \in Page /\ Mapped(o, h) BY <1>2, <1>4, <1>11, <3>1
    <3>3. Mapped(q, h) \/ (Found(o, g).to = "large" /\ LargeOf(h) = LargeOf(g))
      BY <1>7, <2>2, <3>2 DEF Keeps
    <3> QED BY <1>10, <1>11, <3>2, <3>3
  <2> QED BY <2>1, <2>2
<1>12. ASSUME Room, e.cleared => Good(e, M, {}) PROVE ~ o.cleared /\ ~ r.cleared
  <2> PICK X, Y : X = ForcedLarge /\ Y = ForcedLarge \cup {LargeOf(g)} OBVIOUS
  <2>1. Fits(X) /\ Fits(Y) /\ \A h \in Forced : LargeOf(h) \in X /\ LargeOf(h) \in Y
    BY <1>12, RoomFits
  <2>2. e.cleared => Good(e, M, X) BY <1>12, GoodLess
  <2>3. ~ o.cleared BY <1>5, <2>1, <2>2
  <2>4. q.cleared => Good(q, M, {LargeOf(g)}) BY <1>7, <2>3 DEF Maps
  <2>5. q.cleared => Good(q, M, Y) BY <2>4, GoodLess
  <2>6. ~ r.cleared BY <1>1, <1>5, <2>1, <2>5
  <2> QED BY <2>3, <2>6
<1> QED BY <1>6, <1>7, <1>9, <1>10, <1>11, <1>12

\* Where no table of pages is in use, a walk ends above.
LEMMA LeanLevel ==
  ASSUME NEW e, NEW M, Good(e, M, {}), NEW g \in Page
  PROVE  cur_move(e, g).level > 0
<1> PICK r : r = cur_move(e, g) OBVIOUS
<1>1. PICK lev, pre : Ready(r, lev, pre, M, g) /\ Lean(r, lev, pre, {}) /\ r \in Ept
  BY GoodMove
<1> PICK s : s = r.entry[r.level] OBVIOUS
<1>2. s \in Slots(r) /\ Stands(lev, pre, s, r.level, g) /\ r.level \in Level
      /\ Numbered(r, lev, pre)
  BY <1>1 DEF Ready, Tree
<1>3. s[1] \in 0 .. r.cnt /\ r.cnt \in Nat BY <1>1, <1>2, SlotOf, Levels DEF Ept
<1>4. ASSUME r.level = 0 PROVE FALSE
  <2>1. lev[s[1]] = 0 BY <1>2, <1>4 DEF Stands
  <2>2. s[1] # 0
    <3>1. lev[0] = Top BY <1>2, Levels DEF Numbered
    <3> QED BY <2>1, <3>1, Levels
  <2>3. s[1] \in 1 .. r.cnt BY <1>3, <2>2
  <2> QED BY <1>1, <2>1, <2>3 DEF Lean
<1> QED BY <1>2, <1>4, Levels

-----------------------------------------------------------------------------
\* The steps of the specification.
LEMMA Forgotten ==
  ASSUME NEW e \in Ept, e.cnt = 0, e.tables = FirstTables, e.level = EPT_LEVELS, NEW M, NEW X
  PROVE  Good(e, M, X)
<1> PICK lev, pre : lev = [t \in Table |-> Top] /\ pre = [t \in Table |-> 0] OBVIOUS
<1>1. lev \in [Table -> Level] /\ pre \in [Table -> Nat] BY Levels
<1>2. ASSUME NEW s \in Slots(e) PROVE s[1] = 0 /\ Read(e, s) = NoEntry
  <2>1. s[1] = 0 /\ s[2] \in {0, 1} BY <1>2 DEF Slots
  <2> QED BY <2>1, Levels DEF Read, FirstTables, NoTable
<1>3. Numbered(e, lev, pre)
  <2>1. \A s \in Slots(e) : Read(e, s).to # "table" BY <1>2 DEF NoEntry
  <2>2. lev[Root] = Top /\ pre[Root] = 0 BY Levels
  <2> QED BY <1>1, <2>1, <2>2 DEF Numbered
<1>4. AllRight(e, lev, pre, M) BY <1>2 DEF AllRight, Right, NoEntry
<1>5. KeptOn(e, lev, pre)
  <2>1. \A l \in Level : ~ (l >= e.level) BY Levels
  <2> QED BY <2>1 DEF KeptOn
<1>6. Lean(e, lev, pre, X) BY DEF Lean
<1> QED BY <1>3, <1>4, <1>5, <1>6 DEF Good, Tree

LEMMA ForgetAll ==
  /\ vt_ept_init.cleared /\ \A M, X : Good(vt_ept_init, M, X)
  /\ \A e \in Ept : LET r == vt_ept_clear_all(e)
                    IN  r.cleared /\ \A M, X : Good(r, M, X)
<1>1. FirstTables \in [Table -> [{0, 1} -> Entry]]
  BY DEF FirstTables, NoTable, OldTable, Entry
<1>2. 0 \in 0 .. NUM_OF_EPTBL /\ EPT_LEVELS \in 0 .. EPT_LEVELS /\ 0 \in Page
  BY Levels DEF Page
<1>3. vt_ept_init \in Ept /\ vt_ept_init.cnt = 0 /\ vt_ept_init.tables = FirstTables
      /\ vt_ept_init.level = EPT_LEVELS /\ vt_ept_init.cleared
  BY <1>1, <1>2 DEF vt_ept_init, Ept
<1>4. ASSUME NEW e \in Ept
      PROVE  LET r == vt_ept_clear_all(e)
             IN  /\ r \in Ept /\ r.cnt = 0 /\ r.tables = FirstTables
                 /\ r.level = EPT_LEVELS /\ r.cleared
  <2> PICK entry : entry = [l \in Level |-> IF l < EPT_LEVELS THEN NoSlot ELSE e.entry[l]]
    OBVIOUS
  <2>1. entry \in [Level -> Slot \cup {NoSlot}] BY DEF Ept
  <2> PICK r : r = vt_ept_clear_all(e) OBVIOUS
  <2>2. r = [e EXCEPT !.tables = FirstTables, !.cleared = TRUE, !.cnt = 0,
                      !.level = EPT_LEVELS, !.entry = entry]
    BY DEF vt_ept_clear_all, forget
  <2>3. /\ r.tables = FirstTables /\ r.cleared = TRUE /\ r.cnt = 0
        /\ r.level = EPT_LEVELS
    BY <2>2 DEF Ept
  <2>4. r \in Ept
    <3> PICK F, n : F = FirstTables /\ n = EPT_LEVELS OBVIOUS
    <3>1. r = [cnt |-> 0, cleared |-> TRUE, tables |-> F, level |-> n,
               gphys |-> e.gphys, entry |-> entry]
      BY <2>2 DEF Ept
    <3>2. e.gphys \in Page BY DEF Ept
    <3> QED BY <1>1, <1>2, <2>1, <3>1, <3>2 DEF Ept
  <2> QED BY <2>3, <2>4
<1> QED BY <1>3, <1>4, Forgotten

\* vt_ept_extern_mapsearch removes what is mapped of an area, wherever it is in use.
LEMMA MapSearch ==
  ASSUME NEW e, NEW M, NEW X, Good(e, M, X), NEW A \in Areas
  PROVE  LET r == vt_ept_extern_mapsearch(e, A)
         IN  Good(r, M \cup A, X) /\ r.cleared = e.cleared
<1> PICK r : r = vt_ept_extern_mapsearch(e, A) OBVIOUS
<1>1. PICK lev, pre : Tree(e, lev, pre, M) /\ KeptOn(e, lev, pre) /\ Lean(e, lev, pre, X)
  BY DEF Good
<1>2. e \in Ept /\ Numbered(e, lev, pre) /\ AllRight(e, lev, pre, M) BY <1>1 DEF Tree
<1> DEFINE New(t, i) == IF t \in 1 .. e.cnt /\ Overlaps(e.tables[t][i], A)
                        THEN NoEntry ELSE e.tables[t][i]
<1> PICK T : T = [t \in Table |-> [i \in {0, 1} |-> New(t, i)]] OBVIOUS
<1>3. r = [e EXCEPT !.tables = T] BY <1>2 DEF vt_ept_extern_mapsearch, searched, Ept
<1>4. T \in [Table -> [{0, 1} -> Entry]]
  <2>1. ASSUME NEW t \in Table, NEW i \in {0, 1} PROVE New(t, i) \in Entry
    <3>1. NoEntry \in Entry BY DEF Entry
    <3>2. e.tables[t][i] \in Entry BY <1>2 DEF Ept
    <3> QED BY <3>1, <3>2
  <2> HIDE DEF New
  <2> QED BY <2>1
<1>5. /\ r \in Ept /\ r.tables = T /\ r.cnt = e.cnt /\ r.cleared = e.cleared
      /\ r.level = e.level /\ r.entry = e.entry /\ r.gphys = e.gphys
  BY <1>2, <1>3, <1>4 DEF Ept
<1>6. Slots(r) = Slots(e) BY <1>5 DEF Slots
<1>7. ASSUME NEW s \in Slots(e)
      PROVE  Read(r, s) = IF s[1] # 0 /\ Overlaps(Read(e, s), A) THEN NoEntry ELSE Read(e, s)
  <2>1. s[1] \in 0 .. e.cnt /\ s[1] \in Table /\ s[2] \in {0, 1} /\ e.cnt \in Nat
    BY <1>2, <1>7, SlotOf, Levels DEF Ept
  <2>2. Read(r, s) = New(s[1], s[2])
    <3> HIDE DEF New
    <3> QED BY <1>5, <2>1 DEF Read
  <2>3. s[1] \in 1 .. e.cnt <=> s[1] # 0 BY <2>1
  <2> QED BY <2>2, <2>3 DEF Read
<1> HIDE DEF New
<1>8. ASSUME NEW s \in Slots(e), Read(e, s).to = "table" PROVE Read(r, s) = Read(e, s)
  <2>1. ~ Overlaps(Read(e, s), A) BY <1>8 DEF Overlaps
  <2> QED BY <1>7, <1>8, <2>1
<1>9. ASSUME NEW s \in Slots(e), Read(r, s).to = "table" PROVE Read(r, s) = Read(e, s)
  BY <1>7, <1>9 DEF NoEntry
<1>10. Numbered(r, lev, pre)
  <2>1. \A s \in Slots(r) : Read(r, s).to = "table" =>
          LET a == Read(r, s).at
          IN a \in 1 .. r.cnt /\ lev[s[1]] = lev[a] + 1 /\ pre[a] = 2 * pre[s[1]] + s[2]
    <3> SUFFICES ASSUME NEW s \in Slots(e), Read(r, s).to = "table"
                 PROVE  LET a == Read(r, s).at
                        IN a \in 1 .. e.cnt /\ lev[s[1]] = lev[a] + 1
                           /\ pre[a] = 2 * pre[s[1]] + s[2]
      BY <1>5, <1>6
    <3>1. Read(r, s) = Read(e, s) BY <1>9
    <3> QED BY <1>2, <3>1 DEF Numbered
  <2>2. \A a \in 1 .. r.cnt :
          \E s \in Slots(r) : Read(r, s).to = "table" /\ Read(r, s).at = a
    <3> SUFFICES ASSUME NEW a \in 1 .. e.cnt
                 PROVE  \E s \in Slots(r) : Read(r, s).to = "table" /\ Read(r, s).at = a
      BY <1>5
    <3>1. PICK s \in Slots(e) : Read(e, s).to = "table" /\ Read(e, s).at = a
      BY <1>2 DEF Numbered
    <3> QED BY <1>6, <1>8, <3>1
  <2>3. \A t, u \in 0 .. r.cnt : lev[t] = lev[u] /\ pre[t] = pre[u] => t = u
    BY <1>2, <1>5 DEF Numbered
  <2> QED BY <1>2, <2>1, <2>2, <2>3 DEF Numbered
<1>11. AllRight(r, lev, pre, M \cup A)
  <2> SUFFICES ASSUME NEW s \in Slots(e)
               PROVE  Right(Read(r, s), lev[s[1]], 2 * pre[s[1]] + s[2], M \cup A)
    BY <1>6 DEF AllRight
  <2> PICK x, l, n : x = Read(e, s) /\ l = lev[s[1]] /\ n = 2 * pre[s[1]] + s[2] OBVIOUS
  <2>1. Right(x, l, n, M) BY <1>2 DEF AllRight
  <2>2. CASE s[1] # 0 /\ Overlaps(x, A) BY <1>7, <2>2 DEF Right, NoEntry
  <2>3. CASE s[1] = 0
    <3>1. l = Top BY <1>2, <2>3, Levels DEF Numbered
    <3>2. x.to \notin {"page", "large"} BY <2>1, <3>1, Levels DEF Right
    <3>3. Read(r, s) = x BY <1>7, <2>3
    <3> QED BY <2>1, <3>2, <3>3 DEF Right
  <2>4. CASE s[1] # 0 /\ ~ Overlaps(x, A)
    <3>1. Read(r, s) = x BY <1>7, <2>4
    <3>2. ASSUME x.to = "page" PROVE n \notin A
      <4>1. x = PageEntry(n) /\ x.at \notin A BY <2>1, <2>4, <3>2 DEF Right, Overlaps
      <4>2. n \in Vmm => n \notin A BY EptAssumption
      <4> QED BY <4>1, <4>2 DEF PageEntry
    <3>3. ASSUME x.to = "large" PROVE 2 * n \notin A /\ 2 * n + 1 \notin A
      <4>1. x.at = 2 * n /\ LargePage(2 * n) \cap A = {} BY <2>1, <2>4, <3>3 DEF Right, Overlaps
      <4>2. n \in Nat
        <5>1. s[1] \in Table /\ s[2] \in {0, 1} BY <1>2, SlotOf
        <5>2. pre[s[1]] \in Nat BY <1>2, <5>1 DEF Numbered
        <5> QED BY <5>1, <5>2
      <4>3. LargeOf(2 * n) = n BY <4>2 DEF LargeOf
      <4> QED BY <4>1, <4>3 DEF LargePage
    <3> QED BY <2>1, <3>1, <3>2, <3>3 DEF Right
  <2> QED BY <2>2, <2>3, <2>4
<1>12. KeptOn(r, lev, pre) BY <1>1, <1>5, <1>6 DEF KeptOn
<1>13. Lean(r, lev, pre, X) BY <1>1, <1>5 DEF Lean
<1> QED BY <1>5, <1>10, <1>11, <1>12, <1>13 DEF Good, Tree

\* Where there is nothing of the area it does nothing.
LEMMA NothingFound ==
  ASSUME NEW e \in Ept, NEW A,
         \A t \in searched(e), i \in {0, 1} : ~ Overlaps(e.tables[t][i], A)
  PROVE  vt_ept_extern_mapsearch(e, A) = e
<1> DEFINE New(t, i) == IF t \in searched(e) /\ Overlaps(e.tables[t][i], A)
                        THEN NoEntry ELSE e.tables[t][i]
<1> PICK T : T = [t \in Table |-> [i \in {0, 1} |-> New(t, i)]] OBVIOUS
<1>1. vt_ept_extern_mapsearch(e, A) = [e EXCEPT !.tables = T]
  BY DEF vt_ept_extern_mapsearch, Ept
<1>2. \A t \in Table, i \in {0, 1} : New(t, i) = e.tables[t][i] OBVIOUS
<1> HIDE DEF New
<1>3. \A t \in Table : [i \in {0, 1} |-> New(t, i)] = e.tables[t]
  <2> SUFFICES ASSUME NEW t \in Table PROVE [i \in {0, 1} |-> New(t, i)] = e.tables[t]
    OBVIOUS
  <2>1. e.tables[t] \in [{0, 1} -> Entry] BY DEF Ept
  <2>2. e.tables[t] = [i \in {0, 1} |-> e.tables[t][i]] BY <2>1
  <2> QED BY <1>2, <2>2
<1>4. e.tables = [t \in Table |-> e.tables[t]] BY DEF Ept
<1>5. T = e.tables BY <1>3, <1>4
<1> QED BY <1>1, <1>5 DEF Ept

-----------------------------------------------------------------------------
\* The invariant.  Tables of pages are in use in a cleared processor only if
\* the ranges of getforcemap did not fit: it maps large pages alone until then.
IInv ==
  /\ areas \subseteq Areas
  /\ large \in BOOLEAN
  /\ low \in 0 .. LowPages
  /\ fault \in Page \cup {NoPage}
  /\ panic \in BOOLEAN
  /\ Good(ept, Mmio, Nat)
  /\ ept.cleared /\ ~ panic => Good(ept, Mmio, {})
  /\ FaultResolved
  /\ RangesFit

LEMMA InitInv == Init => IInv
<1> SUFFICES ASSUME Init PROVE IInv OBVIOUS
<1>1. Good(ept, Mmio, Nat) /\ Good(ept, Mmio, {}) BY ForgetAll DEF Init
<1>2. LowPages \in 0 .. LowPages BY EptAssumption
<1> QED BY <1>1, <1>2 DEF Init, IInv, FaultResolved, RangesFit

LEMMA LookedAt ==
  ASSUME NEW X, Good(ept, Mmio, X), NEW g \in Page
  PROVE  /\ Good(looked(g), Mmio, X) /\ looked(g).cleared = ept.cleared
         /\ \A h \in Page : Found(looked(g), h) = Found(ept, h)
BY GoodMove DEF looked

LEMMA ViolationLarge ==
  ASSUME IInv, NEW g \in Page, violation_large(g)
  PROVE  IInv'
<1>1. /\ ~ panic /\ large_fits(ept, g) /\ ept' = vt_ept_map_2mpage(cur_move(ept, g), g)
      /\ fault' = g /\ UNCHANGED <<areas, large, low, panic>>
  BY DEF violation_large, Guest, looked
<1>2. Mmio' = Mmio BY <1>1 DEF Mmio
<1>3. Maps(ept, ept', Mmio, Nat, {}) /\ \A h \in LargePage(g) : Mapped(ept', h)
  BY <1>1, Map2m DEF IInv
<1>4. Mapped(ept', g) BY <1>3, LargePageIs
<1>5. ept'.cleared => Good(ept', Mmio, {})
  <2>1. CASE ept.cleared
    <3>1. Good(ept, Mmio, {}) BY <1>1, <2>1 DEF IInv
    <3>2. Maps(ept, ept', Mmio, {}, {}) BY <1>1, <3>1, Map2m
    <3> QED BY <3>2 DEF Maps
  <2>2. CASE ~ ept.cleared BY <1>3, <2>2 DEF Maps
  <2> QED BY <2>1, <2>2
<1>6. FaultResolved' BY <1>1, <1>4 DEF FaultResolved
<1> QED BY <1>1, <1>2, <1>3, <1>5, <1>6 DEF IInv, Maps, RangesFit

LEMMA ViolationMmio ==
  ASSUME IInv, NEW g \in Page, violation_mmio(g)
  PROVE  IInv'
<1>1. /\ ~ panic /\ ept' = looked(g) /\ fault' = NoPage /\ UNCHANGED <<areas, large, low, panic>>
  BY DEF violation_mmio, Guest
<1>2. Mmio' = Mmio BY <1>1 DEF Mmio
<1>3. Good(ept', Mmio, Nat) /\ ept'.cleared = ept.cleared BY <1>1, LookedAt DEF IInv
<1>4. ept'.cleared => Good(ept', Mmio, {})
  <2> SUFFICES ASSUME ept'.cleared PROVE Good(ept', Mmio, {}) OBVIOUS
  <2>1. Good(ept, Mmio, {}) BY <1>1, <1>3 DEF IInv
  <2> QED BY <1>1, <2>1, LookedAt
<1> QED BY <1>1, <1>2, <1>3, <1>4 DEF IInv, FaultResolved, RangesFit

LEMMA MapPageStep ==
  ASSUME IInv, ~ panic, NEW e, NEW g \in Page, g \notin Mmio,
         \A X : Good(ept, Mmio, X) => Good(e, Mmio, X), e.cleared = ept.cleared,
         map_page(e, g), UNCHANGED <<areas, large>>, low' \in 0 .. LowPages
  PROVE  IInv'
<1>1. ept' = vt_ept_map_page(e, g) /\ fault' = g
      /\ panic' = (force_if_cleared(e).cleared \/ ept'.cleared)
  BY DEF map_page
<1> PICK o : o = force_if_cleared(e) OBVIOUS
<1>2. Mmio' = Mmio BY DEF Mmio
<1>3. Good(e, Mmio, Nat) /\ (e.cleared => Good(e, Mmio, {})) BY DEF IInv
<1>4. /\ Good(ept', Mmio, Nat) /\ Good(o, Mmio, Nat)
      /\ ~ o.cleared /\ ~ ept'.cleared => Mapped(ept', g)
      /\ Room => ~ o.cleared /\ ~ ept'.cleared
  BY <1>1, <1>3, MapPage DEF IInv
<1>5. panic' \in BOOLEAN
  <2>1. o.cleared \in BOOLEAN /\ ept'.cleared \in BOOLEAN BY <1>4 DEF Good, Tree, Ept
  <2> QED BY <1>1, <2>1
<1>6. ~ panic' => ~ o.cleared /\ ~ ept'.cleared BY <1>1
<1>7. FaultResolved' BY <1>1, <1>4, <1>6 DEF FaultResolved
<1>8. RangesFit' BY <1>1, <1>4 DEF RangesFit, Room
<1> QED BY <1>1, <1>2, <1>4, <1>5, <1>6, <1>7, <1>8 DEF IInv

LEMMA ViolationPage ==
  ASSUME IInv, NEW g \in Page, violation_page(g)
  PROVE  IInv'
<1>1. \A X : Good(ept, Mmio, X) => Good(looked(g), Mmio, X) BY LookedAt
<1>2. looked(g).cleared = ept.cleared BY LookedAt DEF IInv
<1> QED BY <1>1, <1>2, MapPageStep DEF violation_page, Guest, IInv

LEMMA LowPage ==
  ASSUME IInv, low < LowPages
  PROVE  low \in Page /\ low + 1 \in 0 .. LowPages /\ low \in 0 .. LowPages - 1
<1>1. low \in Nat /\ LowPages \in Nat /\ LowPages - 1 <= 2 ^ EPT_LEVELS - 1
      /\ 2 ^ EPT_LEVELS \in Nat
  BY EptAssumption, Levels DEF IInv, Page
<1> PICK n : n = 2 ^ EPT_LEVELS OBVIOUS
<1>2. low <= n - 1 BY <1>1
<1> QED BY <1>1, <1>2 DEF Page

LEMMA Map1mbPage ==
  ASSUME IInv, map_1mb_page
  PROVE  IInv'
<1>1. low < LowPages /\ ~ panic /\ low' = low + 1 /\ UNCHANGED <<areas, large>>
  BY DEF map_1mb_page
<1>2. low \in Page /\ low' \in 0 .. LowPages BY <1>1, LowPage
<1>3. CASE low \in Mmio
  <2>1. fault' = NoPage /\ UNCHANGED <<ept, panic>> BY <1>3 DEF map_1mb_page
  <2>2. Mmio' = Mmio BY <1>1 DEF Mmio
  <2> QED BY <1>1, <1>2, <2>1, <2>2 DEF IInv, FaultResolved, RangesFit
<1>4. CASE low \notin Mmio
  <2>1. map_page(ept, low) BY <1>4 DEF map_1mb_page
  <2> QED BY <1>1, <1>2, <1>4, <2>1, MapPageStep
<1> QED BY <1>3, <1>4

LEMMA ForgetStep ==
  ASSUME IInv, ~ panic, ept' = vt_ept_clear_all(ept), fault' = NoPage,
         UNCHANGED <<areas, large, panic>>, low' \in 0 .. LowPages
  PROVE  IInv'
<1>1. Mmio' = Mmio BY DEF Mmio
<1>2. ept \in Ept BY DEF IInv, Good, Tree
<1>3. Good(ept', Mmio, Nat) /\ Good(ept', Mmio, {}) BY <1>2, ForgetAll
<1> QED BY <1>1, <1>3 DEF IInv, FaultResolved, RangesFit

LEMMA AreasStep ==
  ASSUME IInv, ~ panic, NEW A \in Areas,
         \/ ept' = vt_ept_extern_mapsearch(ept, A) /\ areas' \in {areas, areas \cup {A}}
         \/ ept' = ept /\ areas' \subseteq areas,
         fault' = NoPage, UNCHANGED <<large, low, panic>>
  PROVE  IInv'
<1>1. areas' \subseteq Areas BY DEF IInv
<1>2. ASSUME NEW X, Good(ept, Mmio, X)
      PROVE  Good(ept', Mmio', X) /\ ept'.cleared = ept.cleared
  <2>1. CASE ept' = vt_ept_extern_mapsearch(ept, A) /\ areas' \in {areas, areas \cup {A}}
    <3>1. Mmio' \subseteq Mmio \cup A BY <2>1 DEF Mmio
    <3>2. Good(ept', Mmio \cup A, X) /\ ept'.cleared = ept.cleared BY <1>2, <2>1, MapSearch
    <3>3. X \cap Nat \subseteq X OBVIOUS
    <3> QED BY <3>1, <3>2, <3>3, GoodLess
  <2>2. CASE ept' = ept /\ areas' \subseteq areas
    <3>1. Mmio' \subseteq Mmio BY <2>2 DEF Mmio
    <3>2. X \cap Nat \subseteq X OBVIOUS
    <3>3. Good(ept, Mmio', X) BY <1>2, <3>1, <3>2, GoodLess
    <3> QED BY <2>2, <3>3
  <2> QED BY <2>1, <2>2
<1>3. Good(ept', Mmio', Nat) /\ ept'.cleared = ept.cleared BY <1>2 DEF IInv
<1>4. ept'.cleared => Good(ept', Mmio', {}) BY <1>2, <1>3 DEF IInv
<1> QED BY <1>1, <1>3, <1>4 DEF IInv, FaultResolved, RangesFit

LEMMA NextInv == IInv /\ [Next]_vars => IInv'
<1> SUFFICES ASSUME IInv, [Next]_vars PROVE IInv' OBVIOUS
<1>1. ASSUME NEW g \in Page, violation_large(g) \/ violation_mmio(g) \/ violation_page(g)
      PROVE  IInv'
  BY <1>1, ViolationLarge, ViolationMmio, ViolationPage
<1>2. CASE clear_all
  <2>1. low' \in 0 .. LowPages BY <1>2 DEF clear_all, IInv
  <2> QED BY <1>2, <2>1, ForgetStep DEF clear_all, Guest
<1>3. CASE vt_ept_map_1mb
  <2>1. low' \in 0 .. LowPages BY <1>3, EptAssumption DEF vt_ept_map_1mb
  <2> QED BY <1>3, <2>1, ForgetStep DEF vt_ept_map_1mb, Guest
<1>4. CASE map_1mb_page BY <1>4, Map1mbPage
<1>5. ASSUME NEW A \in Areas \ areas, register(A) PROVE IInv'
  BY <1>5, AreasStep DEF register, Guest
<1>6. ASSUME NEW A \in Areas \ areas, register_other(A) PROVE IInv'
  <2>1. ept \in Ept BY DEF IInv, Good, Tree
  <2>2. vt_ept_extern_mapsearch(ept, A) = ept BY <1>6, <2>1, NothingFound DEF register_other
  <2>3. /\ ~ panic /\ areas' = areas \cup {A} /\ fault' = NoPage
        /\ ept' = ept /\ UNCHANGED <<large, low, panic>>
    BY <1>6 DEF register_other
  <2>4. ept' = vt_ept_extern_mapsearch(ept, A) BY <2>2, <2>3
  <2>5. areas' \in {areas, areas \cup {A}} BY <2>3
  <2>6. \/ ept' = vt_ept_extern_mapsearch(ept, A) /\ areas' \in {areas, areas \cup {A}}
        \/ ept' = ept /\ areas' \subseteq areas
    BY <2>4, <2>5
  <2>7. A \in Areas /\ ~ panic /\ fault' = NoPage /\ UNCHANGED <<large, low, panic>> BY <2>3
  <2> HIDE <1>6
  <2> QED BY <2>6, <2>7, AreasStep, Zenon
<1>7. ASSUME NEW A \in areas, unregister(A) PROVE IInv'
  <2>1. A \in Areas BY DEF IInv
  <2> QED BY <1>7, <2>1, AreasStep DEF unregister
<1>8. CASE UNCHANGED vars
  <2>1. Mmio' = Mmio BY <1>8 DEF vars, Mmio
  <2> QED BY <1>8, <2>1 DEF vars, IInv, FaultResolved, RangesFit
<1> QED BY <1>1, <1>2, <1>3, <1>4, <1>5, <1>6, <1>7, <1>8 DEF Next

\* The tables are always a tree with a walk, and what they map is right, whatever
\* vt_ept_violation, map_1mb and the registering of areas do in what order.
THEOREM EptInvariant == Spec => []IInv
<1>1. Init => IInv BY InitInv
<1>2. IInv /\ [Next]_vars => IInv' BY NextInv
<1> QED BY <1>1, <1>2, PTL DEF Spec

-----------------------------------------------------------------------------
\* What the invariant says of what is checked.
LEMMA InvType == IInv => TypeOK
BY DEF IInv, Good, Tree, TypeOK

LEMMA InvWalk == IInv => WalkIsTrue
<1> SUFFICES ASSUME IInv PROVE WalkIsTrue OBVIOUS
<1> PICK e : e = ept OBVIOUS
<1>1. PICK lev, pre : Tree(e, lev, pre, Mmio) /\ KeptOn(e, lev, pre) BY DEF IInv, Good
<1>2. e \in Ept /\ Numbered(e, lev, pre) BY <1>1 DEF Tree
<1>3. e.cnt \in Nat /\ e.gphys \in Page BY <1>2, Levels DEF Ept
<1>4. InUse \X {0, 1} = Slots(e)
  <2>1. InUse = 0 .. e.cnt BY <1>3, Levels DEF InUse
  <2> QED BY <2>1 DEF Slots
<1> DEFINE points == {p \in Slots(e) : Read(e, p).to = "table"}
           f == [p \in points |-> Read(e, p).at]
           To == 1 .. e.cnt
<1>5. \A p \in points : Read(e, p).at \in To BY <1>2 DEF Numbered
<1>6. \A a \in To : \E p \in points : Read(e, p).at = a BY <1>2 DEF Numbered
<1>7. {Read(e, p).at : p \in points} = To
  <2> HIDE DEF points, To
  <2> QED BY <1>5, <1>6
\* Two entries that lead to one table are one.
<1>8. ASSUME NEW p \in points, NEW q \in points, Read(e, p).at = Read(e, q).at PROVE p = q
  <2> PICK a, i, j : a = Read(e, p).at /\ i = p[2] /\ j = q[2] OBVIOUS
  <2>1. /\ lev[p[1]] = lev[a] + 1 /\ pre[a] = 2 * pre[p[1]] + i
        /\ lev[q[1]] = lev[a] + 1 /\ pre[a] = 2 * pre[q[1]] + j
    BY <1>2, <1>8 DEF Numbered
  <2>2. /\ p = <<p[1], i>> /\ p[1] \in 0 .. e.cnt /\ p[1] \in Table /\ i \in {0, 1}
        /\ q = <<q[1], j>> /\ q[1] \in 0 .. e.cnt /\ q[1] \in Table /\ j \in {0, 1}
    BY <1>2, SlotOf
  <2>3. pre[p[1]] \in Nat /\ pre[q[1]] \in Nat BY <1>2, <2>2 DEF Numbered
  <2>4. pre[p[1]] = pre[q[1]] /\ i = j
    <3> PICK m, n : m = pre[p[1]] /\ n = pre[q[1]] OBVIOUS
    <3>1. 2 * m + i = 2 * n + j /\ m \in Nat /\ n \in Nat BY <2>1, <2>3
    <3>2. m = n /\ i = j BY <2>2, <3>1
    <3> QED BY <3>2
  <2>5. p[1] = q[1] BY <1>2, <2>1, <2>2, <2>4 DEF Numbered
  <2> QED BY <2>2, <2>4, <2>5
<1>9. Cardinality(points) = e.cnt
  <2>1. IsFiniteSet(Slots(e))
    <3>0. 0 \in Int /\ 1 \in Int /\ e.cnt \in Int BY <1>3
    <3>1. IsFiniteSet(0 .. e.cnt) /\ IsFiniteSet(0 .. 1) BY <3>0, FS_Interval
    <3>2. {0, 1} = 0 .. 1 OBVIOUS
    <3> QED BY <3>1, <3>2, FS_Product DEF Slots
  <2>2. points \in SUBSET Slots(e) OBVIOUS
  <2>3. IsFiniteSet(points) BY <2>1, <2>2, FS_Subset
  <2>4. f \in Bijection(points, To)
    <3> HIDE DEF points, To
    <3>1. f \in [points -> To] BY <1>5
    <3>2. \A p, q \in points : f[p] = f[q] => p = q BY <1>8
    <3>3. \A a \in To : \E p \in points : f[p] = a BY <1>6
    <3> HIDE DEF f
    <3> QED BY <3>1, <3>2, <3>3 DEF Bijection, Injection, Surjection, IsInjective
  <2>5. ExistsBijection(points, To) BY <2>4 DEF ExistsBijection
  <2>6. Cardinality(To) = Cardinality(points)
    <3> HIDE DEF points, To
    <3> QED BY <2>3, <2>5, FS_Bijection
  <2>7. Cardinality(To) = e.cnt
    <3>1. 1 \in Int /\ e.cnt \in Int BY <1>3
    <3>2. 1 > e.cnt => e.cnt = 0 BY <1>3
    <3> QED BY <1>3, <3>1, <3>2, FS_Interval
  <2> QED BY <2>6, <2>7
<1>10. ASSUME NEW l \in Level, l >= e.level PROVE e.entry[l] = Walk(e, e.gphys)[l]
  <2>1. e.entry[l] \in Slots(e) /\ Stands(lev, pre, e.entry[l], l, e.gphys)
    BY <1>1, <1>10 DEF KeptOn
  <2> QED BY <1>2, <1>3, <2>1, WalkAt
<1> QED BY <1>4, <1>7, <1>9, <1>10, InvType DEF WalkIsTrue

LEMMA InvMapped == IInv => MappedRightly
<1> SUFFICES ASSUME IInv, NEW g \in Page
             PROVE  LET x == Found(ept, g) IN
                    /\ x # Garbage
                    /\ x.to = "page" => x = PageEntry(g)
                    /\ x.to = "large" => /\ x.at = 2 * LargeOf(g)
                                         /\ g \notin Vmm /\ LargeOf(g) \notin Uneven
                    /\ g \in Mmio => ~ Mapped(ept, g)
  BY DEF MappedRightly
<1> PICK x : x = Found(ept, g) OBVIOUS
<1>1. PICK l \in Level : Right(x, l, Above(g, l), Mmio) BY FoundRight DEF IInv
<1>2. x # Garbage BY <1>1 DEF Right, Garbage
<1>3. x.to = "page" => x = PageEntry(g) /\ g \notin Mmio BY <1>1, AboveEnds DEF Right
<1> PICK n : n = LargeOf(g) OBVIOUS
<1>4. x.to = "large" => /\ x.at = 2 * n /\ n \notin Uneven
                        /\ 2 * n \notin Vmm /\ 2 * n + 1 \notin Vmm
                        /\ 2 * n \notin Mmio /\ 2 * n + 1 \notin Mmio
  BY <1>1, AboveEnds DEF Right
<1>5. g \in {2 * n, 2 * n + 1} BY LargePageIs
<1> QED BY <1>2, <1>3, <1>4, <1>5 DEF Mapped

\* cur_fill and cur_move: every table in use is at one place of the tree, and the
\* kept walk is what a walk from the root finds.
THEOREM WalkAlwaysTrue == Spec => []WalkIsTrue
BY EptInvariant, InvWalk, PTL

\* Pages are mapped to themselves, the VMM's to the blank page, and no page of a
\* registered area is, for vt_ept_violation, vt_ept_map_1mb, getforcemap's ranges
\* and mmio_register.
THEOREM AlwaysMappedRightly == Spec => []MappedRightly
BY EptInvariant, InvMapped, PTL

\* vt_ept_violation and vt_ept_map_1mb return with their page mapped, whether or not
\* the pool was used up on the way.
THEOREM AlwaysFaultResolved == Spec => []FaultResolved
<1>1. IInv => FaultResolved BY DEF IInv
<1> QED BY <1>1, EptInvariant, PTL

\* vt_ept_map_page does not panic ("cleared again") if the tables that the ranges of
\* getforcemap and one page need fit the pool beside those of large pages.
THEOREM RangesAlwaysFit == Spec => []RangesFit
<1>1. IInv => RangesFit BY DEF IInv
<1> QED BY <1>1, EptInvariant, PTL

-----------------------------------------------------------------------------
\* What a step keeps of the ranges of getforcemap: the action of ForcedKept.
Kept == ~ ept'.cleared /\ areas' = areas /\ fault' # NoPage =>
          \A g \in Forced \ Mmio :
            /\ ept.cleared \/ Mapped(ept, g)
            /\ large \/ LargeOf(g) # LargeOf(fault')
            => Mapped(ept', g)

LEMMA KeptLarge ==
  ASSUME IInv, NEW g \in Page, violation_large(g)
  PROVE  Kept
<1>1. large_fits(ept, g) /\ ept' = vt_ept_map_2mpage(cur_move(ept, g), g)
  BY DEF violation_large, looked
<1>2. Maps(ept, ept', Mmio, Nat, {}) /\ Keeps(ept, ept', g, FALSE)
  BY <1>1, Map2m DEF IInv
<1>3. Forced \subseteq Page BY EptAssumption
<1> QED BY <1>2, <1>3 DEF Maps, Keeps, Kept

\* The source does not split a large page: the one that the ranges brought back
\* would have been mapped at once for the fault.
LEMMA NotSplit ==
  ASSUME IInv, NEW g \in Page, violation_page(g), large
  PROVE  Found(force_if_cleared(looked(g)), g).to # "large"
<1> PICK e : e = looked(g) OBVIOUS
<1> PICK o : o = force_if_cleared(e) OBVIOUS
<1>1. ~ panic /\ ~ Mapped(ept, g) /\ ~ large_fits(ept, g) /\ g \notin Mmio
  BY DEF violation_page, Guest
<1>2. /\ Good(e, Mmio, Nat) /\ e.cleared = ept.cleared
      /\ \A h \in Page : Found(e, h) = Found(ept, h)
  BY LookedAt DEF IInv
<1>3. CASE ~ ept.cleared
  <2>1. o = e BY <1>2, <1>3 DEF force_if_cleared
  <2> QED BY <1>1, <1>2, <2>1 DEF Mapped
<1>4. CASE ept.cleared
  <2> SUFFICES ASSUME Found(o, g).to = "large" PROVE FALSE OBVIOUS
  <2>1. Good(o, Mmio, Nat) BY <1>1, <1>2, MapPage DEF IInv
  <2>2. large_fits(o, g) BY <2>1, LargeMeansFits
  <2>3. Good(ept, Mmio, {}) BY <1>1, <1>4 DEF IInv
  <2>4. cur_move(ept, g).level > 0 BY <2>3, LeanLevel
  <2>5. large_fits(ept, g) BY <2>2, <2>4 DEF large_fits, may_map_large
  <2> QED BY <1>1, <2>5
<1> QED BY <1>3, <1>4

LEMMA KeptPage ==
  ASSUME IInv, NEW g \in Page, violation_page(g)
  PROVE  Kept
<1> PICK e : e = looked(g) OBVIOUS
<1> PICK o : o = force_if_cleared(e) OBVIOUS
<1>1. g \notin Mmio /\ ept' = vt_ept_map_page(e, g) /\ fault' = g
  BY DEF violation_page, map_page
<1>2. /\ Good(e, Mmio, Nat) /\ e.cleared = ept.cleared
      /\ \A h \in Page : Found(e, h) = Found(ept, h)
  BY LookedAt DEF IInv
<1>3. \A h \in Page : Mapped(ept, h) = Mapped(e, h) BY <1>2 DEF Mapped
<1>4. Forced \subseteq Page BY EptAssumption
<1>5. ~ ept'.cleared => \A h \in Forced \ Mmio : e.cleared \/ Mapped(e, h) =>
         Mapped(ept', h) \/ (Found(o, g).to = "large" /\ LargeOf(h) = LargeOf(g))
  BY <1>1, <1>2, MapPage DEF IInv
<1>6. large => Found(o, g).to # "large" BY NotSplit
<1> QED BY <1>1, <1>2, <1>3, <1>4, <1>5, <1>6 DEF Kept

LEMMA KeptLow ==
  ASSUME LowUneven, IInv, map_1mb_page
  PROVE  Kept
<1>1. low < LowPages BY DEF map_1mb_page
<1>2. low \in Page /\ low \in 0 .. LowPages - 1 BY <1>1, LowPage
<1>3. CASE low \in Mmio BY <1>3 DEF map_1mb_page, Kept
<1>4. CASE low \notin Mmio
  <2> PICK o : o = force_if_cleared(ept) OBVIOUS
  <2>1. ept' = vt_ept_map_page(ept, low) BY <1>4 DEF map_1mb_page, map_page
  <2>2. /\ Good(o, Mmio, Nat)
        /\ ~ ept'.cleared => \A h \in Forced \ Mmio : ept.cleared \/ Mapped(ept, h) =>
             Mapped(ept', h) \/ (Found(o, low).to = "large" /\ LargeOf(h) = LargeOf(low))
    BY <1>2, <1>4, <2>1, MapPage DEF IInv
  <2>3. Found(o, low).to # "large"
    <3> SUFFICES ASSUME Found(o, low).to = "large" PROVE FALSE OBVIOUS
    <3>1. large_fits(o, low) BY <1>2, <2>2, LargeMeansFits
    <3> QED BY <1>2, <3>1 DEF large_fits, may_map_large, LowUneven
  <2> QED BY <2>2, <2>3 DEF Kept
<1> QED BY <1>3, <1>4

\* vt_ept_map_page and vt_ept_map_page_clear_cleared: mapping a page for a fault
\* never loses a page of the ranges, but one of a large page that the destination
\* splits.  On a processor whose low memory is never mapped as large.
THEOREM AlwaysForcedKept == ASSUME LowUneven PROVE Spec => ForcedKept
<1>1. IInv /\ [Next]_vars => [Kept]_vars
  <2> SUFFICES ASSUME IInv, Next PROVE Kept OBVIOUS
  <2>1. ASSUME NEW g \in Page, violation_large(g) \/ violation_mmio(g) \/ violation_page(g)
        PROVE  Kept
    <3>1. CASE violation_mmio(g) BY <3>1 DEF violation_mmio, Kept
    <3> QED BY <2>1, <3>1, KeptLarge, KeptPage
  <2>2. CASE map_1mb_page BY <2>2, KeptLow
  <2>3. CASE \/ clear_all \/ vt_ept_map_1mb
             \/ \E A \in Areas \ areas : register(A) \/ register_other(A)
             \/ \E A \in areas : unregister(A)
    <3>1. fault' = NoPage
      BY <2>3 DEF clear_all, vt_ept_map_1mb, register, register_other, unregister
    <3> QED BY <3>1 DEF Kept
  <2> QED BY <2>1, <2>2, <2>3 DEF Next
<1> QED BY <1>1, EptInvariant, PTL DEF Spec, ForcedKept, Kept
=============================================================================
