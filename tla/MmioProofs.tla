----------------------------- MODULE MmioProofs -----------------------------
(***************************************************************************)
(* Proofs about module Mmio, for every number of processors, handles and   *)
(* pages, and every width of an address and of the lock's word that has    *)
(* room for them.                                                          *)
(***************************************************************************)
EXTENDS Mmio, ListLemmas, FiniteSetTheorems

-----------------------------------------------------------------------------
(***************************************************************************)
(* The inductive invariant: the lists hold the handles that are not free,  *)
(* each in the lists of its area and in the order of the addresses; areas  *)
(* are apart; the word of the lock counts those that read; and a handle    *)
(* that is used, owned or being unregistered is one that is not free.      *)
(***************************************************************************)
start == [x \in Handle |-> area[x].gphys]

ListsInv ==
  /\ Once(handles) /\ ToSet(handles) = allocated
  /\ \A i \in Buckets :
       /\ Once(mmio[i])
       /\ ToSet(mmio[i]) = {x \in allocated : i \in BucketsOf(area[x])}
       /\ InOrder(mmio[i], start)

Apart == \A x, y \in Registered : x # y => Pages(area[x]) \cap Pages(area[y]) = {}

\* A processor inside the lock, shared, is in a handler, also when this one
\* unregisters an area.
Handling(c) ==
  pc[c] = "handler" \/ (pc[c] \in {"mark", "set_flag"} /\ caller[c] = "handler")
Inside(c)  == pc[c] \in {"locked", "interpret", "unlock"} \/ Handling(c)
Reading(c) == pc[c] \in {"lock", "relock"} \/ Inside(c)
Writing(c) == pc[c] \in {"clear_flag", "scan", "register", "delete", "release"}

Readers == {c \in Cpu : Reading(c)}
Written == \E c \in Cpu : Writing(c)

RwInv ==
  /\ rwlock = Cardinality(Readers) + IF Written THEN Sign ELSE 0
  /\ \A c, d \in Cpu : Writing(c) => ~Inside(d) /\ (Writing(d) => c = d)

UseInv ==
  \A c \in Cpu : /\ h[c] # NULL => Handling(c) /\ h[c] \in allocated
                 /\ caller[c] = "handler" => pc[c] \in {"mark", "set_flag"}

Leaving(c) == pc[c] \in {"delete", "mark"}

OwnInv ==
  /\ owned \subseteq allocated
  /\ \A x \in Handle : unregistered[x] => x \in allocated \ owned
  /\ \A c \in Cpu :
       /\ pc[c] \notin {"scan", "delete", "mark"} => rest[c] = <<>>
       /\ pc[c] = "scan" => rest[c] \in Seq(allocated) /\ Once(rest[c])
       /\ Leaving(c) =>
            \E x \in allocated \ owned : rest[c] = <<x>> /\ ~unregistered[x]
  /\ \A c, d \in Cpu : Leaving(c) /\ Leaving(d) /\ rest[c] = rest[d] => c = d

HandleInv == TypeOK /\ ListsInv /\ RwInv /\ UseInv /\ OwnInv
MmioInv   == HandleInv /\ Apart /\ NeverMapped /\ RemovedLater

-----------------------------------------------------------------------------
(***************************************************************************)
(* Addresses.  What SMT knows of \div and % is enough when the divisor has *)
(* a name.                                                                 *)
(***************************************************************************)
LEMMA Divided ==
  ASSUME NEW M \in Nat \ {0}, NEW a \in Nat
  PROVE  /\ a \div M \in Nat /\ a % M \in 0 .. M - 1
         /\ a = M * (a \div M) + (a % M)
OBVIOUS

LEMMA DividedInOrder ==
  ASSUME NEW M \in Nat \ {0}, NEW a \in Nat, NEW b \in Nat, a <= b
  PROVE  a \div M <= b \div M
<1> PICK p, q : p = a \div M /\ q = b \div M OBVIOUS
<1>1. p \in Nat /\ q \in Nat /\ a >= M * p /\ b < M * q + M BY Divided
<1>2. ASSUME p > q PROVE FALSE
  <2>1. M * p >= M * (q + 1) BY <1>1, <1>2
  <2>2. M * (q + 1) = M * q + M BY <1>1
  <2> QED BY <1>1, <2>1, <2>2
<1> QED BY <1>1, <1>2

LEMMA BucketsInOrder ==
  ASSUME NEW a \in Nat, NEW b \in Nat, a <= b
  PROVE  Bucket(a) \in Buckets /\ Bucket(b) \in Buckets /\ Bucket(a) <= Bucket(b)
<1>1. PICK M : M = 2 ^ BucketShift OBVIOUS
<1>2. M \in Nat \ {0} /\ LastBucket \in Nat BY <1>1, MmioAssumption
<1>3. a \div M \in Nat /\ b \div M \in Nat /\ a \div M <= b \div M
  BY <1>2, Divided, DividedInOrder
<1>4. PICK p, q : p = a \div M /\ q = b \div M OBVIOUS
<1>5. /\ Bucket(a) = IF p < LastBucket THEN p ELSE LastBucket
      /\ Bucket(b) = IF q < LastBucket THEN q ELSE LastBucket
  BY <1>1, <1>4 DEF Bucket
<1> QED BY <1>2, <1>3, <1>4, <1>5 DEF Buckets

\* A large page lies inside what an address can say.
LEMMA LargePageIs ==
  ASSUME NEW g \in Page
  PROVE  LET base == (g \div 2 ^ LargeShift) * 2 ^ LargeShift
         IN  /\ base \in Nat /\ 2 ^ LargeShift \in Nat \ {0}
             /\ base + 2 ^ LargeShift <= 2 ^ PhysBits
             /\ LargePage(g) \subseteq base .. base + 2 ^ LargeShift - 1
<1>1. PICK L, M : L = 2 ^ LargeShift /\ M = 2 ^ PhysBits OBVIOUS
<1>2. L \in Nat \ {0} /\ M \in Nat /\ M % L = 0 /\ g \in Nat /\ g < M /\ NPages \in Nat
  BY <1>1, MmioAssumption DEF Page
<1>3. PICK p, k : p = g \div L /\ k = M \div L OBVIOUS
<1>4. p \in Nat /\ k \in Nat /\ g >= L * p /\ M = L * k
  <2>1. g \div L \in Nat /\ g % L \in 0 .. L - 1 /\ g = L * (g \div L) + (g % L)
    BY <1>2, Divided
  <2>2. M \div L \in Nat /\ M = L * (M \div L) + (M % L)
    BY <1>2, Divided
  <2>3. PICK r : r = g % L OBVIOUS
  <2>4. p \in Nat /\ r \in Nat /\ g = L * p + r BY <1>2, <1>3, <2>1, <2>3
  <2>5. L * p \in Nat BY <1>2, <2>4
  <2>6. k \in Nat /\ M = L * k BY <1>2, <1>3, <2>2
  <2> QED BY <2>4, <2>5, <2>6
<1>5. p < k
  <2>1. ASSUME p >= k PROVE FALSE
    <3>1. L * p >= L * k BY <1>2, <1>4, <2>1
    <3> QED BY <1>2, <1>4, <3>1
  <2> QED BY <1>4, <2>1
<1>6. L * (p + 1) <= L * k BY <1>2, <1>4, <1>5
<1>7. L * (p + 1) = p * L + L /\ L * p = p * L BY <1>2, <1>4
<1>8. p * L \in Nat /\ p * L + L <= M BY <1>2, <1>4, <1>6, <1>7
<1>9. ASSUME NEW q \in Page, q \div L = p PROVE q \in p * L .. p * L + L - 1
  <2>1. q \in Nat BY MmioAssumption DEF Page
  <2>2. q % L \in 0 .. L - 1 /\ q = L * (q \div L) + (q % L) BY <1>2, <2>1, Divided
  <2>3. q = L * p + (q % L) BY <1>9, <2>2
  <2> QED BY <1>2, <1>4, <1>7, <1>8, <2>1, <2>2, <2>3
<1>10. LargePage(g) \subseteq p * L .. p * L + L - 1
  BY <1>1, <1>3, <1>9 DEF LargePage
<1> QED BY <1>1, <1>2, <1>3, <1>8, <1>10

LEMMA AreaIs ==
  ASSUME NEW a \in Area
  PROVE  /\ a.gphys \in Nat /\ a.gphys \in Page /\ a.len \in Nat \ {0}
         /\ a.gphys + a.len <= NPages /\ NPages <= 2 ^ PhysBits
         /\ NPages \in Nat /\ 2 ^ PhysBits \in Nat
         /\ Pages(a) = a.gphys .. a.gphys + a.len - 1 /\ Pages(a) \subseteq Page
<1>1. /\ NPages \in Nat /\ MaxLen \in Nat /\ NPages <= 2 ^ PhysBits
      /\ 2 ^ PhysBits \in Nat
  BY MmioAssumption
<1>2. a.gphys \in Page /\ a.len \in 1 .. MaxLen /\ a.gphys + a.len <= NPages
  BY DEF Area
<1> QED BY <1>1, <1>2 DEF Page, Pages

LEMMA McfgIs == McfgArea \in Area
<1>1. McfgPage \in Page /\ MaxLen \in 1 .. NPages /\ NPages \in Nat BY MmioAssumption
<1>2. McfgPage + 1 <= NPages BY <1>1 DEF Page
<1>3. 1 \in 1 .. MaxLen BY <1>1
<1> QED BY <1>1, <1>2, <1>3 DEF McfgArea, Area

\* The modulo arithmetic of rangecheck says what it means.
LEMMA RangecheckIs ==
  ASSUME NEW x, area[x] \in Area, NEW g \in Nat, NEW len \in Nat \ {0},
         g + len <= 2 ^ PhysBits
  PROVE  rangecheck(x, g, len)
           <=> ~unregistered[x] /\ Pages(area[x]) \cap (g .. g + len - 1) # {}
<1>1. PICK G, n, M, e : /\ G = area[x].gphys /\ n = area[x].len
                        /\ M = 2 ^ PhysBits /\ e = g + len - 1
  OBVIOUS
<1>2. /\ G \in Nat /\ n \in Nat \ {0} /\ M \in Nat /\ G + n <= M
      /\ Pages(area[x]) = G .. G + n - 1 /\ e \in Nat /\ g <= e /\ e < M
  <2>1. PICK a, N : a = area[x] /\ N = NPages OBVIOUS
  <2>2. /\ a.gphys \in Nat /\ a.len \in Nat \ {0} /\ a.gphys + a.len <= N
        /\ N <= M /\ N \in Nat /\ M \in Nat /\ Pages(a) = a.gphys .. a.gphys + a.len - 1
    BY <1>1, <2>1, AreaIs
  <2>3. e \in Nat /\ g <= e /\ e < M BY <1>1, <2>2
  <2>4. G \in Nat /\ n \in Nat \ {0} /\ G + n <= N /\ Pages(area[x]) = G .. G + n - 1
    BY <1>1, <2>1, <2>2
  <2> QED BY <2>2, <2>3, <2>4
<1>3. PICK s, t : s = (g - G) % M /\ t = (e - G) % M OBVIOUS
<1>4. s = (IF g >= G THEN g - G ELSE g - G + M)
  BY <1>2, <1>3
<1>5. t = (IF e >= G THEN e - G ELSE e - G + M)
  BY <1>2, <1>3
<1>6. rangecheck(x, g, len) <=> ~unregistered[x] /\ (n - 1 < s => s > t)
  BY <1>1, <1>3 DEF rangecheck
<1>7. (n - 1 < s => s > t) <=> G <= e /\ g <= G + n - 1
  BY <1>2, <1>4, <1>5
<1>8. (G .. G + n - 1) \cap (g .. e) # {} <=> G <= e /\ g <= G + n - 1
  <2>1. ASSUME G <= e, g <= G + n - 1 PROVE (G .. G + n - 1) \cap (g .. e) # {}
    <3>1. PICK m : m = IF G <= g THEN g ELSE G OBVIOUS
    <3>2. m \in G .. G + n - 1 /\ m \in g .. e BY <1>2, <2>1, <3>1
    <3> QED BY <3>2
  <2>2. ASSUME NEW m \in (G .. G + n - 1) \cap (g .. e) PROVE G <= e /\ g <= G + n - 1
    BY <1>2, <2>2
  <2> QED BY <2>1, <2>2
<1> QED BY <1>1, <1>2, <1>6, <1>7, <1>8

-----------------------------------------------------------------------------
(***************************************************************************)
(* The search.  It may end at the first area behind the range, since every *)
(* list is in the order of the addresses and so are the lists; and it may  *)
(* start in the first list that has a part of the range, since an area is  *)
(* in every list that has a part of it.                                    *)
(***************************************************************************)
LEMMA Listed ==
  ASSUME HandleInv
  PROVE  /\ allocated \subseteq Handle /\ NULL \notin Handle
         /\ \A x \in Handle : area[x] \in Area
         /\ \A i \in Buckets :
              /\ mmio[i] \in Seq(Handle)
              /\ DOMAIN mmio[i] = 1 .. Len(mmio[i]) /\ Len(mmio[i]) \in Nat
              /\ \A k \in 1 .. Len(mmio[i]) :
                   mmio[i][k] \in allocated /\ i \in BucketsOf(area[mmio[i][k]])
              /\ \A x \in allocated :
                   i \in BucketsOf(area[x]) => \E k \in 1 .. Len(mmio[i]) : mmio[i][k] = x
              /\ \A j, k \in 1 .. Len(mmio[i]) :
                   j < k => area[mmio[i][j]].gphys <= area[mmio[i][k]].gphys
<1>1. allocated \subseteq Handle /\ NULL \notin Handle /\ \A x \in Handle : area[x] \in Area
  BY MmioAssumption DEF HandleInv, TypeOK, NULL, Handle
<1>2. ASSUME NEW i \in Buckets
      PROVE  /\ mmio[i] \in Seq(Handle)
             /\ DOMAIN mmio[i] = 1 .. Len(mmio[i]) /\ Len(mmio[i]) \in Nat
             /\ \A k \in 1 .. Len(mmio[i]) :
                  mmio[i][k] \in allocated /\ i \in BucketsOf(area[mmio[i][k]])
             /\ \A x \in allocated :
                  i \in BucketsOf(area[x]) => \E k \in 1 .. Len(mmio[i]) : mmio[i][k] = x
             /\ \A j, k \in 1 .. Len(mmio[i]) :
                  j < k => area[mmio[i][j]].gphys <= area[mmio[i][k]].gphys
  <2> PICK q : q = mmio[i] OBVIOUS
  <2>1. q \in Seq(allocated) BY <1>2 DEF HandleInv, TypeOK
  <2>2. q \in Seq(Handle) BY <1>1, <2>1
  <2>3. /\ ToSet(q) = {x \in allocated : i \in BucketsOf(area[x])}
        /\ InOrder(q, start)
    BY <1>2 DEF HandleInv, ListsInv
  <2>4. \A k \in 1 .. Len(q) : q[k] \in ToSet(q) BY <2>1, Elements
  <2>5. \A x \in ToSet(q) : \E k \in 1 .. Len(q) : q[k] = x BY <2>1, Elements
  <2>6. \A k \in 1 .. Len(q) : q[k] \in Handle /\ start[q[k]] = area[q[k]].gphys
    BY <2>2 DEF start
  <2>7. \A j, k \in 1 .. Len(q) : j < k => area[q[j]].gphys <= area[q[k]].gphys
    BY <2>3, <2>6, Zenon DEF InOrder
  <2>8. DOMAIN q = 1 .. Len(q) /\ Len(q) \in Nat BY <2>2
  <2> QED BY <2>2, <2>3, <2>4, <2>5, <2>7, <2>8
<1> QED BY <1>1, <1>2

LEMMA FirstIs ==
  ASSUME HandleInv, NEW g \in Nat, NEW len \in Nat \ {0}, g + len <= 2 ^ PhysBits,
         NEW y, y = first_area(Bucket(g), Bucket(g + len - 1), g, len)
  PROVE  /\ y # NULL => y \in Registered /\ Pages(area[y]) \cap (g .. g + len - 1) # {}
         /\ y = NULL => \A x \in Registered :
                          Pages(area[x]) \cap (g .. g + len - 1) = {}
<1> PICK s, e : s = Bucket(g) /\ e = Bucket(g + len - 1) OBVIOUS
<1> DEFINE at(p)  == mmio[p[1]][p[2]]
           places == UNION {{i} \X DOMAIN mmio[i] : i \in s .. e}
           ends   == {p \in places :
                        area[at(p)].gphys >= g + len \/ rangecheck(at(p), g, len)}
           first  == CHOOSE p \in ends : \A q \in ends :
                       p[1] < q[1] \/ (p[1] = q[1] /\ p[2] <= q[2])
<1>1. y = IF ends = {} \/ area[at(first)].gphys >= g + len THEN NULL ELSE at(first)
  <2>1. y = first_area(s, e, g, len) OBVIOUS
  <2> QED BY <2>1, Zenon DEF first_area
<1>2. s \in Buckets /\ e \in Buckets /\ s <= e
  <2>1. g \in Nat /\ g + len - 1 \in Nat /\ g <= g + len - 1 OBVIOUS
  <2> QED BY <2>1, BucketsInOrder
<1>3. s \in Nat /\ e \in Nat /\ s .. e \subseteq Buckets /\ Buckets \subseteq Nat
  BY <1>2, MmioAssumption DEF Buckets
<1>4. \A p : p \in places <=> p = <<p[1], p[2]>> /\ p[1] \in s .. e /\ p[2] \in DOMAIN mmio[p[1]]
  OBVIOUS
<1>5. ASSUME NEW p \in places
      PROVE  /\ p[1] \in Buckets /\ p[1] \in Nat /\ p[1] \in s .. e
             /\ p[2] \in 1 .. Len(mmio[p[1]]) /\ p[2] \in Nat /\ p = <<p[1], p[2]>>
             /\ at(p) \in allocated /\ at(p) \in Handle /\ p[1] \in BucketsOf(area[at(p)])
             /\ area[at(p)] \in Area
  <2>1. p = <<p[1], p[2]>> /\ p[1] \in s .. e /\ p[2] \in DOMAIN mmio[p[1]]
    BY <1>4
  <2>2. PICK i, k : i = p[1] /\ k = p[2] OBVIOUS
  <2>3. i \in Buckets /\ k \in DOMAIN mmio[i] /\ i \in Nat BY <1>3, <2>1, <2>2
  <2>4. k \in 1 .. Len(mmio[i]) /\ Len(mmio[i]) \in Nat BY <2>3, Listed
  <2>5. k \in Nat BY <2>4
  <2>6. mmio[i][k] \in allocated /\ i \in BucketsOf(area[mmio[i][k]])
    BY <2>3, <2>4, Listed
  <2>7. mmio[i][k] \in Handle /\ area[mmio[i][k]] \in Area BY <2>6, Listed
  <2> QED BY <2>1, <2>2, <2>3, <2>4, <2>5, <2>6, <2>7
<1>6. ASSUME NEW x \in Handle
      PROVE  rangecheck(x, g, len)
               <=> ~unregistered[x] /\ Pages(area[x]) \cap (g .. g + len - 1) # {}
  BY <1>6, Listed, RangecheckIs
<1>7. ends # {} => first \in ends /\ \A q \in ends :
                     first[1] < q[1] \/ (first[1] = q[1] /\ first[2] <= q[2])
  <2>1. ends \subseteq Nat \X Nat
    <3>1. ASSUME NEW p \in ends PROVE p \in Nat \X Nat
      <4>1. p[1] \in Nat /\ p[2] \in Nat /\ p = <<p[1], p[2]>> BY <1>5, <3>1
      <4> QED BY <4>1
    <3> QED BY <3>1
  <2> HIDE DEF ends
  <2>2. ends # {} => \E p \in ends : \A q \in ends :
                       p[1] < q[1] \/ (p[1] = q[1] /\ p[2] <= q[2])
    BY <2>1, FirstPlace, Zenon
  <2> QED BY <2>2
<1>8. ToSet(handles) = allocated BY DEF HandleInv, ListsInv
<1>9. ASSUME y # NULL PROVE y \in Registered /\ Pages(area[y]) \cap (g .. g + len - 1) # {}
  <2>1. ends # {} /\ ~(area[at(first)].gphys >= g + len) /\ y = at(first)
    BY <1>1, <1>9
  <2>2. first \in places /\ rangecheck(y, g, len)
    BY <1>7, <2>1
  <2>3. y \in allocated /\ y \in Handle BY <1>5, <2>1, <2>2
  <2> QED BY <1>6, <1>8, <2>2, <2>3 DEF Registered
<1>10. ASSUME y = NULL, NEW x \in Registered,
              Pages(area[x]) \cap (g .. g + len - 1) # {}
       PROVE  FALSE
  <2>1. x \in allocated /\ x \in Handle /\ ~unregistered[x] /\ area[x] \in Area
    BY <1>8, <1>10, Listed DEF Registered
  <2>2. PICK G, m, E : G = area[x].gphys /\ m = area[x].len /\ E = g + len - 1 OBVIOUS
  <2>3. /\ G \in Nat /\ m \in Nat \ {0} /\ Pages(area[x]) = G .. G + m - 1
        /\ E \in Nat
    BY <2>1, <2>2, AreaIs
  <2>4. G <= E /\ g <= G + m - 1
    <3>1. PICK p : p \in (G .. G + m - 1) \cap (g .. E) BY <1>10, <2>2, <2>3
    <3> QED BY <2>3, <3>1
  <2>5. PICK i : i \in Buckets /\ i \in s .. e /\ i \in BucketsOf(area[x])
    <3>1. Bucket(G) \in Buckets /\ Bucket(G) <= e BY <2>2, <2>3, <2>4, BucketsInOrder
    <3>2. s <= Bucket(G + m - 1)
      <4>1. G + m - 1 \in Nat BY <2>3
      <4> QED BY <2>4, <4>1, BucketsInOrder
    <3>3. Bucket(G) <= Bucket(G + m - 1) /\ Bucket(G + m - 1) \in Buckets
      <4>1. G + m - 1 \in Nat /\ G <= G + m - 1 BY <2>3
      <4> QED BY <2>3, <4>1, BucketsInOrder
    <3>4. BucketsOf(area[x]) = Bucket(G) .. Bucket(G + m - 1)
      BY <2>2 DEF BucketsOf
    <3>5. PICK b, d : b = Bucket(G) /\ d = Bucket(G + m - 1) OBVIOUS
    <3>6. b \in Nat /\ d \in Nat /\ b <= d /\ b <= e /\ s <= d
      BY <1>3, <3>1, <3>2, <3>3, <3>5
    <3>7. PICK i : i = IF s <= b THEN b ELSE s OBVIOUS
    <3>8. i \in b .. d /\ i \in s .. e BY <1>2, <1>3, <3>6, <3>7
    <3> QED BY <1>3, <3>4, <3>5, <3>8
  <2>6. PICK k \in 1 .. Len(mmio[i]) : mmio[i][k] = x BY <2>1, <2>5, Listed
  <2>7. PICK p : p = <<i, k>> OBVIOUS
  <2>8. p[1] = i /\ p[2] = k /\ at(p) = x BY <2>6, <2>7
  <2>9. k \in DOMAIN mmio[i] BY <2>5, <2>6, Listed
  <2>10. p \in places BY <1>4, <2>5, <2>7, <2>8, <2>9
  <2>11. rangecheck(x, g, len) BY <1>6, <1>10, <2>1
  <2>12. p \in ends BY <2>8, <2>10, <2>11
  <2>13. area[at(first)].gphys >= g + len
    <3>1. at(first) # NULL
      <4>1. first \in places BY <1>7, <2>12
      <4> QED BY <1>5, <4>1, Listed
    <3> QED BY <1>1, <1>10, <2>12, <3>1
  <2>14. /\ first \in places
         /\ first[1] < i \/ (first[1] = i /\ first[2] <= k)
    BY <1>7, <2>8, <2>12
  <2>15. PICK f, l, z : f = first[1] /\ l = first[2] /\ z = at(first) OBVIOUS
  <2>16. /\ f \in Buckets /\ f \in Nat /\ f \in s .. e
         /\ l \in 1 .. Len(mmio[f]) /\ z = mmio[f][l]
         /\ z \in Handle /\ f \in BucketsOf(area[z]) /\ area[z] \in Area
    BY <1>5, <2>14, <2>15
  <2> HIDE DEF at, places, ends, first
  <2>17. PICK Z, u : Z = area[z].gphys /\ u = area[z].len OBVIOUS
  <2>18. Z \in Nat /\ Z >= g + len /\ u \in Nat \ {0}
    BY <2>13, <2>15, <2>16, <2>17, AreaIs
  <2>19. CASE f = i
    <3>1. l <= k
      <4>1. i \in Nat BY <1>3, <2>5
      <4> QED BY <2>14, <2>15, <2>19, <4>1
    <3>2. l = k \/ l < k
      <4>1. Len(mmio[i]) \in Nat BY <2>5, Listed
      <4> QED BY <2>16, <2>19, <2>6, <3>1, <4>1
    <3>3. l < k => area[mmio[i][l]].gphys <= area[mmio[i][k]].gphys
      BY <2>5, <2>6, <2>16, <2>19, Listed
    <3>4. Z <= G BY <2>2, <2>3, <2>6, <2>16, <2>17, <2>18, <2>19, <3>2, <3>3
    <3> QED BY <2>2, <2>3, <2>4, <2>18, <3>4
  <2>20. CASE f < i
    <3>1. f >= Bucket(Z)
      <4>1. PICK r : r = Bucket(Z + u - 1) OBVIOUS
      <4>2. f \in Bucket(Z) .. r BY <2>16, <2>17, <4>1 DEF BucketsOf
      <4>3. Bucket(Z) \in Buckets BY <2>18, BucketsInOrder
      <4>4. Z + u - 1 \in Nat BY <2>18
      <4>5. Bucket(Z) \in Nat /\ r \in Nat
        <5>1. r \in Buckets BY <4>1, <4>4, BucketsInOrder
        <5> QED BY <1>3, <4>3, <5>1
      <4> QED BY <4>2, <4>5, <2>16
    <3>2. e <= Bucket(Z)
      <4>1. E <= Z BY <2>2, <2>18
      <4> QED BY <2>2, <2>3, <2>18, <4>1, BucketsInOrder
    <3>3. PICK b : b = Bucket(Z) OBVIOUS
    <3>4. b \in Nat BY <1>3, <2>18, <3>3, BucketsInOrder
    <3>5. i \in s .. e BY <2>5
    <3> QED BY <1>3, <2>16, <2>20, <3>1, <3>2, <3>3, <3>4, <3>5
  <2> QED BY <2>14, <2>15, <2>19, <2>20
<1> QED BY <1>9, <1>10

LEMMA RangeIs ==
  ASSUME HandleInv, NEW g \in Nat, NEW len \in Nat \ {0}, g + len <= 2 ^ PhysBits
  PROVE  (mmio_range(g, len) # 0)
           <=> \E x \in Registered : (g .. g + len - 1) \cap Pages(area[x]) # {}
<1> PICK y : y = first_area(Bucket(g), Bucket(g + len - 1), g, len) OBVIOUS
<1>1. mmio_range(g, len) = IF y = NULL THEN 0 ELSE area[y].gphys + area[y].len
  BY Zenon DEF mmio_range
<1>2. /\ y # NULL => y \in Registered /\ Pages(area[y]) \cap (g .. g + len - 1) # {}
      /\ y = NULL => \A x \in Registered : Pages(area[x]) \cap (g .. g + len - 1) = {}
  BY FirstIs
<1>3. y \in Registered => area[y].gphys + area[y].len # 0
  <2>1. y \in Registered => y \in Handle /\ area[y] \in Area
    BY Listed DEF Registered, HandleInv, ListsInv
  <2>2. ASSUME area[y] \in Area PROVE area[y].gphys + area[y].len # 0
    <3>1. PICK a, b : a = area[y].gphys /\ b = area[y].len OBVIOUS
    <3>2. a \in Nat /\ b \in Nat \ {0} BY <2>2, <3>1, AreaIs
    <3> QED BY <3>1, <3>2
  <2> QED BY <2>1, <2>2
<1> PICK r : r = g .. g + len - 1 OBVIOUS
<1> QED BY <1>1, <1>2, <1>3

LEMMA AreaOfIs ==
  ASSUME HandleInv, NEW g \in Page
  PROVE  /\ area_of(g) # NULL => area_of(g) \in Registered
         /\ area_of(g) = NULL => \A x \in Registered : g \notin Pages(area[x])
<1>1. g \in Nat /\ g + 1 <= 2 ^ PhysBits /\ g + 1 - 1 = g
  BY MmioAssumption DEF Page
<1> PICK y : y = first_area(Bucket(g), Bucket(g), g, 1) OBVIOUS
<1>2. y = first_area(Bucket(g), Bucket(g + 1 - 1), g, 1) BY <1>1
<1>3. /\ y # NULL => y \in Registered
      /\ y = NULL => \A x \in Registered : Pages(area[x]) \cap (g .. g + 1 - 1) = {}
  <2>1. 1 \in Nat \ {0} OBVIOUS
  <2> QED BY <1>1, <1>2, <2>1, FirstIs
<1>4. g \in g .. g + 1 - 1 BY <1>1
<1>5. area_of(g) = y BY Zenon DEF area_of
<1> QED BY <1>3, <1>4, <1>5

-----------------------------------------------------------------------------
(***************************************************************************)
(* The lock.                                                               *)
(***************************************************************************)
one(b) == IF b THEN 1 ELSE 0

\* The other processors stay where they are.
Alone(c) ==
  \A d \in Cpu \ {c} : /\ pc'[d] = pc[d] /\ caller'[d] = caller[d]
                       /\ h'[d] = h[d] /\ rest'[d] = rest[d]

LEMMA WordIs ==
  /\ Sign \in Nat /\ NCpus \in Nat \ {0} /\ Sign > NCpus /\ Word = 0 .. 2 * Sign - 1
  /\ \A l \in Word : /\ l + 1 < 2 * Sign => add_reader(l) = l + 1
                     /\ l >= 1 => sub_reader(l) = l - 1
                     /\ l >= Sign => clear_writer(l) = l - Sign
                     /\ negative(l) <=> l >= Sign
<1>1. Sign \in Nat /\ NCpus \in Nat \ {0} /\ Sign > NCpus
  BY MmioAssumption, RwAssumption DEF Sign
<1>2. Word = 0 .. 2 * Sign - 1 BY DEF Word
<1> PICK S : S = Sign OBVIOUS
<1>3. ASSUME NEW l \in 0 .. 2 * S - 1
      PROVE  /\ l + 1 < 2 * S => (l + 1) % (2 * S) = l + 1
             /\ l >= 1 => (l - 1) % (2 * S) = l - 1
             /\ l >= S => l % S = l - S
  <2>1. S \in Nat \ {0} BY <1>1
  <2>2. l + 1 < 2 * S => (l + 1) % (2 * S) = l + 1 BY <1>3, <2>1
  <2>3. l >= 1 => (l - 1) % (2 * S) = l - 1 BY <1>3, <2>1
  <2>4. l >= S => l % S = l - S BY <1>3, <2>1
  <2> QED BY <2>2, <2>3, <2>4
<1> QED BY <1>1, <1>2, <1>3, Zenon
      DEF add_reader, sub_reader, clear_writer, negative

LEMMA ReadersCounted ==
  /\ IsFiniteSet(Readers) /\ Cardinality(Readers) \in Nat /\ Cardinality(Readers) <= NCpus
  /\ \A c \in Cpu : /\ Reading(c) => Cardinality(Readers) >= 1
                    /\ ~Reading(c) => Cardinality(Readers) < NCpus
<1>1. IsFiniteSet(Cpu) /\ Cardinality(Cpu) = NCpus
  <2>1. NCpus \in Nat \ {0} /\ 0 \in Int /\ NCpus - 1 \in Int BY WordIs
  <2>2. IsFiniteSet(Cpu)
        /\ Cardinality(Cpu) = IF 0 > NCpus - 1 THEN 0 ELSE NCpus - 1 - 0 + 1
    BY <2>1, FS_Interval DEF Cpu
  <2> QED BY <2>1, <2>2
<1>2. Readers \in SUBSET Cpu BY DEF Readers
<1>3. IsFiniteSet(Readers) /\ Cardinality(Readers) <= NCpus
      /\ (Cardinality(Cpu) = Cardinality(Readers) => Cpu = Readers)
  BY <1>1, <1>2, FS_Subset
<1>4. Cardinality(Readers) \in Nat BY <1>3, FS_CardinalityType
<1>5. Cardinality(Readers) = 0 <=> Readers = {} BY <1>3, FS_EmptySet
<1>6. \A c \in Cpu : (Reading(c) => Readers # {}) /\ (~Reading(c) => Readers # Cpu)
  BY DEF Readers
<1>7. NCpus \in Nat BY WordIs
<1> PICK n : n = Cardinality(Readers) OBVIOUS
<1>8. \A c \in Cpu : (Reading(c) => n # 0) /\ (~Reading(c) => n # NCpus)
  BY <1>1, <1>3, <1>5, <1>6
<1>9. n \in Nat /\ n <= NCpus BY <1>3, <1>4
<1>10. \A c \in Cpu : (Reading(c) => n >= 1) /\ (~Reading(c) => n < NCpus)
  BY <1>7, <1>8, <1>9
<1> QED BY <1>3, <1>9, <1>10

\* One processor starts or ceases to read.
LEMMA ReadersMove ==
  ASSUME NEW c \in Cpu, Alone(c)
  PROVE  /\ Cardinality(Readers)' =
              Cardinality(Readers) + one(Reading(c)') - one(Reading(c))
         /\ \A d \in Cpu \ {c} : /\ Reading(d)' <=> Reading(d)
                                 /\ Inside(d)' <=> Inside(d)
                                 /\ Handling(d)' <=> Handling(d)
                                 /\ Writing(d)' <=> Writing(d)
                                 /\ Leaving(d)' <=> Leaving(d)
<1>1. ASSUME NEW d \in Cpu \ {c}
      PROVE  /\ Reading(d)' <=> Reading(d)
             /\ Inside(d)' <=> Inside(d)
             /\ Handling(d)' <=> Handling(d)
             /\ Writing(d)' <=> Writing(d)
             /\ Leaving(d)' <=> Leaving(d)
  BY <1>1, Zenon DEF Alone, Reading, Inside, Handling, Writing, Leaving
<1> PICK R, S : R = Readers /\ S = Readers' OBVIOUS
<1>2. S = IF Reading(c)' THEN R \cup {c} ELSE R \ {c}
  <2>1. \A d \in Cpu \ {c} : d \in S <=> d \in R
    BY <1>1 DEF Readers
  <2>2. c \in S <=> Reading(c)' BY DEF Readers
  <2>3. R \subseteq Cpu /\ S \subseteq Cpu BY DEF Readers
  <2> QED BY <2>1, <2>2, <2>3
<1>3. c \in R <=> Reading(c) BY DEF Readers
<1>4. IsFiniteSet(R) BY ReadersCounted
<1>5. /\ Cardinality(R \cup {c}) = IF c \in R THEN Cardinality(R) ELSE Cardinality(R) + 1
      /\ Cardinality(R \ {c}) = IF c \in R THEN Cardinality(R) - 1 ELSE Cardinality(R)
  BY <1>4, FS_AddElement, FS_RemoveElement
<1>6. Cardinality(R) \in Nat BY <1>4, FS_CardinalityType
<1>7. Cardinality(S) = Cardinality(R) + one(Reading(c)') - one(Reading(c))
  BY <1>2, <1>3, <1>5, <1>6 DEF one
<1> QED BY <1>1, <1>7

\* What a step of a processor may do about the lock: stay, wait for a writer to
\* leave, come in, go out, come in as a writer and leave as one.
LockMove(c) ==
  \/ /\ rwlock' = rwlock /\ (Inside(c)' => Inside(c))
     /\ (Reading(c)' <=> Reading(c)) /\ (Writing(c)' <=> Writing(c))
  \/ /\ rwlock' = rwlock /\ ~negative(rwlock)
     /\ Reading(c) /\ Reading(c)' /\ ~Writing(c) /\ ~Writing(c)'
  \/ /\ rwlock' = add_reader(rwlock) /\ (Inside(c)' => ~negative(rwlock'))
     /\ ~Reading(c) /\ Reading(c)' /\ ~Writing(c) /\ ~Writing(c)'
  \/ /\ rwlock' = sub_reader(rwlock)
     /\ Reading(c) /\ ~Reading(c)' /\ ~Writing(c) /\ ~Writing(c)'
  \/ /\ rwlock = 0 /\ rwlock' = Sign
     /\ ~Reading(c)' /\ Writing(c)'
  \/ /\ rwlock' = clear_writer(rwlock)
     /\ Writing(c) /\ ~Reading(c) /\ ~Reading(c)' /\ ~Writing(c)'

LEMMA LockStep ==
  ASSUME RwInv, NEW c \in Cpu, Alone(c), LockMove(c)
  PROVE  RwInv' /\ rwlock' \in Word
<1> PICK n, m, S : n = Cardinality(Readers) /\ m = Cardinality(Readers)' /\ S = Sign
  OBVIOUS
<1>n. S \in Nat /\ NCpus \in Nat \ {0} /\ S > NCpus
  BY WordIs
<1>1. /\ Word = 0 .. 2 * S - 1
      /\ \A l \in Word : /\ l + 1 < 2 * S => add_reader(l) = l + 1
                         /\ l >= 1 => sub_reader(l) = l - 1
                         /\ l >= S => clear_writer(l) = l - S
                         /\ negative(l) <=> l >= S
  BY WordIs
<1>2. /\ n \in Nat /\ n <= NCpus
      /\ (Reading(c) => n >= 1) /\ (~Reading(c) => n < NCpus)
  BY ReadersCounted
<1>3. m = n + one(Reading(c)') - one(Reading(c)) BY ReadersMove
<1>4. \A d \in Cpu \ {c} : /\ Reading(d)' <=> Reading(d)
                           /\ Inside(d)' <=> Inside(d)
                           /\ Writing(d)' <=> Writing(d)
  BY ReadersMove
<1> PICK w, v : w = (IF Written THEN S ELSE 0) /\ v = (IF Written' THEN S ELSE 0)
  OBVIOUS
<1>w. /\ Written => w = S
      /\ ~Written => w = 0
      /\ Written' => v = S
      /\ ~Written' => v = 0
  BY Zenon
<1>v. w \in Nat /\ v \in Nat /\ w <= S /\ v <= S
  <2>1. (w = 0 \/ w = S) /\ (v = 0 \/ v = S) BY <1>w, Zenon
  <2> QED BY <1>n, <2>1
<1>5. /\ rwlock = n + w
      /\ \A d, e \in Cpu : Writing(d) => ~Inside(e) /\ (Writing(e) => d = e)
  BY DEF RwInv
<1>6. rwlock \in Word
  <2>1. n + w \in 0 .. 2 * S - 1 BY <1>n, <1>2, <1>v
  <2> QED BY <1>1, <1>5, <2>1
<1>7. ASSUME rwlock' = m + v, m \in Nat, m <= NCpus,
             \A d, e \in Cpu : Writing(d)' => ~Inside(e)' /\ (Writing(e)' => d = e)
      PROVE  RwInv' /\ rwlock' \in Word
  <2>1. RwInv' BY <1>7 DEF RwInv
  <2>2. m + v \in 0 .. 2 * S - 1 BY <1>n, <1>7, <1>v
  <2> QED BY <1>1, <1>7, <2>1, <2>2
<1>8. Written <=> \E d \in Cpu : Writing(d) BY DEF Written
<1>9. Written' <=> \E d \in Cpu : Writing(d)' BY DEF Written
<1>10. Written => rwlock >= S
  <2>1. w = S => n + w >= S BY <1>n, <1>2
  <2> QED BY <1>5, <1>w, <2>1, Zenon
<1>11. Inside(c)' => Reading(c)' BY DEF Reading
<1>12. ASSUME Writing(c)' <=> Writing(c), Inside(c)' => Inside(c) \/ ~Written,
              \/ rwlock' = rwlock /\ (Reading(c)' <=> Reading(c))
              \/ rwlock' = add_reader(rwlock) /\ ~Reading(c) /\ Reading(c)'
              \/ rwlock' = sub_reader(rwlock) /\ Reading(c) /\ ~Reading(c)'
       PROVE  RwInv' /\ rwlock' \in Word
  <2>0. Written' <=> Written BY <1>4, <1>8, <1>9, <1>12
  <2>1. v = w BY <1>w, <2>0, Zenon
  <2>2. \A d, e \in Cpu : Writing(d)' => ~Inside(e)' /\ (Writing(e)' => d = e)
    <3> SUFFICES ASSUME NEW d \in Cpu, NEW e \in Cpu, Writing(d)'
                 PROVE  ~Inside(e)' /\ (Writing(e)' => d = e)
      OBVIOUS
    <3>1. Writing(d) /\ Written BY <1>4, <1>8, <1>12
    <3>2. ~Inside(e) /\ (Writing(e) => d = e) BY <1>5, <3>1
    <3>3. CASE e = c BY <1>12, <3>1, <3>2, <3>3
    <3>4. CASE e # c BY <1>4, <3>2, <3>4
    <3> QED BY <3>3, <3>4
  <2>3. CASE rwlock' = rwlock /\ (Reading(c)' <=> Reading(c))
    <3>1. m = n BY <1>2, <1>3, <2>3 DEF one
    <3> QED BY <1>2, <1>5, <1>7, <2>1, <2>2, <2>3, <3>1
  <2>4. CASE rwlock' = add_reader(rwlock) /\ ~Reading(c) /\ Reading(c)'
    <3>1. m = n + 1 BY <1>2, <1>3, <2>4 DEF one
    <3>2. rwlock + 1 < 2 * S BY <1>n, <1>2, <1>5, <1>v, <2>4
    <3>3. rwlock' = rwlock + 1 BY <1>n, <1>1, <1>6, <2>4, <3>2
    <3>4. m \in Nat /\ m <= NCpus BY <1>n, <1>2, <2>4, <3>1
    <3>5. rwlock' = m + v BY <1>n, <1>2, <1>5, <1>v, <2>1, <3>1, <3>3
    <3> QED BY <1>7, <2>2, <3>4, <3>5
  <2>5. CASE rwlock' = sub_reader(rwlock) /\ Reading(c) /\ ~Reading(c)'
    <3>1. m = n - 1 BY <1>2, <1>3, <2>5 DEF one
    <3>2. rwlock >= 1 BY <1>n, <1>2, <1>5, <1>v, <2>5
    <3>3. rwlock' = rwlock - 1 BY <1>n, <1>1, <1>6, <2>5, <3>2
    <3>4. m \in Nat /\ m <= NCpus BY <1>n, <1>2, <2>5, <3>1
    <3>5. rwlock' = m + v BY <1>n, <1>2, <1>5, <1>v, <2>1, <3>1, <3>3
    <3> QED BY <1>7, <2>2, <3>4, <3>5
  <2> QED BY <1>12, <2>3, <2>4, <2>5
<1>13. CASE /\ rwlock' = rwlock /\ (Inside(c)' => Inside(c))
            /\ (Reading(c)' <=> Reading(c)) /\ (Writing(c)' <=> Writing(c))
  BY <1>12, <1>13
<1>14. CASE /\ rwlock' = rwlock /\ ~negative(rwlock)
            /\ Reading(c) /\ Reading(c)' /\ ~Writing(c) /\ ~Writing(c)'
  <2>1. ~Written BY <1>n, <1>1, <1>6, <1>10, <1>14
  <2> QED BY <1>12, <1>14, <2>1
<1>15. CASE /\ rwlock' = add_reader(rwlock) /\ (Inside(c)' => ~negative(rwlock'))
            /\ ~Reading(c) /\ Reading(c)' /\ ~Writing(c) /\ ~Writing(c)'
  <2>1. rwlock + 1 < 2 * S BY <1>n, <1>2, <1>5, <1>v, <1>15
  <2>2. rwlock' = rwlock + 1 BY <1>n, <1>1, <1>6, <1>15, <2>1
  <2>3. negative(rwlock') <=> rwlock' >= S BY <1>n, <1>1, <1>6, <2>1, <2>2
  <2>4. Inside(c)' => ~Written BY <1>n, <1>1, <1>6, <1>10, <1>15, <2>2, <2>3
  <2> QED BY <1>12, <1>15, <2>4
<1>16. CASE /\ rwlock' = sub_reader(rwlock)
            /\ Reading(c) /\ ~Reading(c)' /\ ~Writing(c) /\ ~Writing(c)'
  BY <1>11, <1>12, <1>16
<1>17. CASE /\ rwlock = 0 /\ rwlock' = Sign /\ ~Reading(c)' /\ Writing(c)'
  <2>0. n = 0 /\ w = 0 BY <1>n, <1>2, <1>5, <1>v, <1>17
  <2>1. ~Written /\ n = 0
    <3>1. S # 0 BY <1>n
    <3> QED BY <1>w, <2>0, <3>1, Zenon
  <2>2. \A d \in Cpu : ~Reading(d) /\ ~Writing(d)
    <3>1. \A d \in Cpu : Reading(d) => n >= 1 BY ReadersCounted
    <3> QED BY <1>8, <2>1, <3>1
  <2>3. m = 0 BY <1>3, <1>17, <2>1, <2>2 DEF one
  <2>4. Written' BY <1>9, <1>17
  <2>5. \A d \in Cpu : ~Inside(d)' /\ (Writing(d)' => d = c)
    <3>1. \A d \in Cpu : Inside(d) => Reading(d) BY DEF Reading
    <3> QED BY <1>4, <1>11, <1>17, <2>2, <3>1
  <2>6. v = S BY <1>w, <2>4
  <2>7. rwlock' = m + v /\ m \in Nat /\ m <= NCpus BY <1>n, <1>17, <2>3, <2>6
  <2> QED BY <1>7, <2>5, <2>7
<1>18. CASE /\ rwlock' = clear_writer(rwlock)
            /\ Writing(c) /\ ~Reading(c) /\ ~Reading(c)' /\ ~Writing(c)'
  <2>1. Written BY <1>8, <1>18
  <2>2. m = n BY <1>2, <1>3, <1>18 DEF one
  <2>3. rwlock = n + S BY <1>5, <1>w, <2>1
  <2>4. rwlock' = n BY <1>n, <1>1, <1>2, <1>6, <1>18, <2>3
  <2>5. \A d \in Cpu : ~Writing(d)' BY <1>4, <1>5, <1>18
  <2>6. ~Written' BY <1>9, <2>5
  <2>7. rwlock' = m + v /\ m \in Nat /\ m <= NCpus BY <1>2, <1>w, <2>2, <2>4, <2>6
  <2> QED BY <1>7, <2>5, <2>7
<1> QED BY <1>13, <1>14, <1>15, <1>16, <1>17, <1>18 DEF LockMove

-----------------------------------------------------------------------------
(***************************************************************************)
(* The lists, when an area is added and when one is removed.               *)
(***************************************************************************)
LEMMA StartIs ==
  ASSUME HandleInv
  PROVE  start \in [Handle -> Nat] /\ \A x \in Handle : start[x] = area[x].gphys
<1>1. ASSUME NEW x \in Handle PROVE area[x].gphys \in Nat BY Listed, AreaIs
<1> QED BY <1>1 DEF start

\* The lists are lists of handles.
LEMMA HandleTaken ==
  ASSUME NEW q \in Seq(Handle), Once(q), NEW t \in ToSet(q)
  PROVE  /\ RemoveFirst(q, t) \in Seq(Handle)
         /\ ToSet(RemoveFirst(q, t)) = ToSet(q) \ {t} /\ Once(RemoveFirst(q, t))
         /\ \A s : InOrder(q, s) => InOrder(RemoveFirst(q, t), s)
BY TakenOut, Zenon

LEMMA HandleBefore ==
  ASSUME NEW q \in Seq(Handle), NEW e \in Handle, NEW I, I \subseteq 1 .. Len(q)
  PROVE  \E k \in 1 .. Len(q) + 1 :
           /\ Before(q, I, e) \in Seq(Handle) /\ Inserted(Before(q, I, e), q, k, e)
           /\ \A j \in 1 .. k - 1 : j \notin I
           /\ k <= Len(q) => k \in I
BY PutBefore, Zenon

LEMMA HandleInOrder ==
  ASSUME NEW x \in [Handle -> Nat], NEW y \in [Handle -> Nat],
         NEW q \in Seq(Handle), NEW t \in Handle,
         NEW k \in 1 .. Len(q) + 1, NEW w \in Seq(Handle), Inserted(w, q, k, t),
         InOrder(q, x), t \notin ToSet(q),
         \A d \in Handle \ {t} : y[d] = x[d],
         \A j \in 1 .. k - 1 : x[q[j]] <= y[t],
         k <= Len(q) => x[q[k]] > y[t]
  PROVE  InOrder(w, y)
BY InsertedInOrder, Zenon

LEMMA InsertIs ==
  ASSUME HandleInv, NEW i \in Buckets, NEW x \in Handle \ allocated,
         area' \in [Handle -> Area], \A y \in Handle \ {x} : area'[y] = area[y],
         NEW w, w = insert(mmio[i], x)
  PROVE  /\ w \in Seq(Handle) /\ ToSet(w) = ToSet(mmio[i]) \cup {x} /\ Once(w)
         /\ InOrder(w, start')
<1> PICK q : q = mmio[i] OBVIOUS
<1> DEFINE I == {j \in 1 .. Len(q) : area'[q[j]].gphys > area'[x].gphys}
<1>1. /\ q \in Seq(Handle) /\ Once(q) /\ ToSet(q) \subseteq allocated /\ InOrder(q, start)
  BY Listed DEF HandleInv, ListsInv
<1>2. PICK k : k = SelectInSeq(q, LAMBDA y : area'[y].gphys > area'[x].gphys) OBVIOUS
<1>3. k = IF I # {} THEN Min(I) ELSE 0 BY <1>2, Zenon DEF SelectInSeq
<1>4. w = IF k = 0 THEN Append(q, x) ELSE InsertAt(q, k, x)
  BY <1>2, Zenon DEF insert
<1>5. I \subseteq 1 .. Len(q) /\ I \subseteq Nat OBVIOUS
<1>6. I # {} => k # 0
  <2>1. I # {} => Min(I) \in I BY <1>5, MinIs, Zenon
  <2> QED BY <1>3, <1>5, <2>1
<1>7. w = Before(q, I, x)
  BY <1>3, <1>4, <1>6 DEF Before
<1>8. PICK l \in 1 .. Len(q) + 1 :
        /\ w \in Seq(Handle) /\ Inserted(w, q, l, x)
        /\ \A j \in 1 .. l - 1 : j \notin I
        /\ l <= Len(q) => l \in I
  <2> HIDE DEF I
  <2>1. x \in Handle OBVIOUS
  <2>2. \E l \in 1 .. Len(q) + 1 :
          /\ Before(q, I, x) \in Seq(Handle) /\ Inserted(Before(q, I, x), q, l, x)
          /\ \A j \in 1 .. l - 1 : j \notin I
          /\ l <= Len(q) => l \in I
    BY <1>1, <1>5, <2>1, HandleBefore, Zenon
  <2> QED BY <1>7, <2>2
<1>9. x \notin ToSet(q) BY <1>1
<1>10. ToSet(w) = ToSet(q) \cup {x} /\ Once(w)
  BY <1>1, <1>8, <1>9, InsertedElements
<1>11. PICK s, t : s = start /\ t = start' OBVIOUS
<1>12. s \in [Handle -> Nat] /\ \A y \in Handle : s[y] = area[y].gphys
  BY <1>11, StartIs
<1>13. t \in [Handle -> Nat] /\ \A y \in Handle : t[y] = area'[y].gphys
  <2>1. ASSUME NEW y \in Handle PROVE area'[y].gphys \in Nat
    <3>1. area'[y] \in Area BY <2>1
    <3> QED BY <3>1, AreaIs
  <2>2. t = [y \in Handle |-> area'[y].gphys] BY <1>11 DEF start
  <2> QED BY <2>1, <2>2
<1>14. \A y \in Handle \ {x} : t[y] = s[y] BY <1>12, <1>13
<1>15. \A j \in 1 .. Len(q) : q[j] \in Handle \ {x} BY <1>1, <1>9, Elements
<1>16. \A j \in 1 .. Len(q) : j \in I <=> s[q[j]] > t[x]
  BY <1>13, <1>14, <1>15
<1> HIDE DEF I
<1>17. \A j \in 1 .. l - 1 : s[q[j]] <= t[x]
  <2> TAKE j \in 1 .. l - 1
  <2>1. j \in 1 .. Len(q) BY <1>8
  <2>2. ~(s[q[j]] > t[x]) BY <1>8, <1>16, <2>1
  <2>3. s[q[j]] \in Nat /\ t[x] \in Nat BY <1>12, <1>13, <1>15, <2>1
  <2>4. PICK u, v : u = s[q[j]] /\ v = t[x] OBVIOUS
  <2>5. u <= v BY <2>2, <2>3, <2>4
  <2> QED BY <2>4, <2>5
<1>18. l <= Len(q) => s[q[l]] > t[x]
  <2>1. l <= Len(q) => l \in 1 .. Len(q) BY <1>8
  <2> QED BY <1>8, <1>16, <2>1
<1>19. InOrder(w, t)
  <2>1. x \in Handle /\ InOrder(q, s) BY <1>1, <1>11
  <2> QED BY <1>1, <1>8, <1>9, <1>12, <1>13, <1>14, <1>17, <1>18, <2>1,
             HandleInOrder, Zenon
<1> QED BY <1>8, <1>10, <1>11, <1>19

LEMMA RemoveStep ==
  ASSUME HandleInv, Apart, NEW x \in allocated, remove(x)
  PROVE  /\ handles' \in Seq(allocated') /\ mmio' \in [Buckets -> Seq(allocated')]
         /\ area' \in [Handle -> Area] /\ unregistered' \in [Handle -> BOOLEAN]
         /\ allocated' = allocated \ {x} /\ allocated' \subseteq Handle
         /\ \A y \in Handle \ {x} : area'[y] = area[y] /\ unregistered'[y] = unregistered[y]
         /\ ~unregistered'[x]
         /\ Registered' = Registered \ {x}
         /\ ListsInv' /\ Apart'
<1> USE DEF remove
<1>1. allocated' = allocated \ {x} /\ allocated' \subseteq Handle /\ x \in Handle
  BY Listed
<1>2. area' \in [Handle -> Area] /\ \A y \in Handle \ {x} : area'[y] = area[y]
  BY McfgIs DEF HandleInv, TypeOK
<1>3. /\ unregistered' \in [Handle -> BOOLEAN] /\ ~unregistered'[x]
      /\ \A y \in Handle \ {x} : unregistered'[y] = unregistered[y]
  BY <1>1 DEF HandleInv, TypeOK
<1>4. /\ handles' \in Seq(allocated') /\ Once(handles') /\ ToSet(handles') = allocated'
  <2> PICK q : q = handles OBVIOUS
  <2>1. q \in Seq(allocated) /\ Once(q) /\ ToSet(q) = allocated
    BY DEF HandleInv, TypeOK, ListsInv
  <2> PICK w : w = RemoveFirst(q, x) OBVIOUS
  <2>2. w \in Seq(allocated) /\ ToSet(w) = ToSet(q) \ {x} /\ Once(w)
    BY <2>1, TakenOut
  <2>3. w \in Seq(allocated \ {x}) BY <2>1, <2>2, SeqOfElements, Zenon
  <2>4. handles' = w OBVIOUS
  <2> QED BY <1>1, <2>1, <2>2, <2>3, <2>4
<1>5. \A i \in Buckets :
        /\ mmio'[i] \in Seq(allocated') /\ Once(mmio'[i])
        /\ ToSet(mmio'[i]) = {y \in allocated' : i \in BucketsOf(area'[y])}
        /\ InOrder(mmio'[i], start')
  <2> TAKE i \in Buckets
  <2> PICK q : q = mmio[i] OBVIOUS
  <2> PICK w : w = mmio'[i] OBVIOUS
  <2>1. /\ q \in Seq(Handle) /\ Once(q) /\ InOrder(q, start)
        /\ ToSet(q) = {y \in allocated : i \in BucketsOf(area[y])}
    BY Listed DEF HandleInv, ListsInv
  <2>2. w = IF i \in BucketsOf(area[x]) THEN RemoveFirst(q, x) ELSE q
    OBVIOUS
  <2>3. w \in Seq(Handle) /\ ToSet(w) = ToSet(q) \ {x} /\ Once(w) /\ InOrder(w, start)
    <3>1. CASE i \in BucketsOf(area[x])
      <4>1. x \in ToSet(q) BY <2>1, <3>1
      <4>2. w = RemoveFirst(q, x) BY <2>2, <3>1
      <4> QED BY <2>1, <4>1, <4>2, HandleTaken, Zenon
    <3>2. CASE i \notin BucketsOf(area[x])
      <4>1. x \notin ToSet(q) BY <2>1, <3>2
      <4>2. w = q BY <2>2, <3>2
      <4> QED BY <2>1, <4>1, <4>2
    <3> QED BY <3>1, <3>2
  <2>4. ToSet(w) = {y \in allocated' : i \in BucketsOf(area'[y])}
    BY <1>1, <1>2, <2>1, <2>3
  <2>5. w \in Seq(allocated')
    <3>1. ToSet(w) \subseteq allocated' BY <2>4
    <3> QED BY <2>3, <3>1, SeqOfElements, Zenon
  <2>6. InOrder(w, start')
    <3>1. PICK s, t : s = start /\ t = start' OBVIOUS
    <3>2. \A y \in ToSet(w) : y \in Handle \ {x} BY <1>1, <2>1, <2>3
    <3>3. \A y \in ToSet(w) : t[y] = s[y] BY <1>2, <3>1, <3>2 DEF start
    <3>4. InOrder(w, t) BY <2>3, <3>1, <3>3, SameOrder, Zenon
    <3> QED BY <3>1, <3>4
  <2> QED BY <2>3, <2>4, <2>5, <2>6
<1>6. mmio' \in [Buckets -> Seq(allocated')]
  BY <1>5
<1>7. ListsInv' BY <1>4, <1>5, Zenon DEF ListsInv
<1>8. Registered' = Registered \ {x}
  <2>1. ToSet(handles) = allocated BY DEF HandleInv, ListsInv
  <2> QED BY <1>1, <1>3, <1>4, <2>1, Listed DEF Registered
<1>9. Apart'
  <2>1. \A y \in Registered : y \in Handle
    BY Listed DEF HandleInv, ListsInv, Registered
  <2> QED BY <1>2, <1>8, <2>1 DEF Apart
<1> QED BY <1>1, <1>2, <1>3, <1>4, <1>6, <1>7, <1>8, <1>9

-----------------------------------------------------------------------------
(***************************************************************************)
(* Most steps change neither the lists nor who has a handle.               *)
(***************************************************************************)
Quiet(c) ==
  /\ Alone(c)
  /\ UNCHANGED <<lists, fields, owned, unregister_flag, rest>>
  /\ rest[c] = <<>> /\ pc[c] # "set_flag" /\ pc'[c] \notin {"scan", "delete", "mark"}
  /\ h'[c] # NULL => Handling(c)' /\ h'[c] \in allocated
  /\ caller'[c] # "handler"

LocalTypes ==
  /\ mapped \in [Cpu -> SUBSET Page]
  /\ pc \in [Cpu -> Location]
  /\ h \in [Cpu -> Handle \cup {NULL}]
  /\ gphys \in [Cpu -> Page]
  /\ caller \in [Cpu -> {"out", "handler", "unlocked"}]

LEMMA QuietStep ==
  ASSUME MmioInv, NEW c \in Cpu, Quiet(c), LockMove(c), LocalTypes',
         \A x \in Registered, d \in Cpu : mapped'[d] \cap Pages(area[x]) = {}
  PROVE  MmioInv'
<1>1. /\ handles' = handles /\ mmio' = mmio /\ area' = area
      /\ unregistered' = unregistered /\ allocated' = allocated /\ owned' = owned
      /\ unregister_flag' = unregister_flag /\ rest' = rest
  BY Zenon DEF Quiet, lists, fields
<1>2. \A d \in Cpu \ {c} : /\ pc'[d] = pc[d] /\ caller'[d] = caller[d]
                           /\ h'[d] = h[d] /\ rest'[d] = rest[d]
  BY Zenon DEF Quiet, Alone
<1>3. RwInv' /\ rwlock' \in Word
  BY LockStep, Zenon DEF MmioInv, HandleInv, Quiet
<1>4. \A d \in Cpu \ {c} : /\ Reading(d)' <=> Reading(d)
                           /\ Handling(d)' <=> Handling(d)
                           /\ Writing(d)' <=> Writing(d)
                           /\ Leaving(d)' <=> Leaving(d)
  BY ReadersMove, Zenon DEF Quiet
<1>5. TypeOK'
  <2>1. TypeOK BY DEF MmioInv, HandleInv
  <2> QED BY <1>1, <1>3, <2>1 DEF TypeOK, LocalTypes
<1>6. ListsInv'
  <2>1. ListsInv BY DEF MmioInv, HandleInv
  <2>2. start' = start BY <1>1 DEF start
  <2> QED BY <1>1, <2>1, <2>2, Zenon DEF ListsInv
<1>7. UseInv'
  <2>1. UseInv BY DEF MmioInv, HandleInv
  <2>2. ASSUME NEW d \in Cpu
        PROVE  /\ h'[d] # NULL => Handling(d)' /\ h'[d] \in allocated'
               /\ caller'[d] = "handler" => pc'[d] \in {"mark", "set_flag"}
    <3>1. CASE d = c BY <1>1, <3>1, Zenon DEF Quiet
    <3>2. CASE d # c BY <1>1, <1>2, <1>4, <2>1, <3>2, Zenon DEF UseInv
    <3> QED BY <3>1, <3>2
  <2> QED BY <2>2, Zenon DEF UseInv
<1>8. OwnInv'
  <2>1. OwnInv BY DEF MmioInv, HandleInv
  <2>2. ~Leaving(c)' BY Zenon DEF Quiet, Leaving
  <2>3. ASSUME NEW d \in Cpu
        PROVE  /\ pc'[d] \notin {"scan", "delete", "mark"} => rest'[d] = <<>>
               /\ pc'[d] = "scan" => rest'[d] \in Seq(allocated') /\ Once(rest'[d])
               /\ Leaving(d)' =>
                    \E x \in allocated' \ owned' : rest'[d] = <<x>> /\ ~unregistered'[x]
    <3>1. CASE d = c
      <4>1. rest'[c] = <<>> /\ pc'[c] # "scan" BY <1>1 DEF Quiet
      <4> QED BY <2>2, <3>1, <4>1, Zenon
    <3>2. CASE d # c BY <1>1, <1>2, <1>4, <2>1, <3>2, Zenon DEF OwnInv
    <3> QED BY <3>1, <3>2
  <2>4. \A d, e \in Cpu : Leaving(d)' /\ Leaving(e)' /\ rest'[d] = rest'[e] => d = e
    BY <1>1, <1>4, <2>1, <2>2, Zenon DEF OwnInv
  <2> QED BY <1>1, <2>1, <2>3, <2>4, Zenon DEF OwnInv
<1>9. Apart' /\ NeverMapped' /\ Registered' = Registered
  <2>1. Registered' = Registered BY <1>1 DEF Registered
  <2> QED BY <1>1, <2>1, Zenon DEF MmioInv, Apart, NeverMapped
<1>10. RemovedLater'
  <2> SUFFICES ASSUME NEW x \in ToSet(handles)', unregistered'[x]
               PROVE  \/ unregister_flag'
                      \/ \E d \in Cpu : pc'[d] = "set_flag" \/ x \in ToSet(rest'[d])
    BY DEF RemovedLater
  <2>1. x \in ToSet(handles) /\ unregistered[x] BY <1>1
  <2>2. CASE unregister_flag BY <1>1, <2>2
  <2>3. CASE \E d \in Cpu : pc[d] = "set_flag" \/ x \in ToSet(rest[d])
    <3>1. PICK d \in Cpu : pc[d] = "set_flag" \/ x \in ToSet(rest[d]) BY <2>3
    <3>2. d # c \/ x \in ToSet(rest[d]) BY <3>1, Zenon DEF Quiet
    <3> QED BY <1>1, <1>2, <3>1, <3>2, Zenon
  <2> QED BY <2>1, <2>2, <2>3 DEF MmioInv, RemovedLater
<1> QED BY <1>3, <1>5, <1>6, <1>7, <1>8, <1>9, <1>10 DEF MmioInv, HandleInv

\* What a processor outside the special places has.
LEMMA CpuIs ==
  ASSUME MmioInv, NEW c \in Cpu
  PROVE  /\ LocalTypes /\ rwlock \in Word
         /\ pc[c] \notin {"scan", "delete", "mark"} => rest[c] = <<>>
         /\ ~Handling(c) => h[c] = NULL
         /\ pc[c] \notin {"mark", "set_flag"} => caller[c] # "handler"
         /\ \A x \in Registered, d \in Cpu : mapped[d] \cap Pages(area[x]) = {}
         /\ ToSet(handles) = allocated /\ allocated \subseteq Handle
<1>1. TypeOK /\ OwnInv /\ UseInv /\ NeverMapped /\ ListsInv
  BY DEF MmioInv, HandleInv
<1>2. LocalTypes /\ rwlock \in Word BY <1>1 DEF TypeOK, LocalTypes
<1>3. ToSet(handles) = allocated /\ allocated \subseteq Handle
  BY <1>1 DEF TypeOK, ListsInv
<1> QED BY <1>1, <1>2, <1>3, Zenon DEF OwnInv, UseInv, NeverMapped

\* A step that only goes somewhere else, and perhaps into or out of the lock.
LEMMA GoStep ==
  ASSUME MmioInv, NEW c \in Cpu, NEW l \in Location, goto(c, l), LockMove(c),
         UNCHANGED <<unregister_flag, lists, fields, owned, locals>>,
         mapped' \in [Cpu -> SUBSET Page],
         \A x \in Registered, d \in Cpu : mapped'[d] \cap Pages(area[x]) = {},
         l \notin {"scan", "delete", "mark"}, rest[c] = <<>>,
         pc[c] \notin {"mark", "set_flag"}, h[c] # NULL => l = "handler"
  PROVE  MmioInv'
<1>1. LocalTypes BY CpuIs
<1>2. pc' = [pc EXCEPT ![c] = l] /\ pc'[c] = l BY <1>1 DEF goto, LocalTypes
<1>3. h' = h /\ gphys' = gphys /\ rest' = rest /\ caller' = caller
  BY Zenon DEF locals
<1>4. LocalTypes' BY <1>1, <1>2, <1>3 DEF LocalTypes
<1>5. Alone(c) BY <1>1, <1>2, <1>3 DEF Alone, LocalTypes
<1>6. h'[c] # NULL => Handling(c)' /\ h'[c] \in allocated
  <2>1. h[c] # NULL => h[c] \in allocated BY DEF MmioInv, HandleInv, UseInv
  <2> QED BY <1>2, <1>3, <2>1, Zenon DEF Handling
<1>7. caller'[c] # "handler" BY <1>3, CpuIs, Zenon
<1>8. Quiet(c)
  BY <1>2, <1>3, <1>5, <1>6, <1>7, Zenon DEF Quiet
<1> QED BY <1>4, <1>8, QuietStep

\* What is mapped stays so.
LEMMA MappedStands ==
  ASSUME MmioInv, NEW c \in Cpu, mapped' = mapped
  PROVE  /\ mapped' \in [Cpu -> SUBSET Page]
         /\ \A x \in Registered, d \in Cpu : mapped'[d] \cap Pages(area[x]) = {}
BY CpuIs, Zenon DEF LocalTypes

\* ... or a processor maps pages that are in no area.
LEMMA MappedMore ==
  ASSUME MmioInv, NEW c \in Cpu, NEW P, P \subseteq Page,
         mapped' = [mapped EXCEPT ![c] = @ \cup P],
         \A x \in Registered : P \cap Pages(area[x]) = {}
  PROVE  /\ mapped' \in [Cpu -> SUBSET Page]
         /\ \A x \in Registered, d \in Cpu : mapped'[d] \cap Pages(area[x]) = {}
<1>1. /\ mapped \in [Cpu -> SUBSET Page]
      /\ \A x \in Registered, d \in Cpu : mapped[d] \cap Pages(area[x]) = {}
  BY CpuIs, Zenon DEF LocalTypes
<1>2. \A d \in Cpu : mapped'[d] = IF d = c THEN mapped[c] \cup P ELSE mapped[d]
  BY <1>1
<1>3. mapped' \in [Cpu -> SUBSET Page] BY <1>1
<1> QED BY <1>1, <1>2, <1>3

LEMMA MappedLess ==
  ASSUME MmioInv, NEW c \in Cpu, NEW P,
         mapped' = [mapped EXCEPT ![c] = @ \ P]
  PROVE  /\ mapped' \in [Cpu -> SUBSET Page]
         /\ \A d \in Cpu : mapped'[d] \subseteq mapped[d]
         /\ \A x \in Registered, d \in Cpu : mapped'[d] \cap Pages(area[x]) = {}
<1>1. /\ mapped \in [Cpu -> SUBSET Page]
      /\ \A x \in Registered, d \in Cpu : mapped[d] \cap Pages(area[x]) = {}
  BY CpuIs, Zenon DEF LocalTypes
<1>2. \A d \in Cpu : mapped'[d] = IF d = c THEN mapped[c] \ P ELSE mapped[d]
  BY <1>1
<1>3. mapped' \in [Cpu -> SUBSET Page] BY <1>1
<1> QED BY <1>1, <1>2, <1>3

LEMMA WentIs ==
  ASSUME MmioInv, NEW c \in Cpu, NEW l, goto(c, l)
  PROVE  pc'[c] = l /\ \A d \in Cpu \ {c} : pc'[d] = pc[d]
BY CpuIs DEF LocalTypes, goto

LEMMA SignClearStep ==
  ASSUME MmioInv, NEW c \in Cpu, mmio_lock_sign_clear(c)
  PROVE  MmioInv'
<1>1. /\ pc[c] \in {"lock", "relock"} /\ ~negative(rwlock)
      /\ UNCHANGED <<rwlock, unregister_flag, lists, fields, owned, locals>>
      /\ mapped' = mapped
  BY Zenon DEF mmio_lock_sign_clear
<1>2. PICK l \in {"locked", "unlock"} : goto(c, l)
  BY Zenon DEF mmio_lock_sign_clear
<1>3. pc'[c] \in {"locked", "unlock"} BY <1>2, WentIs
<1>4. /\ Reading(c) /\ ~Writing(c) /\ ~Handling(c)
      /\ pc[c] \notin {"scan", "delete", "mark", "set_flag"}
  BY <1>1, Zenon DEF Reading, Writing, Handling
<1>5. Reading(c)' /\ ~Writing(c)' BY <1>3, Zenon DEF Reading, Inside, Writing
<1>6. LockMove(c) BY <1>1, <1>4, <1>5, Zenon DEF LockMove
<1>7. /\ l \in Location /\ l \notin {"scan", "delete", "mark"}
  BY Zenon DEF Location
<1>8. rest[c] = <<>> /\ h[c] = NULL BY <1>4, CpuIs, Zenon
<1> QED BY <1>1, <1>2, <1>4, <1>6, <1>7, <1>8, MappedStands, GoStep

\* vt_ept_violation, inside the lock.
LEMMA ViolationStep ==
  ASSUME MmioInv, NEW c \in Cpu, pc[c] = "locked", rwlock' = rwlock,
         NEW l \in {"interpret", "unlock"}, goto(c, l),
         UNCHANGED <<unregister_flag, lists, fields, owned, locals>>,
         mapped' \in [Cpu -> SUBSET Page],
         \A x \in Registered, d \in Cpu : mapped'[d] \cap Pages(area[x]) = {}
  PROVE  MmioInv'
<1>1. pc'[c] \in {"interpret", "unlock"} BY WentIs
<1>2. /\ Reading(c) /\ Inside(c) /\ ~Writing(c) /\ ~Handling(c)
      /\ pc[c] \notin {"scan", "delete", "mark", "set_flag"}
  BY Zenon DEF Reading, Inside, Writing, Handling
<1>3. Reading(c)' /\ ~Writing(c)' BY <1>1, Zenon DEF Reading, Inside, Writing
<1>4. LockMove(c) BY <1>2, <1>3, Zenon DEF LockMove
<1>5. /\ l \in Location /\ l \notin {"scan", "delete", "mark"}
  BY Zenon DEF Location
<1>6. rest[c] = <<>> /\ h[c] = NULL BY <1>2, CpuIs, Zenon
<1> QED BY <1>2, <1>4, <1>5, <1>6, GoStep

LEMMA LargeStep ==
  ASSUME MmioInv, NEW c \in Cpu, violation_large(c)
  PROVE  MmioInv'
<1> PICK g : g = gphys[c] OBVIOUS
<1> PICK base : base = (g \div 2 ^ LargeShift) * 2 ^ LargeShift OBVIOUS
<1> PICK L : L = 2 ^ LargeShift OBVIOUS
<1>1. g \in Page BY CpuIs DEF LocalTypes
<1>2. /\ base \in Nat /\ L \in Nat \ {0} /\ base + L <= 2 ^ PhysBits
      /\ LargePage(g) \subseteq base .. base + L - 1
  BY <1>1, LargePageIs
<1>3. mmio_range(base, L) = 0
  BY DEF violation_large, large_if_free
<1>4. \A x \in Registered : (base .. base + L - 1) \cap Pages(area[x]) = {}
  BY <1>2, <1>3, RangeIs DEF MmioInv
<1>5. mapped' = [mapped EXCEPT ![c] = @ \cup LargePage(g)]
  BY DEF violation_large
<1>6. LargePage(g) \subseteq Page BY DEF LargePage
<1>7. \A x \in Registered : LargePage(g) \cap Pages(area[x]) = {}
  BY <1>2, <1>4
<1>8. /\ mapped' \in [Cpu -> SUBSET Page]
      /\ \A x \in Registered, d \in Cpu : mapped'[d] \cap Pages(area[x]) = {}
  BY <1>5, <1>6, <1>7, MappedMore
<1>9. /\ pc[c] = "locked" /\ rwlock' = rwlock /\ goto(c, "unlock")
      /\ UNCHANGED <<unregister_flag, lists, fields, owned, locals>>
  BY Zenon DEF violation_large
<1>10. "unlock" \in {"interpret", "unlock"} OBVIOUS
<1> QED BY <1>8, <1>9, <1>10, ViolationStep, Zenon

LEMMA PageStep ==
  ASSUME MmioInv, NEW c \in Cpu, violation_page(c)
  PROVE  MmioInv'
<1> PICK g : g = gphys[c] OBVIOUS
<1>1. g \in Page BY CpuIs DEF LocalTypes
<1>2. /\ pc[c] = "locked" /\ rwlock' = rwlock
      /\ UNCHANGED <<unregister_flag, lists, fields, owned, locals>>
  BY Zenon DEF violation_page
<1>3. "unlock" \in {"interpret", "unlock"} /\ "interpret" \in {"interpret", "unlock"}
  OBVIOUS
<1>4. CASE area_of(g) # NULL
  <2>1. goto(c, "interpret") /\ mapped' = mapped
    BY <1>4, Zenon DEF violation_page
  <2> QED BY <1>2, <1>3, <2>1, MappedStands, ViolationStep, Zenon
<1>5. CASE area_of(g) = NULL
  <2>1. goto(c, "unlock") /\ mapped' = [mapped EXCEPT ![c] = @ \cup {g}]
    BY <1>5 DEF violation_page
  <2>2. \A x \in Registered : g \notin Pages(area[x])
    BY <1>1, <1>5, AreaOfIs DEF MmioInv
  <2>3. {g} \subseteq Page /\ \A x \in Registered : {g} \cap Pages(area[x]) = {}
    BY <1>1, <2>2
  <2>4. /\ mapped' \in [Cpu -> SUBSET Page]
        /\ \A x \in Registered, d \in Cpu : mapped'[d] \cap Pages(area[x]) = {}
    BY <2>1, <2>3, MappedMore
  <2> QED BY <1>2, <1>3, <2>1, <2>4, ViolationStep, Zenon
<1> QED BY <1>4, <1>5

\* The steps of who does not hold the lock, and of a scan that is over.
LEMMA OutsideStep ==
  ASSUME MmioInv, NEW c \in Cpu,
         \/ mmio_unlock_test(c) \/ mmio_unlock_trylock(c) \/ mmio_unlock_over(c)
         \/ vt_ept_clear_all(c) \/ handled_unlocked(c)
         \/ \E a \in Area : register_failed(c, a)
  PROVE  MmioInv'
<1>1. LocalTypes /\ rwlock \in Word BY CpuIs
<1>2. ASSUME NEW l \in {"out", "trylock", "clear_flag", "release", "relock", "unlock"},
             goto(c, l), LockMove(c), ~Handling(c), rest[c] = <<>>,
             pc[c] \notin {"mark", "set_flag"},
             UNCHANGED <<unregister_flag, lists, fields, owned, locals>>,
             mapped' \in [Cpu -> SUBSET Page],
             \A x \in Registered, d \in Cpu : mapped'[d] \cap Pages(area[x]) = {}
      PROVE  MmioInv'
  <2>1. l \in Location /\ l \notin {"scan", "delete", "mark"}
    BY Zenon DEF Location
  <2>2. h[c] = NULL BY <1>2, CpuIs, Zenon
  <2> QED BY <1>2, <2>1, <2>2, GoStep
<1>3. CASE mmio_unlock_test(c)
  <2>1. /\ pc[c] = "test_flag" /\ mapped' = mapped /\ rwlock' = rwlock
        /\ UNCHANGED <<unregister_flag, lists, fields, owned, locals>>
    BY <1>3, Zenon DEF mmio_unlock_test
  <2>2. PICK l \in {"out", "trylock"} : goto(c, l) BY <1>3, Zenon DEF mmio_unlock_test
  <2>3. pc'[c] \in {"out", "trylock"} BY <2>2, WentIs
  <2>4. ~Reading(c) /\ ~Inside(c) /\ ~Writing(c) /\ ~Handling(c)
    BY <2>1, Zenon DEF Reading, Inside, Writing, Handling
  <2>5. ~Reading(c)' /\ ~Inside(c)' /\ ~Writing(c)'
    BY <2>3, Zenon DEF Reading, Inside, Writing, Handling
  <2>6. LockMove(c) BY <2>1, <2>4, <2>5, Zenon DEF LockMove
  <2>7. rest[c] = <<>> /\ pc[c] \notin {"mark", "set_flag"} BY <2>1, CpuIs, Zenon
  <2>8. l \in {"out", "trylock", "clear_flag", "release", "relock", "unlock"}
    BY Zenon
  <2> QED BY <1>2, <2>1, <2>2, <2>4, <2>6, <2>7, <2>8, MappedStands
<1>4. CASE mmio_unlock_trylock(c)
  <2>1. /\ pc[c] = "trylock" /\ mapped' = mapped
        /\ UNCHANGED <<unregister_flag, lists, fields, owned, locals>>
        /\ \/ rwlock = 0 /\ rwlock' = Sign /\ goto(c, "clear_flag")
           \/ rwlock' = rwlock /\ goto(c, "out")
    BY <1>4, Zenon DEF mmio_unlock_trylock
  <2>2. ~Reading(c) /\ ~Inside(c) /\ ~Writing(c) /\ ~Handling(c)
    BY <2>1, Zenon DEF Reading, Inside, Writing, Handling
  <2>3. rest[c] = <<>> /\ pc[c] \notin {"mark", "set_flag"} BY <2>1, CpuIs, Zenon
  <2>4. CASE rwlock = 0 /\ rwlock' = Sign /\ goto(c, "clear_flag")
    <3>1. pc'[c] = "clear_flag" BY <2>4, WentIs
    <3>2. ~Reading(c)' /\ Writing(c)'
      BY <3>1, Zenon DEF Reading, Inside, Writing, Handling
    <3>3. LockMove(c) BY <2>4, <3>2, Zenon DEF LockMove
    <3> QED BY <1>2, <2>1, <2>2, <2>3, <2>4, <3>3, MappedStands
  <2>5. CASE rwlock' = rwlock /\ goto(c, "out")
    <3>1. pc'[c] = "out" BY <2>5, WentIs
    <3>2. ~Reading(c)' /\ ~Inside(c)' /\ ~Writing(c)'
      BY <3>1, Zenon DEF Reading, Inside, Writing, Handling
    <3>3. LockMove(c) BY <2>2, <2>5, <3>2, Zenon DEF LockMove
    <3> QED BY <1>2, <2>1, <2>2, <2>3, <2>5, <3>3, MappedStands
  <2> QED BY <2>1, <2>4, <2>5
<1>5. CASE mmio_unlock_over(c)
  <2>1. /\ pc[c] = "scan" /\ mapped' = mapped /\ rest[c] = <<>>
        /\ UNCHANGED <<unregister_flag, lists, fields, owned, locals>>
        /\ rwlock' = clear_writer(rwlock) /\ goto(c, "out")
    BY <1>5, Zenon DEF mmio_unlock_over
  <2>2. ~Reading(c) /\ Writing(c) /\ ~Handling(c) /\ pc[c] \notin {"mark", "set_flag"}
    BY <2>1, Zenon DEF Reading, Inside, Writing, Handling
  <2>3. pc'[c] = "out" BY <2>1, WentIs
  <2>4. ~Reading(c)' /\ ~Writing(c)'
    BY <2>3, Zenon DEF Reading, Inside, Writing, Handling
  <2>5. LockMove(c) BY <2>1, <2>2, <2>4, Zenon DEF LockMove
  <2> QED BY <1>2, <2>1, <2>2, <2>5, MappedStands
<1>6. CASE vt_ept_clear_all(c)
  <2>1. /\ pc[c] = "out" /\ pc' = pc /\ mapped' = [mapped EXCEPT ![c] = {}]
        /\ UNCHANGED <<unregister_flag, lists, fields, owned, locals>>
        /\ rwlock' = rwlock
    BY <1>6 DEF vt_ept_clear_all
  <2>2. goto(c, "out") BY <1>1, <2>1 DEF goto, LocalTypes
  <2>3. mapped' = [mapped EXCEPT ![c] = @ \ mapped[c]]
    <3>1. mapped[c] \ mapped[c] = {} OBVIOUS
    <3> QED BY <2>1, <3>1
  <2>4. /\ mapped' \in [Cpu -> SUBSET Page]
        /\ \A x \in Registered, d \in Cpu : mapped'[d] \cap Pages(area[x]) = {}
    BY <2>3, MappedLess
  <2>5. ~Reading(c) /\ ~Inside(c) /\ ~Writing(c) /\ ~Handling(c)
    BY <2>1, Zenon DEF Reading, Inside, Writing, Handling
  <2>6. pc'[c] = "out" BY <2>1
  <2>7. ~Reading(c)' /\ ~Inside(c)' /\ ~Writing(c)'
    BY <2>6, Zenon DEF Reading, Inside, Writing, Handling
  <2>8. LockMove(c) BY <2>1, <2>5, <2>7, Zenon DEF LockMove
  <2>9. rest[c] = <<>> /\ pc[c] \notin {"mark", "set_flag"} BY <2>1, CpuIs, Zenon
  <2> QED BY <1>2, <2>1, <2>2, <2>4, <2>5, <2>8, <2>9
<1>7. CASE handled_unlocked(c)
  <2>1. /\ pc[c] = "unlocked" /\ mapped' = mapped
        /\ UNCHANGED <<unregister_flag, lists, fields, owned, locals>>
        /\ rwlock' = add_reader(rwlock)
        /\ goto(c, IF negative(rwlock') THEN "relock" ELSE "unlock")
    BY <1>7, Zenon DEF handled_unlocked
  <2>2. PICK l \in {"relock", "unlock"} :
          goto(c, l) /\ (l = "unlock" => ~negative(rwlock'))
    <3>1. CASE negative(rwlock')
      <4>1. goto(c, "relock") /\ "relock" # "unlock" BY <2>1, <3>1
      <4> QED BY <4>1
    <3>2. CASE ~negative(rwlock') BY <2>1, <3>2
    <3> QED BY <3>1, <3>2
  <2>3. pc'[c] = l BY <2>2, WentIs
  <2>4. ~Reading(c) /\ ~Writing(c) /\ ~Handling(c)
    BY <2>1, Zenon DEF Reading, Inside, Writing, Handling
  <2>5. Reading(c)' /\ ~Writing(c)' /\ (Inside(c)' => l = "unlock")
    BY <2>3, Zenon DEF Reading, Inside, Writing, Handling
  <2>6. LockMove(c) BY <2>1, <2>2, <2>4, <2>5, Zenon DEF LockMove
  <2>7. rest[c] = <<>> /\ pc[c] \notin {"mark", "set_flag"} BY <2>1, CpuIs, Zenon
  <2>8. l \in {"out", "trylock", "clear_flag", "release", "relock", "unlock"}
    BY Zenon
  <2> QED BY <1>2, <2>1, <2>2, <2>4, <2>6, <2>7, <2>8, MappedStands
<1>8. CASE \E a \in Area : register_failed(c, a)
  <2>1. PICK a \in Area : register_failed(c, a) BY <1>8
  <2>2. /\ pc[c] = "register" /\ rwlock' = rwlock /\ goto(c, "release")
        /\ UNCHANGED <<unregister_flag, lists, fields, owned, locals>>
        /\ mapped' = mapped \/ mapped' = [mapped EXCEPT ![c] = @ \ Pages(a)]
    BY <2>1 DEF register_failed
  <2>3. /\ mapped' \in [Cpu -> SUBSET Page]
        /\ \A x \in Registered, d \in Cpu : mapped'[d] \cap Pages(area[x]) = {}
    BY <2>2, MappedStands, MappedLess
  <2>4. ~Reading(c) /\ Writing(c) /\ ~Handling(c) /\ ~Inside(c)
    BY <2>2, Zenon DEF Reading, Inside, Writing, Handling
  <2>5. pc'[c] = "release" BY <2>2, WentIs
  <2>6. ~Reading(c)' /\ Writing(c)' /\ ~Inside(c)'
    BY <2>5, Zenon DEF Reading, Inside, Writing, Handling
  <2>7. LockMove(c) BY <2>2, <2>4, <2>6, Zenon DEF LockMove
  <2>8. rest[c] = <<>> /\ pc[c] \notin {"mark", "set_flag"} BY <2>2, CpuIs, Zenon
  <2> QED BY <1>2, <2>2, <2>3, <2>4, <2>7, <2>8
<1> QED BY <1>3, <1>4, <1>5, <1>6, <1>7, <1>8

\* The steps that also change where a processor is, what it uses or where it
\* returns to.
LEMMA LocalStep ==
  ASSUME MmioInv, NEW c \in Cpu, LockMove(c), mapped' = mapped,
         UNCHANGED <<unregister_flag, lists, fields, owned, rest>>,
         NEW l \in Location, goto(c, l),
         NEW x \in Handle \cup {NULL}, h' = [h EXCEPT ![c] = x],
         NEW g \in Page, gphys' = [gphys EXCEPT ![c] = g],
         NEW r \in {"out", "unlocked"}, caller' = [caller EXCEPT ![c] = r],
         rest[c] = <<>>, pc[c] # "set_flag", l \notin {"scan", "delete", "mark"},
         x # NULL => l = "handler" /\ x \in allocated
  PROVE  MmioInv'
<1>1. LocalTypes BY CpuIs
<1>2. LocalTypes'
  <2>1. pc' = [pc EXCEPT ![c] = l] BY DEF goto
  <2>2. r \in {"out", "handler", "unlocked"} OBVIOUS
  <2> QED BY <1>1, <2>1, <2>2 DEF LocalTypes
<1>3. pc'[c] = l /\ \A d \in Cpu \ {c} : pc'[d] = pc[d] BY WentIs
<1>4. Alone(c)
  <2>1. \A d \in Cpu \ {c} : caller'[d] = caller[d] /\ h'[d] = h[d]
    BY <1>1 DEF LocalTypes
  <2>2. rest' = rest OBVIOUS
  <2> QED BY <1>3, <2>1, <2>2 DEF Alone
<1>5. h'[c] = x /\ caller'[c] = r BY <1>1 DEF LocalTypes
<1>6. h'[c] # NULL => Handling(c)' /\ h'[c] \in allocated
  BY <1>3, <1>5, Zenon DEF Handling
<1>7. r # "handler" OBVIOUS
<1>8. Quiet(c)
  BY <1>3, <1>4, <1>5, <1>6, <1>7, Zenon DEF Quiet
<1>9. \A y \in Registered, d \in Cpu : mapped'[d] \cap Pages(area[y]) = {}
  BY MappedStands, Zenon
<1> QED BY <1>2, <1>8, <1>9, QuietStep, Zenon

\* A processor that goes on with the h, gphys and caller it has.
LEMMA Kept ==
  ASSUME MmioInv, NEW c \in Cpu
  PROVE  /\ h = [h EXCEPT ![c] = h[c]] /\ h[c] \in Handle \cup {NULL}
         /\ gphys = [gphys EXCEPT ![c] = gphys[c]] /\ gphys[c] \in Page
         /\ caller = [caller EXCEPT ![c] = caller[c]]
         /\ pc[c] \notin {"mark", "set_flag"} => caller[c] \in {"out", "unlocked"}
         /\ 0 \in Page
<1>1. LocalTypes BY CpuIs
<1>2. /\ h = [h EXCEPT ![c] = h[c]] /\ h[c] \in Handle \cup {NULL}
      /\ gphys = [gphys EXCEPT ![c] = gphys[c]] /\ gphys[c] \in Page
      /\ caller = [caller EXCEPT ![c] = caller[c]]
      /\ caller[c] \in {"out", "handler", "unlocked"}
  BY <1>1 DEF LocalTypes
<1>3. 0 \in Page BY MmioAssumption DEF Page
<1> QED BY <1>2, <1>3, CpuIs

LEMMA LockShStep ==
  ASSUME MmioInv, NEW c \in Cpu, NEW g \in Page, mmio_lock(c, g)
  PROVE  MmioInv'
<1>1. /\ pc[c] = "out" /\ gphys' = [gphys EXCEPT ![c] = g]
      /\ rwlock' = add_reader(rwlock) /\ mapped' = mapped /\ h' = h /\ caller' = caller
      /\ UNCHANGED <<unregister_flag, lists, fields, owned, rest>>
      /\ goto(c, IF negative(rwlock') THEN "lock" ELSE "locked")
  BY Zenon DEF mmio_lock
<1>2. PICK l \in {"lock", "locked"} : goto(c, l) /\ (l = "locked" => ~negative(rwlock'))
  <2>1. CASE negative(rwlock')
    <3>1. goto(c, "lock") /\ "lock" # "locked" BY <1>1, <2>1
    <3> QED BY <3>1
  <2>2. CASE ~negative(rwlock') BY <1>1, <2>2
  <2> QED BY <2>1, <2>2
<1>3. pc'[c] = l BY <1>2, WentIs
<1>4. ~Reading(c) /\ ~Writing(c) /\ ~Handling(c) /\ pc[c] \notin {"mark", "set_flag"}
  BY <1>1, Zenon DEF Reading, Inside, Writing, Handling
<1>5. Reading(c)' /\ ~Writing(c)' /\ (Inside(c)' => l = "locked")
  BY <1>3, Zenon DEF Reading, Inside, Writing, Handling
<1>6. LockMove(c) BY <1>1, <1>2, <1>4, <1>5, Zenon DEF LockMove
<1>7. rest[c] = <<>> /\ h[c] = NULL BY <1>1, <1>4, CpuIs, Zenon
<1>8. /\ h' = [h EXCEPT ![c] = h[c]] /\ h[c] \in Handle \cup {NULL}
      /\ caller' = [caller EXCEPT ![c] = caller[c]] /\ caller[c] \in {"out", "unlocked"}
  BY <1>1, <1>4, Kept, Zenon
<1>9. l \in Location /\ l \notin {"scan", "delete", "mark"} BY Zenon DEF Location
<1> QED BY <1>1, <1>2, <1>4, <1>6, <1>7, <1>8, <1>9, LocalStep, Zenon

LEMMA AccessStep ==
  ASSUME MmioInv, NEW c \in Cpu, mmio_access_memory(c)
  PROVE  MmioInv'
<1> PICK x : x = area_of(gphys[c]) OBVIOUS
<1>1. /\ pc[c] = "interpret" /\ mapped' = mapped /\ gphys' = gphys /\ caller' = caller
      /\ UNCHANGED <<unregister_flag, lists, fields, owned, rest>>
      /\ h' = [h EXCEPT ![c] = IF x # Mcfg THEN x ELSE NULL]
      /\ goto(c, IF x = NULL THEN "unlock"
                 ELSE IF x = Mcfg THEN "unlocked" ELSE "handler")
      /\ rwlock' = IF x = Mcfg THEN sub_reader(rwlock) ELSE rwlock
  BY Zenon DEF mmio_access_memory
<1>2. x # NULL => x \in allocated /\ x \in Handle
  <2>1. gphys[c] \in Page BY Kept
  <2>2. x # NULL => x \in Registered BY <2>1, AreaOfIs DEF MmioInv
  <2> QED BY <2>2, CpuIs DEF Registered
<1>3. /\ Reading(c) /\ Inside(c) /\ ~Writing(c) /\ ~Handling(c)
      /\ pc[c] \notin {"mark", "set_flag"}
  BY <1>1, Zenon DEF Reading, Inside, Writing, Handling
<1>4. rest[c] = <<>> BY <1>1, CpuIs, Zenon
<1>5. /\ gphys' = [gphys EXCEPT ![c] = gphys[c]] /\ gphys[c] \in Page
      /\ caller' = [caller EXCEPT ![c] = caller[c]] /\ caller[c] \in {"out", "unlocked"}
  BY <1>1, <1>3, Kept, Zenon
<1>6. /\ "unlock" \in Location /\ "unlocked" \in Location /\ "handler" \in Location
      /\ "unlock" \notin {"scan", "delete", "mark"}
      /\ "unlocked" \notin {"scan", "delete", "mark"}
      /\ "handler" \notin {"scan", "delete", "mark"}
  BY DEF Location
<1>7. CASE x = NULL
  <2>1. /\ NULL # Mcfg /\ goto(c, "unlock") /\ h' = [h EXCEPT ![c] = NULL]
        /\ rwlock' = rwlock /\ NULL \in Handle \cup {NULL}
    BY <1>1, <1>7 DEF NULL, Mcfg
  <2>2. pc'[c] = "unlock" BY <2>1, WentIs
  <2>3. Reading(c)' /\ ~Writing(c)' BY <2>2, Zenon DEF Reading, Inside, Writing, Handling
  <2>4. LockMove(c) BY <1>3, <2>1, <2>3, Zenon DEF LockMove
  <2> QED BY <1>1, <1>3, <1>4, <1>5, <1>6, <2>1, <2>4, LocalStep, Zenon
<1>8. CASE x = Mcfg
  <2>1. /\ x # NULL /\ goto(c, "unlocked") /\ h' = [h EXCEPT ![c] = NULL]
        /\ rwlock' = sub_reader(rwlock) /\ NULL \in Handle \cup {NULL}
    BY <1>1, <1>8 DEF NULL, Mcfg
  <2>2. pc'[c] = "unlocked" BY <2>1, WentIs
  <2>3. ~Reading(c)' /\ ~Writing(c)' BY <2>2, Zenon DEF Reading, Inside, Writing, Handling
  <2>4. LockMove(c) BY <1>3, <2>1, <2>3, Zenon DEF LockMove
  <2> QED BY <1>1, <1>3, <1>4, <1>5, <1>6, <2>1, <2>4, LocalStep, Zenon
<1>9. CASE x # NULL /\ x # Mcfg
  <2>1. /\ goto(c, "handler") /\ h' = [h EXCEPT ![c] = x]
        /\ rwlock' = rwlock /\ x \in Handle \cup {NULL} /\ x \in allocated
    BY <1>1, <1>2, <1>9
  <2>2. pc'[c] = "handler" BY <2>1, WentIs
  <2>3. Reading(c)' /\ ~Writing(c)' BY <2>2, Zenon DEF Reading, Inside, Writing, Handling
  <2>4. LockMove(c) BY <1>3, <2>1, <2>3, Zenon DEF LockMove
  <2> QED BY <1>1, <1>3, <1>4, <1>5, <1>6, <2>1, <2>4, LocalStep, Zenon
<1> QED BY <1>7, <1>8, <1>9

LEMMA HandledStep ==
  ASSUME MmioInv, NEW c \in Cpu, handled(c)
  PROVE  MmioInv'
<1>1. /\ pc[c] = "handler" /\ mapped' = mapped /\ gphys' = gphys /\ caller' = caller
      /\ UNCHANGED <<unregister_flag, lists, fields, owned, rest>>
      /\ h' = [h EXCEPT ![c] = NULL] /\ goto(c, "unlock") /\ rwlock' = rwlock
  BY Zenon DEF handled
<1>2. Reading(c) /\ Inside(c) /\ ~Writing(c) /\ pc[c] \notin {"mark", "set_flag"}
  BY <1>1, Zenon DEF Reading, Inside, Writing, Handling
<1>3. pc'[c] = "unlock" BY <1>1, WentIs
<1>4. Reading(c)' /\ ~Writing(c)' BY <1>3, Zenon DEF Reading, Inside, Writing, Handling
<1>5. LockMove(c) BY <1>1, <1>2, <1>4, Zenon DEF LockMove
<1>6. rest[c] = <<>> BY <1>1, CpuIs, Zenon
<1>7. /\ gphys' = [gphys EXCEPT ![c] = gphys[c]] /\ gphys[c] \in Page
      /\ caller' = [caller EXCEPT ![c] = caller[c]] /\ caller[c] \in {"out", "unlocked"}
  BY <1>1, <1>2, Kept, Zenon
<1>8. "unlock" \in Location /\ "unlock" \notin {"scan", "delete", "mark"}
  BY DEF Location
<1>9. NULL \in Handle \cup {NULL} OBVIOUS
<1> QED BY <1>1, <1>2, <1>5, <1>6, <1>7, <1>8, <1>9, LocalStep, Zenon

LEMMA UnlockStep ==
  ASSUME MmioInv, NEW c \in Cpu, mmio_unlock(c)
  PROVE  MmioInv'
<1>1. /\ pc[c] = "unlock" /\ mapped' = mapped /\ h' = h /\ caller' = caller
      /\ UNCHANGED <<unregister_flag, lists, fields, owned, rest>>
      /\ gphys' = [gphys EXCEPT ![c] = 0] /\ goto(c, "test_flag")
      /\ rwlock' = sub_reader(rwlock)
  BY Zenon DEF mmio_unlock, nowhere
<1>2. Reading(c) /\ ~Handling(c) /\ ~Writing(c) /\ pc[c] \notin {"mark", "set_flag"}
  BY <1>1, Zenon DEF Reading, Inside, Writing, Handling
<1>3. pc'[c] = "test_flag" BY <1>1, WentIs
<1>4. ~Reading(c)' /\ ~Writing(c)' BY <1>3, Zenon DEF Reading, Inside, Writing, Handling
<1>5. LockMove(c) BY <1>1, <1>2, <1>4, Zenon DEF LockMove
<1>6. rest[c] = <<>> /\ h[c] = NULL BY <1>1, <1>2, CpuIs, Zenon
<1>7. /\ h' = [h EXCEPT ![c] = h[c]] /\ h[c] \in Handle \cup {NULL} /\ 0 \in Page
      /\ caller' = [caller EXCEPT ![c] = caller[c]] /\ caller[c] \in {"out", "unlocked"}
  BY <1>1, <1>2, Kept, Zenon
<1>8. "test_flag" \in Location /\ "test_flag" \notin {"scan", "delete", "mark"}
  BY DEF Location
<1> QED BY <1>1, <1>2, <1>5, <1>6, <1>7, <1>8, LocalStep, Zenon

\* rw_spinlock_lock_ex of mmio_register, and the unlock of both.
LEMMA ExclusiveStep ==
  ASSUME MmioInv, NEW c \in Cpu, register_lock_ex(c) \/ release(c)
  PROVE  MmioInv'
<1>1. CASE register_lock_ex(c)
  <2>1. /\ pc[c] \in {"out", "unlocked"} /\ mapped' = mapped /\ h' = h /\ gphys' = gphys
        /\ UNCHANGED <<unregister_flag, lists, fields, owned, rest>>
        /\ caller' = [caller EXCEPT ![c] = pc[c]] /\ goto(c, "register")
        /\ rwlock = 0 /\ rwlock' = Sign
    BY <1>1, Zenon DEF register_lock_ex
  <2>2. ~Handling(c) /\ pc[c] \notin {"mark", "set_flag"}
    BY <2>1, Zenon DEF Handling
  <2>3. pc'[c] = "register" BY <2>1, WentIs
  <2>4. ~Reading(c)' /\ Writing(c)'
    BY <2>3, Zenon DEF Reading, Inside, Writing, Handling
  <2>5. LockMove(c) BY <2>1, <2>4, Zenon DEF LockMove
  <2>6. rest[c] = <<>> /\ h[c] = NULL BY <2>1, <2>2, CpuIs, Zenon
  <2>7. /\ h' = [h EXCEPT ![c] = h[c]] /\ h[c] \in Handle \cup {NULL}
        /\ gphys' = [gphys EXCEPT ![c] = gphys[c]] /\ gphys[c] \in Page
    BY <2>1, Kept, Zenon
  <2>8. "register" \in Location /\ "register" \notin {"scan", "delete", "mark"}
    BY DEF Location
  <2> QED BY <2>1, <2>2, <2>5, <2>6, <2>7, <2>8, LocalStep, Zenon
<1>2. CASE release(c)
  <2>1. /\ pc[c] = "release" /\ mapped' = mapped /\ h' = h /\ gphys' = gphys
        /\ UNCHANGED <<unregister_flag, lists, fields, owned, rest>>
        /\ caller' = [caller EXCEPT ![c] = "out"] /\ goto(c, caller[c])
        /\ rwlock' = clear_writer(rwlock)
    BY <1>2, Zenon DEF release, return
  <2>2. /\ ~Handling(c) /\ pc[c] \notin {"mark", "set_flag"}
        /\ ~Reading(c) /\ Writing(c)
    BY <2>1, Zenon DEF Handling, Reading, Inside, Writing
  <2>3. caller[c] \in {"out", "unlocked"} BY <2>2, Kept
  <2>4. pc'[c] \in {"out", "unlocked"} BY <2>1, <2>3, WentIs
  <2>5. ~Reading(c)' /\ ~Writing(c)'
    BY <2>4, Zenon DEF Reading, Inside, Writing, Handling
  <2>6. LockMove(c) BY <2>1, <2>2, <2>5, Zenon DEF LockMove
  <2>7. rest[c] = <<>> /\ h[c] = NULL BY <2>1, <2>2, CpuIs, Zenon
  <2>8. /\ h' = [h EXCEPT ![c] = h[c]] /\ h[c] \in Handle \cup {NULL}
        /\ gphys' = [gphys EXCEPT ![c] = gphys[c]] /\ gphys[c] \in Page
    BY <2>1, Kept, Zenon
  <2>9. /\ caller[c] \in Location /\ caller[c] \notin {"scan", "delete", "mark"}
        /\ "out" \in {"out", "unlocked"}
    BY <2>3, Zenon DEF Location
  <2> QED BY <2>1, <2>2, <2>6, <2>7, <2>8, <2>9, LocalStep, Zenon
<1> QED BY <1>1, <1>2

-----------------------------------------------------------------------------
(***************************************************************************)
(* The steps that change who has a handle: what there is to show of each.  *)
(***************************************************************************)
LEMMA Invariants ==
  ASSUME MmioInv
  PROVE  /\ HandleInv /\ TypeOK /\ ListsInv /\ RwInv /\ UseInv /\ OwnInv
         /\ Apart /\ NeverMapped /\ RemovedLater /\ LocalTypes
         /\ ToSet(handles) = allocated /\ allocated \subseteq Handle
BY Zenon DEF MmioInv, HandleInv, TypeOK, ListsInv, LocalTypes

\* The writer is alone: nobody is in a handler, and nobody else writes.
LEMMA WriterIs ==
  ASSUME MmioInv, NEW c \in Cpu, Writing(c)
  PROVE  /\ \A d \in Cpu : h[d] = NULL
         /\ \A d \in Cpu \ {c} : pc[d] \notin {"scan", "delete", "register", "clear_flag"}
<1>1. ASSUME NEW d \in Cpu PROVE h[d] = NULL
  <2>1. h[d] # NULL => Inside(d) BY Invariants DEF UseInv, Inside
  <2> QED BY <2>1, Invariants DEF RwInv
<1>2. \A d \in Cpu \ {c} : ~Writing(d) BY Invariants DEF RwInv
<1> QED BY <1>1, <1>2, Zenon DEF Writing

\* How the parts of the invariant about the processors follow.
LEMMA Rebuilt ==
  ASSUME MmioInv, NEW c \in Cpu, LockMove(c),
         \A d \in Cpu \ {c} : /\ pc'[d] = pc[d] /\ caller'[d] = caller[d]
                              /\ h'[d] = h[d] /\ rest'[d] = rest[d],
         LocalTypes', rest' \in [Cpu -> Seq(Handle)],
         /\ unregister_flag' \in BOOLEAN
         /\ allocated' \subseteq Handle /\ owned' \subseteq allocated'
         /\ handles' \in Seq(allocated') /\ mmio' \in [Buckets -> Seq(allocated')]
         /\ area' \in [Handle -> Area] /\ unregistered' \in [Handle -> BOOLEAN],
         ListsInv', Apart', NeverMapped', RemovedLater',
         /\ \A d \in Cpu \ {c} : h[d] # NULL => h[d] \in allocated'
         /\ h'[c] # NULL => Handling(c)' /\ h'[c] \in allocated'
         /\ caller'[c] = "handler" => pc'[c] \in {"mark", "set_flag"},
         \A x \in Handle : unregistered'[x] => x \in allocated' \ owned',
         /\ pc'[c] \notin {"scan", "delete", "mark"} => rest'[c] = <<>>
         /\ pc'[c] = "scan" => rest'[c] \in Seq(allocated') /\ Once(rest'[c])
         /\ Leaving(c)' => \E x \in allocated' \ owned' :
                             rest'[c] = <<x>> /\ ~unregistered'[x]
         /\ \A d \in Cpu \ {c} : pc[d] = "scan" => rest[d] \in Seq(allocated')
         /\ \A d \in Cpu \ {c} : \A x \in allocated \ owned :
              Leaving(d) /\ rest[d] = <<x>> /\ ~unregistered[x]
                => x \in allocated' \ owned' /\ ~unregistered'[x]
         /\ \A d \in Cpu \ {c} :
              Leaving(d) /\ Leaving(c)' => rest[d] # rest'[c]
  PROVE  MmioInv'
<1>1. Alone(c) BY Zenon DEF Alone
<1>2. RwInv' /\ rwlock' \in Word BY <1>1, LockStep, Invariants, Zenon
<1>3. \A d \in Cpu \ {c} : /\ Handling(d)' <=> Handling(d)
                           /\ Leaving(d)' <=> Leaving(d)
  BY <1>1, ReadersMove, Zenon
<1>4. TypeOK'
  <2>1. owned' \subseteq Handle OBVIOUS
  <2> QED BY <1>2, <2>1, Zenon DEF TypeOK, LocalTypes
<1>5. UseInv'
  <2>1. ASSUME NEW d \in Cpu
        PROVE  /\ h'[d] # NULL => Handling(d)' /\ h'[d] \in allocated'
               /\ caller'[d] = "handler" => pc'[d] \in {"mark", "set_flag"}
    <3>1. CASE d = c BY <3>1, Zenon
    <3>2. CASE d # c
      <4>1. d \in Cpu \ {c} BY <3>2
      <4>2. /\ h[d] # NULL => Handling(d)
            /\ caller[d] = "handler" => pc[d] \in {"mark", "set_flag"}
        BY Invariants DEF UseInv
      <4> QED BY <1>3, <4>1, <4>2, Zenon
    <3> QED BY <3>1, <3>2
  <2> QED BY <2>1, Zenon DEF UseInv
<1>6. OwnInv'
  <2>1. OwnInv BY Invariants
  <2>2. ASSUME NEW d \in Cpu
        PROVE  /\ pc'[d] \notin {"scan", "delete", "mark"} => rest'[d] = <<>>
               /\ pc'[d] = "scan" => rest'[d] \in Seq(allocated') /\ Once(rest'[d])
               /\ Leaving(d)' => \E x \in allocated' \ owned' :
                                   rest'[d] = <<x>> /\ ~unregistered'[x]
    <3>1. CASE d = c BY <3>1, Zenon
    <3>2. CASE d # c
      <4>1. /\ d \in Cpu \ {c} /\ pc'[d] = pc[d] /\ rest'[d] = rest[d]
            /\ Leaving(d)' <=> Leaving(d)
        BY <1>3, <3>2
      <4>2. /\ pc[d] \notin {"scan", "delete", "mark"} => rest[d] = <<>>
            /\ pc[d] = "scan" => Once(rest[d])
        BY <2>1 DEF OwnInv
      <4>3. pc[d] = "scan" => rest[d] \in Seq(allocated') BY <4>1
      <4>4. ASSUME Leaving(d)
            PROVE  \E x \in allocated' \ owned' : rest[d] = <<x>> /\ ~unregistered'[x]
        <5>1. PICK x \in allocated \ owned : rest[d] = <<x>> /\ ~unregistered[x]
          BY <2>1, <4>4 DEF OwnInv
        <5>2. x \in allocated' \ owned' /\ ~unregistered'[x]
          BY <4>1, <4>4, <5>1
        <5> QED BY <5>1, <5>2
      <4> QED BY <4>1, <4>2, <4>3, <4>4, Zenon
    <3> QED BY <3>1, <3>2
  <2>3. ASSUME NEW d \in Cpu, NEW e \in Cpu,
               Leaving(d)', Leaving(e)', rest'[d] = rest'[e], d # e
        PROVE  FALSE
    <3>1. CASE d = c
      <4>1. e \in Cpu \ {c} /\ Leaving(e) /\ rest'[e] = rest[e] BY <1>3, <2>3, <3>1
      <4> QED BY <2>3, <3>1, <4>1
    <3>2. CASE e = c
      <4>1. d \in Cpu \ {c} /\ Leaving(d) /\ rest'[d] = rest[d] BY <1>3, <2>3, <3>2
      <4> QED BY <2>3, <3>2, <4>1
    <3>3. CASE d # c /\ e # c
      <4>1. Leaving(d) /\ Leaving(e) /\ rest[d] = rest[e] BY <1>3, <2>3, <3>3
      <4> QED BY <2>1, <2>3, <4>1 DEF OwnInv
    <3> QED BY <3>1, <3>2, <3>3
  <2> QED BY <2>2, <2>3, Zenon DEF OwnInv
<1> QED BY <1>2, <1>4, <1>5, <1>6, Zenon DEF MmioInv, HandleInv

\* The lists and the handles are as they were.
LEMMA ListsStand ==
  ASSUME MmioInv, UNCHANGED <<lists, fields, mapped>>
  PROVE  /\ handles' = handles /\ mmio' = mmio /\ area' = area
         /\ unregistered' = unregistered /\ allocated' = allocated
         /\ allocated' \subseteq Handle
         /\ handles' \in Seq(allocated') /\ mmio' \in [Buckets -> Seq(allocated')]
         /\ area' \in [Handle -> Area] /\ unregistered' \in [Handle -> BOOLEAN]
         /\ ListsInv' /\ Apart' /\ NeverMapped' /\ Registered' = Registered
<1>1. /\ handles' = handles /\ mmio' = mmio /\ area' = area /\ mapped' = mapped
      /\ unregistered' = unregistered /\ allocated' = allocated
  BY Zenon DEF lists, fields
<1>2. Registered' = Registered BY <1>1 DEF Registered
<1>3. start' = start BY <1>1 DEF start
<1>4. ListsInv' BY <1>1, <1>3, Invariants, Zenon DEF ListsInv
<1>5. Apart' /\ NeverMapped' BY <1>1, <1>2, Invariants, Zenon DEF Apart, NeverMapped
<1>6. TypeOK BY Invariants
<1> QED BY <1>1, <1>2, <1>4, <1>5, <1>6, Zenon DEF TypeOK

LEMMA WriterMoves ==
  ASSUME NEW c \in Cpu, Writing(c), Writing(c)', rwlock' = rwlock
  PROVE  LockMove(c)
<1>1. ~Reading(c) /\ ~Inside(c) /\ ~Reading(c)' /\ ~Inside(c)'
  BY Zenon DEF Reading, Inside, Writing, Handling
<1> QED BY <1>1, Zenon DEF LockMove

LEMMA ClearStep ==
  ASSUME MmioInv, NEW c \in Cpu, mmio_unlock_clear(c)
  PROVE  MmioInv'
<1>1. /\ pc[c] = "clear_flag" /\ unregister_flag' = FALSE
      /\ rest' = [rest EXCEPT ![c] = handles] /\ goto(c, "scan")
      /\ rwlock' = rwlock /\ owned' = owned /\ mapped' = mapped
      /\ UNCHANGED <<lists, fields, mapped>>
      /\ h' = h /\ gphys' = gphys /\ caller' = caller
  BY Zenon DEF mmio_unlock_clear
<1>2. /\ handles' = handles /\ mmio' = mmio /\ area' = area
      /\ unregistered' = unregistered /\ allocated' = allocated
      /\ allocated' \subseteq Handle
      /\ handles' \in Seq(allocated') /\ mmio' \in [Buckets -> Seq(allocated')]
      /\ area' \in [Handle -> Area] /\ unregistered' \in [Handle -> BOOLEAN]
      /\ ListsInv' /\ Apart' /\ NeverMapped'
  BY <1>1, ListsStand, Zenon
<1>3. LocalTypes /\ TypeOK /\ OwnInv /\ ListsInv /\ UseInv BY Invariants
<1>4. pc'[c] = "scan" /\ \A d \in Cpu \ {c} : pc'[d] = pc[d] BY <1>1, WentIs
<1>5. Writing(c) /\ Writing(c)' BY <1>1, <1>4, Zenon DEF Writing
<1>6. LockMove(c) BY <1>1, <1>5, WriterMoves
<1>7. LocalTypes'
  <2>1. "scan" \in Location BY DEF Location
  <2> QED BY <1>1, <1>3, <2>1 DEF LocalTypes, goto
<1>8. /\ rest'[c] = handles
      /\ \A d \in Cpu \ {c} : rest'[d] = rest[d]
      /\ rest' \in [Cpu -> Seq(Handle)]
  <2>1. handles \in Seq(Handle) BY <1>2
  <2> QED BY <1>1, <1>3, <2>1 DEF TypeOK
<1>9. \A d \in Cpu \ {c} : /\ pc'[d] = pc[d] /\ caller'[d] = caller[d]
                           /\ h'[d] = h[d] /\ rest'[d] = rest[d]
  BY <1>1, <1>4, <1>8
<1>10. \A d \in Cpu : h[d] = NULL BY <1>5, WriterIs
<1>11. RemovedLater'
  <2>1. \A x \in ToSet(handles') : x \in ToSet(rest'[c]) BY <1>2, <1>8
  <2> QED BY <2>1, Zenon DEF RemovedLater
<1>12. h'[c] # NULL => Handling(c)' /\ h'[c] \in allocated' BY <1>1, <1>10
<1>13. caller'[c] = "handler" => pc'[c] \in {"mark", "set_flag"}
  <2>1. pc[c] \notin {"mark", "set_flag"} BY <1>1
  <2> QED BY <1>1, <2>1, CpuIs
<1>14. \A x \in Handle : unregistered'[x] => x \in allocated' \ owned'
  BY <1>1, <1>2, <1>3 DEF OwnInv
<1>15. pc'[c] \notin {"scan", "delete", "mark"} => rest'[c] = <<>> BY <1>4
<1>16. pc'[c] = "scan" => rest'[c] \in Seq(allocated') /\ Once(rest'[c])
  BY <1>2, <1>3, <1>8 DEF ListsInv
<1>17. ~Leaving(c)' BY <1>4, Zenon DEF Leaving
<1>18. \A d \in Cpu \ {c} : pc[d] = "scan" => rest[d] \in Seq(allocated')
  BY <1>5, WriterIs
<1>19. owned' \subseteq allocated' BY <1>1, <1>2, <1>3 DEF OwnInv
<1>20. unregister_flag' \in BOOLEAN BY <1>1
<1> QED BY <1>1, <1>2, <1>6, <1>7, <1>8, <1>9, <1>10, <1>11, <1>12, <1>13, <1>14,
           <1>15, <1>16, <1>17, <1>18, <1>19, <1>20, Rebuilt, Zenon

\* What remove needs, and leaves, when the writer removes a handle nobody owns.
LEMMA Removed ==
  ASSUME MmioInv, NEW c \in Cpu, Writing(c), NEW x \in allocated \ owned, remove(x),
         owned' = owned, mapped' = mapped,
         \A d \in Cpu \ {c} : Leaving(d) => rest[d] # <<x>>
  PROVE  /\ handles' \in Seq(allocated') /\ mmio' \in [Buckets -> Seq(allocated')]
         /\ area' \in [Handle -> Area] /\ unregistered' \in [Handle -> BOOLEAN]
         /\ allocated' \subseteq Handle /\ owned' \subseteq allocated'
         /\ allocated' = allocated \ {x} /\ ToSet(handles') = allocated'
         /\ ListsInv' /\ Apart' /\ NeverMapped'
         /\ \A y \in Handle : unregistered'[y] => y # x /\ unregistered[y]
         /\ \A y \in Handle : unregistered'[y] => y \in allocated' \ owned'
         /\ \A d \in Cpu \ {c} : \A y \in allocated \ owned :
              Leaving(d) /\ rest[d] = <<y>> /\ ~unregistered[y]
                => y \in allocated' \ owned' /\ ~unregistered'[y]
<1>1. /\ HandleInv /\ Apart /\ OwnInv /\ NeverMapped /\ x \in allocated /\ x \in Handle
      /\ allocated \subseteq Handle /\ ToSet(handles) = allocated
  BY Invariants
<1>2. /\ handles' \in Seq(allocated') /\ mmio' \in [Buckets -> Seq(allocated')]
      /\ area' \in [Handle -> Area] /\ unregistered' \in [Handle -> BOOLEAN]
      /\ allocated' = allocated \ {x} /\ allocated' \subseteq Handle
      /\ \A y \in Handle \ {x} : area'[y] = area[y] /\ unregistered'[y] = unregistered[y]
      /\ ~unregistered'[x]
      /\ Registered' = Registered \ {x}
      /\ ListsInv' /\ Apart'
  BY <1>1, RemoveStep, Zenon
<1>3. owned' \subseteq allocated' BY <1>1, <1>2 DEF OwnInv
<1>4. NeverMapped'
  <2>1. \A y \in Registered' : y \in Registered /\ area'[y] = area[y]
    BY <1>1, <1>2 DEF Registered
  <2> QED BY <1>1, <2>1 DEF NeverMapped
<1>5. ToSet(handles') = allocated' BY <1>2 DEF ListsInv
<1>6. \A y \in Handle : unregistered'[y] => y # x /\ unregistered[y]
  BY <1>2
<1>7. \A y \in Handle : unregistered'[y] => y \in allocated' \ owned'
  BY <1>1, <1>2, <1>6 DEF OwnInv
<1>8. ASSUME NEW d \in Cpu \ {c}, NEW y \in allocated \ owned,
             Leaving(d), rest[d] = <<y>>, ~unregistered[y]
      PROVE  y \in allocated' \ owned' /\ ~unregistered'[y]
  <2>1. y # x
    <3>1. rest[d] # <<x>> BY <1>8
    <3> QED BY <1>8, <3>1
  <2>2. y \in Handle \ {x} BY <1>1, <2>1
  <2>3. unregistered'[y] = unregistered[y] BY <1>2, <2>2
  <2>4. y \in allocated' BY <1>2, <2>1
  <2>5. y \notin owned' OBVIOUS
  <2> QED BY <1>8, <2>3, <2>4, <2>5
<1> QED BY <1>2, <1>3, <1>4, <1>5, <1>6, <1>7, <1>8

\* mmio_unlock removes one area of the list, if it is marked.
LEMMA ScanStep ==
  ASSUME MmioInv, NEW c \in Cpu, mmio_unlock_scan(c)
  PROVE  MmioInv'
<1> PICK x, q : x = Head(rest[c]) /\ q = Tail(rest[c]) OBVIOUS
<1>1. /\ pc[c] = "scan" /\ rest[c] # <<>> /\ rest' = [rest EXCEPT ![c] = Tail(@)]
      /\ rwlock' = rwlock /\ unregister_flag' = unregister_flag /\ owned' = owned
      /\ mapped' = mapped /\ pc' = pc /\ h' = h /\ gphys' = gphys /\ caller' = caller
      /\ IF unregistered[x] THEN remove(x) ELSE UNCHANGED <<lists, fields>>
  BY Zenon DEF mmio_unlock_scan
<1>2. LocalTypes /\ TypeOK /\ OwnInv /\ RemovedLater
      /\ ToSet(handles) = allocated /\ allocated \subseteq Handle
  BY Invariants
<1>3. rest[c] \in Seq(allocated) /\ Once(rest[c]) BY <1>1, <1>2 DEF OwnInv
<1>4. /\ q \in Seq(allocated) /\ ToSet(q) = ToSet(rest[c]) \ {x} /\ Once(q)
      /\ x \in allocated
  BY <1>1, <1>3, HeadTaken, Zenon
<1>5. /\ rest'[c] = q
      /\ \A d \in Cpu \ {c} : rest'[d] = rest[d]
      /\ rest' \in [Cpu -> Seq(Handle)]
  <2>1. q \in Seq(Handle) BY <1>2, <1>4
  <2> QED BY <1>1, <1>2, <2>1 DEF TypeOK
<1>6. Writing(c) /\ Writing(c)' BY <1>1, Zenon DEF Writing
<1>7. LockMove(c) BY <1>1, <1>6, WriterMoves
<1>8. LocalTypes' BY <1>1, <1>2, Zenon DEF LocalTypes
<1>9. \A d \in Cpu \ {c} : /\ pc'[d] = pc[d] /\ caller'[d] = caller[d]
                           /\ h'[d] = h[d] /\ rest'[d] = rest[d]
  BY <1>1, <1>5
<1>10. /\ \A d \in Cpu : h[d] = NULL
       /\ \A d \in Cpu \ {c} : pc[d] # "scan"
  BY <1>6, WriterIs
<1>11. h'[c] # NULL => Handling(c)' /\ h'[c] \in allocated' BY <1>1, <1>10
<1>12. caller'[c] = "handler" => pc'[c] \in {"mark", "set_flag"}
  <2>1. pc[c] \notin {"mark", "set_flag"} BY <1>1
  <2> QED BY <1>1, <2>1, CpuIs
<1>13. pc'[c] \notin {"scan", "delete", "mark"} => rest'[c] = <<>> BY <1>1
<1>14. ~Leaving(c)' BY <1>1, Zenon DEF Leaving
<1>15. \A d \in Cpu \ {c} : pc[d] = "scan" => rest[d] \in Seq(allocated') BY <1>10
<1>16. unregister_flag' \in BOOLEAN BY <1>1, <1>2 DEF TypeOK
<1>17. /\ handles' \in Seq(allocated') /\ mmio' \in [Buckets -> Seq(allocated')]
       /\ area' \in [Handle -> Area] /\ unregistered' \in [Handle -> BOOLEAN]
       /\ allocated' \subseteq Handle /\ owned' \subseteq allocated'
       /\ q \in Seq(allocated')
       /\ ToSet(handles') = allocated'
       /\ ListsInv' /\ Apart' /\ NeverMapped'
       /\ \A y \in Handle : unregistered'[y] => y # x /\ unregistered[y]
       /\ \A y \in Handle : unregistered'[y] => y \in allocated' \ owned'
       /\ \A y \in allocated' : y \in allocated
       /\ \A d \in Cpu \ {c} : \A y \in allocated \ owned :
            Leaving(d) /\ rest[d] = <<y>> /\ ~unregistered[y]
              => y \in allocated' \ owned' /\ ~unregistered'[y]
  <2>1. CASE unregistered[x]
    <3>1. x \in allocated \ owned BY <1>2, <1>4, <2>1 DEF OwnInv
    <3>2. ASSUME NEW d \in Cpu, Leaving(d) PROVE rest[d] # <<x>>
      <4>1. PICK y \in allocated \ owned : rest[d] = <<y>> /\ ~unregistered[y]
        BY <1>2, <3>2 DEF OwnInv
      <4> QED BY <2>1, <4>1
    <3>3. remove(x) BY <1>1, <2>1
    <3>4. /\ handles' \in Seq(allocated') /\ mmio' \in [Buckets -> Seq(allocated')]
          /\ area' \in [Handle -> Area] /\ unregistered' \in [Handle -> BOOLEAN]
          /\ allocated' \subseteq Handle /\ owned' \subseteq allocated'
          /\ allocated' = allocated \ {x} /\ ToSet(handles') = allocated'
          /\ ListsInv' /\ Apart' /\ NeverMapped'
          /\ \A y \in Handle : unregistered'[y] => y # x /\ unregistered[y]
          /\ \A y \in Handle : unregistered'[y] => y \in allocated' \ owned'
          /\ \A d \in Cpu \ {c} : \A y \in allocated \ owned :
               Leaving(d) /\ rest[d] = <<y>> /\ ~unregistered[y]
                 => y \in allocated' \ owned' /\ ~unregistered'[y]
      BY <1>1, <1>6, <3>1, <3>2, <3>3, Removed, Zenon
    <3>5. q \in Seq(allocated')
      <4>1. ToSet(q) \subseteq allocated BY <1>4, Elements
      <4>2. ToSet(q) \subseteq allocated \ {x} BY <1>4, <4>1
      <4>3. q \in Seq(allocated \ {x}) BY <1>4, <4>2, SeqOfElements, Zenon
      <4> QED BY <3>4, <4>3
    <3>6. \A y \in allocated' : y \in allocated BY <3>4
    <3> QED BY <3>4, <3>5, <3>6, Zenon
  <2>2. CASE ~unregistered[x]
    <3>1. UNCHANGED <<lists, fields, mapped>> BY <1>1, <2>2
    <3>2. /\ handles' = handles /\ unregistered' = unregistered
          /\ allocated' = allocated /\ allocated' \subseteq Handle
          /\ handles' \in Seq(allocated') /\ mmio' \in [Buckets -> Seq(allocated')]
          /\ area' \in [Handle -> Area] /\ unregistered' \in [Handle -> BOOLEAN]
          /\ ListsInv' /\ Apart' /\ NeverMapped'
      BY <3>1, ListsStand, Zenon
    <3>3. \A y \in Handle : unregistered[y] => y # x /\ y \in allocated \ owned
      BY <1>2, <2>2 DEF OwnInv
    <3>4. owned \subseteq allocated BY <1>2 DEF OwnInv
    <3> QED BY <1>1, <1>2, <1>4, <3>2, <3>3, <3>4, Zenon
  <2> QED BY <2>1, <2>2
<1>18. RemovedLater'
  <2> SUFFICES ASSUME NEW y \in ToSet(handles'), unregistered'[y]
               PROVE  \/ unregister_flag'
                      \/ \E d \in Cpu : pc'[d] = "set_flag" \/ y \in ToSet(rest'[d])
    BY DEF RemovedLater
  <2>1. y \in Handle /\ y \in ToSet(handles) /\ y # x /\ unregistered[y]
    BY <1>2, <1>17
  <2>2. CASE unregister_flag BY <1>1, <2>2
  <2>3. CASE \E d \in Cpu : pc[d] = "set_flag" \/ y \in ToSet(rest[d])
    <3>1. PICK d \in Cpu : pc[d] = "set_flag" \/ y \in ToSet(rest[d]) BY <2>3
    <3>2. pc'[d] = pc[d] BY <1>1
    <3>3. y \in ToSet(rest[d]) => y \in ToSet(rest'[d])
      <4>1. CASE d = c BY <1>4, <1>5, <2>1, <4>1
      <4>2. CASE d # c BY <1>5, <4>2
      <4> QED BY <4>1, <4>2
    <3> QED BY <3>1, <3>2, <3>3
  <2> QED BY <1>2, <2>1, <2>2, <2>3 DEF RemovedLater
<1>19. pc'[c] = "scan" => rest'[c] \in Seq(allocated') /\ Once(rest'[c])
  BY <1>4, <1>5, <1>17
<1> QED BY <1>5, <1>7, <1>8, <1>9, <1>10, <1>11, <1>12, <1>13, <1>14, <1>15, <1>16,
           <1>17, <1>18, <1>19, Rebuilt, Zenon

\* mmio_unregister, when nobody else holds the lock.
LEMMA DeleteStep ==
  ASSUME MmioInv, NEW c \in Cpu, unregister_delete(c)
  PROVE  MmioInv'
<1>1. /\ pc[c] = "delete" /\ remove(Head(rest[c]))
      /\ rest' = [rest EXCEPT ![c] = <<>>] /\ goto(c, "release")
      /\ rwlock' = rwlock /\ unregister_flag' = unregister_flag /\ owned' = owned
      /\ mapped' = mapped /\ h' = h /\ gphys' = gphys /\ caller' = caller
  BY Zenon DEF unregister_delete
<1>2. LocalTypes /\ TypeOK /\ OwnInv /\ RemovedLater
      /\ ToSet(handles) = allocated /\ allocated \subseteq Handle
  BY Invariants
<1>3. Leaving(c) BY <1>1, Zenon DEF Leaving
<1>4. PICK x \in allocated \ owned : rest[c] = <<x>> /\ ~unregistered[x]
  BY <1>2, <1>3 DEF OwnInv
<1>5. Head(rest[c]) = x /\ remove(x)
  <2>1. Head(rest[c]) = x BY <1>4
  <2> QED BY <1>1, <2>1
<1>6. \A d \in Cpu \ {c} : Leaving(d) => rest[d] # <<x>>
  BY <1>2, <1>3, <1>4 DEF OwnInv
<1>7. pc'[c] = "release" /\ \A d \in Cpu \ {c} : pc'[d] = pc[d] BY <1>1, WentIs
<1>8. Writing(c) /\ Writing(c)' BY <1>1, <1>7, Zenon DEF Writing
<1>9. LockMove(c) BY <1>1, <1>8, WriterMoves
<1>10. LocalTypes'
  <2>1. "release" \in Location BY DEF Location
  <2> QED BY <1>1, <1>2, <2>1 DEF LocalTypes, goto
<1>11. /\ rest'[c] = <<>>
       /\ \A d \in Cpu \ {c} : rest'[d] = rest[d]
       /\ rest' \in [Cpu -> Seq(Handle)]
  BY <1>1, <1>2 DEF TypeOK
<1>12. \A d \in Cpu \ {c} : /\ pc'[d] = pc[d] /\ caller'[d] = caller[d]
                            /\ h'[d] = h[d] /\ rest'[d] = rest[d]
  BY <1>1, <1>7, <1>11
<1>13. /\ \A d \in Cpu : h[d] = NULL
       /\ \A d \in Cpu \ {c} : pc[d] # "scan"
  BY <1>8, WriterIs
<1>14. h'[c] # NULL => Handling(c)' /\ h'[c] \in allocated' BY <1>1, <1>13
<1>15. caller'[c] = "handler" => pc'[c] \in {"mark", "set_flag"}
  <2>1. pc[c] \notin {"mark", "set_flag"} BY <1>1
  <2> QED BY <1>1, <2>1, CpuIs
<1>16. pc'[c] # "scan" /\ ~Leaving(c)' BY <1>7, Zenon DEF Leaving
<1>17. \A d \in Cpu \ {c} : pc[d] = "scan" => rest[d] \in Seq(allocated') BY <1>13
<1>18. unregister_flag' \in BOOLEAN BY <1>1, <1>2 DEF TypeOK
<1>19. /\ handles' \in Seq(allocated') /\ mmio' \in [Buckets -> Seq(allocated')]
       /\ area' \in [Handle -> Area] /\ unregistered' \in [Handle -> BOOLEAN]
       /\ allocated' \subseteq Handle /\ owned' \subseteq allocated'
       /\ allocated' = allocated \ {x} /\ ToSet(handles') = allocated'
       /\ ListsInv' /\ Apart' /\ NeverMapped'
       /\ \A y \in Handle : unregistered'[y] => y # x /\ unregistered[y]
       /\ \A y \in Handle : unregistered'[y] => y \in allocated' \ owned'
       /\ \A d \in Cpu \ {c} : \A y \in allocated \ owned :
            Leaving(d) /\ rest[d] = <<y>> /\ ~unregistered[y]
              => y \in allocated' \ owned' /\ ~unregistered'[y]
  BY <1>1, <1>5, <1>6, <1>8, Removed, Zenon
<1>20. RemovedLater'
  <2> SUFFICES ASSUME NEW y \in ToSet(handles'), unregistered'[y]
               PROVE  \/ unregister_flag'
                      \/ \E d \in Cpu : pc'[d] = "set_flag" \/ y \in ToSet(rest'[d])
    BY DEF RemovedLater
  <2>1. y \in Handle /\ y \in ToSet(handles) /\ y # x /\ unregistered[y]
    BY <1>2, <1>19
  <2>2. CASE unregister_flag BY <1>1, <2>2
  <2>3. CASE \E d \in Cpu : pc[d] = "set_flag" \/ y \in ToSet(rest[d])
    <3>1. PICK d \in Cpu : pc[d] = "set_flag" \/ y \in ToSet(rest[d]) BY <2>3
    <3>2. d # c
      <4>1. ToSet(rest[c]) = {x} BY <1>4 DEF ToSet
      <4> QED BY <1>1, <2>1, <3>1, <4>1
    <3> QED BY <1>12, <3>1, <3>2
  <2> QED BY <1>2, <2>1, <2>2, <2>3 DEF RemovedLater
<1> QED BY <1>7, <1>9, <1>10, <1>11, <1>12, <1>13, <1>14, <1>15, <1>16, <1>17, <1>18,
           <1>19, <1>20, Rebuilt, Zenon

\* A new handle is put at the end of the list of all.
LEMMA HandleLast ==
  ASSUME NEW q \in Seq(Handle), NEW e \in Handle, Once(q), e \notin ToSet(q)
  PROVE  /\ Append(q, e) \in Seq(Handle)
         /\ ToSet(Append(q, e)) = ToSet(q) \cup {e} /\ Once(Append(q, e))
BY PutLast, Zenon

\* mmio_register: the new area is apart from the others, and nobody maps it.
LEMMA RegisterStep ==
  ASSUME MmioInv, NEW c \in Cpu, NEW a \in Area, register_done(c, a)
  PROVE  MmioInv'
<1> PICK x : x = Min(Handle \ allocated) OBVIOUS
<1>1. /\ pc[c] = "register" /\ allocated # Handle /\ ~overlaps(a)
      /\ flush_tlb_entry(c, a)
      /\ area' = [area EXCEPT ![x] = a]
      /\ unregistered' = [unregistered EXCEPT ![x] = FALSE]
      /\ allocated' = allocated \cup {x}
      /\ handles' = Append(handles, x)
      /\ mmio' = [i \in Buckets |->
                    IF i \in BucketsOf(a) THEN insert(mmio[i], x) ELSE mmio[i]]
      /\ owned' = owned \cup {x} /\ goto(c, "release")
      /\ rwlock' = rwlock /\ unregister_flag' = unregister_flag
      /\ h' = h /\ gphys' = gphys /\ rest' = rest /\ caller' = caller
  BY Zenon DEF register_done, locals
<1>2. /\ LocalTypes /\ TypeOK /\ OwnInv /\ RemovedLater /\ ListsInv /\ Apart
      /\ NeverMapped /\ HandleInv
      /\ ToSet(handles) = allocated /\ allocated \subseteq Handle
  BY Invariants
<1>3. x \in Handle \ allocated
  <2>1. Handle \subseteq Nat BY MmioAssumption DEF Handle
  <2>2. Handle \ allocated \subseteq Nat /\ Handle \ allocated # {}
    BY <1>1, <1>2, <2>1
  <2> QED BY <2>2, MinIs, Zenon
<1>4. /\ area' \in [Handle -> Area] /\ area'[x] = a
      /\ \A y \in Handle \ {x} : area'[y] = area[y]
  BY <1>1, <1>2, <1>3 DEF TypeOK
<1>5. /\ unregistered' \in [Handle -> BOOLEAN] /\ ~unregistered'[x]
      /\ \A y \in Handle \ {x} : unregistered'[y] = unregistered[y]
  BY <1>1, <1>2, <1>3 DEF TypeOK
<1>6. /\ allocated' \subseteq Handle /\ owned' \subseteq allocated'
      /\ \A y \in allocated : y \in allocated' /\ y # x
  BY <1>1, <1>2, <1>3 DEF OwnInv
<1>7. handles' \in Seq(allocated') /\ Once(handles') /\ ToSet(handles') = allocated'
  <2> PICK q : q = handles OBVIOUS
  <2>1. q \in Seq(allocated') /\ Once(q) /\ ToSet(q) = allocated
    <3>1. q \in Seq(allocated) /\ Once(q) /\ ToSet(q) = allocated
      BY <1>2 DEF TypeOK, ListsInv
    <3>2. ToSet(q) \subseteq allocated' BY <1>6, <3>1
    <3> QED BY <3>1, <3>2, SeqOfElements, Zenon
  <2>2. x \in allocated' /\ x \notin ToSet(q) BY <1>1, <1>3, <2>1
  <2> PICK w : w = Append(q, x) OBVIOUS
  <2>3. q \in Seq(Handle) /\ x \in Handle BY <1>2, <1>3 DEF TypeOK
  <2>4. w \in Seq(Handle) /\ ToSet(w) = ToSet(q) \cup {x} /\ Once(w)
    <3>1. Once(q) /\ x \notin ToSet(q) BY <2>1, <2>2
    <3>2. /\ Append(q, x) \in Seq(Handle)
          /\ ToSet(Append(q, x)) = ToSet(q) \cup {x} /\ Once(Append(q, x))
      BY <2>3, <3>1, HandleLast
    <3> QED BY <3>2
  <2>5. w \in Seq(allocated')
    <3>1. ToSet(w) \subseteq allocated' BY <1>1, <2>1, <2>4
    <3> QED BY <2>4, <3>1, SeqOfElements, Zenon
  <2> QED BY <1>1, <2>1, <2>4, <2>5
<1>8. \A i \in Buckets :
        /\ mmio'[i] \in Seq(allocated') /\ Once(mmio'[i])
        /\ ToSet(mmio'[i]) = {y \in allocated' : i \in BucketsOf(area'[y])}
        /\ InOrder(mmio'[i], start')
  <2> TAKE i \in Buckets
  <2> PICK q : q = mmio[i] OBVIOUS
  <2> PICK w : w = mmio'[i] OBVIOUS
  <2>1. /\ q \in Seq(Handle) /\ Once(q) /\ InOrder(q, start)
        /\ ToSet(q) = {y \in allocated : i \in BucketsOf(area[y])}
    BY <1>2, Listed DEF ListsInv
  <2>2. w = IF i \in BucketsOf(a) THEN insert(mmio[i], x) ELSE q
    BY <1>1
  <2>3. /\ w \in Seq(Handle) /\ Once(w) /\ InOrder(w, start')
        /\ ToSet(w) = IF i \in BucketsOf(a) THEN ToSet(q) \cup {x} ELSE ToSet(q)
    <3>1. CASE i \in BucketsOf(a)
      <4>1. w = insert(mmio[i], x) BY <2>2, <3>1
      <4>2. /\ w \in Seq(Handle) /\ ToSet(w) = ToSet(mmio[i]) \cup {x} /\ Once(w)
            /\ InOrder(w, start')
        BY <1>2, <1>3, <1>4, <4>1, InsertIs
      <4> QED BY <3>1, <4>2
    <3>2. CASE i \notin BucketsOf(a)
      <4>1. w = q BY <2>2, <3>2
      <4>2. PICK s, t : s = start /\ t = start' OBVIOUS
      <4>3. \A y \in ToSet(q) : y \in Handle \ {x} BY <1>2, <1>3, <2>1
      <4>4. \A y \in ToSet(q) : t[y] = s[y] BY <1>4, <4>2, <4>3 DEF start
      <4>5. InOrder(q, t) BY <2>1, <4>2, <4>4, SameOrder, Zenon
      <4> QED BY <2>1, <3>2, <4>1, <4>2, <4>5
    <3> QED BY <3>1, <3>2
  <2>4. ToSet(w) = {y \in allocated' : i \in BucketsOf(area'[y])}
    <3> PICK A, B : A = BucketsOf(a) /\ B = allocated' OBVIOUS
    <3>1. B = allocated \cup {x} /\ x \notin allocated BY <1>1, <1>3
    <3>2. \A y \in allocated : BucketsOf(area'[y]) = BucketsOf(area[y])
      <4>1. \A y \in allocated : y \in Handle \ {x} BY <1>2, <1>3
      <4> QED BY <1>4, <4>1
    <3>3. BucketsOf(area'[x]) = A BY <1>4
    <3>4. ASSUME NEW y PROVE y \in ToSet(w) <=> y \in B /\ i \in BucketsOf(area'[y])
      <4>1. CASE y = x
        <5>1. x \in ToSet(w) <=> i \in A BY <2>1, <2>3, <3>1
        <5> QED BY <3>1, <3>3, <4>1, <5>1
      <4>2. CASE y # x
        <5>1. y \in ToSet(w) <=> y \in ToSet(q) BY <2>3, <4>2
        <5>2. y \in B <=> y \in allocated BY <3>1, <4>2
        <5> QED BY <2>1, <3>2, <5>1, <5>2
      <4> QED BY <4>1, <4>2
    <3> QED BY <3>4
  <2>5. w \in Seq(allocated')
    <3>1. ToSet(w) \subseteq allocated' BY <2>4
    <3> QED BY <2>3, <3>1, SeqOfElements, Zenon
  <2> QED BY <2>3, <2>4, <2>5
<1>9. mmio' \in [Buckets -> Seq(allocated')] BY <1>1, <1>8
<1>10. ListsInv' BY <1>7, <1>8, Zenon DEF ListsInv
<1>11. Registered' = Registered \cup {x}
  <2>1. \A y \in allocated : unregistered'[y] = unregistered[y] BY <1>2, <1>3, <1>5
  <2> QED BY <1>1, <1>2, <1>5, <1>7, <2>1 DEF Registered
<1>12. \A y \in Registered : y \in Handle \ {x} /\ area'[y] = area[y]
  BY <1>2, <1>3, <1>4 DEF Registered
<1>13. \A y \in Registered : Pages(area[y]) \cap Pages(a) = {}
  <2> TAKE y \in Registered
  <2>1. y \in Handle /\ area[y] \in Area /\ y \in ToSet(handles) /\ ~unregistered[y]
    BY <1>2, <1>12, Listed DEF Registered
  <2>2. PICK i \in DOMAIN handles : handles[i] = y BY <2>1 DEF ToSet
  <2> PICK g, n : g = a.gphys /\ n = a.len OBVIOUS
  <2>3. /\ g \in Nat /\ n \in Nat \ {0} /\ g + n <= NPages /\ NPages <= 2 ^ PhysBits
        /\ NPages \in Nat /\ 2 ^ PhysBits \in Nat /\ Pages(a) = g .. g + n - 1
    BY AreaIs
  <2>4. g + n <= 2 ^ PhysBits
    <3> PICK M : M = 2 ^ PhysBits OBVIOUS
    <3>1. g + n <= M BY <2>3
    <3> QED BY <3>1
  <2>5. ~rangecheck(y, g, n) BY <1>1, <2>2, Zenon DEF overlaps
  <2>6. rangecheck(y, g, n)
          <=> ~unregistered[y] /\ Pages(area[y]) \cap (g .. g + n - 1) # {}
    BY <2>1, <2>3, <2>4, RangecheckIs
  <2> QED BY <2>1, <2>3, <2>5, <2>6
<1>14. Apart'
  <2>1. ASSUME NEW y \in Registered', NEW z \in Registered', y # z
        PROVE  Pages(area'[y]) \cap Pages(area'[z]) = {}
    <3>1. CASE y = x
      <4>1. z \in Registered BY <1>11, <2>1, <3>1
      <4>2. area'[y] = a /\ area'[z] = area[z] BY <1>4, <1>12, <3>1, <4>1
      <4> QED BY <1>13, <4>1, <4>2
    <3>2. CASE z = x
      <4>1. y \in Registered BY <1>11, <2>1, <3>2
      <4>2. area'[z] = a /\ area'[y] = area[y] BY <1>4, <1>12, <3>2, <4>1
      <4> QED BY <1>13, <4>1, <4>2
    <3>3. CASE y # x /\ z # x
      <4>1. y \in Registered /\ z \in Registered BY <1>11, <2>1, <3>3
      <4> QED BY <1>2, <1>12, <2>1, <4>1 DEF Apart
    <3> QED BY <3>1, <3>2, <3>3
  <2> QED BY <2>1 DEF Apart
<1>15. /\ mapped' \in [Cpu -> SUBSET Page]
       /\ \A y \in Registered, d \in Cpu : mapped'[d] \cap Pages(area[y]) = {}
       /\ \A d \in Cpu : mapped'[d] \cap Pages(a) = {}
  <2>1. /\ \A d \in Cpu \ {c} : mapped[d] \cap Pages(a) = {}
        /\ mapped' = [mapped EXCEPT ![c] = @ \ Pages(a)]
    BY <1>1, Zenon DEF flush_tlb_entry
  <2> PICK P : P = Pages(a) OBVIOUS
  <2>2. /\ mapped' \in [Cpu -> SUBSET Page]
        /\ \A d \in Cpu : mapped'[d] \subseteq mapped[d]
        /\ \A y \in Registered, d \in Cpu : mapped'[d] \cap Pages(area[y]) = {}
    BY <2>1, MappedLess
  <2>3. mapped'[c] \cap P = {} BY <1>2, <2>1 DEF LocalTypes
  <2>4. \A d \in Cpu : mapped'[d] \cap P = {} BY <2>1, <2>2, <2>3
  <2> QED BY <2>2, <2>4
<1>16. NeverMapped'
  <2>1. ASSUME NEW y \in Registered', NEW d \in Cpu
        PROVE  mapped'[d] \cap Pages(area'[y]) = {}
    <3>1. CASE y = x BY <1>4, <1>15, <3>1
    <3>2. CASE y # x
      <4>1. y \in Registered BY <1>11, <3>2
      <4> QED BY <1>12, <1>15, <4>1
    <3> QED BY <3>1, <3>2
  <2> QED BY <2>1 DEF NeverMapped
<1>17. pc'[c] = "release" /\ \A d \in Cpu \ {c} : pc'[d] = pc[d] BY <1>1, WentIs
<1>18. Writing(c) /\ Writing(c)' BY <1>1, <1>17, Zenon DEF Writing
<1>19. LockMove(c) BY <1>1, <1>18, WriterMoves
<1>20. LocalTypes'
  <2>1. "release" \in Location BY DEF Location
  <2> QED BY <1>1, <1>2, <1>15, <2>1 DEF LocalTypes, goto
<1>21. \A d \in Cpu \ {c} : /\ pc'[d] = pc[d] /\ caller'[d] = caller[d]
                            /\ h'[d] = h[d] /\ rest'[d] = rest[d]
  BY <1>1, <1>17
<1>22. /\ \A d \in Cpu : h[d] = NULL
       /\ \A d \in Cpu \ {c} : pc[d] # "scan"
  BY <1>18, WriterIs
<1>23. h'[c] # NULL => Handling(c)' /\ h'[c] \in allocated' BY <1>1, <1>22
<1>24. caller'[c] = "handler" => pc'[c] \in {"mark", "set_flag"}
  <2>1. pc[c] \notin {"mark", "set_flag"} BY <1>1
  <2> QED BY <1>1, <2>1, CpuIs
<1>25. pc'[c] # "scan" /\ ~Leaving(c)' BY <1>17, Zenon DEF Leaving
<1>26. rest'[c] = <<>> /\ rest' \in [Cpu -> Seq(Handle)]
  BY <1>1, <1>2, CpuIs DEF TypeOK
<1>27. \A d \in Cpu \ {c} : pc[d] = "scan" => rest[d] \in Seq(allocated') BY <1>22
<1>28. unregister_flag' \in BOOLEAN BY <1>1, <1>2 DEF TypeOK
<1>29. \A y \in Handle : unregistered'[y] => y # x /\ unregistered[y] BY <1>5
<1>30. \A y \in Handle : unregistered'[y] => y \in allocated' \ owned'
  BY <1>1, <1>2, <1>6, <1>29 DEF OwnInv
<1>31. \A d \in Cpu \ {c} : \A y \in allocated \ owned :
         Leaving(d) /\ rest[d] = <<y>> /\ ~unregistered[y]
           => y \in allocated' \ owned' /\ ~unregistered'[y]
  <2>1. \A y \in allocated \ owned : y \in allocated' \ owned'
    BY <1>1, <1>6
  <2>2. \A y \in allocated : unregistered'[y] = unregistered[y]
    BY <1>2, <1>5, <1>6
  <2> QED BY <2>1, <2>2, Zenon
<1>32. RemovedLater'
  <2> SUFFICES ASSUME NEW y \in ToSet(handles'), unregistered'[y]
               PROVE  \/ unregister_flag'
                      \/ \E d \in Cpu : pc'[d] = "set_flag" \/ y \in ToSet(rest'[d])
    BY DEF RemovedLater
  <2>1. y \in ToSet(handles) /\ unregistered[y] BY <1>1, <1>2, <1>6, <1>7, <1>29
  <2>2. CASE unregister_flag BY <1>1, <2>2
  <2>3. CASE \E d \in Cpu : pc[d] = "set_flag" \/ y \in ToSet(rest[d])
    <3>1. PICK d \in Cpu : pc[d] = "set_flag" \/ y \in ToSet(rest[d]) BY <2>3
    <3>2. CASE d = c
      <4>1. y \in ToSet(rest[d]) BY <1>1, <3>1, <3>2
      <4> QED BY <1>1, <4>1
    <3>3. CASE d # c BY <1>21, <3>1, <3>3
    <3> QED BY <3>2, <3>3
  <2> QED BY <1>2, <2>1, <2>2, <2>3 DEF RemovedLater
<1> QED BY <1>4, <1>5, <1>6, <1>7, <1>9, <1>10, <1>14, <1>16, <1>17, <1>19, <1>20,
           <1>21, <1>22, <1>23, <1>24, <1>25, <1>26, <1>27, <1>28, <1>30, <1>31,
           <1>32, Rebuilt, Zenon

\* mmio_unregister: the writer deletes the area, anybody else leaves it marked.
LEMMA UnregisterStep ==
  ASSUME MmioInv, NEW c \in Cpu, NEW x \in owned, mmio_unregister(c, x)
  PROVE  MmioInv'
<1>1. /\ pc[c] \in {"out", "handler", "unlocked"}
      /\ owned' = owned \ {x} /\ caller' = [caller EXCEPT ![c] = pc[c]]
      /\ rest' = [rest EXCEPT ![c] = <<x>>]
      /\ \/ rwlock = 0 /\ rwlock' = Sign /\ goto(c, "delete")
         \/ rwlock # 0 /\ rwlock' = rwlock /\ goto(c, "mark")
      /\ UNCHANGED <<lists, fields, mapped>>
      /\ unregister_flag' = unregister_flag /\ h' = h /\ gphys' = gphys
  BY Zenon DEF mmio_unregister
<1>2. /\ LocalTypes /\ TypeOK /\ OwnInv /\ RemovedLater /\ RwInv /\ UseInv
      /\ ToSet(handles) = allocated /\ allocated \subseteq Handle
  BY Invariants
<1>3. /\ handles' = handles /\ unregistered' = unregistered
      /\ allocated' = allocated /\ allocated' \subseteq Handle
      /\ handles' \in Seq(allocated') /\ mmio' \in [Buckets -> Seq(allocated')]
      /\ area' \in [Handle -> Area] /\ unregistered' \in [Handle -> BOOLEAN]
      /\ ListsInv' /\ Apart' /\ NeverMapped'
  BY <1>1, ListsStand, Zenon
<1>4. x \in allocated /\ x \in Handle /\ ~unregistered[x]
  BY <1>2 DEF OwnInv
<1>5. PICK l \in {"delete", "mark"} :
        goto(c, l) /\ (l = "delete" => rwlock = 0 /\ rwlock' = Sign)
                   /\ (l = "mark" => rwlock' = rwlock)
  <2>1. "delete" # "mark" OBVIOUS
  <2> QED BY <1>1, <2>1, Zenon
<1>6. pc'[c] = l /\ \A d \in Cpu \ {c} : pc'[d] = pc[d] BY <1>5, WentIs
<1>7. /\ caller'[c] = pc[c] /\ \A d \in Cpu \ {c} : caller'[d] = caller[d]
      /\ rest'[c] = <<x>> /\ \A d \in Cpu \ {c} : rest'[d] = rest[d]
      /\ rest' \in [Cpu -> Seq(Handle)]
  <2>1. <<x>> \in Seq(Handle) BY <1>4
  <2> QED BY <1>1, <1>2, <2>1 DEF LocalTypes, TypeOK
<1>8. LocalTypes'
  <2>1. l \in Location BY Zenon DEF Location
  <2>2. pc[c] \in {"out", "handler", "unlocked"} BY <1>1
  <2> QED BY <1>1, <1>2, <1>5, <2>1, <2>2 DEF LocalTypes, goto
<1>9. \A d \in Cpu \ {c} : /\ pc'[d] = pc[d] /\ caller'[d] = caller[d]
                           /\ h'[d] = h[d] /\ rest'[d] = rest[d]
  BY <1>1, <1>6, <1>7
<1>10. ~Writing(c) BY <1>1, Zenon DEF Writing
<1>11. rwlock = 0 => \A d \in Cpu : ~Reading(d)
  <2> PICK n, w : n = Cardinality(Readers) /\ w = (IF Written THEN Sign ELSE 0)
    OBVIOUS
  <2>1. rwlock = n + w BY <1>2 DEF RwInv
  <2>2. n \in Nat BY ReadersCounted
  <2>3. w = 0 \/ w = Sign BY Zenon
  <2>4. w \in Nat BY <2>3, WordIs
  <2>5. rwlock = 0 => n = 0 BY <2>1, <2>2, <2>4
  <2>6. \A d \in Cpu : Reading(d) => n >= 1 BY ReadersCounted
  <2> QED BY <2>2, <2>5, <2>6
<1>12. Handling(c) <=> pc[c] = "handler" BY <1>1, Zenon DEF Handling
<1>13. l = "mark" => /\ Handling(c)' <=> Handling(c)
                     /\ Reading(c)' <=> Reading(c)
                     /\ Inside(c)' <=> Inside(c)
                     /\ ~Writing(c)'
  <2> SUFFICES ASSUME l = "mark"
               PROVE  /\ Handling(c)' <=> Handling(c)
                      /\ Reading(c)' <=> Reading(c)
                      /\ Inside(c)' <=> Inside(c)
                      /\ ~Writing(c)'
    OBVIOUS
  <2>1. pc'[c] = "mark" BY <1>6
  <2>2. Handling(c)' <=> Handling(c) BY <1>7, <1>12, <2>1, Zenon DEF Handling
  <2>3. Inside(c)' <=> Inside(c) BY <1>1, <2>1, <2>2, Zenon DEF Inside
  <2>4. Reading(c)' <=> Reading(c) BY <1>1, <2>1, <2>3, Zenon DEF Reading
  <2> QED BY <2>1, <2>2, <2>3, <2>4, Zenon DEF Writing
<1>14. l = "delete" => ~Reading(c)' /\ Writing(c)' /\ pc[c] # "handler"
  <2> SUFFICES ASSUME l = "delete"
               PROVE  ~Reading(c)' /\ Writing(c)' /\ pc[c] # "handler"
    OBVIOUS
  <2>1. pc'[c] = "delete" BY <1>6
  <2>2. ~Reading(c) BY <1>5, <1>11
  <2> QED BY <2>1, <2>2, Zenon DEF Reading, Inside, Writing, Handling
<1>15. LockMove(c)
  <2>1. CASE l = "mark" BY <1>5, <1>10, <1>13, <2>1, Zenon DEF LockMove
  <2>2. CASE l = "delete" BY <1>5, <1>14, <2>2, Zenon DEF LockMove
  <2> QED BY <2>1, <2>2
<1>16. h[c] # NULL => Handling(c) /\ h[c] \in allocated BY <1>2 DEF UseInv
<1>17. h'[c] # NULL => Handling(c)' /\ h'[c] \in allocated'
  <2>1. CASE l = "mark" BY <1>1, <1>3, <1>13, <1>16, <2>1
  <2>2. CASE l = "delete" BY <1>1, <1>12, <1>14, <1>16, <2>2
  <2> QED BY <2>1, <2>2
<1>18. caller'[c] = "handler" => pc'[c] \in {"mark", "set_flag"}
  <2>1. CASE l = "mark" BY <1>6, <2>1
  <2>2. CASE l = "delete" BY <1>7, <1>14, <2>2
  <2> QED BY <2>1, <2>2
<1>19. \A d \in Cpu \ {c} : h[d] # NULL => h[d] \in allocated'
  BY <1>2, <1>3 DEF UseInv
<1>20. pc'[c] \in {"delete", "mark"} /\ pc'[c] # "scan" BY <1>6
<1>21. x \in allocated' \ owned' /\ ~unregistered'[x] BY <1>1, <1>3, <1>4
<1>22. \A d \in Cpu \ {c} : pc[d] = "scan" => rest[d] \in Seq(allocated')
  BY <1>2, <1>3 DEF OwnInv
<1>23. \A d \in Cpu \ {c} : \A y \in allocated \ owned :
         Leaving(d) /\ rest[d] = <<y>> /\ ~unregistered[y]
           => y \in allocated' \ owned' /\ ~unregistered'[y]
  BY <1>1, <1>3
<1>24. \A d \in Cpu \ {c} : Leaving(d) => rest[d] # rest'[c]
  <2> SUFFICES ASSUME NEW d \in Cpu, Leaving(d) PROVE rest[d] # rest'[c]
    OBVIOUS
  <2>1. PICK y \in allocated \ owned : rest[d] = <<y>> BY <1>2 DEF OwnInv
  <2>2. y # x OBVIOUS
  <2> QED BY <1>7, <2>1, <2>2
<1>25. \A y \in Handle : unregistered'[y] => y \in allocated' \ owned'
  BY <1>1, <1>2, <1>3 DEF OwnInv
<1>26. owned' \subseteq allocated' BY <1>1, <1>2, <1>3 DEF OwnInv
<1>27. unregister_flag' \in BOOLEAN BY <1>1, <1>2 DEF TypeOK
<1>28. RemovedLater'
  <2> SUFFICES ASSUME NEW y \in ToSet(handles'), unregistered'[y]
               PROVE  \/ unregister_flag'
                      \/ \E d \in Cpu : pc'[d] = "set_flag" \/ y \in ToSet(rest'[d])
    BY DEF RemovedLater
  <2>1. y \in ToSet(handles) /\ unregistered[y] BY <1>3
  <2>2. CASE unregister_flag BY <1>1, <2>2
  <2>3. CASE \E d \in Cpu : pc[d] = "set_flag" \/ y \in ToSet(rest[d])
    <3>1. PICK d \in Cpu : pc[d] = "set_flag" \/ y \in ToSet(rest[d]) BY <2>3
    <3>2. d # c
      <4>1. pc[c] # "set_flag" BY <1>1
      <4>2. rest[c] = <<>> BY <1>1, <1>2 DEF OwnInv
      <4>3. ToSet(rest[c]) = {} BY <4>2 DEF ToSet
      <4> QED BY <3>1, <4>1, <4>3
    <3> QED BY <1>9, <3>1, <3>2
  <2> QED BY <1>2, <2>1, <2>2, <2>3 DEF RemovedLater
<1> QED BY <1>3, <1>7, <1>8, <1>9, <1>15, <1>17, <1>18, <1>19, <1>20, <1>21, <1>22,
           <1>23, <1>24, <1>25, <1>26, <1>27, <1>28, Rebuilt, Zenon

\* The lock is held: the area is marked, and the flag is set.
LEMMA LaterStep ==
  ASSUME MmioInv, NEW c \in Cpu, unregister_later(c)
  PROVE  MmioInv'
<1>1. /\ pc[c] \in {"mark", "set_flag"}
      /\ rwlock' = rwlock /\ owned' = owned /\ handles' = handles /\ mmio' = mmio
      /\ area' = area /\ allocated' = allocated /\ mapped' = mapped
      /\ h' = h /\ gphys' = gphys
  BY Zenon DEF unregister_later, lists
<1>2. /\ LocalTypes /\ TypeOK /\ OwnInv /\ RemovedLater /\ UseInv /\ ListsInv
      /\ Apart /\ NeverMapped
      /\ ToSet(handles) = allocated /\ allocated \subseteq Handle
  BY Invariants
<1>3. ListsInv'
  <2>1. start' = start BY <1>1 DEF start
  <2> QED BY <1>1, <1>2, <2>1, Zenon DEF ListsInv
<1>4. /\ allocated' \subseteq Handle /\ owned' \subseteq allocated'
      /\ handles' \in Seq(allocated') /\ mmio' \in [Buckets -> Seq(allocated')]
      /\ area' \in [Handle -> Area]
  BY <1>1, <1>2, Zenon DEF TypeOK, OwnInv
<1>5. \A d \in Cpu : h[d] # NULL => h[d] \in allocated' BY <1>1, <1>2 DEF UseInv
<1>6. \A d \in Cpu \ {c} : pc[d] = "scan" => rest[d] \in Seq(allocated')
  BY <1>1, <1>2 DEF OwnInv
<1>7. ~Writing(c) /\ (Handling(c) <=> caller[c] = "handler")
      /\ (Reading(c) <=> Handling(c)) /\ (Inside(c) <=> Handling(c))
  BY <1>1, Zenon DEF Writing, Handling, Reading, Inside
<1>8. h[c] # NULL => Handling(c) /\ h[c] \in allocated BY <1>2 DEF UseInv
<1>9. CASE pc[c] = "mark"
  <2>1. /\ unregistered' = [unregistered EXCEPT ![Head(rest[c])] = TRUE]
        /\ rest' = [rest EXCEPT ![c] = <<>>] /\ goto(c, "set_flag")
        /\ unregister_flag' = unregister_flag /\ caller' = caller
    BY <1>9, Zenon DEF unregister_later
  <2>2. Leaving(c) BY <1>9, Zenon DEF Leaving
  <2>3. PICK x \in allocated \ owned : rest[c] = <<x>> /\ ~unregistered[x]
    BY <1>2, <2>2 DEF OwnInv
  <2>4. Head(rest[c]) = x /\ x \in Handle BY <1>2, <2>3
  <2>5. /\ unregistered' \in [Handle -> BOOLEAN]
        /\ \A y \in Handle \ {x} : unregistered'[y] = unregistered[y]
    BY <1>2, <2>1, <2>4 DEF TypeOK
  <2>6. pc'[c] = "set_flag" /\ \A d \in Cpu \ {c} : pc'[d] = pc[d] BY <2>1, WentIs
  <2>7. /\ rest'[c] = <<>> /\ \A d \in Cpu \ {c} : rest'[d] = rest[d]
        /\ rest' \in [Cpu -> Seq(Handle)]
    BY <1>2, <2>1 DEF TypeOK
  <2>8. LocalTypes'
    <3>1. "set_flag" \in Location BY DEF Location
    <3> QED BY <1>1, <1>2, <2>1, <3>1 DEF LocalTypes, goto
  <2>9. \A d \in Cpu \ {c} : /\ pc'[d] = pc[d] /\ caller'[d] = caller[d]
                             /\ h'[d] = h[d] /\ rest'[d] = rest[d]
    BY <1>1, <2>1, <2>6, <2>7
  <2>10. ~Writing(c)' /\ (Handling(c)' <=> caller[c] = "handler")
         /\ (Reading(c)' <=> Handling(c)') /\ (Inside(c)' <=> Handling(c)')
    BY <2>1, <2>6, Zenon DEF Writing, Handling, Reading, Inside
  <2>11. LockMove(c) BY <1>1, <1>7, <2>10, Zenon DEF LockMove
  <2>12. h'[c] # NULL => Handling(c)' /\ h'[c] \in allocated'
    BY <1>1, <1>7, <1>8, <2>10, Zenon
  <2>13. pc'[c] \in {"mark", "set_flag"} /\ pc'[c] # "scan" /\ ~Leaving(c)'
    BY <2>6, Zenon DEF Leaving
  <2>14. Registered' \subseteq Registered
    BY <1>1, <1>2, <2>3, <2>5 DEF Registered
  <2>15. Apart' /\ NeverMapped'
    BY <1>1, <1>2, <2>14, Zenon DEF Apart, NeverMapped
  <2>16. RemovedLater' BY <2>6 DEF RemovedLater
  <2>17. \A y \in Handle : unregistered'[y] => y \in allocated' \ owned'
    BY <1>1, <1>2, <2>3, <2>5 DEF OwnInv
  <2>18. \A d \in Cpu \ {c} : \A y \in allocated \ owned :
           Leaving(d) /\ rest[d] = <<y>> /\ ~unregistered[y]
             => y \in allocated' \ owned' /\ ~unregistered'[y]
    <3> SUFFICES ASSUME NEW d \in Cpu \ {c}, NEW y \in allocated \ owned,
                        Leaving(d), rest[d] = <<y>>, ~unregistered[y]
                 PROVE  y \in allocated' \ owned' /\ ~unregistered'[y]
      OBVIOUS
    <3>1. rest[d] # rest[c] BY <1>2, <2>2 DEF OwnInv
    <3>2. y # x BY <2>3, <3>1
    <3>3. y \in Handle \ {x} BY <1>2, <3>2
    <3>4. unregistered'[y] = unregistered[y] BY <2>5, <3>3
    <3> QED BY <1>1, <3>4
  <2>19. unregister_flag' \in BOOLEAN BY <1>2, <2>1 DEF TypeOK
  <2> QED BY <1>3, <1>4, <1>5, <1>6, <2>5, <2>7, <2>8, <2>9, <2>11, <2>12, <2>13,
             <2>15, <2>16, <2>17, <2>18, <2>19, Rebuilt, Zenon
<1>10. CASE pc[c] = "set_flag"
  <2>1. /\ unregistered' = unregistered /\ rest' = rest /\ unregister_flag' = TRUE
        /\ goto(c, caller[c]) /\ caller' = [caller EXCEPT ![c] = "out"]
    <3>1. pc[c] # "mark" BY <1>10
    <3> QED BY <3>1, Zenon DEF unregister_later, return
  <2>2. /\ pc'[c] = caller[c] /\ \A d \in Cpu \ {c} : pc'[d] = pc[d]
        /\ caller[c] \in {"out", "handler", "unlocked"}
    BY <1>2, <2>1, WentIs DEF LocalTypes
  <2>3. rest[c] = <<>> /\ rest' \in [Cpu -> Seq(Handle)]
    <3>1. pc[c] \notin {"scan", "delete", "mark"} BY <1>10
    <3> QED BY <1>2, <2>1, <3>1, Zenon DEF OwnInv, TypeOK
  <2>4. caller'[c] = "out" /\ \A d \in Cpu \ {c} : caller'[d] = caller[d]
    BY <1>2, <2>1 DEF LocalTypes
  <2>5. LocalTypes'
    <3>1. caller[c] \in Location BY <2>2, Zenon DEF Location
    <3> QED BY <1>1, <1>2, <2>1, <3>1 DEF LocalTypes, goto
  <2>6. \A d \in Cpu \ {c} : /\ pc'[d] = pc[d] /\ caller'[d] = caller[d]
                             /\ h'[d] = h[d] /\ rest'[d] = rest[d]
    BY <1>1, <2>1, <2>2, <2>4
  <2>7. ~Writing(c)' /\ (Handling(c)' <=> caller[c] = "handler")
        /\ (Reading(c)' <=> Handling(c)') /\ (Inside(c)' <=> Handling(c)')
    <3>1. CASE caller[c] = "handler"
      <4>1. pc'[c] = "handler" BY <2>2, <3>1
      <4> QED BY <3>1, <4>1, Zenon DEF Writing, Handling, Reading, Inside
    <3>2. CASE caller[c] # "handler"
      <4>1. pc'[c] \in {"out", "unlocked"} BY <2>2, <3>2
      <4> QED BY <3>2, <4>1, Zenon DEF Writing, Handling, Reading, Inside
    <3> QED BY <3>1, <3>2
  <2>8. LockMove(c) BY <1>1, <1>7, <2>7, Zenon DEF LockMove
  <2>9. h'[c] # NULL => Handling(c)' /\ h'[c] \in allocated'
    BY <1>1, <1>7, <1>8, <2>7, Zenon
  <2>10. caller'[c] = "handler" => pc'[c] \in {"mark", "set_flag"} BY <2>4
  <2>11. pc'[c] # "scan" /\ ~Leaving(c)' BY <2>2, Zenon DEF Leaving
  <2>12. Registered' = Registered BY <1>1, <2>1 DEF Registered
  <2>13. Apart' /\ NeverMapped'
    BY <1>1, <1>2, <2>12, Zenon DEF Apart, NeverMapped
  <2>14. RemovedLater' BY <2>1 DEF RemovedLater
  <2>15. \A y \in Handle : unregistered'[y] => y \in allocated' \ owned'
    BY <1>1, <1>2, <2>1 DEF OwnInv
  <2>16. \A d \in Cpu \ {c} : \A y \in allocated \ owned :
           Leaving(d) /\ rest[d] = <<y>> /\ ~unregistered[y]
             => y \in allocated' \ owned' /\ ~unregistered'[y]
    BY <1>1, <2>1
  <2>17. unregister_flag' \in BOOLEAN BY <2>1
  <2>18. rest'[c] = <<>> BY <2>1, <2>3
  <2>19. unregistered' \in [Handle -> BOOLEAN] BY <1>2, <2>1 DEF TypeOK
  <2> QED BY <1>3, <1>4, <1>5, <1>6, <2>3, <2>5, <2>6, <2>8, <2>9, <2>10, <2>11,
             <2>13, <2>14, <2>15, <2>16, <2>17, <2>18, <2>19, Rebuilt, Zenon
<1> QED BY <1>1, <1>9, <1>10

-----------------------------------------------------------------------------
(***************************************************************************)
(* The invariant holds at the start, and every step keeps it.              *)
(***************************************************************************)
LEMMA MmioInit == Init => MmioInv
<1> SUFFICES ASSUME Init PROVE MmioInv OBVIOUS
<1> USE DEF Init
<1>1. Mcfg \in Handle /\ Handle \subseteq Nat /\ 0 \in Page /\ McfgPage \in Nat
  BY MmioAssumption DEF Mcfg, Handle, Page
<1>2. PICK b : b = Bucket(McfgPage) OBVIOUS
<1>3. b \in Buckets BY <1>1, <1>2, BucketsInOrder
<1>4. McfgArea \in Area BY McfgIs
<1>5. <<Mcfg>> \in Seq({Mcfg}) /\ <<>> \in Seq({Mcfg}) /\ <<>> \in Seq(Handle)
  OBVIOUS
<1>6. /\ handles = <<Mcfg>>
      /\ mmio = [i \in Buckets |-> IF i = b THEN <<Mcfg>> ELSE <<>>]
      /\ allocated = {Mcfg} /\ owned = {}
  BY <1>2
<1>7. TypeOK
  <2>1. rwlock \in Word /\ unregister_flag \in BOOLEAN
    <3>1. 0 \in 0 .. 2 * Sign - 1 BY WordIs
    <3> QED BY <3>1, WordIs
  <2>2. handles \in Seq(allocated) /\ mmio \in [Buckets -> Seq(allocated)]
    <3>1. ASSUME NEW i \in Buckets
          PROVE (IF i = b THEN <<Mcfg>> ELSE <<>>) \in Seq({Mcfg})
      BY <1>5
    <3> QED BY <1>5, <1>6, <3>1
  <2>3. area \in [Handle -> Area] /\ unregistered \in [Handle -> BOOLEAN]
    BY <1>4
  <2>4. allocated \subseteq Handle /\ owned \subseteq Handle
    BY <1>1, <1>6
  <2>5. "out" \in Location /\ "out" \in {"out", "handler", "unlocked"}
    BY DEF Location
  <2>6. /\ mapped \in [Cpu -> SUBSET Page] /\ pc \in [Cpu -> Location]
        /\ h \in [Cpu -> Handle \cup {NULL}] /\ gphys \in [Cpu -> Page]
        /\ rest \in [Cpu -> Seq(Handle)]
        /\ caller \in [Cpu -> {"out", "handler", "unlocked"}]
    BY <1>1, <1>5, <2>5
  <2> QED BY <2>1, <2>2, <2>3, <2>4, <2>6 DEF TypeOK
<1>8. ListsInv
  <2>1. Once(handles) /\ ToSet(handles) = allocated BY <1>6 DEF Once, ToSet
  <2>2. ASSUME NEW i \in Buckets
        PROVE  /\ Once(mmio[i])
               /\ ToSet(mmio[i]) = {x \in allocated : i \in BucketsOf(area[x])}
               /\ InOrder(mmio[i], start)
    <3>1. {x \in allocated : i \in BucketsOf(area[x])} = IF i = b THEN {Mcfg} ELSE {}
      <4>1. McfgArea.gphys = McfgPage /\ McfgArea.gphys + McfgArea.len - 1 = McfgPage
        BY <1>1 DEF McfgArea
      <4>2. BucketsOf(McfgArea) = b .. b BY <1>2, <4>1 DEF BucketsOf
      <4>3. b \in Int /\ i \in Int BY <1>3, <2>2, MmioAssumption DEF Buckets
      <4>4. i \in BucketsOf(McfgArea) <=> i = b BY <4>2, <4>3
      <4>5. area[Mcfg] = McfgArea BY <1>1
      <4> QED BY <1>6, <4>4, <4>5
    <3>2. CASE i = b
      <4>1. mmio[i] = <<Mcfg>> BY <1>6, <2>2, <3>2
      <4>2. Once(mmio[i]) /\ ToSet(mmio[i]) = {Mcfg} BY <4>1 DEF Once, ToSet
      <4>3. InOrder(mmio[i], start)
        <5>1. Len(mmio[i]) = 1 BY <4>1
        <5> QED BY <5>1 DEF InOrder
      <4> QED BY <3>1, <3>2, <4>2, <4>3
    <3>3. CASE i # b
      <4>1. mmio[i] = <<>> BY <1>6, <2>2, <3>3
      <4>2. Once(mmio[i]) /\ ToSet(mmio[i]) = {} BY <4>1 DEF Once, ToSet
      <4>3. InOrder(mmio[i], start)
        <5>1. Len(mmio[i]) = 0 BY <4>1
        <5> QED BY <5>1 DEF InOrder
      <4> QED BY <3>1, <3>3, <4>2, <4>3
    <3> QED BY <3>2, <3>3
  <2> QED BY <2>1, <2>2 DEF ListsInv
<1>9. \A c \in Cpu : pc[c] = "out" /\ h[c] = NULL /\ rest[c] = <<>> /\ caller[c] = "out"
                     /\ mapped[c] = {}
  OBVIOUS
<1>10. \A c \in Cpu : ~Reading(c) /\ ~Writing(c) /\ ~Inside(c) /\ ~Leaving(c)
  BY <1>9, Zenon DEF Reading, Inside, Handling, Writing, Leaving
<1>11. RwInv
  <2>1. Readers = {} BY <1>10 DEF Readers
  <2>2. Cardinality(Readers) = 0 BY <2>1, FS_EmptySet
  <2>3. ~Written BY <1>10 DEF Written
  <2>4. rwlock = 0 OBVIOUS
  <2>5. rwlock = Cardinality(Readers) + IF Written THEN Sign ELSE 0
    BY <2>2, <2>3, <2>4
  <2> QED BY <1>10, <2>5 DEF RwInv
<1>12. UseInv BY <1>9 DEF UseInv
<1>13. OwnInv
  <2>1. \A x \in Handle : ~unregistered[x] OBVIOUS
  <2>2. \A c \in Cpu : pc[c] # "scan" BY <1>9
  <2> QED BY <1>6, <1>9, <1>10, <2>1, <2>2, Zenon DEF OwnInv
<1>14. Registered \subseteq {Mcfg}
  <2>1. ToSet(handles) = {Mcfg} BY <1>6 DEF ToSet
  <2> QED BY <2>1 DEF Registered
<1>15. Apart /\ NeverMapped BY <1>9, <1>14 DEF Apart, NeverMapped
<1>16. RemovedLater
  <2>1. ToSet(handles) = {Mcfg} BY <1>6 DEF ToSet
  <2>2. \A x \in ToSet(handles) : ~unregistered[x] BY <1>1, <2>1
  <2> QED BY <2>2 DEF RemovedLater
<1> QED BY <1>7, <1>8, <1>11, <1>12, <1>13, <1>15, <1>16 DEF MmioInv, HandleInv

LEMMA MmioNext == MmioInv /\ [Next]_vars => MmioInv'
<1> SUFFICES ASSUME MmioInv, [Next]_vars PROVE MmioInv' OBVIOUS
<1>1. CASE UNCHANGED vars
  <2>1. /\ rwlock' = rwlock /\ unregister_flag' = unregister_flag
        /\ handles' = handles /\ mmio' = mmio
        /\ area' = area /\ unregistered' = unregistered /\ allocated' = allocated
        /\ owned' = owned /\ mapped' = mapped /\ pc' = pc
        /\ h' = h /\ gphys' = gphys /\ rest' = rest /\ caller' = caller
    BY <1>1, Zenon DEF vars, lists, fields, locals
  <2>2. TypeOK' BY <2>1, Invariants, Zenon DEF TypeOK
  <2>3. start' = start /\ Registered' = Registered BY <2>1 DEF start, Registered
  <2>4. ListsInv' BY <2>1, <2>3, Invariants, Zenon DEF ListsInv
  <2>5. Apart' /\ NeverMapped' /\ RemovedLater'
    BY <2>1, <2>3, Invariants, Zenon DEF Apart, NeverMapped, RemovedLater
  <2>6. /\ \A c \in Cpu : /\ Handling(c)' <=> Handling(c)
                          /\ Inside(c)' <=> Inside(c)
                          /\ Writing(c)' <=> Writing(c)
                          /\ Leaving(c)' <=> Leaving(c)
                          /\ Reading(c)' <=> Reading(c)
    BY <2>1, Zenon DEF Handling, Inside, Writing, Leaving, Reading
  <2>7. UseInv' /\ OwnInv'
    BY <2>1, <2>6, Invariants, Zenon DEF UseInv, OwnInv
  <2>8. RwInv'
    <3>1. Readers' = Readers BY <2>6 DEF Readers
    <3>2. Written' <=> Written BY <2>6, Zenon DEF Written
    <3>3. RwInv BY Invariants
    <3> PICK n, w : n = Cardinality(Readers) /\ w = (IF Written THEN Sign ELSE 0)
      OBVIOUS
    <3>4. rwlock = n + w BY <3>3 DEF RwInv
    <3>5. n = Cardinality(Readers)' BY <3>1
    <3>6. w = (IF Written' THEN Sign ELSE 0) BY <3>2
    <3>7. \A c, d \in Cpu : Writing(c)' => ~Inside(d)' /\ (Writing(d)' => c = d)
      BY <2>6, <3>3, Zenon DEF RwInv
    <3> QED BY <2>1, <3>4, <3>5, <3>6, <3>7 DEF RwInv
  <2> QED BY <2>2, <2>4, <2>5, <2>7, <2>8 DEF MmioInv, HandleInv
<1>2. CASE Next
  <2>1. PICK c \in Cpu :
          \/ \E g \in Page : mmio_lock(c, g)
          \/ mmio_lock_sign_clear(c)
          \/ violation_large(c)
          \/ violation_page(c)
          \/ mmio_access_memory(c)
          \/ handled(c)
          \/ handled_unlocked(c)
          \/ mmio_unlock(c)
          \/ mmio_unlock_test(c)
          \/ mmio_unlock_trylock(c)
          \/ mmio_unlock_clear(c)
          \/ mmio_unlock_scan(c)
          \/ mmio_unlock_over(c)
          \/ register_lock_ex(c)
          \/ \E a \in Area : register_done(c, a)
          \/ \E a \in Area : register_failed(c, a)
          \/ release(c)
          \/ \E x \in owned : mmio_unregister(c, x)
          \/ unregister_delete(c)
          \/ unregister_later(c)
          \/ vt_ept_clear_all(c)
    BY <1>2, Zenon DEF Next
  <2>2. CASE \E g \in Page : mmio_lock(c, g) BY <2>2, LockShStep
  <2>3. CASE mmio_lock_sign_clear(c) BY <2>3, SignClearStep
  <2>4. CASE violation_large(c) BY <2>4, LargeStep
  <2>5. CASE violation_page(c) BY <2>5, PageStep
  <2>6. CASE mmio_access_memory(c) BY <2>6, AccessStep
  <2>7. CASE handled(c) BY <2>7, HandledStep
  <2>8. CASE mmio_unlock(c) BY <2>8, UnlockStep
  <2>9. CASE \/ mmio_unlock_test(c) \/ mmio_unlock_trylock(c) \/ mmio_unlock_over(c)
             \/ vt_ept_clear_all(c) \/ handled_unlocked(c)
             \/ \E a \in Area : register_failed(c, a)
    BY <2>9, OutsideStep
  <2>10. CASE mmio_unlock_clear(c) BY <2>10, ClearStep
  <2>11. CASE mmio_unlock_scan(c) BY <2>11, ScanStep
  <2>12. CASE register_lock_ex(c) \/ release(c) BY <2>12, ExclusiveStep
  <2>13. CASE \E a \in Area : register_done(c, a) BY <2>13, RegisterStep
  <2>14. CASE \E x \in owned : mmio_unregister(c, x) BY <2>14, UnregisterStep
  <2>15. CASE unregister_delete(c) BY <2>15, DeleteStep
  <2>16. CASE unregister_later(c) BY <2>16, LaterStep
  <2> QED BY <2>1, <2>2, <2>3, <2>4, <2>5, <2>6, <2>7, <2>8, <2>9, <2>10, <2>11,
             <2>12, <2>13, <2>14, <2>15, <2>16, Zenon
<1> QED BY <1>1, <1>2

\* MmioInv is invariant: the lists, the handles and the lock's word agree with
\* where every processor is, whatever the interleaving of the critical sections
\* of core/mmio.c, and the areas and what is mapped are as the theorems
\* below say.
THEOREM MmioInvariant == Spec => []MmioInv
<1>1. Spec => Init /\ [][Next]_vars BY PTL DEF Spec
<1> QED BY <1>1, MmioInit, MmioNext, PTL

-----------------------------------------------------------------------------
(***************************************************************************)
(* What it gives.                                                          *)
(***************************************************************************)
LEMMA NothingFreed == MmioInv => NothingFreedIsUsed
BY DEF MmioInv, HandleInv, UseInv, NothingFreedIsUsed

LEMMA Ranges == MmioInv => RangeFinds
<1> SUFFICES ASSUME MmioInv PROVE RangeFinds OBVIOUS
<1>1. \A x, y \in Registered : x # y => Pages(area[x]) \cap Pages(area[y]) = {}
  BY Invariants DEF Apart
<1>2. ASSUME NEW a \in Area
      PROVE  (mmio_range(a.gphys, a.len) # 0)
               <=> \E x \in Registered : Pages(a) \cap Pages(area[x]) # {}
  <2> PICK g, n, M : g = a.gphys /\ n = a.len /\ M = 2 ^ PhysBits OBVIOUS
  <2>1. /\ g \in Nat /\ n \in Nat \ {0} /\ g + n <= NPages /\ NPages <= M
        /\ NPages \in Nat /\ M \in Nat /\ Pages(a) = g .. g + n - 1
    BY AreaIs
  <2>2. g + n <= M BY <2>1
  <2>3. g + n <= 2 ^ PhysBits BY <2>2
  <2>4. HandleInv BY Invariants
  <2>5. (mmio_range(g, n) # 0)
          <=> \E x \in Registered : (g .. g + n - 1) \cap Pages(area[x]) # {}
    BY <2>1, <2>3, <2>4, RangeIs
  <2> QED BY <2>1, <2>5
<1> QED BY <1>1, <1>2 DEF RangeFinds

\* No list holds a freed area and no handler is called, or returns, with one:
\* mmio_unlock frees what was unregistered only when rw_spinlock_trylock_lock_ex
\* has shown that nobody is inside, and mmio_unregister frees only as a writer.
THEOREM NothingFreedIsUsedAlways == Spec => []NothingFreedIsUsed
BY MmioInvariant, NothingFreed, PTL

\* A registered area is in no processor's tables: vt_ept_violation asks
\* mmio_range and mmio_access_page before it maps, under the same lock, and
\* mmio_register_internal unmaps, or fails, before the area is in the lists.
THEOREM NeverMappedAlways == Spec => []NeverMapped
<1>1. MmioInv => NeverMapped BY DEF MmioInv
<1> QED BY <1>1, MmioInvariant, PTL

\* Areas are apart, and mmio_range finds one whenever a part of it is in the
\* range: the modulo arithmetic of rangecheck, the early end of the search and
\* the list it starts in lose none.
THEOREM RangeFindsAlways == Spec => []RangeFinds
BY MmioInvariant, Ranges, PTL

\* What a handler unregistered is not forgotten: the flag is set after the mark,
\* and cleared before the scan.
THEOREM RemovedLaterAlways == Spec => []RemovedLater
<1>1. MmioInv => RemovedLater BY DEF MmioInv
<1> QED BY <1>1, MmioInvariant, PTL
=============================================================================
