------------------------------ MODULE EptTables ------------------------------
(***************************************************************************)
(* The extended page tables of one virtual processor, core/vt_ept.c.       *)
(*                                                                         *)
(* The tables map guest-physical pages to themselves (pages of the VMM to  *)
(* a blank one, read-only) and are filled one fault at a time, from a pool *)
(* of NUM_OF_EPTBL.  When the pool is used up everything is forgotten, but *)
(* ranges that must be mapped (getforcemap) are mapped again.  The walk of *)
(* the last address is kept (cur), so the next one starts where they part. *)
(*                                                                         *)
(* Addresses are pages, an entry of level l stands for 2^l pages (512^l),  *)
(* a table has two entries, and a large page is an entry of level 1.       *)
(* mmio_lock is held in every step that looks at the areas; the areas are  *)
(* those of module Mmio, which in turn sees only what is mapped here.      *)
(***************************************************************************)
EXTENDS Integers, Sequences, FiniteSets

CONSTANTS
  EPT_LEVELS, NUM_OF_EPTBL,
  Vmm,             \* the pages of the VMM, whole large pages ("4MiB aligned")
  Uneven,          \* large pages whose pages differ in their cache type
  ForceMap,        \* the ranges of getforcemap
  Areas,           \* MMIO areas that may be registered, sets of pages
  LowPages         \* the pages of the first megabyte

Level  == 0 .. EPT_LEVELS - 1
Top    == EPT_LEVELS - 1            \* the level of the root
Page   == 0 .. 2 ^ EPT_LEVELS - 1
Table  == 0 .. NUM_OF_EPTBL         \* 0 is ncr3tbl, i + 1 is tbl[i]
Root   == 0
Blank  == -1                        \* phys_blank
NoPage == -1

Above(g, l)   == g \div 2 ^ l        \* the entry of level l above page g
LargeOf(g)    == g \div 2
LargePage(g)  == {2 * LargeOf(g), 2 * LargeOf(g) + 1}
Forced        == UNION {f.base .. f.base + f.len - 1 : f \in
                          {ForceMap[i] : i \in DOMAIN ForceMap}}

\* With two levels a large page would be an entry of the root, where
\* vt_ept_extern_mapsearch does not look.  What powers are is said for the provers.
ASSUME EptAssumption ==
  /\ EPT_LEVELS \in Nat /\ EPT_LEVELS >= 3
  /\ 2 ^ 0 = 1 /\ \A l \in Level : 2 ^ l \in Nat \ {0} /\ 2 ^ (l + 1) = 2 * 2 ^ l
  /\ NUM_OF_EPTBL \in Nat /\ NUM_OF_EPTBL >= EPT_LEVELS - 1
  /\ Vmm \subseteq Page /\ \A g \in Vmm : LargePage(g) \subseteq Vmm
  /\ Uneven \subseteq {LargeOf(g) : g \in Page}
  /\ ForceMap \in Seq([base : Page, len : Nat]) /\ Forced \subseteq Page \ Vmm
  /\ Areas \subseteq SUBSET (Page \ Vmm)
  /\ \A A \in Areas : \E first, last \in Page : A = first .. last
  /\ LowPages \in Nat /\ LowPages - 1 \in Page

NoEntry == [to |-> "none", at |-> 0, write |-> FALSE]
Garbage == [to |-> "garbage", at |-> 0, write |-> FALSE]   \* of an earlier use
Entry   == {NoEntry, Garbage} \cup
           [to : {"table"}, at : Table \ {Root}, write : {TRUE}] \cup
           [to : {"page"}, at : Page \cup {Blank}, write : BOOLEAN] \cup
           [to : {"large"}, at : Page, write : {TRUE}]
Slot    == Table \X {0, 1}
NoSlot  == <<-1, -1>>               \* an entry[] that is not used

VARIABLES
  ept,             \* cnt, cleared, tables, and cur: level, gphys, entry
  areas,           \* what is registered
  large,           \* vt_ept_violation maps large pages: the source
  low,             \* the next page of vt_ept_map_1mb
  fault,           \* ghost: the page the last step mapped for the guest
  panic

vars == <<ept, areas, large, low, fault, panic>>

Ept == [cnt : 0 .. NUM_OF_EPTBL, cleared : BOOLEAN,
        tables : [Table -> [{0, 1} -> Entry]],
        level : 0 .. EPT_LEVELS, gphys : Page,
        entry : [Level -> Slot \cup {NoSlot}]]

TypeOK ==
  /\ ept \in Ept
  /\ areas \subseteq Areas
  /\ large \in BOOLEAN
  /\ low \in 0 .. LowPages
  /\ fault \in Page \cup {NoPage}
  /\ panic \in BOOLEAN

Mmio == UNION areas

-----------------------------------------------------------------------------
\* The entry of the table of level l for page g.
Index(g, l)     == Above(g, l) % 2
Read(e, slot)   == e.tables[slot[1]][slot[2]]
Put(e, slot, x) == [e EXCEPT !.tables[slot[1]][slot[2]] = x]
NoTable         == [i \in {0, 1} |-> NoEntry]
OldTable        == [i \in {0, 1} |-> Garbage]
FirstTables     == [t \in Table |-> IF t = Root THEN NoTable ELSE OldTable]
RootSlot(g)     == <<Root, Index(g, Top)>>

vt_ept_init ==
  [cnt |-> 0, cleared |-> TRUE, tables |-> FirstTables,
   level |-> EPT_LEVELS, gphys |-> 0, entry |-> [l \in Level |-> NoSlot]]

\* memset of ncr3tbl; the other tables keep what is in them, for what it is worth.
forget(e, level) ==
  [e EXCEPT !.tables = FirstTables, !.cleared = TRUE, !.cnt = 0,
            !.level = level,
            !.entry = [l \in Level |-> IF l < level THEN NoSlot ELSE e.entry[l]]]

vt_ept_clear_all(e) == forget(e, EPT_LEVELS)

Minimum(S) == CHOOSE x \in S : \A y \in S : x <= y

\* A walk for page g: it has the entries of kept from level l up, and goes down
\* from there while the entry points to a table.
Walked(e, g, kept, l) ==
  LET path[k \in Level] ==
        IF k >= l THEN kept[k]
        ELSE LET up == path[k + 1] IN
             IF up # NoSlot /\ Read(e, up).to = "table"
             THEN <<Read(e, up).at, Index(g, k)>>
             ELSE NoSlot
  IN path

Lowest(path) == Minimum({l \in Level : path[l] # NoSlot})

\* A mistake the checks find: the kept walk is used one level too low.
parting_low(e, g) ==
  Minimum({EPT_LEVELS} \cup
          {l \in Level : l >= e.level /\ Above(g, l + 1) = Above(e.gphys, l + 1)})

\* cur_move: the lowest level, from the kept one up, where g and the address
\* of the kept walk still have the same entry ...
parting(e, g) ==
  Minimum({EPT_LEVELS} \cup
          {l \in Level : l >= e.level /\ Above(g, l) = Above(e.gphys, l)})

\* ... and the walk goes on from there.
cur_move(e, g) ==
  LET l == parting(e, g)
      path == IF l > Top
              THEN Walked(e, g, [e.entry EXCEPT ![Top] = RootSlot(g)], Top)
              ELSE Walked(e, g, e.entry, l)
  IN [e EXCEPT !.gphys = g, !.level = Lowest(path), !.entry = path]

\* A mistake the checks find: one table is never used.
pool_nearly_used_up(e, level) == e.cnt + e.level - level >= NUM_OF_EPTBL

pool_used_up(e, level) == e.cnt + e.level - level > NUM_OF_EPTBL

\* A mistake the checks find: the kept walk is not cut back.
make_room_kept(e, level) ==
  IF pool_used_up(e, level)
  THEN [forget(e, Top) EXCEPT !.level = e.level, !.entry = e.entry]
  ELSE e

\* The kept walk is right down to the root's entry when all is forgotten.
make_room(e, level) == IF pool_used_up(e, level) THEN forget(e, Top) ELSE e

\* cur_fill's loop: the next tables of the pool, cleared, each under the entry of
\* the one before it, the first under the last entry of the kept walk.
fill(e, g, level) ==
  LET n == e.level - level
      Points(k) == [to |-> "table", at |-> e.cnt + k, write |-> TRUE]
      On(k) == Index(g, e.level - k)         \* the entry of the k'th table
  IN [e EXCEPT
       !.cnt = @ + n,
       !.tables = [t \in Table |-> [i \in {0, 1} |->
         LET k == t - e.cnt IN
         IF k \in 1 .. n THEN IF k < n /\ i = On(k) THEN Points(k + 1) ELSE NoEntry
         ELSE IF n > 0 /\ <<t, i>> = e.entry[e.level] THEN Points(1)
         ELSE @[t][i]]]]

\* The entry it returns, before the loop.
filled(e, g, level) ==
  IF e.level = level THEN e.entry[level]
  ELSE <<e.cnt + e.level - level, Index(g, level)>>

\* cur_fill, and *p = x.
map_entry(e, g, level, x) ==
  LET room == make_room(e, level)
  IN Put(fill(room, g, level), filled(room, g, level), x)

\* gmm_pass_gp2hp: fakerom if g is the VMM's.
PageEntry(g) == IF g \in Vmm THEN [to |-> "page", at |-> Blank, write |-> FALSE]
                             ELSE [to |-> "page", at |-> g, write |-> TRUE]

vt_ept_map_page_sub(e, g) == map_entry(cur_move(e, g), g, 0, PageEntry(g))

\* vt_ept_map_2mpage fails if there is a table of pages, gmm_pass_gp2hp_2m does
\* for the VMM, or the pages differ.  e is cur_move'd.
may_map_large(e, g) ==
  e.level > 0 /\ g \notin Vmm /\ LargeOf(g) \notin Uneven

LargeEntry(g) == [to |-> "large", at |-> 2 * LargeOf(g), write |-> TRUE]

vt_ept_map_2mpage(e, g) == map_entry(e, g, 1, LargeEntry(g))

\* A mistake the checks find: the areas of the large page are not looked at.
large_fits_anyhow(e, g) == may_map_large(cur_move(e, g), g)

\* Level above 0, no area in the large page, and it can be mapped.
large_fits(e, g) ==
  LargePage(g) \cap Mmio = {} /\ may_map_large(cur_move(e, g), g)

\* mmio_range: the end of the area that page g is in.
area_end(g) ==
  LET A == CHOOSE A \in areas : g \in A
  IN Minimum({h \in g + 1 .. 2 ^ EPT_LEVELS : h \notin A})

\* vt_ept_map_page_clear_cleared, one turn of its loop, at page s.at ...
force_page(s) ==
  LET e == cur_move(s.ept, s.at)
  IN IF large_fits(s.ept, s.at)
     THEN [ept |-> vt_ept_map_2mpage(e, s.at), at |-> 2 * LargeOf(s.at) + 2]
     ELSE IF s.at \notin Mmio
     THEN [ept |-> vt_ept_map_page_sub(e, s.at), at |-> s.at + 1]
     ELSE [ept |-> e, at |-> area_end(s.at)]

\* ... for the pages of range f, a page or more in each turn ...
force_range(e, f) ==
  LET turn[i \in 0 .. f.len] ==
        IF i = 0 THEN [ept |-> e, at |-> f.base]
        ELSE LET s == turn[i - 1]
             IN IF s.at < f.base + f.len THEN force_page(s) ELSE s
  IN turn[f.len].ept

\* ... and for all the ranges.
vt_ept_map_page_clear_cleared(e) ==
  LET after[i \in 0 .. Len(ForceMap)] ==
        IF i = 0 THEN [e EXCEPT !.cleared = FALSE]
        ELSE force_range(after[i - 1], ForceMap[i])
  IN after[Len(ForceMap)]

force_if_cleared(e) == IF e.cleared THEN vt_ept_map_page_clear_cleared(e) ELSE e

\* A mistake the checks find: what was forgotten for the page is not mapped again.
map_page_once(e, g) ==
  [vt_ept_map_page_sub(force_if_cleared(e), g) EXCEPT !.cleared = FALSE]

vt_ept_map_page(e, g) ==
  force_if_cleared(vt_ept_map_page_sub(force_if_cleared(e), g))

-----------------------------------------------------------------------------
\* What the processor finds for page g: the entries of its walk from the root,
\* by level, and the last of them.
Walk(e, g)  == Walked(e, g, [l \in Level |-> RootSlot(g)], Top)
Found(e, g) == LET path == Walk(e, g) IN Read(e, path[Lowest(path)])
Mapped(e, g) == Found(e, g).to \in {"page", "large"}

Init ==
  /\ ept = vt_ept_init
  /\ areas = {}
  /\ large \in BOOLEAN
  /\ low = LowPages
  /\ fault = NoPage
  /\ panic = FALSE

Guest == low = LowPages /\ ~panic        \* the guest runs

\* vt_ept_violation, for a page that is not mapped.  (The guest's first write to
\* a page of the VMM stops the machine.)  The source looks at the kept walk first.
looked(g) == IF large THEN cur_move(ept, g) ELSE ept

violation_large(g) ==
  /\ Guest /\ ~Mapped(ept, g)
  /\ large /\ large_fits(ept, g)
  /\ ept' = vt_ept_map_2mpage(looked(g), g)
  /\ fault' = g
  /\ UNCHANGED <<areas, large, low, panic>>

\* The handler of the area does what the guest wanted to do.
violation_mmio(g) ==
  /\ Guest /\ ~Mapped(ept, g)
  /\ g \in Mmio
  /\ ept' = looked(g)
  /\ fault' = NoPage
  /\ UNCHANGED <<areas, large, low, panic>>

\* It panics if the ranges do not fit the pool: cleared again.
map_page(e, g) ==
  /\ ept' = vt_ept_map_page(e, g)
  /\ panic' = (force_if_cleared(e).cleared \/ ept'.cleared)
  /\ fault' = g

violation_page(g) ==
  /\ Guest /\ ~Mapped(ept, g)
  /\ large => ~large_fits(ept, g)
  /\ g \notin Mmio
  /\ map_page(looked(g), g)
  /\ UNCHANGED <<areas, large, low>>

clear_all ==
  /\ Guest
  /\ ept' = vt_ept_clear_all(ept)
  /\ fault' = NoPage
  /\ UNCHANGED <<areas, large, low, panic>>

\* vt_ept_map_1mb: the lock is taken for one page at a time.
vt_ept_map_1mb ==
  /\ Guest
  /\ ept' = vt_ept_clear_all(ept)
  /\ low' = 0
  /\ fault' = NoPage
  /\ UNCHANGED <<areas, large, panic>>

map_1mb_page ==
  /\ low < LowPages /\ ~panic
  /\ low' = low + 1
  /\ IF low \in Mmio THEN fault' = NoPage /\ UNCHANGED <<ept, panic>>
                     ELSE map_page(ept, low)
  /\ UNCHANGED <<areas, large>>

Overlaps(x, A) == \/ x.to = "page" /\ x.at \in A
                  \/ x.to = "large" /\ LargePage(x.at) \cap A # {}

\* The tables vt_ept_extern_mapsearch looks through: not the root.
searched(e) == 1 .. e.cnt

vt_ept_extern_mapsearch(e, A) ==
  [e EXCEPT !.tables = [t \in Table |-> [i \in {0, 1} |->
     IF t \in searched(e) /\ Overlaps(@[t][i], A) THEN NoEntry ELSE @[t][i]]]]

\* mmio_register by this processor: the entries are removed, and the area is
\* registered unless another processor has it mapped.
register(A) ==
  /\ Guest
  /\ A \cap Mmio = {}
  /\ ept' = vt_ept_extern_mapsearch(ept, A)
  /\ areas' \in {areas, areas \cup {A}}
  /\ fault' = NoPage
  /\ UNCHANGED <<large, low, panic>>

\* mmio_register by another processor fails if this one has the area mapped.
register_other(A) ==
  /\ ~panic
  /\ A \cap Mmio = {}
  /\ \A t \in searched(ept), i \in {0, 1} : ~Overlaps(ept.tables[t][i], A)
  /\ areas' = areas \cup {A}
  /\ fault' = NoPage
  /\ UNCHANGED <<ept, large, low, panic>>

\* mmio_unregister, by any processor.
unregister(A) ==
  /\ ~panic
  /\ areas' = areas \ {A}
  /\ fault' = NoPage
  /\ UNCHANGED <<ept, large, low, panic>>

Next ==
  \/ \E g \in Page : violation_large(g) \/ violation_mmio(g) \/ violation_page(g)
  \/ clear_all
  \/ vt_ept_map_1mb
  \/ map_1mb_page
  \/ \E A \in Areas \ areas : register(A) \/ register_other(A)
  \/ \E A \in areas : unregister(A)

Spec == Init /\ [][Next]_vars

-----------------------------------------------------------------------------
InUse == {Root} \cup 1 .. ept.cnt

\* Every table taken from the pool is in the tree at one place: cur_fill neither
\* loses a table nor uses one twice, when it reuses the pool either.  And the
\* kept walk of cur_move is what a walk from the root finds for its address, from
\* the kept level up, whatever was mapped, split, removed or forgotten since.
WalkIsTrue ==
  LET points == {p \in InUse \X {0, 1} : Read(ept, p).to = "table"}
  IN /\ TypeOK
     /\ {Read(ept, p).at : p \in points} = 1 .. ept.cnt
     /\ Cardinality(points) = ept.cnt
     /\ \A l \in Level : l >= ept.level => ept.entry[l] = Walk(ept, ept.gphys)[l]

\* What is mapped is mapped to itself, the VMM's memory to the blank page, not to
\* write, and nothing as large whose pages differ; no entry of an earlier use of a
\* table is found.  No page of a registered area is mapped, so that every access
\* comes to its handler: vt_ept_violation, map_1mb and the ranges of getforcemap
\* leave it out, and registering removes it.
MappedRightly ==
  \A g \in Page :
    LET x == Found(ept, g) IN
    /\ x # Garbage
    /\ x.to = "page" => x = PageEntry(g)
    /\ x.to = "large" => /\ x.at = 2 * LargeOf(g)
                         /\ g \notin Vmm /\ LargeOf(g) \notin Uneven
    /\ g \in Mmio => ~Mapped(ept, g)

\* The page of a fault is mapped when the guest goes on, if the pool was used up
\* on the way and if the ranges of getforcemap were mapped after it.
FaultResolved == fault # NoPage /\ ~panic => Mapped(ept, fault)

\* The tables above those of pages, by level and place.
Upper == {u \in (1 .. Top - 1) \X Page : u[2] < 2 ^ (Top - u[1])}

\* The tables that the ranges of getforcemap and one more page need, and those of
\* the large pages, fit the pool ...
Room ==
  Cardinality(Upper) + Cardinality({LargeOf(g) : g \in Forced}) + 1 <= NUM_OF_EPTBL

\* ... so that mapping the ranges never uses up the pool again ("panic"), however
\* much the source had mapped before: it is the large pages that a cleared
\* processor may have mapped since.
RangesFit == Room => ~panic

\* The ranges of getforcemap are mapped as soon as any page is, and again when
\* all was forgotten to make room for one.  The destination, which faults on
\* single pages, may lose those in the large page it splits for the fault; the
\* source maps the large page instead.
ForcedKept ==
  [][ ~ept'.cleared /\ areas' = areas /\ fault' # NoPage =>
        \A g \in Forced \ Mmio :
          /\ ept.cleared \/ Mapped(ept, g)
          /\ large \/ LargeOf(g) # LargeOf(fault')
          => Mapped(ept', g) ]_vars

\* The first megabyte has fixed memory types (VGA among them), so that
\* vt_ept_map_2mpage never maps the large pages it is in.
LowUneven == \A g \in 0 .. LowPages - 1 : LargeOf(g) \in Uneven
=============================================================================
