-------------------------------- MODULE Mmio --------------------------------
(***************************************************************************)
(* Registered areas of guest-physical memory, core/mmio.c, used and        *)
(* changed by the virtual processors of one guest.                         *)
(*                                                                         *)
(* An access of the guest that its EPT does not map comes to               *)
(* vt_ept_violation (core/vt_ept.c of the source), which holds the lock    *)
(* shared: the page is an area's and its handler is called, or it is       *)
(* mapped and the guest accesses it alone from then on.  Drivers register  *)
(* and unregister areas: outside, in a handler (where only unregistering   *)
(* is possible, and deferred, since the handler's own processor holds the  *)
(* lock), or in an unlocked handler, for which the lock is released.       *)
(*                                                                         *)
(* Addresses are pages.  mapped[c] is what the EPT of processor c maps;    *)
(* its tables are in module EptTables.  The lock is a word, see            *)
(* RwSpinlock; a test of it that fails in a wait loop is a stuttering      *)
(* step.  mmio_lock() inside a handler only counts, and is left out.       *)
(***************************************************************************)
EXTENDS RwSpinlock, Sequences, FiniteSets, SequencesExt, FiniteSetsExt

CONSTANTS
  NCpus,
  NHandles,       \* handles that may be allocated at a time
  NPages,
  PhysBits,       \* phys_t is computed with modulo 2^PhysBits (64)
  LargeShift,     \* pages of a large page: 2^LargeShift (2^9)
  BucketShift,    \* pages of a list mmio[i]: 2^BucketShift (2^16)
  LastBucket,     \* what is above is in the last list (16)
  MaxLen,         \* pages of an area
  McfgPage        \* where PCI configuration space is, one page

Cpu    == 0 .. NCpus - 1
Handle == 1 .. NHandles
NULL   == 0
Mcfg   == 1          \* the handle of pci_mcfg_register_handler, the one unlocked area
Page   == 0 .. NPages - 1
Area   == {a \in [gphys : Page, len : 1 .. MaxLen] : a.gphys + a.len <= NPages}

\* That powers are numbers is said for the provers, which do not know ^.
ASSUME MmioAssumption ==
  /\ NCpus \in Nat \ {0} /\ Sign > NCpus
  /\ NHandles \in Nat /\ NPages \in Nat \ {0} /\ MaxLen \in 1 .. NPages
  /\ PhysBits \in Nat /\ 2 ^ PhysBits >= NPages
  /\ McfgPage \in Page /\ 1 \in Handle
  /\ LargeShift \in Nat /\ 2 ^ LargeShift \in Nat \ {0}
  /\ 2 ^ PhysBits % 2 ^ LargeShift = 0
  /\ BucketShift \in Nat /\ 2 ^ BucketShift \in Nat \ {0} /\ LastBucket \in Nat

Bucket(g) == IF g \div 2 ^ BucketShift < LastBucket
             THEN g \div 2 ^ BucketShift ELSE LastBucket
Buckets   == 0 .. LastBucket

VARIABLES
  rwlock, unregister_flag,
  handles,           \* mmio.handle
  mmio,              \* mmio[i]: the areas in a bucket
  area, unregistered,    \* the fields of a handle
  allocated,         \* handles that are not free
  owned,             \* handles a driver has and has not unregistered
  mapped,
  pc,
  h,                 \* the handle a processor uses or unregisters, or NULL
  gphys,             \* the address a processor accesses
  rest,              \* what is left for the scan of mmio_unlock
  caller             \* where mmio_register or mmio_unregister returns
                     \* (these, and free handles, are reset when they are dead)

lists  == <<handles, mmio>>
fields == <<area, unregistered, allocated>>
locals == <<h, gphys, rest, caller>>
vars   == <<rwlock, unregister_flag, lists, fields, owned, mapped, pc, locals>>

Location == {"out", "lock", "locked", "interpret", "handler", "unlocked", "relock",
             "unlock", "test_flag", "trylock", "clear_flag", "scan",
             "register", "delete", "mark", "set_flag", "release"}

\* The types; what is in a list has not been freed.
TypeOK ==
  /\ rwlock \in Word /\ unregister_flag \in BOOLEAN
  /\ handles \in Seq(allocated) /\ mmio \in [Buckets -> Seq(allocated)]
  /\ area \in [Handle -> Area]
  /\ unregistered \in [Handle -> BOOLEAN]
  /\ allocated \subseteq Handle /\ owned \subseteq Handle
  /\ mapped \in [Cpu -> SUBSET Page]
  /\ pc \in [Cpu -> Location]
  /\ h \in [Cpu -> Handle \cup {NULL}]
  /\ gphys \in [Cpu -> Page]
  /\ rest \in [Cpu -> Seq(Handle)]
  /\ caller \in [Cpu -> {"out", "handler", "unlocked"}]

McfgArea == [gphys |-> McfgPage, len |-> 1]

\* mmio_init, and pci_init, which registers PCI configuration space for good.
Init ==
  /\ rwlock = 0 /\ unregister_flag = FALSE
  /\ handles = <<Mcfg>>
  /\ mmio = [i \in Buckets |-> IF i = Bucket(McfgPage) THEN <<Mcfg>> ELSE <<>>]
  /\ area = [x \in Handle |-> McfgArea]
  /\ unregistered = [x \in Handle |-> FALSE]
  /\ allocated = {Mcfg} /\ owned = {}
  /\ mapped = [c \in Cpu |-> {}]
  /\ pc = [c \in Cpu |-> "out"]
  /\ h = [c \in Cpu |-> NULL]
  /\ gphys = [c \in Cpu |-> 0]
  /\ rest = [c \in Cpu |-> <<>>]
  /\ caller = [c \in Cpu |-> "out"]

goto(c, l) == pc' = [pc EXCEPT ![c] = l]
return(c)  == goto(c, caller[c]) /\ caller' = [caller EXCEPT ![c] = "out"]

-----------------------------------------------------------------------------
\* rangecheck: both ranges are moved so that the area starts at 0.
rangecheck(x, g, len) ==
  LET sub(a) == (a - area[x].gphys) % 2 ^ PhysBits
      a == sub(g)
      b == sub(g + len - 1)
      d == area[x].len - 1
  IN  ~unregistered[x] /\ (d < a => a > b)

\* A mistake the checks find: the areas of a list are not sorted.
insert_last(s, x) == Append(s, x)

\* add: before the first area that starts later.
insert(s, x) ==
  LET d == SelectInSeq(s, LAMBDA y : area'[y].gphys > area'[x].gphys)
  IN  IF d = 0 THEN Append(s, x) ELSE InsertAt(s, d, x)

\* scan: the lists an area is in.
BucketsOf(a) == Bucket(a.gphys) .. Bucket(a.gphys + a.len - 1)

\* A search in the lists s to e, place after place, ends at the first area that
\* starts behind the range, or that has a part of it.
first_area(s, e, g, len) ==
  LET at(p)  == mmio[p[1]][p[2]]
      places == UNION {{i} \X DOMAIN mmio[i] : i \in s .. e}
      ends   == {p \in places :
                   area[at(p)].gphys >= g + len \/ rangecheck(at(p), g, len)}
      first  == CHOOSE p \in ends : \A q \in ends :
                  p[1] < q[1] \/ (p[1] = q[1] /\ p[2] <= q[2])
  IN  IF ends = {} \/ area[at(first)].gphys >= g + len THEN NULL ELSE at(first)

\* mmio_range: 0, or the end of the area.
mmio_range(g, len) ==
  LET x == first_area(Bucket(g), Bucket(g + len - 1), g, len)
  IN  IF x = NULL THEN 0 ELSE area[x].gphys + area[x].len

\* mmio_access_page and mmio_access_memory: the area that page g is in.
area_of(g) == first_area(Bucket(g), Bucket(g), g, 1)

LargePage(g) ==
  {p \in Page : p \div 2 ^ LargeShift = g \div 2 ^ LargeShift}

-----------------------------------------------------------------------------
\* mmio_lock, called by vt_ept_violation.
mmio_lock(c, g) ==
  /\ pc[c] = "out" /\ g \notin mapped[c]
  /\ gphys' = [gphys EXCEPT ![c] = g]
  /\ rwlock' = add_reader(rwlock)
  /\ goto(c, IF negative(rwlock') THEN "lock" ELSE "locked")
  /\ UNCHANGED <<unregister_flag, lists, fields, owned, mapped, h, rest, caller>>

mmio_lock_sign_clear(c) ==
  /\ pc[c] \in {"lock", "relock"} /\ ~negative(rwlock)
  /\ goto(c, IF pc[c] = "lock" THEN "locked" ELSE "unlock")
  /\ UNCHANGED <<rwlock, unregister_flag, lists, fields, owned, mapped, locals>>

\* A mistake the checks find: the rest of the large page is not asked for.
large_if_page_free(c) == area_of(gphys[c]) = NULL

large_if_free(c) ==
  mmio_range((gphys[c] \div 2 ^ LargeShift) * 2 ^ LargeShift, 2 ^ LargeShift) = 0

\* vt_ept_violation: a large page, if the tables and the memory types allow ...
violation_large(c) ==
  /\ pc[c] = "locked"
  /\ large_if_free(c)
  /\ mapped' = [mapped EXCEPT ![c] = @ \cup LargePage(gphys[c])]
  /\ goto(c, "unlock")
  /\ UNCHANGED <<rwlock, unregister_flag, lists, fields, owned, locals>>

\* ... or an area, or one page.
violation_page(c) ==
  /\ pc[c] = "locked"
  /\ IF area_of(gphys[c]) # NULL
     THEN goto(c, "interpret") /\ UNCHANGED mapped
     ELSE /\ goto(c, "unlock")
          /\ mapped' = [mapped EXCEPT ![c] = @ \cup {gphys[c]}]
  /\ UNCHANGED <<rwlock, unregister_flag, lists, fields, owned, locals>>

\* cpu_interpreter, mmio_access_memory: the area is looked up again, and may
\* have been unregistered since; then memory is accessed.
mmio_access_memory(c) ==
  LET x == area_of(gphys[c]) IN
  /\ pc[c] = "interpret"
  /\ h' = [h EXCEPT ![c] = IF x # Mcfg THEN x ELSE NULL]
  /\ goto(c, IF x = NULL THEN "unlock"
             ELSE IF x = Mcfg THEN "unlocked" ELSE "handler")
  /\ rwlock' = IF x = Mcfg THEN sub_reader(rwlock) ELSE rwlock
  /\ UNCHANGED <<unregister_flag, lists, fields, owned, mapped, gphys, rest, caller>>

nowhere(c) == gphys' = [gphys EXCEPT ![c] = 0]

\* The handler returns.
handled(c) ==
  /\ pc[c] = "handler"
  /\ h' = [h EXCEPT ![c] = NULL]
  /\ goto(c, "unlock")
  /\ UNCHANGED <<rwlock, unregister_flag, lists, fields, owned, mapped, gphys, rest,
                 caller>>

\* An unlocked handler returns: "Lock again for mmio_unlock()".
handled_unlocked(c) ==
  /\ pc[c] = "unlocked"
  /\ rwlock' = add_reader(rwlock)
  /\ goto(c, IF negative(rwlock') THEN "relock" ELSE "unlock")
  /\ UNCHANGED <<unregister_flag, lists, fields, owned, mapped, locals>>

\* mmio_unlock ...
mmio_unlock(c) ==
  /\ pc[c] = "unlock"
  /\ rwlock' = sub_reader(rwlock)
  /\ nowhere(c)
  /\ goto(c, "test_flag")
  /\ UNCHANGED <<unregister_flag, lists, fields, owned, mapped, h, rest, caller>>

mmio_unlock_test(c) ==
  /\ pc[c] = "test_flag"
  /\ goto(c, IF unregister_flag THEN "trylock" ELSE "out")
  /\ UNCHANGED <<rwlock, unregister_flag, lists, fields, owned, mapped, locals>>

mmio_unlock_trylock(c) ==
  /\ pc[c] = "trylock"
  /\ IF rwlock = 0
     THEN rwlock' = Sign /\ goto(c, "clear_flag")
     ELSE UNCHANGED rwlock /\ goto(c, "out")
  /\ UNCHANGED <<unregister_flag, lists, fields, owned, mapped, locals>>

mmio_unlock_clear(c) ==
  /\ pc[c] = "clear_flag"
  /\ unregister_flag' = FALSE
  /\ rest' = [rest EXCEPT ![c] = handles]
  /\ goto(c, "scan")
  /\ UNCHANGED <<rwlock, lists, fields, owned, mapped, h, gphys, caller>>

\* LIST1_DEL of the handle, scan (.., del, ..) and free.
remove(x) ==
  /\ handles' = RemoveFirst(handles, x)
  /\ mmio' = [i \in Buckets |->
                IF i \in BucketsOf(area[x]) THEN RemoveFirst(mmio[i], x) ELSE mmio[i]]
  /\ allocated' = allocated \ {x}
  /\ area' = [area EXCEPT ![x] = McfgArea]
  /\ unregistered' = [unregistered EXCEPT ![x] = FALSE]

\* ... removes the areas that were unregistered while the lock was held.
mmio_unlock_scan(c) ==
  /\ pc[c] = "scan" /\ rest[c] # <<>>
  /\ rest' = [rest EXCEPT ![c] = Tail(@)]
  /\ IF unregistered[Head(rest[c])]
     THEN remove(Head(rest[c]))
     ELSE UNCHANGED <<lists, fields>>
  /\ UNCHANGED <<rwlock, unregister_flag, owned, mapped, pc, h, gphys, caller>>

mmio_unlock_over(c) ==
  /\ pc[c] = "scan" /\ rest[c] = <<>>
  /\ rwlock' = clear_writer(rwlock)
  /\ goto(c, "out")
  /\ UNCHANGED <<unregister_flag, lists, fields, owned, mapped, locals>>

-----------------------------------------------------------------------------
\* mmio_register_internal: rw_spinlock_lock_ex succeeds.
register_lock_ex(c) ==
  /\ pc[c] \in {"out", "unlocked"}
  /\ rwlock = 0
  /\ rwlock' = Sign
  /\ caller' = [caller EXCEPT ![c] = pc[c]]
  /\ goto(c, "register")
  /\ UNCHANGED <<unregister_flag, lists, fields, owned, mapped, h, gphys, rest>>

Pages(a) == a.gphys .. a.gphys + a.len - 1

\* flush_tlb_entry: what processor c maps is unmapped; what another one maps is
\* a failure.
flush_tlb_entry(c, a) ==
  /\ \A d \in Cpu \ {c} : mapped[d] \cap Pages(a) = {}
  /\ mapped' = [mapped EXCEPT ![c] = @ \ Pages(a)]

overlaps(a) == \E i \in DOMAIN handles : rangecheck(handles[i], a.gphys, a.len)

\* alloc: any free handle is as good as the first.
register_done(c, a) ==
  LET x == Min(Handle \ allocated) IN
  /\ pc[c] = "register"
  /\ allocated # Handle
  /\ ~overlaps(a)
  /\ flush_tlb_entry(c, a)
  /\ area' = [area EXCEPT ![x] = a]
  /\ unregistered' = [unregistered EXCEPT ![x] = FALSE]
  /\ allocated' = allocated \cup {x}
  /\ handles' = Append(handles, x)
  /\ mmio' = [i \in Buckets |->
                IF i \in BucketsOf(a) THEN insert(mmio[i], x) ELSE mmio[i]]
  /\ owned' = owned \cup {x}
  /\ goto(c, "release")
  /\ UNCHANGED <<rwlock, unregister_flag, locals>>

\* NULL is returned.  The processors are flushed one after the other: this one
\* before the one that fails, or not.
register_failed(c, a) ==
  /\ pc[c] = "register"
  /\ \/ overlaps(a) /\ UNCHANGED mapped
     \/ /\ ~overlaps(a)
        /\ \E d \in Cpu \ {c} : mapped[d] \cap Pages(a) # {}
        /\ mapped' \in {mapped, [mapped EXCEPT ![c] = @ \ Pages(a)]}
  /\ goto(c, "release")
  /\ UNCHANGED <<rwlock, unregister_flag, lists, fields, owned, locals>>

\* rw_spinlock_unlock_ex of mmio_register and mmio_unregister.
release(c) ==
  /\ pc[c] = "release"
  /\ rwlock' = clear_writer(rwlock)
  /\ return(c)
  /\ UNCHANGED <<unregister_flag, lists, fields, owned, mapped, h, gphys, rest>>

\* A mistake the checks find: nobody is asked.
unregister_locks_not(c, x) ==
  /\ pc[c] \in {"out", "handler", "unlocked"} /\ x \in owned
  /\ owned' = owned \ {x}
  /\ remove(x)
  /\ UNCHANGED <<rwlock, unregister_flag, mapped, pc, locals>>

\* mmio_unregister: trylock.  In a handler it fails, for its own processor holds
\* the lock; h is then the handler's, and the unregistered one is marked here.
mmio_unregister(c, x) ==
  /\ pc[c] \in {"out", "handler", "unlocked"} /\ x \in owned
  /\ owned' = owned \ {x}
  /\ caller' = [caller EXCEPT ![c] = pc[c]]
  /\ rest' = [rest EXCEPT ![c] = <<x>>]
  /\ IF rwlock = 0
     THEN rwlock' = Sign /\ goto(c, "delete")
     ELSE UNCHANGED rwlock /\ goto(c, "mark")
  /\ UNCHANGED <<unregister_flag, lists, fields, mapped, h, gphys>>

unregister_delete(c) ==
  /\ pc[c] = "delete"
  /\ remove(Head(rest[c]))
  /\ rest' = [rest EXCEPT ![c] = <<>>]
  /\ goto(c, "release")
  /\ UNCHANGED <<rwlock, unregister_flag, owned, mapped, h, gphys, caller>>

\* A mistake the checks find: the flag is set first.
flag_first(c) ==
  /\ pc[c] \in {"mark", "set_flag"}
  /\ IF pc[c] = "mark"
     THEN /\ unregister_flag' = TRUE
          /\ UNCHANGED <<unregistered, rest>>
          /\ goto(c, "set_flag") /\ UNCHANGED caller
     ELSE /\ unregistered' = [unregistered EXCEPT ![Head(rest[c])] = TRUE]
          /\ rest' = [rest EXCEPT ![c] = <<>>]
          /\ UNCHANGED unregister_flag
          /\ return(c)
  /\ UNCHANGED <<rwlock, lists, area, allocated, owned, mapped, h, gphys>>

\* The lock is held: the area is marked, then the flag is set.
unregister_later(c) ==
  /\ pc[c] \in {"mark", "set_flag"}
  /\ IF pc[c] = "mark"
     THEN /\ unregistered' = [unregistered EXCEPT ![Head(rest[c])] = TRUE]
          /\ rest' = [rest EXCEPT ![c] = <<>>]
          /\ UNCHANGED unregister_flag
          /\ goto(c, "set_flag") /\ UNCHANGED caller
     ELSE /\ unregister_flag' = TRUE
          /\ UNCHANGED <<unregistered, rest>>
          /\ return(c)
  /\ UNCHANGED <<rwlock, lists, area, allocated, owned, mapped, h, gphys>>

-----------------------------------------------------------------------------
\* vt_ept_clear_all, when the guest changes its paging.
vt_ept_clear_all(c) ==
  /\ pc[c] = "out"
  /\ mapped' = [mapped EXCEPT ![c] = {}]
  /\ UNCHANGED <<rwlock, unregister_flag, lists, fields, owned, pc, locals>>

Next ==
  \E c \in Cpu :
    \/ \E g \in Page : mmio_lock(c, g)
    \/ mmio_lock_sign_clear(c)
    \/ violation_large(c)
    \/ violation_page(c)
    \/ mmio_access_memory(c)
    \/ handled(c)
    \/ handled_unlocked(c)
    \/ mmio_unlock(c)
    \/ mmio_unlock_test(c)
    \/ mmio_unlock_trylock(c)
    \/ mmio_unlock_clear(c)
    \/ mmio_unlock_scan(c)
    \/ mmio_unlock_over(c)
    \/ register_lock_ex(c)
    \/ \E a \in Area : register_done(c, a)
    \/ \E a \in Area : register_failed(c, a)
    \/ release(c)
    \/ \E x \in owned : mmio_unregister(c, x)
    \/ unregister_delete(c)
    \/ unregister_later(c)
    \/ vt_ept_clear_all(c)

Spec == Init /\ [][Next]_vars

-----------------------------------------------------------------------------
Registered == {x \in ToSet(handles) : ~unregistered[x]}

\* The pages of a registered area are mapped by no processor, so that every
\* access comes to the handler: vt_ept_violation looks and maps under the
\* shared lock, mmio_register unmaps or fails under the exclusive one.
NeverMapped ==
  \A x \in Registered, c \in Cpu : mapped[c] \cap Pages(area[x]) = {}

\* No list holds a freed area (TypeOK), and a handler is called, and returns,
\* while its area is allocated: who unregisters it meanwhile leaves it to the
\* last one that holds the lock.
NothingFreedIsUsed ==
  /\ TypeOK
  /\ \A c \in Cpu : h[c] # NULL => h[c] \in allocated

\* Areas never overlap, and mmio_range, which ends its search at the first area
\* behind the range and starts in the first list that has a part of it, finds an
\* area whenever there is one.
RangeFinds ==
  /\ \A x, y \in Registered : x # y => Pages(area[x]) \cap Pages(area[y]) = {}
  /\ \A a \in Area :
       (mmio_range(a.gphys, a.len) # 0)
         <=> \E x \in Registered : Pages(a) \cap Pages(area[x]) # {}

\* An area that was unregistered while the lock was held is removed by somebody:
\* the flag is set or about to be set, or a scan will still come to it.
RemovedLater ==
  \A x \in ToSet(handles) :
    unregistered[x] =>
      \/ unregister_flag
      \/ \E c \in Cpu : \/ pc[c] = "set_flag"
                        \/ x \in ToSet(rest[c])
=============================================================================
