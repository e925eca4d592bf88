----------------------------- MODULE RwSpinlock -----------------------------
(***************************************************************************)
(* The word of a reader-writer lock, rw_spinlock_t of include/core/        *)
(* spinlock.h, and what each locked instruction makes of it.  The sign bit *)
(* is the writer, the rest counts the readers, also those that wait for    *)
(* the writer to leave.                                                    *)
(***************************************************************************)
EXTENDS Integers

CONSTANT RwBits       \* bits of the word (32)

ASSUME RwAssumption == RwBits \in Nat \ {0}

Sign == 2 ^ (RwBits - 1)           \* 0x80000000
Word == 0 .. 2 * Sign - 1

negative(l) == l >= Sign

\* rw_spinlock_lock_sh: lock addl $1.
add_reader(l) == (l + 1) % (2 * Sign)

\* rw_spinlock_unlock_sh: lock subl $1.
sub_reader(l) == (l - 1) % (2 * Sign)

\* A mistake the checks find: the whole word is cleared.
clear_word(l) == 0

\* rw_spinlock_unlock_ex: lock andl $0x7FFFFFFF.
clear_writer(l) == l % Sign
=============================================================================
