---------------------------- MODULE PostcopyDest ----------------------------
(***************************************************************************)
(* The migration destination while units are missing:                      *)
(*   - the network thread in echo_recv (bitvisor_server/ip/echo-server.c), *)
(*     which stores pieces of memory and marks units as received;          *)
(*   - the virtual processor of the guest in vt_ept_violation              *)
(*     (bitvisor_server/core/vt_ept.c), which asks for the unit of the     *)
(*     faulting address (msg echoctl, echo_server_reply_request) and waits *)
(*     for the flag ept_recved.  There is one: the source saves and sends  *)
(*     the state of the processor that makes the vmmcall, and no other.    *)
(***************************************************************************)
EXTENDS PostcopyLink

VARIABLES
  server_bitarray,   \* units marked as received
  mem,               \* the pieces of guest memory that hold their own content
  marking,           \* the unit echo_recv is about to mark, or NUnits
  ept_recved,
  aft_mig_in_mmio,
  vcpu,              \* where the virtual processor is, and its last fault
  mapped             \* units of which the guest can use a page

recvVars == <<server_bitarray, mem, marking>>
destVars == <<recvVars, ept_recved, aft_mig_in_mmio, vcpu, mapped>>

\* Out of the fault handler; about to ask; waiting; about to map the page with
\* and without the hand-shake.
VcpuLocation == {"guest", "reply", "wait", "map", "map_only"}

DestTypeOK ==
  /\ server_bitarray \subseteq Unit
  /\ mem \subseteq [unit : Unit, num : Nat]
  /\ marking \in 0 .. NUnits
  /\ ept_recved \in BOOLEAN
  /\ aft_mig_in_mmio \in BOOLEAN
  /\ vcpu \in [at : VcpuLocation, gphys : Address]
  /\ mapped \subseteq Unit

\* postcopy_migration_ready_vmmcall has loaded the guest's state, with the
\* units in 'sent' received, and set aft_mig_in_mmio.
DestInit(sent) ==
  /\ server_bitarray = sent
  /\ mem = [unit : sent, num : Batch]
  /\ marking = NUnits
  /\ ept_recved = FALSE
  /\ aft_mig_in_mmio = TRUE
  /\ vcpu = [at |-> "guest", gphys |-> Aligned(0)]
  /\ mapped = {}

\* Every piece of the unit is in its place.
Complete(u) == [unit : {u}, num : Batch] \subseteq mem

-----------------------------------------------------------------------------
\* The network thread in echo_recv.

\* memcpy of the data to the address and batch number of the message.
store(m) ==
  LET place == [unit |-> m.addr, num |-> m.batch_num]
  IN  mem' = IF m.data = place THEN mem \cup {place} ELSE mem \ {place}

receive(kind) ==
  /\ marking = NUnits
  /\ wire # <<>> /\ Head(wire).kind = kind
  /\ tcp_deliver

\* PROTO_ID_META_DATA_REQ_MEM, the last piece of a requested unit: first the
\* notification of vt_ept_violation ...
recv_req_mem ==
  /\ receive("REQ_MEM")
  /\ store(Head(wire))
  /\ ept_recved' = TRUE
  /\ marking' = Head(wire).addr
  /\ UNCHANGED <<server_bitarray, aft_mig_in_mmio, vcpu, mapped>>

\* ... then set_bitarray.
mark_req_mem ==
  /\ marking # NUnits
  /\ server_bitarray' = server_bitarray \cup {marking}
  /\ marking' = NUnits
  /\ UNCHANGED <<linkVars, mem, ept_recved, aft_mig_in_mmio, vcpu, mapped>>

\* A mistake the checks find: the piece before the last one marks the unit.
is_last_but_one(m) == m.batch_num = BATCH_SIZE - 2

is_last(m) == m.batch_num = BATCH_SIZE - 1

\* PROTO_ID_META_DATA_MEM: the last piece marks the unit.
recv_mem ==
  /\ receive("MEM")
  /\ store(Head(wire))
  /\ server_bitarray' =
       IF is_last(Head(wire))
       THEN server_bitarray \cup {Head(wire).addr} ELSE server_bitarray
  /\ UNCHANGED <<marking, ept_recved, aft_mig_in_mmio, vcpu, mapped>>

\* A mistake the checks find: the waiting processor is not told.
recv_mig_done_silent ==
  /\ receive("MIG_DONE")
  /\ UNCHANGED destVars

\* PROTO_ID_META_MIG_DONE.
recv_mig_done ==
  /\ receive("MIG_DONE")
  /\ aft_mig_in_mmio' = FALSE
  /\ UNCHANGED <<recvVars, ept_recved, vcpu, mapped>>

echo_recv == recv_req_mem \/ mark_req_mem \/ recv_mem \/ recv_mig_done

-----------------------------------------------------------------------------
\* The virtual processor.  A unit is several pages, so the guest may fault on a
\* unit of which another page is mapped.

move(l) == vcpu' = [vcpu EXCEPT !.at = l]

vt_ept_violation(a) ==
  /\ vcpu.at = "guest"
  /\ vcpu' = [at |-> IF aft_mig_in_mmio THEN "reply" ELSE "map_only",
              gphys |-> a]
  /\ UNCHANGED <<linkVars, recvVars, ept_recved, aft_mig_in_mmio, mapped>>

\* A mistake the checks find: the flag is set after asking, too.
reply_request_and_go ==
  /\ vcpu.at = "reply"
  /\ \/ /\ vcpu.gphys.unit \in server_bitarray
        /\ UNCHANGED linkVars
     \/ /\ vcpu.gphys.unit \notin server_bitarray
        /\ tcp_write_request(vcpu.gphys)
  /\ ept_recved' = TRUE
  /\ move("wait")
  /\ UNCHANGED <<recvVars, aft_mig_in_mmio, mapped>>

\* A unit that is marked as received is not asked for.
echo_server_reply_request ==
  /\ vcpu.at = "reply"
  /\ \/ /\ vcpu.gphys.unit \in server_bitarray
        /\ ept_recved' = TRUE
        /\ UNCHANGED linkVars
     \/ /\ vcpu.gphys.unit \notin server_bitarray
        /\ tcp_write_request(vcpu.gphys)
        /\ UNCHANGED ept_recved
  /\ move("wait")
  /\ UNCHANGED <<recvVars, aft_mig_in_mmio, mapped>>

\* while (!ept_recved) { if (aft_mig_in_mmio == 0) break; schedule (); }
wait_ept_recved ==
  /\ vcpu.at = "wait"
  /\ ept_recved \/ ~aft_mig_in_mmio
  /\ move("map")
  /\ UNCHANGED <<linkVars, recvVars, ept_recved, aft_mig_in_mmio, mapped>>

\* A mistake the checks find: the flag stays set for the next fault.
map_page_no_reset ==
  /\ vcpu.at \in {"map", "map_only"}
  /\ mapped' = mapped \cup {vcpu.gphys.unit}
  /\ move("guest")
  /\ UNCHANGED <<linkVars, recvVars, ept_recved, aft_mig_in_mmio>>

vt_ept_map_page ==
  /\ vcpu.at \in {"map", "map_only"}
  /\ mapped' = mapped \cup {vcpu.gphys.unit}
  /\ ept_recved' = (ept_recved /\ vcpu.at # "map")
  /\ move("guest")
  /\ UNCHANGED <<linkVars, recvVars, aft_mig_in_mmio>>

VcpuStep ==
  \/ echo_server_reply_request
  \/ wait_ept_recved
  \/ vt_ept_map_page

DestStep ==
  \/ echo_recv
  \/ VcpuStep
  \/ \E a \in Address : vt_ept_violation(a)
=============================================================================
