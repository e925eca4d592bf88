------------------------------ MODULE Postcopy ------------------------------
(***************************************************************************)
(* Post-copy migration after the guest has started at the destination: the *)
(* source, the destination and the connection between them.                *)
(***************************************************************************)
EXTENDS PostcopySource, PostcopyDest

vars == <<linkVars, sourceVars, destVars>>

\* The units of the margins and of the virtio buffers, which send_margins
\* sends before the guest starts, can be any.
Init ==
  /\ LinkInit
  /\ \E sent \in SUBSET Unit : SourceInit(sent) /\ DestInit(sent)

Next ==
  \/ NetStep /\ UNCHANGED destVars
  \/ SeqStep /\ UNCHANGED destVars
  \/ DestStep /\ UNCHANGED sourceVars

Spec == Init /\ [][Next]_vars

TypeOK == LinkTypeOK /\ SourceTypeOK /\ DestTypeOK

-----------------------------------------------------------------------------
\* What the code keeps true.

\* A message that carries a piece of the unit is on its way.
InTransit(u) == \E i \in DOMAIN wire : wire[i].kind \in MemKind /\ wire[i].addr = u

\* The guest never uses a unit of which a piece is missing, and no message can
\* overwrite what it wrote: the handshake of ept_recved, the two bitarrays and
\* the order of the pieces (echo_recv, vt_ept_violation) together keep the
\* memory the guest sees consistent.
GuestMemorySafe == \A u \in mapped : Complete(u) /\ ~InTransit(u)

\* When the destination stops asking (PROTO_ID_META_MIG_DONE clears
\* aft_mig_in_mmio and every later fault maps at once), it has all the memory.
DoneIsComplete == ~aft_mig_in_mmio => \A u \in Unit : Complete(u)

\* The two ways of sending exclude each other: request_recv looks at
\* seq_thread_is_transmitting, seq_transmit_thread at no_request, and neither
\* takes a lock.
OneSender == seq_thread_is_transmitting => no_request

\* A thread about to call tcp_write() still has the room that
\* tcp_sendbuf_available() found, though other callers fill the same buffer.
RoomToWrite ==
  \A t \in Thread :
    pc[t] \in {"write", "last_write", "write_done"} => tcp_sndbuf >= 1

\* Each piece of the unit is at the destination or on its way.
HandedOver(u) ==
  \A b \in Batch :
    \/ [unit |-> u, num |-> b] \in mem
    \/ \E i \in DOMAIN wire : /\ wire[i].kind \in MemKind
                             /\ wire[i].addr = u
                             /\ wire[i].batch_num = b

\* Marking a unit as sent is final, get_start_addr and request_recv skip it:
\* once the background copy has left it, nothing of it is missing.
MarkedIsSent ==
  \A u \in bitarray :
    HandedOver(u) \/ (is_transmitting /\ postcopy_state.start_addr = u)

\* The bit of echo_recv is set by the last piece alone: it stands for the
\* whole unit only if no piece was skipped or came out of order.
ReceivedIsComplete == \A u \in server_bitarray : Complete(u)

\* The debug assertion of echo_recv (CONFIG_POSTCOPY_DBG): a piece of a unit
\* that is marked as received never comes again.
NotSentTwice ==
  wire # <<>> /\ Head(wire).kind = "MEM" => Head(wire).addr \notin server_bitarray

-----------------------------------------------------------------------------
\* The promise to the guest.
Paging ==
  INSTANCE DemandPaging WITH
    Units   <- Unit,
    present <- {u \in Unit : Complete(u)},
    usable  <- mapped,
    fault   <- IF vcpu.at = "guest" THEN {} ELSE {vcpu.gphys.unit},
    over    <- ~aft_mig_in_mmio
PagingSpec == Paging!Spec

-----------------------------------------------------------------------------
\* schedule() is a round robin over the ready threads: a thread that can step
\* whenever the other one yields has its turn (strong fairness, for the other
\* one may poll without end).  TCP delivers and acknowledges, and the virtual
\* processor in the fault handler goes on.  The guest need not fault.
Fairness ==
  /\ SF_vars(NetStep /\ UNCHANGED destVars)
  /\ SF_vars(SeqStep /\ UNCHANGED destVars)
  /\ WF_vars(echo_recv /\ UNCHANGED sourceVars)
  /\ WF_vars(VcpuStep /\ UNCHANGED sourceVars)

FairSpec == Spec /\ Fairness

\* The virtual processor in the fault handler leaves it.
FaultServed == vcpu.at # "guest" ~> vcpu.at = "guest"

\* After the first request has been answered the migration comes to its end.
MigrationEnds == no_request ~> pc["seq"] = "exit" /\ ~aft_mig_in_mmio
=============================================================================
