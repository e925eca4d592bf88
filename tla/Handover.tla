------------------------------ MODULE Handover ------------------------------
(***************************************************************************)
(* How the guest stops at the source and starts at the destination, before *)
(* the phase of module Postcopy: the two vmmcalls (postcopy_migration at   *)
(* the source, postcopy_migration_ready at the destination) wait for each  *)
(* other through messages; the source sends the state of the processor,    *)
(* the margins of the memory areas that are smaller than a migration unit, *)
(* and the virtio buffers.                                                 *)
(*                                                                         *)
(* Everything at the source but its vmmcall runs in the network thread, so *)
(* an action is a whole callback.  The operator works through the README:  *)
(* server start, client connect, client send, postcopy_mig_ready.sh,       *)
(* postcopy_mig_start.sh, the last two in either order.                    *)
(***************************************************************************)
EXTENDS Integers, Sequences, SequencesExt

CONSTANTS
  NMargins,    \* MARGIN00 .. MARGIN05, of several messages each
  PIECES,      \* messages of one of them, and of the virtio buffers
  TCP_SND_BUF  \* messages the send buffer of the source holds

ASSUME HandoverAssumption ==
  /\ NMargins \in Nat \ {0}
  /\ PIECES \in Nat \ {0}
  /\ TCP_SND_BUF \in Nat \ {0}

\* postcopy_state.m_type: the margins, then the three that follow.
MARGIN06SP  == NMargins
MARGIN_BUFF == NMargins + 1
NO_MARGIN   == NMargins + 2
MarginType  == 0 .. NO_MARGIN
SendSize(m) == IF m = MARGIN06SP THEN 1 ELSE PIECES

\* The pieces of memory the guest must find at the destination.
Piece   == {p \in [margin : 0 .. MARGIN_BUFF, batch_num : 0 .. PIECES] :
              p.batch_num < SendSize(p.margin)}
Message == [kind : {"Hi", "CPU", "MEM", "MEM_SP", "BUFF_MEM"},
            margin : MarginType, batch_num : Nat]
Other(k) == [kind |-> k, margin |-> NO_MARGIN, batch_num |-> 0]

VARIABLES
  \* the connection, as in module PostcopyLink
  wire, unacked, tcp_sndbuf,
  start_sent,            \* START_POSTCOPY messages in transit to the source
  \* the source
  connected, init_message, dont_start_postcopy,
  source_vmmcall, cpu_task, \* the vmmcall, and the task it queues
  m_type, send_num, begun,  \* progress of the margins; begun: margin00, ...
  tcp_sent, fail_to_send_seq, seq_thread,
  \* the destination
  es_state, es_p, cpu_state, received, stop_value, dest_vmmcall

linkVars   == <<wire, unacked, tcp_sndbuf>>
marginVars == <<m_type, send_num, begun, fail_to_send_seq, seq_thread>>
sourceVars == <<connected, init_message, dont_start_postcopy, source_vmmcall,
                cpu_task, marginVars, tcp_sent>>
destVars   == <<es_state, es_p, cpu_state, received, stop_value, dest_vmmcall>>
vars       == <<linkVars, start_sent, sourceVars, destVars>>

Callback == {"none", "cpu_recv_callback", "send_margins", "send_margin"}

TypeOK ==
  /\ wire \in Seq(Message)
  /\ unacked \in 0 .. TCP_SND_BUF /\ tcp_sndbuf \in 0 .. TCP_SND_BUF
  /\ start_sent \in {0, 1}
  /\ connected \in BOOLEAN /\ init_message \in {0, 1}
  /\ dont_start_postcopy \in BOOLEAN
  /\ source_vmmcall \in {"guest", "wait", "stopped"} /\ cpu_task \in BOOLEAN
  /\ m_type \in MarginType /\ send_num \in 0 .. PIECES
  /\ begun \subseteq 0 .. MARGIN_BUFF
  /\ tcp_sent \in Callback
  /\ fail_to_send_seq \in BOOLEAN /\ seq_thread \in BOOLEAN
  /\ es_state \in {"none", "ES_ACCEPTED", "ES_RECEIVED"}
  /\ es_p \in Seq(Message) /\ Len(es_p) <= 1
  /\ cpu_state \in BOOLEAN /\ received \subseteq Piece
  /\ stop_value \in BOOLEAN
  /\ dest_vmmcall \in {"other_guest", "wait", "migrated_guest"}

Init ==
  /\ wire = <<>> /\ unacked = 0 /\ tcp_sndbuf = TCP_SND_BUF
  /\ start_sent = 0
  /\ connected = FALSE /\ init_message = 0 /\ dont_start_postcopy = TRUE
  /\ source_vmmcall = "guest" /\ cpu_task = FALSE
  /\ m_type = 0 /\ send_num = 0 /\ begun = {}
  /\ tcp_sent = "none"
  /\ fail_to_send_seq = FALSE /\ seq_thread = FALSE
  /\ es_state = "none" /\ es_p = <<>> /\ cpu_state = FALSE /\ received = {}
  /\ stop_value = FALSE /\ dest_vmmcall = "other_guest"

-----------------------------------------------------------------------------
\* The source.

tcp_write(ms) ==
  /\ Len(ms) <= tcp_sndbuf
  /\ wire' = wire \o ms
  /\ tcp_sndbuf' = tcp_sndbuf - Len(ms)

\* client connect: the handshake of TCP, echo_client_connected, echo_accept.
connect ==
  /\ ~connected
  /\ connected' = TRUE
  /\ es_state' = "ES_ACCEPTED"
  /\ UNCHANGED <<linkVars, start_sent, init_message, dont_start_postcopy,
                 source_vmmcall, cpu_task, marginVars, tcp_sent, es_p,
                 cpu_state, received, stop_value, dest_vmmcall>>

\* client send: echo_client_send writes one message, once.
echo_client_send ==
  /\ connected /\ init_message = 0
  /\ tcp_write(<<Other("Hi")>>)
  /\ init_message' = 1
  /\ UNCHANGED <<unacked, start_sent, connected, dont_start_postcopy,
                 source_vmmcall, cpu_task, marginVars, tcp_sent, destVars>>

\* echo_client_recv of PROTO_ID_META_START_POSTCOPY.
recv_start_postcopy ==
  /\ start_sent = 1
  /\ start_sent' = 0
  /\ dont_start_postcopy' = FALSE
  /\ UNCHANGED <<linkVars, connected, init_message, source_vmmcall, cpu_task,
                 marginVars, tcp_sent, destVars>>

\* postcopy_migration_vmmcall saves the processor and waits ...
postcopy_migration_vmmcall ==
  /\ init_message = 1 /\ source_vmmcall = "guest"
  /\ source_vmmcall' = "wait"
  /\ UNCHANGED <<linkVars, start_sent, connected, init_message,
                 dont_start_postcopy, cpu_task, marginVars, tcp_sent, destVars>>

\* ... then queues a task of the network thread, and never returns.
send_msg_to_echoctl ==
  /\ source_vmmcall = "wait" /\ ~dont_start_postcopy
  /\ source_vmmcall' = "stopped"
  /\ cpu_task' = TRUE
  /\ UNCHANGED <<linkVars, start_sent, connected, init_message,
                 dont_start_postcopy, marginVars, tcp_sent, destVars>>

echo_client_send_postcopy_migration ==
  /\ cpu_task
  /\ cpu_task' = FALSE
  /\ tcp_sent' = "cpu_recv_callback"
  /\ IF tcp_sndbuf >= 1 THEN tcp_write(<<Other("CPU")>>)
                        ELSE UNCHANGED <<wire, tcp_sndbuf>>
  /\ UNCHANGED <<unacked, start_sent, connected, init_message,
                 dont_start_postcopy, source_vmmcall, marginVars, destVars>>

\* Mistakes the checks find: the thread starts after the first margin; the
\* next margin is left to nobody.
starts_early(m, last) == last
batch_end_callback_lost(m) == "none"

starts_thread(m, last) == last /\ m = MARGIN_BUFF
batch_end_callback(m) == IF m = MARGIN_BUFF THEN "none" ELSE "send_margins"

\* send_margin for margin m from piece n on: as many pieces as there is room
\* for; the last one makes the next margin current (margin_batch_end) and,
\* after the virtio buffers, starts seq_transmit_thread.
send_margin(m, n, room) ==
  LET size == SendSize(m)
      k    == IF size - n <= room THEN size - n ELSE room
      last == n + k = size
      kind(i) == IF m = MARGIN_BUFF /\ i = size - 1 THEN "BUFF_MEM"
                 ELSE IF m = MARGIN06SP THEN "MEM_SP" ELSE "MEM"
  IN
  /\ wire' = wire \o [i \in 1 .. k |-> [kind |-> kind(n + i - 1), margin |-> m,
                                        batch_num |-> n + i - 1]]
  /\ tcp_sndbuf' = room - k
  /\ send_num' = IF last THEN 0 ELSE n + k
  /\ m_type' = IF last THEN m + 1 ELSE m
  /\ tcp_sent' = IF last THEN batch_end_callback(m)
                 ELSE IF k > 0 THEN "send_margin" ELSE tcp_sent
  /\ fail_to_send_seq' = (fail_to_send_seq \/ (~last /\ m # MARGIN06SP))
  /\ seq_thread' = (seq_thread \/ starts_thread(m, last))

\* send_margins: each margin is begun once.
send_margins(m, room) ==
  IF m = NO_MARGIN \/ m \in begun
  THEN /\ tcp_sndbuf' = room
       /\ UNCHANGED <<wire, marginVars, tcp_sent>>
  ELSE /\ send_margin(m, 0, room)
       /\ begun' = begun \cup {m}

\* An acknowledgement of n messages, and the callback.
sent_event(n) ==
  LET room == tcp_sndbuf + n IN
  /\ n \in 1 .. unacked
  /\ unacked' = unacked - n
  /\ CASE tcp_sent = "cpu_recv_callback" -> send_margins(0, room)
       [] tcp_sent = "send_margins" -> send_margins(m_type, room)
       [] tcp_sent = "send_margin" ->
            send_margin(m_type, send_num, room) /\ UNCHANGED begun
       [] OTHER ->
            tcp_sndbuf' = room /\ UNCHANGED <<wire, marginVars, tcp_sent>>
  /\ UNCHANGED <<start_sent, connected, init_message, dont_start_postcopy,
                 source_vmmcall, cpu_task, destVars>>

-----------------------------------------------------------------------------
\* The destination.

\* A mistake the checks find: stop_value is not set.
ready_without_stop_value ==
  /\ init_message = 1 /\ dest_vmmcall = "other_guest"
  /\ start_sent' = 1
  /\ dest_vmmcall' = "wait"
  /\ UNCHANGED <<linkVars, sourceVars, es_state, es_p, cpu_state, received,
                 stop_value>>

\* postcopy_migration_ready_vmmcall: stop_value = 1, START_POSTCOPY, wait.
postcopy_migration_ready_vmmcall ==
  /\ init_message = 1 /\ dest_vmmcall = "other_guest"
  /\ stop_value' = TRUE
  /\ start_sent' = 1
  /\ dest_vmmcall' = "wait"
  /\ UNCHANGED <<linkVars, sourceVars, es_state, es_p, cpu_state, received>>

\* load_guest_state_to_vmcs, aft_mig_in_mmio = 1, and the guest runs.
load_guest_state ==
  /\ dest_vmmcall = "wait" /\ ~stop_value
  /\ dest_vmmcall' = "migrated_guest"
  /\ UNCHANGED <<linkVars, start_sent, sourceVars, es_state, es_p, cpu_state,
                 received, stop_value>>

deliver ==
  /\ wire # <<>>
  /\ wire' = Tail(wire)
  /\ unacked' = unacked + 1
  /\ UNCHANGED <<tcp_sndbuf, start_sent, sourceVars, dest_vmmcall>>

\* echo_recv in ES_ACCEPTED keeps the first message and looks at nothing.
recv_accepted ==
  /\ es_state = "ES_ACCEPTED"
  /\ deliver
  /\ es_state' = "ES_RECEIVED"
  /\ es_p' = <<Head(wire)>>
  /\ UNCHANGED <<cpu_state, received, stop_value>>

\* echo_recv in ES_RECEIVED: a message kept in es->p has the new one chained
\* behind it, and it is the payload of es->p that is read.
recv_received ==
  LET m == Head(es_p \o wire) IN
  /\ es_state = "ES_RECEIVED"
  /\ deliver
  /\ es_p' = <<>>
  /\ cpu_state' = (cpu_state \/ m.kind = "CPU")
  /\ received' = IF m.kind \in {"MEM", "MEM_SP", "BUFF_MEM"}
                 THEN received \cup {[margin |-> m.margin,
                                      batch_num |-> m.batch_num]}
                 ELSE received
  /\ stop_value' = (stop_value /\ m.kind # "BUFF_MEM")  \* msg postcopy_ready
  /\ UNCHANGED es_state

-----------------------------------------------------------------------------
SourceStep ==
  \/ recv_start_postcopy
  \/ send_msg_to_echoctl
  \/ echo_client_send_postcopy_migration
  \/ \E n \in 1 .. unacked : sent_event(n)

DestStep == load_guest_state \/ recv_accepted \/ recv_received

Operator ==
  \/ connect
  \/ echo_client_send
  \/ postcopy_migration_vmmcall
  \/ postcopy_migration_ready_vmmcall

Next == SourceStep \/ DestStep \/ Operator
Spec == Init /\ [][Next]_vars

\* The network threads of both machines run, and so do the waiting vmmcalls.
FairSpec ==
  /\ Spec
  /\ WF_vars(recv_start_postcopy) /\ WF_vars(send_msg_to_echoctl)
  /\ WF_vars(echo_client_send_postcopy_migration)
  /\ WF_vars(\E n \in 1 .. unacked : sent_event(n))
  /\ WF_vars(load_guest_state) /\ WF_vars(recv_accepted \/ recv_received)

-----------------------------------------------------------------------------
\* The guest starts only when the margins and the virtio buffers have arrived
\* whole: no fault asks for them (their units are marked), so a piece that is
\* missing is never sent again.
StartsWithMargins == dest_vmmcall = "migrated_guest" => received = Piece

\* The background copy starts with a clean connection: every margin has been
\* handed to TCP, whatever the acknowledgements that drove them.
MarginsBeforeCopy ==
  /\ TypeOK
  /\ seq_thread => begun = 0 .. MARGIN_BUFF /\ m_type = NO_MARGIN

\* echo_recv: "First two packets are CPU states, save it to 0x49005000
\* (physical addr)" (echo-server.c:508): the guest starts with the state of
\* the source's processor.
StartsWithState == dest_vmmcall = "migrated_guest" => cpu_state

\* Once both vmmcalls have been made, in either order, the guest runs at the
\* destination and the background copy has started.
HandoverEnds ==
  source_vmmcall # "guest" /\ dest_vmmcall # "other_guest"
    ~> dest_vmmcall = "migrated_guest" /\ seq_thread
=============================================================================
