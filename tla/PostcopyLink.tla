---------------------------- MODULE PostcopyLink ----------------------------
(***************************************************************************)
(* What the migration source (bitvisor_client/ip/echo-client.c) and the    *)
(* migration destination (bitvisor_server/ip/echo-server.c) share: the     *)
(* migration units, the messages and the one TCP connection between them.  *)
(*                                                                         *)
(* TCP_MSS and SIZE_OF_SENDBUF are both 1048 bytes, so a message is a      *)
(* segment, and the send buffer is counted in messages.  TCP delivers in   *)
(* order and loses nothing: the connection is a FIFO of messages not yet   *)
(* received, a number of messages received whose acknowledgement the       *)
(* source has not processed, and the free room tcp_sndbuf() returns.       *)
(***************************************************************************)
EXTENDS Integers, Sequences

CONSTANTS
  NUnits,            \* migration units (32 KB each, GRAN_32KB)
  BATCH_SIZE,        \* messages of 1 KB that carry one unit
  TCP_SND_BUF,       \* messages the send buffer of the source holds
  MaxWriteFailures   \* times tcp_write() may fail for want of memory

ASSUME LinkAssumption ==
  /\ NUnits \in Nat \ {0}
  /\ BATCH_SIZE \in Nat \ {0}
  /\ TCP_SND_BUF \in Nat \ {0}
  /\ MaxWriteFailures \in Nat

Unit  == 0 .. NUnits - 1
Batch == 0 .. BATCH_SIZE - 1

\* A guest-physical address: the unit it lies in, and whether it is the first
\* byte of the unit, which is all that masking and comparing addresses tells.
Address     == [unit : Unit, aligned : BOOLEAN]
Aligned(u)  == [unit |-> u, aligned |-> TRUE]
\* requested_addr = 0xffffffffffffffff: an address in no unit.
NoAddress   == [unit |-> NUnits, aligned |-> FALSE]

\* What a message carries: batch_num 1 KB pieces after the start of a unit.
\* A piece beyond the end of a unit is the memory that follows the unit.
Piece == [unit : Unit, num : Nat]

\* PROTO_ID_META_DATA_MEM, PROTO_ID_META_DATA_REQ_MEM, PROTO_ID_META_MIG_DONE.
MemKind == {"MEM", "REQ_MEM"}
Message == [kind : MemKind \cup {"MIG_DONE"}, addr : Unit, batch_num : Nat,
            data : Piece]

VARIABLES
  wire,          \* messages from source to destination, in transit
  unacked,       \* messages received, acknowledgement not yet processed
  tcp_sndbuf,    \* free room of the send buffer, in messages
  write_failures,\* failures of tcp_write() so far
  requests       \* PROTO_ID_META_DATA_REQ_MEM messages, destination to source

linkVars == <<wire, unacked, tcp_sndbuf, write_failures, requests>>

LinkTypeOK ==
  /\ wire \in Seq(Message)
  /\ unacked \in 0 .. TCP_SND_BUF
  /\ tcp_sndbuf \in 0 .. TCP_SND_BUF
  /\ write_failures \in 0 .. MaxWriteFailures
  /\ requests \in Seq(Address)

\* The send buffer is partly taken by the last messages of the phase before
\* (registers, margins, virtio buffers), all of them received.
LinkInit ==
  /\ wire = <<>>
  /\ unacked \in 0 .. TCP_SND_BUF
  /\ tcp_sndbuf = TCP_SND_BUF - unacked
  /\ write_failures = 0
  /\ requests = <<>>

\* A mistake the checks find: SIZE_OF_SENDBUF (SEND_SIZE + 24, without
\* parentheses) taken from a buffer that is not full in whole messages.
sendbuf_not_negative == tcp_sndbuf >= 0

tcp_sendbuf_available == tcp_sndbuf >= 1

\* tcp_write() enqueues a message ...
tcp_write_ok(m) ==
  /\ tcp_sndbuf >= 1
  /\ wire' = Append(wire, m)
  /\ tcp_sndbuf' = tcp_sndbuf - 1
  /\ UNCHANGED <<unacked, write_failures, requests>>

\* ... or returns ERR_MEM, without room or for want of segments or pbufs.
tcp_write_err ==
  /\ \/ /\ tcp_sndbuf = 0
        /\ UNCHANGED write_failures
     \/ /\ write_failures < MaxWriteFailures
        /\ write_failures' = write_failures + 1
  /\ UNCHANGED <<wire, unacked, tcp_sndbuf, requests>>

\* The destination writes a page request; echo_server_reply_request ignores
\* what tcp_write() returns.
tcp_write_request(a) ==
  /\ \/ /\ requests' = Append(requests, a)
        /\ UNCHANGED write_failures
     \/ /\ write_failures < MaxWriteFailures
        /\ write_failures' = write_failures + 1
        /\ UNCHANGED requests
  /\ UNCHANGED <<wire, unacked, tcp_sndbuf>>

\* A mistake the checks find: the room of one message too many comes back.
tcp_ack_one_more(n) ==
  /\ n \in 1 .. unacked
  /\ unacked' = unacked - n
  /\ tcp_sndbuf' = tcp_sndbuf + n + 1
  /\ UNCHANGED <<wire, write_failures, requests>>

\* The source processes an acknowledgement of n messages.
tcp_ack(n) ==
  /\ n \in 1 .. unacked
  /\ unacked' = unacked - n
  /\ tcp_sndbuf' = tcp_sndbuf + n
  /\ UNCHANGED <<wire, write_failures, requests>>

\* The destination takes the message at the head of the connection.
tcp_deliver ==
  /\ wire # <<>>
  /\ wire' = Tail(wire)
  /\ unacked' = unacked + 1
  /\ UNCHANGED <<tcp_sndbuf, write_failures, requests>>
=============================================================================
