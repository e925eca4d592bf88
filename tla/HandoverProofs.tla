--------------------------- MODULE HandoverProofs ---------------------------
(***************************************************************************)
(* Proofs about module Handover: the background copy starts when every     *)
(* margin has been handed to TCP, and the guest starts when all of them    *)
(* have arrived.  For every number of margins and of messages in one, and  *)
(* every send buffer that holds two messages; one that holds a single one  *)
(* does not do, for the state of the processor is then not sent while the  *)
(* greeting is not acknowledged, and the first piece of memory is taken    *)
(* for it.                                                                 *)
(***************************************************************************)
EXTENDS Handover, TLAPS

Room == TCP_SND_BUF >= 2

LEMMA Concat ==
  ASSUME NEW S, NEW a \in Seq(S), NEW b \in Seq(S)
  PROVE  /\ a \o b \in Seq(S) /\ Len(a \o b) = Len(a) + Len(b)
         /\ \A j \in 1 .. Len(a) + Len(b) :
              (a \o b)[j] = IF j <= Len(a) THEN a[j] ELSE b[j - Len(a)]
OBVIOUS

LEMMA EmptyIs ==
  ASSUME NEW S, NEW q \in Seq(S), Len(q) = 0
  PROVE  q = <<>>
OBVIOUS

LEMMA TailIs ==
  ASSUME NEW S, NEW q \in Seq(S), q # <<>>
  PROVE  /\ Tail(q) \in Seq(S) /\ Len(Tail(q)) = Len(q) - 1 /\ Len(q) \in Nat \ {0}
         /\ Head(q) = q[1] /\ Head(q) \in S
         /\ \A j \in 1 .. Len(q) - 1 : Tail(q)[j] = q[j + 1]
OBVIOUS

-----------------------------------------------------------------------------
(***************************************************************************)
(* The inductive invariant.  The source writes one stream: the greeting,   *)
(* the state of the processor, and the pieces of memory in their order.    *)
(* What is on the wire is an end of it, of which the first Skip messages   *)
(* are not memory; what came before has been received.                     *)
(***************************************************************************)
Skip == IF es_state = "ES_RECEIVED" THEN Len(es_p) ELSE 2

CpuWritten == source_vmmcall = "stopped" /\ ~cpu_task

IsPiece(e) == e.kind \in {"MEM", "MEM_SP", "BUFF_MEM"}
PieceOf(e) == [margin |-> e.margin, batch_num |-> e.batch_num]

\* Piece p comes before piece n of margin m.
Before(p, m, n) == p.margin < m \/ (p.margin = m /\ p.batch_num < n)

Carries(e) ==
  /\ IsPiece(e)
  /\ PieceOf(e) \in Piece
  /\ Before(e, m_type, send_num)
  /\ e.kind = "BUFF_MEM" => e.margin = MARGIN_BUFF /\ e.batch_num = PIECES - 1

LinkInv ==
  /\ Len(wire) + unacked + tcp_sndbuf = TCP_SND_BUF
  /\ es_state = "ES_RECEIVED" => init_message = 1
  /\ es_state # "ES_RECEIVED" => es_p = <<>>
  /\ CpuWritten => Len(wire) >= Skip
  /\ ~CpuWritten => /\ Len(wire) = IF init_message = 1 THEN Skip - 1 ELSE 0
                    /\ Len(wire) + unacked <= init_message

StreamInv ==
  /\ \A i \in 1 .. Len(es_p) : ~IsPiece(es_p[i])
  /\ \A i \in 1 .. Len(wire) : i > Skip => Carries(wire[i])
  /\ \A i \in 1 .. Len(wire) : i <= Skip => ~IsPiece(wire[i])
  /\ \A i, j \in 1 .. Len(wire) :
       i > Skip /\ i < j => Before(wire[i], wire[j].margin, wire[j].batch_num)
  /\ \A p \in Piece :
       Before(p, m_type, send_num) =>
         p \in received \/ \E i \in 1 .. Len(wire) : i > Skip /\ p = PieceOf(wire[i])

MarginInv ==
  /\ m_type # NO_MARGIN => send_num < SendSize(m_type)
  /\ ~CpuWritten => tcp_sent = "none" /\ m_type = 0 /\ send_num = 0 /\ begun = {}
  /\ CpuWritten /\ tcp_sent = "none" => m_type = NO_MARGIN /\ begun = 0 .. MARGIN_BUFF
  /\ tcp_sent = "cpu_recv_callback" => m_type = 0 /\ send_num = 0 /\ begun = {}
  /\ tcp_sent = "send_margins" =>
       m_type <= MARGIN_BUFF /\ send_num = 0 /\ begun = 0 .. m_type - 1
  /\ tcp_sent = "send_margin" => m_type <= MARGIN_BUFF /\ begun = 0 .. m_type
  /\ seq_thread => m_type = NO_MARGIN /\ tcp_sent = "none"

VmmcallInv ==
  /\ es_state = "none" => ~connected
  /\ ~connected => init_message = 0
  /\ source_vmmcall # "guest" => init_message = 1
  /\ cpu_task => source_vmmcall = "stopped"
  /\ source_vmmcall = "stopped" => ~dont_start_postcopy
  /\ ~dont_start_postcopy => dest_vmmcall # "other_guest"
  /\ start_sent = 1 => dest_vmmcall # "other_guest"
  /\ dest_vmmcall # "other_guest" /\ ~stop_value => received = Piece
  /\ dest_vmmcall = "migrated_guest" => ~stop_value

HandoverInv == TypeOK /\ LinkInv /\ StreamInv /\ MarginInv /\ VmmcallInv

-----------------------------------------------------------------------------
(***************************************************************************)
(* The steps.                                                              *)
(***************************************************************************)
LEMMA Numbers ==
  /\ NMargins \in Nat /\ PIECES \in Nat /\ TCP_SND_BUF \in Nat
  /\ NMargins >= 1 /\ PIECES >= 1 /\ TCP_SND_BUF >= 1
  /\ MARGIN06SP = NMargins /\ MARGIN_BUFF = NMargins + 1 /\ NO_MARGIN = NMargins + 2
  /\ MarginType = 0 .. NMargins + 2
  /\ \A m \in Int : /\ SendSize(m) \in 1 .. PIECES
                    /\ m = MARGIN_BUFF => SendSize(m) = PIECES
  /\ \A p \in Piece : p.margin \in 0 .. NMargins + 1 /\ p.batch_num \in 0 .. PIECES - 1
                      /\ p.batch_num < SendSize(p.margin)
                      /\ p = [margin |-> p.margin, batch_num |-> p.batch_num]
  /\ \A m \in 0 .. NMargins + 1, n \in Nat :
       n < SendSize(m) => [margin |-> m, batch_num |-> n] \in Piece
BY HandoverAssumption DEF MARGIN06SP, MARGIN_BUFF, NO_MARGIN, MarginType, SendSize, Piece

LEMMA HandoverInit == Init => HandoverInv
<1> SUFFICES ASSUME Init PROVE HandoverInv OBVIOUS
<1> USE Numbers
<1>1. TypeOK
  <2>1. wire \in Seq(Message) /\ es_p \in Seq(Message) /\ Len(es_p) <= 1 BY DEF Init
  <2>2. /\ unacked \in 0 .. TCP_SND_BUF /\ tcp_sndbuf \in 0 .. TCP_SND_BUF
        /\ start_sent \in {0, 1} /\ init_message \in {0, 1}
        /\ m_type \in MarginType /\ send_num \in 0 .. PIECES
    BY DEF Init
  <2>3. /\ begun \subseteq 0 .. MARGIN_BUFF /\ received \subseteq Piece
        /\ connected \in BOOLEAN /\ dont_start_postcopy \in BOOLEAN /\ cpu_task \in BOOLEAN
        /\ fail_to_send_seq \in BOOLEAN /\ seq_thread \in BOOLEAN
        /\ cpu_state \in BOOLEAN /\ stop_value \in BOOLEAN
    BY Zenon DEF Init
  <2>4. /\ source_vmmcall \in {"guest", "wait", "stopped"} /\ tcp_sent \in Callback
        /\ es_state \in {"none", "ES_ACCEPTED", "ES_RECEIVED"}
        /\ dest_vmmcall \in {"other_guest", "wait", "migrated_guest"}
    BY Zenon DEF Init, Callback
  <2> QED BY <2>1, <2>2, <2>3, <2>4, Zenon DEF TypeOK
<1>2. Skip = 2 /\ ~CpuWritten /\ Len(wire) = 0 /\ Len(es_p) = 0
  BY DEF Init, Skip, CpuWritten
<1>3. LinkInv BY <1>2 DEF Init, LinkInv
<1>4. \A p \in Piece : ~Before(p, m_type, send_num) BY DEF Init, Before
<1>5. StreamInv BY <1>2, <1>4 DEF StreamInv
<1>6. MarginInv BY <1>2 DEF Init, MarginInv
<1>7. VmmcallInv BY DEF Init, VmmcallInv
<1> QED BY <1>1, <1>3, <1>5, <1>6, <1>7 DEF HandoverInv

\* The steps that change neither the stream nor the margins.
Kept == UNCHANGED <<linkVars, marginVars, tcp_sent, es_p, received, init_message,
                    cpu_task>>

LEMMA KeptStands ==
  ASSUME HandoverInv, Kept, Skip' = Skip,
         es_state' = "ES_RECEIVED" <=> es_state = "ES_RECEIVED",
         CpuWritten' <=> CpuWritten
  PROVE  LinkInv' /\ StreamInv' /\ MarginInv'
<1>1. UNCHANGED <<wire, unacked, tcp_sndbuf, m_type, send_num, begun, fail_to_send_seq,
                  seq_thread, tcp_sent, es_p, received, init_message, cpu_task>>
  BY DEF Kept, linkVars, marginVars
<1>2. LinkInv' BY <1>1 DEF HandoverInv, LinkInv
<1>3. \A e : Carries(e)' <=> Carries(e) BY <1>1 DEF Carries, Before, IsPiece, PieceOf
<1>4. StreamInv' BY <1>1 DEF HandoverInv, StreamInv, Before, IsPiece, Carries, PieceOf
<1>5. MarginInv' BY <1>1 DEF HandoverInv, MarginInv
<1> QED BY <1>2, <1>4, <1>5

LEMMA CallsStep ==
  ASSUME HandoverInv,
         \/ recv_start_postcopy \/ postcopy_migration_vmmcall \/ connect
         \/ postcopy_migration_ready_vmmcall \/ load_guest_state
  PROVE  HandoverInv'
<1>1. CASE recv_start_postcopy
  <2>1. /\ start_sent = 1 /\ start_sent' = 0 /\ dont_start_postcopy' = FALSE
        /\ UNCHANGED <<connected, init_message, source_vmmcall, cpu_task, es_state, es_p,
                       cpu_state, received, stop_value, dest_vmmcall>>
        /\ Kept
    BY <1>1 DEF recv_start_postcopy, destVars, Kept
  <2>2. Skip' = Skip /\ (CpuWritten' <=> CpuWritten) BY <2>1 DEF Skip, CpuWritten
  <2>3. LinkInv' /\ StreamInv' /\ MarginInv' BY <2>1, <2>2, KeptStands
  <2>4. TypeOK'
    <3>1. start_sent' \in {0, 1} BY <2>1
    <3>2. dont_start_postcopy' \in BOOLEAN BY <2>1, Zenon
    <3> QED BY <2>1, <3>1, <3>2 DEF HandoverInv, TypeOK, Kept, linkVars, marginVars
  <2>5. VmmcallInv' BY <2>1 DEF HandoverInv, VmmcallInv
  <2> QED BY <2>3, <2>4, <2>5 DEF HandoverInv
<1>2. CASE postcopy_migration_vmmcall
  <2>1. /\ init_message = 1 /\ source_vmmcall = "guest" /\ source_vmmcall' = "wait"
        /\ UNCHANGED <<start_sent, connected, init_message, dont_start_postcopy, cpu_task,
                       es_state, es_p, cpu_state, received, stop_value, dest_vmmcall>>
        /\ Kept
    BY <1>2 DEF postcopy_migration_vmmcall, destVars, Kept
  <2>2. Skip' = Skip /\ (CpuWritten' <=> CpuWritten) BY <2>1 DEF Skip, CpuWritten
  <2>3. LinkInv' /\ StreamInv' /\ MarginInv' BY <2>1, <2>2, KeptStands
  <2>4. TypeOK'
    <3>1. source_vmmcall' \in {"guest", "wait", "stopped"} BY <2>1, Zenon
    <3> QED BY <2>1, <3>1, Zenon DEF HandoverInv, TypeOK, Kept, linkVars, marginVars
  <2>5. VmmcallInv' BY <2>1 DEF HandoverInv, VmmcallInv
  <2> QED BY <2>3, <2>4, <2>5 DEF HandoverInv
<1>3. CASE connect
  <2>1. /\ ~connected /\ connected' = TRUE /\ es_state' = "ES_ACCEPTED"
        /\ UNCHANGED <<start_sent, init_message, dont_start_postcopy, source_vmmcall,
                       cpu_task, es_p, cpu_state, received, stop_value, dest_vmmcall>>
        /\ Kept
    BY <1>3 DEF connect, Kept
  <2>2. es_state # "ES_RECEIVED" BY <2>1 DEF HandoverInv, VmmcallInv, LinkInv
  <2>3. Skip' = Skip /\ (CpuWritten' <=> CpuWritten) BY <2>1, <2>2 DEF Skip, CpuWritten
  <2>4. LinkInv' /\ StreamInv' /\ MarginInv' BY <2>1, <2>2, <2>3, KeptStands
  <2>5. TypeOK'
    <3>1. es_state' \in {"none", "ES_ACCEPTED", "ES_RECEIVED"} /\ connected' \in BOOLEAN
      BY <2>1, Zenon
    <3> QED BY <2>1, <3>1, Zenon DEF HandoverInv, TypeOK, Kept, linkVars, marginVars
  <2>6. VmmcallInv' BY <2>1 DEF HandoverInv, VmmcallInv
  <2> QED BY <2>4, <2>5, <2>6 DEF HandoverInv
<1>4. CASE postcopy_migration_ready_vmmcall
  <2>1. /\ dest_vmmcall = "other_guest" /\ stop_value' = TRUE /\ start_sent' = 1
        /\ dest_vmmcall' = "wait"
        /\ UNCHANGED <<connected, init_message, dont_start_postcopy, source_vmmcall,
                       cpu_task, es_state, es_p, cpu_state, received>>
        /\ Kept
    BY <1>4 DEF postcopy_migration_ready_vmmcall, sourceVars, Kept
  <2>2. Skip' = Skip /\ (CpuWritten' <=> CpuWritten) BY <2>1 DEF Skip, CpuWritten
  <2>3. LinkInv' /\ StreamInv' /\ MarginInv' BY <2>1, <2>2, KeptStands
  <2>4. TypeOK'
    <3>1. /\ start_sent' \in {0, 1} /\ stop_value' \in BOOLEAN
          /\ dest_vmmcall' \in {"other_guest", "wait", "migrated_guest"}
      BY <2>1, Zenon
    <3> QED BY <2>1, <3>1, Zenon DEF HandoverInv, TypeOK, Kept, linkVars, marginVars
  <2>5. VmmcallInv' BY <2>1 DEF HandoverInv, VmmcallInv
  <2> QED BY <2>3, <2>4, <2>5 DEF HandoverInv
<1>5. CASE load_guest_state
  <2>1. /\ dest_vmmcall = "wait" /\ ~stop_value /\ dest_vmmcall' = "migrated_guest"
        /\ UNCHANGED <<start_sent, connected, init_message, dont_start_postcopy,
                       source_vmmcall, cpu_task, es_state, es_p, cpu_state, received,
                       stop_value>>
        /\ Kept
    BY <1>5 DEF load_guest_state, sourceVars, Kept
  <2>2. Skip' = Skip /\ (CpuWritten' <=> CpuWritten) BY <2>1 DEF Skip, CpuWritten
  <2>3. LinkInv' /\ StreamInv' /\ MarginInv' BY <2>1, <2>2, KeptStands
  <2>4. TypeOK'
    BY <2>1, Zenon DEF HandoverInv, TypeOK, Kept, linkVars, marginVars
  <2>5. VmmcallInv' BY <2>1 DEF HandoverInv, VmmcallInv
  <2> QED BY <2>3, <2>4, <2>5 DEF HandoverInv
<1> QED BY <1>1, <1>2, <1>3, <1>4, <1>5

\* The greeting and the state of the processor are written.
LEMMA WriteStep ==
  ASSUME HandoverInv, Room,
         \/ echo_client_send \/ send_msg_to_echoctl
         \/ echo_client_send_postcopy_migration
  PROVE  HandoverInv'
<1>1. CASE send_msg_to_echoctl
  <2>1. /\ source_vmmcall = "wait" /\ ~dont_start_postcopy /\ source_vmmcall' = "stopped"
        /\ cpu_task' = TRUE
        /\ UNCHANGED <<wire, unacked, tcp_sndbuf, start_sent, connected, init_message,
                       dont_start_postcopy, m_type, send_num, begun, fail_to_send_seq,
                       seq_thread, tcp_sent, es_state, es_p, cpu_state, received,
                       stop_value, dest_vmmcall>>
    BY <1>1 DEF send_msg_to_echoctl, linkVars, marginVars, destVars
  <2>2. Skip' = Skip /\ ~CpuWritten /\ ~CpuWritten'
    BY <2>1, Zenon DEF Skip, CpuWritten
  <2>3. TypeOK'
    <3>1. source_vmmcall' \in {"guest", "wait", "stopped"} /\ cpu_task' \in BOOLEAN
      BY <2>1, Zenon
    <3> QED BY <2>1, <3>1, Zenon DEF HandoverInv, TypeOK
  <2>4. LinkInv' BY <2>1, <2>2 DEF HandoverInv, LinkInv
  <2>5. StreamInv'
    BY <2>1, <2>2 DEF HandoverInv, StreamInv, Before, IsPiece, Carries, PieceOf
  <2>6. MarginInv' BY <2>1, <2>2 DEF HandoverInv, MarginInv
  <2>7. VmmcallInv' BY <2>1 DEF HandoverInv, VmmcallInv
  <2> QED BY <2>3, <2>4, <2>5, <2>6, <2>7 DEF HandoverInv
<1>2. ASSUME NEW e \in Message, ~IsPiece(e), wire' = wire \o <<e>>,
             tcp_sndbuf' = tcp_sndbuf - 1, 1 <= tcp_sndbuf,
             Len(wire) < Skip, m_type = 0, send_num = 0,
             UNCHANGED <<unacked, m_type, send_num, es_state, es_p, received>>
      PROVE  /\ wire' \in Seq(Message) /\ Len(wire') = Len(wire) + 1 /\ Len(wire) \in Nat
             /\ tcp_sndbuf' \in 0 .. TCP_SND_BUF
             /\ StreamInv'
  <2>1. wire \in Seq(Message) BY DEF HandoverInv, TypeOK
  <2>2. PICK w : w = wire' OBVIOUS
  <2>3. /\ w \in Seq(Message) /\ Len(w) = Len(wire) + 1 /\ Len(wire) \in Nat
        /\ \A i \in 1 .. Len(wire) : w[i] = wire[i]
        /\ w[Len(wire) + 1] = e
    BY <1>2, <2>1, <2>2
  <2>4. Skip' = Skip /\ Skip \in Nat BY <1>2 DEF Skip, HandoverInv, TypeOK
  <2>5. \A i \in 1 .. Len(w) : i <= Skip /\ ~IsPiece(w[i])
    <3>1. \A i \in 1 .. Len(wire) : ~IsPiece(wire[i])
      BY <1>2, <2>3, <2>4 DEF HandoverInv, StreamInv
    <3>2. \A i \in 1 .. Len(w) : i \in 1 .. Len(wire) \/ i = Len(wire) + 1 BY <2>3
    <3> QED BY <1>2, <2>3, <2>4, <3>1, <3>2
  <2>6. \A p \in Piece : ~Before(p, m_type, send_num)
    BY <1>2, Numbers DEF Before
  <2>7. StreamInv'
    <3>1. \A i \in 1 .. Len(w) : ~(i > Skip) BY <2>3, <2>4, <2>5
    <3>2. \A i \in 1 .. Len(es_p) : ~IsPiece(es_p[i]) BY DEF HandoverInv, StreamInv
    <3>3. \A p \in Piece : ~Before(p, m_type', send_num') BY <1>2, <2>6
    <3> QED BY <1>2, <2>2, <2>4, <2>5, <3>1, <3>2, <3>3 DEF StreamInv
  <2>8. tcp_sndbuf' \in 0 .. TCP_SND_BUF BY <1>2, Numbers DEF HandoverInv, TypeOK
  <2> QED BY <2>2, <2>3, <2>7, <2>8
<1>3. CASE echo_client_send
  <2>1. /\ connected /\ init_message = 0 /\ init_message' = 1
        /\ wire' = wire \o <<Other("Hi")>> /\ tcp_sndbuf' = tcp_sndbuf - 1
        /\ 1 <= tcp_sndbuf
        /\ UNCHANGED <<unacked, start_sent, connected, dont_start_postcopy,
                       source_vmmcall, cpu_task, m_type, send_num, begun,
                       fail_to_send_seq, seq_thread, tcp_sent, es_state, es_p,
                       cpu_state, received, stop_value, dest_vmmcall>>
    BY <1>3 DEF echo_client_send, tcp_write, marginVars, destVars
  <2>2. ~CpuWritten /\ ~CpuWritten' /\ source_vmmcall = "guest"
    BY <2>1 DEF HandoverInv, VmmcallInv, TypeOK, CpuWritten
  <2>3. es_state # "ES_RECEIVED" /\ Skip = 2 /\ Skip' = 2
    BY <2>1 DEF HandoverInv, LinkInv, Skip
  <2>4. Len(wire) = 0 /\ m_type = 0 /\ send_num = 0
    BY <2>1, <2>2 DEF HandoverInv, LinkInv, MarginInv
  <2>5. Other("Hi") \in Message /\ ~IsPiece(Other("Hi"))
    BY Numbers DEF Other, Message, IsPiece
  <2>6. /\ wire' \in Seq(Message) /\ Len(wire') = 1
        /\ tcp_sndbuf' \in 0 .. TCP_SND_BUF /\ StreamInv'
    <3> HIDE DEF Other
    <3> QED BY <1>2, <2>1, <2>3, <2>4, <2>5
  <2>7. TypeOK'
    <3>1. init_message' \in {0, 1} BY <2>1
    <3>2. wire' \in Seq(Message) /\ tcp_sndbuf' \in 0 .. TCP_SND_BUF BY <2>6
    <3> QED BY <2>1, <3>1, <3>2 DEF HandoverInv, TypeOK
  <2>8. LinkInv'
    <3>1. unacked = 0
      BY <2>1, <2>2, <2>4 DEF HandoverInv, LinkInv, TypeOK
    <3> QED BY <2>1, <2>2, <2>3, <2>4, <2>6, <3>1 DEF HandoverInv, LinkInv, TypeOK
  <2>9. MarginInv' BY <2>1, <2>2 DEF HandoverInv, MarginInv
  <2>10. VmmcallInv' BY <2>1, <2>2 DEF HandoverInv, VmmcallInv
  <2> QED BY <2>6, <2>7, <2>8, <2>9, <2>10 DEF HandoverInv
<1>4. CASE echo_client_send_postcopy_migration
  <2>1. /\ cpu_task /\ cpu_task' = FALSE /\ tcp_sent' = "cpu_recv_callback"
        /\ UNCHANGED <<unacked, start_sent, connected, init_message,
                       dont_start_postcopy, source_vmmcall, m_type, send_num, begun,
                       fail_to_send_seq, seq_thread, es_state, es_p,
                       cpu_state, received, stop_value, dest_vmmcall>>
    BY <1>4 DEF echo_client_send_postcopy_migration, marginVars, destVars
  <2>2. source_vmmcall = "stopped" /\ init_message = 1 /\ ~CpuWritten /\ CpuWritten'
    BY <2>1 DEF HandoverInv, VmmcallInv, CpuWritten
  <2>3. /\ Len(wire) = Skip - 1 /\ Len(wire) + unacked <= 1
        /\ m_type = 0 /\ send_num = 0 /\ begun = {} /\ tcp_sent = "none"
    BY <2>2 DEF HandoverInv, LinkInv, MarginInv
  <2>4. tcp_sndbuf >= 1
    BY <2>3 DEF HandoverInv, LinkInv, TypeOK, Room
  <2>5. wire' = wire \o <<Other("CPU")>> /\ tcp_sndbuf' = tcp_sndbuf - 1
    BY <1>4, <2>4 DEF echo_client_send_postcopy_migration, tcp_write
  <2>6. Other("CPU") \in Message /\ ~IsPiece(Other("CPU"))
    BY Numbers DEF Other, Message, IsPiece
  <2>7. Skip' = Skip /\ Skip \in Nat /\ Len(wire) \in Nat
    BY <2>1 DEF Skip, HandoverInv, TypeOK
  <2>8. /\ wire' \in Seq(Message) /\ Len(wire') = Len(wire) + 1
        /\ tcp_sndbuf' \in 0 .. TCP_SND_BUF /\ StreamInv'
    <3> HIDE DEF Other
    <3>1. Len(wire) < Skip BY <2>3, <2>7
    <3> QED BY <1>2, <2>1, <2>3, <2>4, <2>5, <2>6, <3>1
  <2>9. TypeOK'
    <3>1. cpu_task' \in BOOLEAN /\ tcp_sent' \in Callback BY <2>1, Zenon DEF Callback
    <3>2. wire' \in Seq(Message) /\ tcp_sndbuf' \in 0 .. TCP_SND_BUF BY <2>8
    <3> QED BY <2>1, <3>1, <3>2 DEF HandoverInv, TypeOK
  <2>10. LinkInv'
    <3>1. Len(wire) + unacked + tcp_sndbuf = TCP_SND_BUF BY DEF HandoverInv, LinkInv
    <3>2. unacked \in Nat /\ tcp_sndbuf \in Nat BY DEF HandoverInv, TypeOK
    <3>3. Len(wire') + unacked + tcp_sndbuf' = TCP_SND_BUF
      BY <2>5, <2>7, <2>8, <3>1, <3>2
    <3>4. Len(wire') >= Skip' BY <2>3, <2>7, <2>8
    <3> QED BY <2>1, <2>2, <3>3, <3>4 DEF HandoverInv, LinkInv
  <2>11. MarginInv' BY <2>1, <2>2, <2>3, Numbers DEF HandoverInv, MarginInv
  <2>12. VmmcallInv' BY <2>1, <2>2 DEF HandoverInv, VmmcallInv
  <2> QED BY <2>8, <2>9, <2>10, <2>11, <2>12 DEF HandoverInv
<1> QED BY <1>1, <1>3, <1>4

\* What send_margin adds to the stream, and where the margins are then.
LEMMA Sending ==
  ASSUME HandoverInv, NEW m, NEW n, NEW room, m = m_type, n = send_num,
         CpuWritten, m <= MARGIN_BUFF, room \in 1 .. TCP_SND_BUF,
         send_margin(m, n, room),
         UNCHANGED <<es_state, es_p, received>>
  PROVE  /\ wire' \in Seq(Message) /\ tcp_sndbuf' \in 0 .. TCP_SND_BUF
         /\ Len(wire') + tcp_sndbuf' = Len(wire) + room /\ Len(wire') >= Len(wire)
         /\ StreamInv'
         /\ m_type' \in MarginType /\ send_num' \in 0 .. PIECES
         /\ m_type' # NO_MARGIN => send_num' < SendSize(m_type')
         /\ \/ m_type' = m /\ tcp_sent' = "send_margin"
            \/ m_type' = m + 1 /\ m < MARGIN_BUFF /\ send_num' = 0 /\ tcp_sent' = "send_margins"
            \/ m_type' = NO_MARGIN /\ m = MARGIN_BUFF /\ tcp_sent' = "none"
         /\ fail_to_send_seq' \in BOOLEAN /\ seq_thread' \in BOOLEAN
         /\ seq_thread' => m_type' = NO_MARGIN /\ tcp_sent' = "none"
<1>1. PICK size : size = SendSize(m) OBVIOUS
<1>2. PICK k : k = IF size - n <= room THEN size - n ELSE room OBVIOUS
<1>3. PICK last : last = (n + k = size) OBVIOUS
<1> DEFINE kind(i) == IF m = MARGIN_BUFF /\ i = size - 1 THEN "BUFF_MEM"
                      ELSE IF m = MARGIN06SP THEN "MEM_SP" ELSE "MEM"
<1>4. PICK s : s = [i \in 1 .. k |-> [kind |-> kind(n + i - 1), margin |-> m,
                                      batch_num |-> n + i - 1]]
  OBVIOUS
<1>5. /\ wire' = wire \o s /\ tcp_sndbuf' = room - k
      /\ send_num' = IF last THEN 0 ELSE n + k
      /\ m_type' = IF last THEN m + 1 ELSE m
      /\ tcp_sent' = IF last THEN batch_end_callback(m)
                     ELSE IF k > 0 THEN "send_margin" ELSE tcp_sent
      /\ fail_to_send_seq' = (fail_to_send_seq \/ (~last /\ m # MARGIN06SP))
      /\ seq_thread' = (seq_thread \/ starts_thread(m, last))
  BY <1>1, <1>2, <1>3, <1>4 DEF send_margin
<1>6. /\ m \in 0 .. NMargins + 1 /\ size \in 1 .. PIECES /\ n \in 0 .. size - 1
      /\ m = MARGIN_BUFF => size = PIECES
  BY <1>1, Numbers DEF HandoverInv, TypeOK, MarginInv
<1>7. k \in 1 .. room /\ n + k <= size /\ room \in Nat
  BY <1>2, <1>6
<1>8. /\ Len(s) = k
      /\ \A i \in 1 .. k : /\ s[i] \in Message /\ s[i].margin = m
                           /\ s[i].batch_num = n + i - 1
                           /\ s[i].kind = kind(n + i - 1)
  <2>1. DOMAIN s = 1 .. k /\ Len(s) = k BY <1>4, <1>7
  <2>2. m \in MarginType BY <1>6, Numbers
  <2> SUFFICES ASSUME NEW i \in 1 .. k
               PROVE  /\ s[i] \in Message /\ s[i].margin = m
                      /\ s[i].batch_num = n + i - 1
                      /\ s[i].kind = kind(n + i - 1)
    BY <2>1
  <2>3. n + i - 1 \in Nat BY <1>6, <1>7
  <2>4. PICK c : c = kind(n + i - 1) OBVIOUS
  <2>5. c \in {"MEM", "MEM_SP", "BUFF_MEM"} BY <2>4, Zenon
  <2>6. s[i] = [kind |-> c, margin |-> m, batch_num |-> n + i - 1] BY <1>4, <2>4, Zenon
  <2> HIDE DEF kind
  <2> QED BY <2>2, <2>3, <2>4, <2>5, <2>6 DEF Message
<1>9. \A i \in 1 .. k :
        /\ IsPiece(s[i]) /\ PieceOf(s[i]) \in Piece
        /\ s[i].kind = "BUFF_MEM" => s[i].margin = MARGIN_BUFF /\ s[i].batch_num = PIECES - 1
  <2> TAKE i \in 1 .. k
  <2>1. n + i - 1 \in Nat /\ n + i - 1 < SendSize(m) BY <1>1, <1>6, <1>7
  <2>2. PieceOf(s[i]) \in Piece BY <1>6, <1>8, <2>1, Numbers DEF PieceOf
  <2>3. IsPiece(s[i]) BY <1>8, Zenon DEF IsPiece
  <2>4. s[i].kind = "BUFF_MEM" => m = MARGIN_BUFF /\ n + i - 1 = size - 1 BY <1>8, Zenon
  <2> HIDE DEF kind
  <2> QED BY <1>6, <1>8, <2>2, <2>3, <2>4
<1> HIDE DEF kind
<1>10. PICK w : w = wire' OBVIOUS
<1>11. PICK l : l = Len(wire) OBVIOUS
<1>12. /\ w \in Seq(Message) /\ Len(w) = l + k /\ l \in Nat
       /\ \A i \in 1 .. l : w[i] = wire[i]
       /\ \A i \in l + 1 .. l + k : w[i] = s[i - l] /\ i - l \in 1 .. k
  <2>1. wire \in Seq(Message) BY DEF HandoverInv, TypeOK
  <2>2. s \in Seq(Message) BY <1>4, <1>7, <1>8
  <2>3. w = wire \o s BY <1>5, <1>10
  <2> HIDE DEF HandoverInv
  <2>4. /\ w \in Seq(Message) /\ Len(w) = l + k
        /\ \A i \in 1 .. l + k : w[i] = IF i <= l THEN wire[i] ELSE s[i - l]
    BY <1>8, <1>11, <2>1, <2>2, <2>3, Concat
  <2>5. l \in Nat BY <1>11, <2>1
  <2> QED BY <1>7, <2>4, <2>5
\* What is before the new place of the margins.
<1>13. /\ m_type' \in MarginType /\ send_num' \in 0 .. PIECES
       /\ m_type' # NO_MARGIN => send_num' < SendSize(m_type')
  <2>1. CASE last
    <3>1. m_type' = m + 1 /\ send_num' = 0 BY <1>5, <2>1
    <3> QED BY <1>6, <3>1, Numbers
  <2>2. CASE ~last
    <3>1. m_type' = m /\ send_num' = n + k /\ n + k # size BY <1>3, <1>5, <2>2
    <3>2. n + k # size /\ n \in Nat /\ k \in Nat /\ size \in Nat /\ size <= PIECES
      BY <1>6, <1>7, <3>1
    <3>4. n + k < size BY <1>7, <3>2
    <3>5. n + k \in 0 .. PIECES BY <3>2, <3>4, Numbers
    <3>3. m \in MarginType BY <1>6, Numbers
    <3> QED BY <1>1, <3>1, <3>3, <3>4, <3>5
  <2> QED BY <2>1, <2>2
<1>14. \A p : p.margin \in Int /\ p.batch_num \in Nat /\ p.batch_num < SendSize(p.margin) =>
         (Before(p, m_type', send_num')
            <=> Before(p, m, n) \/ (p.margin = m /\ p.batch_num < n + k))
  <2> TAKE p
  <2> HAVE p.margin \in Int /\ p.batch_num \in Nat /\ p.batch_num < SendSize(p.margin)
  <2> PICK a, b : a = p.margin /\ b = p.batch_num OBVIOUS
  <2>1. a \in Int /\ b \in Nat /\ (a = m => b < size) BY <1>1
  <2>2. \A x, y : Before(p, x, y) <=> a < x \/ (a = x /\ b < y) BY DEF Before
  <2>3. CASE last
    <3>1. m_type' = m + 1 /\ send_num' = 0 /\ n + k = size BY <1>3, <1>5, <2>3
    <3>2. (a < m + 1 \/ (a = m + 1 /\ b < 0))
            <=> (a < m \/ (a = m /\ b < n)) \/ (a = m /\ b < n + k)
      BY <1>6, <1>7, <2>1, <3>1
    <3> QED BY <2>2, <3>1, <3>2, Zenon
  <2>4. CASE ~last
    <3>1. m_type' = m /\ send_num' = n + k BY <1>5, <2>4
    <3>2. (a < m \/ (a = m /\ b < n + k))
            <=> (a < m \/ (a = m /\ b < n)) \/ (a = m /\ b < n + k)
      BY <1>6, <1>7, <2>1
    <3> QED BY <2>2, <3>1, <3>2, Zenon
  <2> QED BY <2>3, <2>4
<1>15. Skip' = Skip /\ Skip \in Nat /\ l >= Skip
  BY <1>11 DEF Skip, HandoverInv, TypeOK, LinkInv
<1>16. /\ \A i \in 1 .. l : i > Skip => Carries(wire[i])
       /\ \A i \in 1 .. l : i <= Skip => ~IsPiece(wire[i])
       /\ \A i, j \in 1 .. l :
            i > Skip /\ i < j => Before(wire[i], wire[j].margin, wire[j].batch_num)
       /\ \A p \in Piece :
            Before(p, m, n) =>
              p \in received \/ \E i \in 1 .. l : i > Skip /\ p = PieceOf(wire[i])
       /\ \A i \in 1 .. Len(es_p) : ~IsPiece(es_p[i])
  BY <1>11 DEF HandoverInv, StreamInv
<1>17. \A e : PieceOf(e) \in Piece =>
         /\ e.margin \in Int /\ e.batch_num \in Nat /\ e.batch_num < SendSize(e.margin)
         /\ PieceOf(e).margin = e.margin /\ PieceOf(e).batch_num = e.batch_num
  BY Numbers DEF PieceOf
<1>18. \A i \in 1 .. l + k : i > Skip => Carries(w[i])'
  <2> TAKE i \in 1 .. l + k
  <2> HAVE i > Skip
  <2>1. PICK e : e = w[i] OBVIOUS
  <2>2. CASE i <= l
    <3>1. i \in 1 .. l /\ e = wire[i] BY <1>12, <2>1, <2>2
    <3>2. /\ IsPiece(e) /\ PieceOf(e) \in Piece /\ Before(e, m, n)
          /\ e.kind = "BUFF_MEM" => e.margin = MARGIN_BUFF /\ e.batch_num = PIECES - 1
      BY <1>16, <3>1 DEF Carries
    <3>3. Before(e, m_type', send_num') BY <1>14, <1>17, <3>2
    <3> QED BY <2>1, <3>2, <3>3 DEF Carries, IsPiece, PieceOf, Before
  <2>3. CASE i > l
    <3>1. i \in l + 1 .. l + k BY <1>12, <2>3
    <3>2. PICK j \in 1 .. k : e = s[j] BY <1>12, <2>1, <3>1
    <3>3. /\ IsPiece(e) /\ PieceOf(e) \in Piece /\ e.margin = m /\ e.batch_num < n + k
          /\ e.kind = "BUFF_MEM" => e.margin = MARGIN_BUFF /\ e.batch_num = PIECES - 1
      BY <1>6, <1>7, <1>8, <1>9, <3>2
    <3>4. Before(e, m_type', send_num') BY <1>14, <1>17, <3>3
    <3> QED BY <2>1, <3>3, <3>4 DEF Carries, IsPiece, PieceOf, Before
  <2> QED BY <1>12, <2>2, <2>3
<1>19. \A i \in 1 .. l + k : i <= Skip => ~IsPiece(w[i])
  BY <1>12, <1>15, <1>16
<1>20. \A i, j \in 1 .. l + k :
         i > Skip /\ i < j => Before(w[i], w[j].margin, w[j].batch_num)
  <2> TAKE i, j \in 1 .. l + k
  <2> HAVE i > Skip /\ i < j
  <2>1. CASE j <= l
    <3>1. i \in 1 .. l /\ j \in 1 .. l /\ w[i] = wire[i] /\ w[j] = wire[j] BY <1>12, <2>1
    <3> QED BY <1>16, <3>1
  <2>2. CASE i <= l /\ j > l
    <3>1. i \in 1 .. l /\ j \in l + 1 .. l + k BY <1>12, <2>2
    <3>2. w[j].margin = m /\ w[j].batch_num >= n /\ w[j].batch_num \in Int
      BY <1>6, <1>8, <1>12, <3>1
    <3>3. Before(w[i], m, n) /\ PieceOf(w[i]) \in Piece
      BY <1>12, <1>16, <3>1 DEF Carries
    <3>4. w[i].margin \in Int /\ w[i].batch_num \in Nat BY <1>17, <3>3
    <3>5. PICK a, b : a = w[i].margin /\ b = w[i].batch_num OBVIOUS
    <3>6. a < m \/ (a = m /\ b < n) BY <3>3, <3>5 DEF Before
    <3>7. a < m \/ (a = m /\ b < w[j].batch_num) BY <1>6, <3>2, <3>4, <3>5, <3>6
    <3> QED BY <3>2, <3>5, <3>7 DEF Before
  <2>3. CASE i > l
    <3>1. i \in l + 1 .. l + k /\ j \in l + 1 .. l + k BY <1>12, <2>3
    <3>2. /\ w[i].margin = m /\ w[j].margin = m
          /\ w[i].batch_num = n + (i - l) - 1 /\ w[j].batch_num = n + (j - l) - 1
      BY <1>8, <1>12, <3>1
    <3>3. n + (i - l) - 1 < n + (j - l) - 1 BY <1>6, <1>12, <3>1
    <3> QED BY <3>2, <3>3 DEF Before
  <2> QED BY <1>12, <2>1, <2>2, <2>3
<1>21. \A p \in Piece :
         Before(p, m_type', send_num') =>
           p \in received \/ \E i \in 1 .. l + k : i > Skip /\ p = PieceOf(w[i])
  <2> TAKE p \in Piece
  <2> HAVE Before(p, m_type', send_num')
  <2>1. /\ p.margin \in Int /\ p.batch_num \in Nat /\ p.batch_num < SendSize(p.margin)
        /\ p = [margin |-> p.margin, batch_num |-> p.batch_num]
    BY Numbers
  <2>2. CASE Before(p, m, n)
    <3>1. CASE p \notin received
      <4>1. PICK i \in 1 .. l : i > Skip /\ p = PieceOf(wire[i]) BY <1>16, <2>2, <3>1
      <4>2. i \in 1 .. l + k /\ w[i] = wire[i] BY <1>7, <1>12
      <4> QED BY <4>1, <4>2
    <3> QED BY <3>1
  <2>3. CASE ~Before(p, m, n)
    <3>1. p.margin = m /\ p.batch_num < n + k BY <1>14, <2>1, <2>3
    <3>2. p.batch_num >= n BY <1>6, <2>1, <2>3, <3>1 DEF Before
    <3>3. PICK b : b = p.batch_num OBVIOUS
    <3>4. PICK d : d = b - n + 1 OBVIOUS
    <3>5. b \in Nat /\ n \in Nat /\ k \in Nat /\ n <= b /\ b < n + k
      BY <1>6, <1>7, <2>1, <3>1, <3>2, <3>3
    <3>6. d \in 1 .. k /\ n + d - 1 = b BY <3>4, <3>5
    <3>7. /\ l + d \in l + 1 .. l + k /\ l + d \in 1 .. l + k
          /\ (l + d) - l = d /\ l + d > Skip
      BY <1>12, <1>15, <3>5, <3>6
    <3>8. w[l + d] = s[d] BY <1>12, <3>7
    <3>9. PICK i \in 1 .. l + k : i > Skip /\ w[i].margin = m /\ w[i].batch_num = b
      BY <1>8, <3>6, <3>7, <3>8
    <3>10. p = PieceOf(w[i]) BY <2>1, <3>1, <3>3, <3>9 DEF PieceOf
    <3> QED BY <3>9, <3>10
  <2> QED BY <2>2, <2>3
<1>22. StreamInv'
  <2>1. /\ Len(wire') = l + k /\ received' = received /\ es_p' = es_p BY <1>10, <1>12
  <2> QED
    BY <1>10, <1>15, <1>16, <1>18, <1>19, <1>20, <1>21, <2>1
    DEF StreamInv, IsPiece, PieceOf, Before
<1>23. ~seq_thread BY <1>6, Numbers DEF HandoverInv, MarginInv
<1>24. /\ \/ m_type' = m /\ tcp_sent' = "send_margin"
          \/ m_type' = m + 1 /\ m < MARGIN_BUFF /\ send_num' = 0 /\ tcp_sent' = "send_margins"
          \/ m_type' = NO_MARGIN /\ m = MARGIN_BUFF /\ tcp_sent' = "none"
       /\ seq_thread' => m_type' = NO_MARGIN /\ tcp_sent' = "none"
  <2>1. CASE ~last
    <3>1. m_type' = m /\ tcp_sent' = "send_margin" BY <1>5, <1>7, <2>1
    <3>2. ~seq_thread' BY <1>5, <1>23, <2>1, Zenon DEF starts_thread
    <3> QED BY <3>1, <3>2
  <2>2. CASE last /\ m = MARGIN_BUFF
    <3>1. m_type' = m + 1 /\ tcp_sent' = "none" BY <1>5, <2>2 DEF batch_end_callback
    <3> QED BY <2>2, <3>1, Numbers
  <2>3. CASE last /\ m # MARGIN_BUFF
    <3>1. m_type' = m + 1 /\ send_num' = 0 /\ tcp_sent' = "send_margins"
      BY <1>5, <2>3 DEF batch_end_callback
    <3>2. m < MARGIN_BUFF BY <1>6, <2>3, Numbers
    <3>3. ~seq_thread' BY <1>5, <1>23, <2>3, Zenon DEF starts_thread
    <3> QED BY <3>1, <3>2, <3>3
  <2> QED BY <2>1, <2>2, <2>3
<1>25. fail_to_send_seq' \in BOOLEAN /\ seq_thread' \in BOOLEAN BY <1>5, Zenon
<1>26. /\ w \in Seq(Message) /\ tcp_sndbuf' \in 0 .. TCP_SND_BUF
       /\ Len(w) + tcp_sndbuf' = l + room /\ Len(w) >= l
  BY <1>5, <1>7, <1>12, Numbers
<1> QED BY <1>10, <1>11, <1>13, <1>22, <1>24, <1>25, <1>26

\* An acknowledgement: a margin is begun, or goes on, or nothing is left.
LEMMA AckStep ==
  ASSUME HandoverInv, NEW n \in 1 .. unacked, sent_event(n)
  PROVE  HandoverInv'
<1>1. PICK room : room = tcp_sndbuf + n OBVIOUS
<1>2. /\ unacked' = unacked - n
      /\ UNCHANGED <<start_sent, connected, init_message, dont_start_postcopy,
                     source_vmmcall, cpu_task, es_state, es_p, cpu_state, received,
                     stop_value, dest_vmmcall>>
  BY DEF sent_event, destVars
<1>3. /\ Len(wire) \in Nat /\ unacked \in Nat /\ tcp_sndbuf \in Nat
      /\ Len(wire) + unacked + tcp_sndbuf = TCP_SND_BUF
  BY DEF HandoverInv, TypeOK, LinkInv
<1>4. /\ room \in 1 .. TCP_SND_BUF /\ unacked' \in 0 .. TCP_SND_BUF
      /\ unacked' \in Nat /\ unacked' <= unacked
      /\ Len(wire) + unacked' + room = TCP_SND_BUF
  BY <1>1, <1>2, <1>3
<1>5. (CpuWritten' <=> CpuWritten) /\ Skip' = Skip BY <1>2 DEF CpuWritten, Skip
<1>6. VmmcallInv' BY <1>2 DEF HandoverInv, VmmcallInv
\* A margin is sent.
<1>7. ASSUME CpuWritten, m_type <= MARGIN_BUFF, send_margin(m_type, send_num, room),
             begun' = 0 .. m_type
      PROVE  HandoverInv'
  <2>1. PICK m : m = m_type OBVIOUS
  <2>2. PICK k : k = send_num OBVIOUS
  <2>3. send_margin(m, k, room) BY <1>7, <2>1, <2>2
  <2>4. m <= MARGIN_BUFF BY <1>7, <2>1
  <2>5. UNCHANGED <<es_state, es_p, received>> BY <1>2
  <2>6. /\ wire' \in Seq(Message) /\ tcp_sndbuf' \in 0 .. TCP_SND_BUF
        /\ Len(wire') + tcp_sndbuf' = Len(wire) + room /\ Len(wire') >= Len(wire)
        /\ StreamInv'
        /\ m_type' \in MarginType /\ send_num' \in 0 .. PIECES
        /\ m_type' # NO_MARGIN => send_num' < SendSize(m_type')
        /\ \/ m_type' = m /\ tcp_sent' = "send_margin"
           \/ m_type' = m + 1 /\ m < MARGIN_BUFF /\ send_num' = 0 /\ tcp_sent' = "send_margins"
           \/ m_type' = NO_MARGIN /\ m = MARGIN_BUFF /\ tcp_sent' = "none"
        /\ fail_to_send_seq' \in BOOLEAN /\ seq_thread' \in BOOLEAN
        /\ seq_thread' => m_type' = NO_MARGIN /\ tcp_sent' = "none"
    BY <1>4, <1>7, <2>1, <2>2, <2>3, <2>4, <2>5, Sending
  <2>7. m \in 0 .. NMargins + 1 BY <2>1, <2>4, Numbers DEF HandoverInv, TypeOK
  <2>8. begun' = 0 .. m BY <1>7, <2>1
  <2>9. MarginInv'
    <3>1. CASE m_type' = m /\ tcp_sent' = "send_margin"
      <4>1. m \in Int /\ m # NO_MARGIN /\ ~seq_thread' BY <2>6, <2>7, <3>1, Numbers
      <4> QED BY <1>5, <1>7, <2>4, <2>6, <2>8, <3>1, <4>1 DEF MarginInv
    <3>2. CASE m_type' = m + 1 /\ m < MARGIN_BUFF /\ send_num' = 0 /\ tcp_sent' = "send_margins"
      <4>1. m + 1 <= MARGIN_BUFF /\ (m + 1) - 1 = m /\ ~seq_thread'
        BY <2>6, <2>7, <3>2, Numbers
      <4> QED BY <1>5, <1>7, <2>6, <2>8, <3>2, <4>1 DEF MarginInv
    <3>3. CASE m_type' = NO_MARGIN /\ m = MARGIN_BUFF /\ tcp_sent' = "none"
      BY <1>5, <1>7, <2>6, <2>8, <3>3 DEF MarginInv
    <3> QED BY <2>6, <3>1, <3>2, <3>3
  <2>10. TypeOK'
    <3>1. begun' \subseteq 0 .. MARGIN_BUFF BY <2>7, <2>8, Numbers
    <3>2. tcp_sent' \in Callback BY <2>6, Zenon DEF Callback
    <3> QED BY <1>2, <1>4, <2>6, <3>1, <3>2 DEF HandoverInv, TypeOK
  <2>11. LinkInv'
    <3>1. Len(wire') + unacked' + tcp_sndbuf' = TCP_SND_BUF
      <4>1. PICK a, b, c : a = Len(wire') /\ b = tcp_sndbuf' /\ c = Len(wire) OBVIOUS
      <4>2. a \in Nat /\ b \in Nat /\ c \in Nat /\ a + b = c + room BY <1>3, <2>6, <4>1
      <4>3. c + unacked' + room = TCP_SND_BUF BY <1>4, <4>1
      <4>4. a + unacked' + b = TCP_SND_BUF BY <1>4, <4>2, <4>3
      <4> QED BY <4>1, <4>4
    <3>2. Len(wire) >= Skip /\ Skip \in Nat BY <1>7 DEF HandoverInv, TypeOK, LinkInv, Skip
    <3>3. Len(wire') >= Skip' BY <1>3, <1>5, <2>6, <3>2
    <3> QED BY <1>2, <1>5, <1>7, <3>1, <3>3 DEF HandoverInv, LinkInv
  <2> QED BY <1>6, <2>6, <2>9, <2>10, <2>11 DEF HandoverInv
<1>8. CASE tcp_sent = "cpu_recv_callback"
  <2>1. CpuWritten /\ m_type = 0 /\ send_num = 0 /\ begun = {}
    BY <1>8 DEF HandoverInv, MarginInv
  <2>2. send_margins(0, room) BY <1>1, <1>8 DEF sent_event
  <2>3. 0 # NO_MARGIN /\ m_type <= MARGIN_BUFF BY <2>1, Numbers
  <2>4. send_margin(m_type, send_num, room) /\ begun' = {0}
    BY <2>1, <2>2, <2>3 DEF send_margins
  <2> QED BY <1>7, <2>1, <2>3, <2>4
<1>9. CASE tcp_sent = "send_margins"
  <2>1. CpuWritten /\ m_type <= MARGIN_BUFF /\ send_num = 0 /\ begun = 0 .. m_type - 1
    BY <1>9 DEF HandoverInv, MarginInv
  <2>2. send_margins(m_type, room) BY <1>1, <1>9 DEF sent_event
  <2>3. m_type \in 0 .. NMargins + 1 /\ m_type # NO_MARGIN /\ m_type \notin begun
    BY <2>1, Numbers DEF HandoverInv, TypeOK
  <2>4. send_margin(m_type, send_num, room) /\ begun' = begun \cup {m_type}
    BY <2>1, <2>2, <2>3 DEF send_margins
  <2>5. begun' = 0 .. m_type BY <2>1, <2>3, <2>4
  <2> QED BY <1>7, <2>1, <2>4, <2>5
<1>10. CASE tcp_sent = "send_margin"
  <2>1. CpuWritten /\ m_type <= MARGIN_BUFF /\ begun = 0 .. m_type
    BY <1>10 DEF HandoverInv, MarginInv
  <2>2. send_margin(m_type, send_num, room) /\ begun' = begun
    BY <1>1, <1>10 DEF sent_event
  <2> QED BY <1>7, <2>1, <2>2
<1>11. CASE tcp_sent = "none"
  <2>1. tcp_sndbuf' = room /\ UNCHANGED <<wire, m_type, send_num, begun, fail_to_send_seq,
                                          seq_thread, tcp_sent>>
    BY <1>1, <1>11 DEF sent_event, marginVars
  <2>2. TypeOK' BY <1>2, <1>4, <2>1 DEF HandoverInv, TypeOK
  <2>3. LinkInv'
    <3>1. Len(wire) + unacked' + tcp_sndbuf' = TCP_SND_BUF BY <1>4, <2>1
    <3>2. ~CpuWritten => Len(wire) + unacked' <= init_message
      <4>1. ~CpuWritten => Len(wire) + unacked <= init_message BY DEF HandoverInv, LinkInv
      <4>2. init_message \in Nat BY DEF HandoverInv, TypeOK
      <4> QED BY <1>3, <1>4, <4>1, <4>2
    <3> QED BY <1>2, <1>5, <2>1, <3>1, <3>2 DEF HandoverInv, LinkInv
  <2>4. StreamInv'
    BY <1>2, <1>5, <2>1 DEF HandoverInv, StreamInv, Before, IsPiece, Carries, PieceOf
  <2>5. MarginInv' BY <1>5, <2>1 DEF HandoverInv, MarginInv
  <2> QED BY <1>6, <2>2, <2>3, <2>4, <2>5 DEF HandoverInv
<1> QED BY <1>8, <1>9, <1>10, <1>11 DEF HandoverInv, TypeOK, Callback

\* The stream without its first message.
LEMMA Delivered ==
  ASSUME HandoverInv, deliver, Skip' = IF Skip = 0 THEN 0 ELSE Skip - 1, Skip \in Nat,
         \A i \in 1 .. Len(es_p') : ~IsPiece(es_p'[i]),
         received \subseteq received',
         Skip = 0 => PieceOf(Head(wire)) \in received'
  PROVE  /\ wire' \in Seq(Message) /\ Len(wire') = Len(wire) - 1 /\ Len(wire) \in Nat \ {0}
         /\ Head(wire) = wire[1] /\ Head(wire) \in Message
         /\ unacked' \in 0 .. TCP_SND_BUF
         /\ Len(wire') + unacked' + tcp_sndbuf' = TCP_SND_BUF
         /\ StreamInv'
<1>1. wire # <<>> /\ wire \in Seq(Message) BY DEF HandoverInv, TypeOK, deliver
<1>2. PICK w : w = wire' OBVIOUS
<1>3. PICK l : l = Len(wire) - 1 OBVIOUS
<1>4. /\ w \in Seq(Message) /\ Len(w) = l /\ l \in Nat /\ Len(wire) = l + 1
      /\ Head(wire) = wire[1] /\ Head(wire) \in Message
      /\ \A j \in 1 .. l : w[j] = wire[j + 1] /\ j + 1 \in 1 .. l + 1
  BY <1>1, <1>2, <1>3, TailIs DEF deliver
<1>5. PICK k : k = Skip OBVIOUS
<1>6. /\ \A i \in 1 .. l + 1 : i > k => Carries(wire[i])
      /\ \A i \in 1 .. l + 1 : i <= k => ~IsPiece(wire[i])
      /\ \A i, j \in 1 .. l + 1 :
           i > k /\ i < j => Before(wire[i], wire[j].margin, wire[j].batch_num)
      /\ \A p \in Piece :
           Before(p, m_type, send_num) =>
             p \in received \/ \E i \in 1 .. l + 1 : i > k /\ p = PieceOf(wire[i])
  BY <1>4, <1>5 DEF HandoverInv, StreamInv
<1>7. PICK c : c = IF k = 0 THEN 0 ELSE k - 1 OBVIOUS
<1>8. c = Skip' /\ c \in Nat /\ k \in Nat /\ (k # 0 => c = k - 1) BY <1>5, <1>7
<1>9. \A j \in 1 .. l : /\ j > c => j + 1 > k
                        /\ j <= c => j + 1 <= k
  BY <1>7, <1>8
<1>10. UNCHANGED <<m_type, send_num, tcp_sndbuf>> BY DEF deliver, sourceVars, marginVars
<1>11. \A p \in Piece :
         Before(p, m_type, send_num) =>
           p \in received' \/ \E i \in 1 .. l : i > c /\ p = PieceOf(w[i])
  <2> TAKE p \in Piece
  <2> HAVE Before(p, m_type, send_num)
  <2>1. CASE p \in received BY <2>1
  <2>2. CASE p \notin received
    <3>1. PICK i \in 1 .. l + 1 : i > k /\ p = PieceOf(wire[i]) BY <1>6, <2>2
    <3>2. CASE i = 1
      <4>1. k = 0 BY <1>8, <3>1, <3>2
      <4> QED BY <1>4, <1>5, <3>1, <3>2, <4>1
    <3>3. CASE i # 1
      <4>1. i - 1 \in 1 .. l /\ i - 1 > c /\ (i - 1) + 1 = i
        BY <1>4, <1>7, <1>8, <3>1, <3>3
      <4> QED BY <1>4, <3>1, <4>1
    <3> QED BY <3>2, <3>3
  <2> QED BY <2>1, <2>2
<1>12. StreamInv'
  <2>1. \A i \in 1 .. l : i > c => Carries(w[i]) BY <1>4, <1>6, <1>9
  <2>2. \A i \in 1 .. l : i <= c => ~IsPiece(w[i]) BY <1>4, <1>6, <1>9
  <2>3. \A i, j \in 1 .. l :
          i > c /\ i < j => Before(w[i], w[j].margin, w[j].batch_num)
    <3> TAKE i, j \in 1 .. l
    <3> HAVE i > c /\ i < j
    <3>1. i + 1 \in 1 .. l + 1 /\ j + 1 \in 1 .. l + 1 /\ i + 1 > k /\ i + 1 < j + 1
      BY <1>4, <1>9
    <3> QED BY <1>4, <1>6, <3>1
  <2> QED
    BY <1>2, <1>4, <1>8, <1>10, <1>11, <2>1, <2>2, <2>3
    DEF StreamInv, Carries, IsPiece, PieceOf, Before
<1>13. /\ unacked' \in 0 .. TCP_SND_BUF
       /\ Len(w) + unacked' + tcp_sndbuf' = TCP_SND_BUF
  <2>1. unacked' = unacked + 1 BY DEF deliver
  <2>2. (l + 1) + unacked + tcp_sndbuf = TCP_SND_BUF BY <1>4 DEF HandoverInv, LinkInv
  <2>3. PICK u, t : u = unacked /\ t = tcp_sndbuf OBVIOUS
  <2>4. u \in Nat /\ t \in Nat BY <2>3 DEF HandoverInv, TypeOK
  <2>5. (l + 1) + u + t = TCP_SND_BUF BY <2>2, <2>3
  <2>6. u + 1 \in 0 .. TCP_SND_BUF /\ l + (u + 1) + t = TCP_SND_BUF
    BY <1>4, <2>4, <2>5
  <2> QED BY <1>4, <1>10, <2>1, <2>3, <2>6, Zenon
<1> QED BY <1>2, <1>4, <1>12, <1>13

LEMMA AcceptedStep ==
  ASSUME HandoverInv, recv_accepted
  PROVE  HandoverInv'
<1>1. /\ es_state = "ES_ACCEPTED" /\ deliver /\ es_state' = "ES_RECEIVED"
      /\ es_p' = <<Head(wire)>>
      /\ UNCHANGED <<cpu_state, received, stop_value, tcp_sndbuf, start_sent, connected,
                     init_message, dont_start_postcopy, source_vmmcall, cpu_task, m_type,
                     send_num, begun, fail_to_send_seq, seq_thread, tcp_sent,
                     dest_vmmcall>>
  BY DEF recv_accepted, deliver, sourceVars, marginVars
<1>2. Skip = 2 /\ Skip' = 1 BY <1>1 DEF Skip
<1>3. wire # <<>> /\ wire \in Seq(Message) BY <1>1 DEF HandoverInv, TypeOK, deliver
<1>4. Head(wire) = wire[1] /\ 1 \in 1 .. Len(wire) BY <1>3
<1>5. ~IsPiece(Head(wire)) BY <1>2, <1>4 DEF HandoverInv, StreamInv
<1>6. \A i \in 1 .. Len(es_p') : ~IsPiece(es_p'[i]) BY <1>1, <1>5
<1>7. /\ wire' \in Seq(Message) /\ Len(wire') = Len(wire) - 1 /\ Len(wire) \in Nat \ {0}
      /\ Head(wire) \in Message /\ unacked' \in 0 .. TCP_SND_BUF
      /\ Len(wire') + unacked' + tcp_sndbuf' = TCP_SND_BUF
      /\ StreamInv'
  BY <1>1, <1>2, <1>6, Delivered
<1>8. CpuWritten' <=> CpuWritten BY <1>1 DEF CpuWritten
<1>9. init_message = 1 /\ unacked \in Nat /\ unacked' = unacked + 1
  BY <1>1, <1>7 DEF HandoverInv, LinkInv, VmmcallInv, CpuWritten, TypeOK, deliver
<1>10. TypeOK'
  <2>1. es_p' \in Seq(Message) /\ Len(es_p') <= 1 BY <1>1, <1>7
  <2> QED BY <1>1, <1>7, <2>1 DEF HandoverInv, TypeOK
<1>11. LinkInv'
  <2>1. CpuWritten => Len(wire') >= 1 BY <1>2, <1>7 DEF HandoverInv, LinkInv
  <2>2. ~CpuWritten => Len(wire') = 0 /\ Len(wire') + unacked' <= 1
    <3>1. ~CpuWritten => Len(wire) = 1 /\ Len(wire) + unacked <= 1
      BY <1>2, <1>9 DEF HandoverInv, LinkInv
    <3> QED BY <1>7, <1>9, <3>1
  <2> QED BY <1>1, <1>2, <1>7, <1>8, <1>9, <2>1, <2>2 DEF LinkInv
<1>12. MarginInv' BY <1>1, <1>8 DEF HandoverInv, MarginInv
<1>13. VmmcallInv' BY <1>1 DEF HandoverInv, VmmcallInv
<1> QED BY <1>7, <1>10, <1>11, <1>12, <1>13 DEF HandoverInv

\* When the last piece arrives, the others have.
LEMMA LastPiece ==
  ASSUME HandoverInv, Skip = 0, wire # <<>>, wire[1].kind = "BUFF_MEM"
  PROVE  received \cup {PieceOf(wire[1])} = Piece
<1>1. PICK l : l = Len(wire) OBVIOUS
<1>2. l \in Nat \ {0} /\ 1 \in 1 .. l BY <1>1 DEF HandoverInv, TypeOK
<1>3. \A i \in 1 .. l : Carries(wire[i]) BY <1>1 DEF HandoverInv, StreamInv
<1>4. /\ wire[1].margin = MARGIN_BUFF /\ wire[1].batch_num = PIECES - 1
      /\ Before(wire[1], m_type, send_num) /\ PieceOf(wire[1]) \in Piece
  BY <1>2, <1>3 DEF Carries
<1>5. m_type = NO_MARGIN
  <2>1. SendSize(MARGIN_BUFF) = PIECES BY Numbers
  <2>2. m_type \in 0 .. NMargins + 2 /\ send_num \in Int BY Numbers DEF HandoverInv, TypeOK
  <2>3. m_type # NO_MARGIN => send_num < SendSize(m_type) BY DEF HandoverInv, MarginInv
  <2>4. MARGIN_BUFF < m_type \/ (MARGIN_BUFF = m_type /\ PIECES - 1 < send_num)
    BY <1>4 DEF Before
  <2>5. ~(MARGIN_BUFF = m_type /\ PIECES - 1 < send_num)
    BY <2>1, <2>2, <2>3, Numbers
  <2> QED BY <2>2, <2>4, <2>5, Numbers
<1>6. ASSUME NEW p \in Piece PROVE p \in received \cup {PieceOf(wire[1])}
  <2>1. Before(p, m_type, send_num) BY <1>5, Numbers DEF Before
  <2>2. CASE p \notin received
    <3>1. PICK i \in 1 .. l : p = PieceOf(wire[i])
      BY <1>1, <2>1, <2>2 DEF HandoverInv, StreamInv
    <3>2. CASE i > 1
      <4>1. Before(wire[1], wire[i].margin, wire[i].batch_num)
        BY <1>1, <1>2, <3>2 DEF HandoverInv, StreamInv
      <4>2. wire[i].margin = p.margin /\ wire[i].batch_num = p.batch_num
        BY <3>1 DEF PieceOf
      <4>3. p.margin \in 0 .. NMargins + 1 /\ p.batch_num \in 0 .. PIECES - 1 BY Numbers
      <4>4. MARGIN_BUFF < p.margin \/ PIECES - 1 < p.batch_num
        BY <1>4, <4>1, <4>2 DEF Before
      <4> QED BY <4>3, <4>4, Numbers
    <3>3. CASE i = 1 BY <3>1, <3>3
    <3> QED BY <1>2, <3>2, <3>3
  <2> QED BY <2>2
<1>7. received \subseteq Piece BY DEF HandoverInv, TypeOK
<1> QED BY <1>4, <1>6, <1>7

LEMMA ReceivedStep ==
  ASSUME HandoverInv, recv_received
  PROVE  HandoverInv'
<1>1. PICK m : m = Head(es_p \o wire) OBVIOUS
<1>2. /\ es_state = "ES_RECEIVED" /\ deliver /\ es_p' = <<>>
      /\ cpu_state' = (cpu_state \/ m.kind = "CPU")
      /\ received' = IF IsPiece(m) THEN received \cup {PieceOf(m)} ELSE received
      /\ stop_value' = (stop_value /\ m.kind # "BUFF_MEM")
      /\ UNCHANGED <<es_state, tcp_sndbuf, start_sent, connected,
                     init_message, dont_start_postcopy, source_vmmcall, cpu_task, m_type,
                     send_num, begun, fail_to_send_seq, seq_thread, tcp_sent,
                     dest_vmmcall>>
  BY <1>1 DEF recv_received, deliver, sourceVars, marginVars, IsPiece, PieceOf
<1>3. Skip = Len(es_p) /\ Skip' = 0 /\ Skip \in 0 .. 1
  <2>1. Skip = Len(es_p) BY <1>2, Zenon DEF Skip
  <2>2. Skip' = Len(es_p') BY <1>2, Zenon DEF Skip
  <2>3. Len(es_p') = 0 BY <1>2
  <2>4. Len(es_p) \in 0 .. 1
    <3>1. es_p \in Seq(Message) /\ Len(es_p) <= 1 BY DEF HandoverInv, TypeOK
    <3>2. PICK n : n = Len(es_p) OBVIOUS
    <3>3. n \in Nat /\ n <= 1 BY <3>1, <3>2
    <3>4. n \in 0 .. 1 BY <3>3
    <3> QED BY <3>2, <3>4, Zenon
  <2> QED BY <2>1, <2>2, <2>3, <2>4, Zenon
<1>4. /\ wire # <<>> /\ wire \in Seq(Message) /\ es_p \in Seq(Message)
      /\ Head(wire) = wire[1] /\ 1 \in 1 .. Len(wire)
  BY <1>2 DEF HandoverInv, TypeOK, deliver
\* The message behind the one that was kept, or one piece.
<1>5. \/ Skip = 1 /\ ~IsPiece(m) /\ received' = received
      \/ /\ Skip = 0 /\ m = wire[1] /\ Carries(m) /\ IsPiece(m)
         /\ received' = received \cup {PieceOf(m)}
  <2>1. CASE Skip = 1
    <3>1. Len(es_p) = 1 /\ 1 \in 1 .. Len(es_p) BY <1>3, <2>1
    <3>2. (es_p \o wire)[1] = es_p[1] /\ es_p \o wire \in Seq(Message) /\ es_p \o wire # <<>>
      BY <1>4, <3>1
    <3>3. m = es_p[1] BY <1>1, <3>2
    <3>4. ~IsPiece(m) BY <3>1, <3>3 DEF HandoverInv, StreamInv
    <3> QED BY <1>2, <2>1, <3>4
  <2>2. CASE Skip = 0
    <3>1. es_p = <<>> BY <1>3, <1>4, <2>2, EmptyIs
    <3>2. es_p \o wire = wire BY <1>4, <3>1
    <3>3. m = wire[1] BY <1>1, <1>4, <3>2
    <3>4. Carries(m) BY <1>4, <2>2, <3>3 DEF HandoverInv, StreamInv
    <3>5. IsPiece(m) BY <3>4 DEF Carries
    <3> QED BY <1>2, <2>2, <3>3, <3>4, <3>5
  <2> QED BY <1>3, <2>1, <2>2
<1>6. /\ wire' \in Seq(Message) /\ Len(wire') = Len(wire) - 1 /\ Len(wire) \in Nat \ {0}
      /\ unacked' \in 0 .. TCP_SND_BUF
      /\ Len(wire') + unacked' + tcp_sndbuf' = TCP_SND_BUF
      /\ StreamInv'
  <2>1. Len(es_p') = 0 BY <1>2
  <2>2. Skip' = IF Skip = 0 THEN 0 ELSE Skip - 1 BY <1>3
  <2>3. received \subseteq received' BY <1>5
  <2>4. Skip = 0 => PieceOf(Head(wire)) \in received' BY <1>4, <1>5
  <2>5. \A i \in 1 .. Len(es_p') : ~IsPiece(es_p'[i]) BY <2>1
  <2>6. Skip \in Nat BY <1>3
  <2> QED BY <1>2, <2>2, <2>3, <2>4, <2>5, <2>6, Delivered
<1>7. CpuWritten /\ CpuWritten'
  <2>1. ~CpuWritten => Len(wire) = IF init_message = 1 THEN Skip - 1 ELSE 0
    BY DEF HandoverInv, LinkInv
  <2>2. Len(wire) >= 1 BY <1>6
  <2>3. Skip - 1 <= 0 BY <1>3
  <2>4. CpuWritten BY <2>1, <2>2, <2>3
  <2> QED BY <1>2, <2>4 DEF CpuWritten
<1>8. TypeOK'
  <2>1. received' \subseteq Piece BY <1>5 DEF Carries, HandoverInv, TypeOK
  <2>2. es_p' \in Seq(Message) /\ Len(es_p') <= 1 BY <1>2
  <2>3. cpu_state' \in BOOLEAN /\ stop_value' \in BOOLEAN BY <1>2, Zenon
  <2> QED BY <1>2, <1>6, <2>1, <2>2, <2>3 DEF HandoverInv, TypeOK
<1>9. LinkInv' BY <1>2, <1>3, <1>6, <1>7 DEF HandoverInv, LinkInv
<1>10. MarginInv' BY <1>2, <1>7 DEF HandoverInv, MarginInv
<1>11. VmmcallInv'
  <2>1. ~stop_value' => ~stop_value \/ received' = Piece
    <3>1. CASE m.kind = "BUFF_MEM"
      <4>1. IsPiece(m) BY <3>1 DEF IsPiece
      <4>2. received' = Piece BY <1>4, <1>5, <3>1, <4>1, LastPiece
      <4> QED BY <4>2
    <3>2. CASE m.kind # "BUFF_MEM" BY <1>2, <3>2
    <3> QED BY <3>1, <3>2
  <2>2. received = Piece => received' = Piece BY <1>5 DEF Carries
  <2>3. dest_vmmcall = "migrated_guest" => ~stop_value'
    BY <1>2 DEF HandoverInv, VmmcallInv
  <2> QED BY <1>2, <2>1, <2>2, <2>3 DEF HandoverInv, VmmcallInv
<1> QED BY <1>6, <1>8, <1>9, <1>10, <1>11 DEF HandoverInv

LEMMA HandoverNext ==
  ASSUME Room
  PROVE  HandoverInv /\ [Next]_vars => HandoverInv'
<1> SUFFICES ASSUME HandoverInv, [Next]_vars PROVE HandoverInv' OBVIOUS
<1>1. CASE SourceStep
  <2>1. ASSUME NEW n \in 1 .. unacked, sent_event(n) PROVE HandoverInv' BY <2>1, AckStep
  <2> QED BY <1>1, <2>1, CallsStep, WriteStep DEF SourceStep
<1>2. CASE DestStep BY <1>2, CallsStep, AcceptedStep, ReceivedStep DEF DestStep
<1>3. CASE Operator BY <1>3, CallsStep, WriteStep DEF Operator
<1>4. CASE UNCHANGED vars
  <2>1. UNCHANGED <<wire, unacked, tcp_sndbuf, start_sent, connected, init_message,
                    dont_start_postcopy, source_vmmcall, cpu_task, m_type, send_num, begun,
                    fail_to_send_seq, seq_thread, tcp_sent, es_state, es_p, cpu_state,
                    received, stop_value, dest_vmmcall>>
    BY <1>4 DEF vars, linkVars, sourceVars, marginVars, destVars
  <2>2. Kept BY <2>1 DEF Kept, linkVars, marginVars
  <2>3. Skip' = Skip /\ (CpuWritten' <=> CpuWritten) BY <2>1 DEF Skip, CpuWritten
  <2>4. LinkInv' /\ StreamInv' /\ MarginInv' BY <2>1, <2>2, <2>3, KeptStands
  <2>5. TypeOK' BY <2>1 DEF HandoverInv, TypeOK
  <2>6. VmmcallInv' BY <2>1 DEF HandoverInv, VmmcallInv
  <2> QED BY <2>4, <2>5, <2>6 DEF HandoverInv
<1> QED BY <1>1, <1>2, <1>3, <1>4 DEF Next

-----------------------------------------------------------------------------
\* The invariant: the source writes one stream, what is on the wire is its end,
\* and the destination has what came before.
THEOREM HandoverInvariant ==
  ASSUME Room
  PROVE  Spec => []HandoverInv
BY HandoverInit, HandoverNext, PTL DEF Spec

\* seq_transmit_thread starts when the last margin has been handed to TCP, however
\* the acknowledgements that drove them were divided.
THEOREM MarginsAlwaysBeforeCopy ==
  ASSUME Room
  PROVE  Spec => []MarginsBeforeCopy
<1>1. HandoverInv => MarginsBeforeCopy
  <2> SUFFICES ASSUME HandoverInv PROVE MarginsBeforeCopy OBVIOUS
  <2>1. seq_thread => m_type = NO_MARGIN /\ tcp_sent = "none"
    BY DEF HandoverInv, MarginInv
  <2>2. ~CpuWritten => m_type = 0 BY DEF HandoverInv, MarginInv
  <2>3. NO_MARGIN # 0 BY Numbers
  <2>4. CpuWritten /\ tcp_sent = "none" => begun = 0 .. MARGIN_BUFF
    BY DEF HandoverInv, MarginInv
  <2> QED BY <2>1, <2>2, <2>3, <2>4 DEF MarginsBeforeCopy, HandoverInv
<1> QED BY <1>1, HandoverInvariant, PTL

\* load_guest_state_to_vmcs runs when every piece of the margins and the virtio
\* buffers is there, in whichever order the two vmmcalls were made.
THEOREM StartsWithAllMargins ==
  ASSUME Room
  PROVE  Spec => []StartsWithMargins
<1>1. HandoverInv => StartsWithMargins BY DEF HandoverInv, VmmcallInv, StartsWithMargins
<1> QED BY <1>1, HandoverInvariant, PTL
=============================================================================
