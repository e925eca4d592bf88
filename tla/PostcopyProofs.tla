--------------------------- MODULE PostcopyProofs ---------------------------
(***************************************************************************)
(* Proofs about module Postcopy, for every number of units, pieces per     *)
(* unit, messages in the send buffer and failures of tcp_write().          *)
(***************************************************************************)
EXTENDS Postcopy, SequenceTheorems, TLAPS

-----------------------------------------------------------------------------
(***************************************************************************)
(* Type correctness.  TypeOK is not inductive: that the room of the send   *)
(* buffer never exceeds it needs the count of every message (Conserved),   *)
(* and that an answer is never made for the address 0xffffffffffffffff of  *)
(* echo_client_init needs that nothing is sent before the first request    *)
(* (Asked).                                                                *)
(***************************************************************************)
Conserved == Len(wire) + unacked + tcp_sndbuf = TCP_SND_BUF

Quiet ==
  /\ pc["net"] = "idle" /\ pc["seq"] = "loop"
  /\ ~no_request /\ ~request_recv_disrupted /\ ~migration_done
  /\ tcp_sent = "none"
  /\ fail_to_send \subseteq {"send_margin"}
Asked == requested_addr \in Address \/ Quiet

TypeInv == TypeOK /\ Conserved /\ Asked

\* What the operations of the connection keep: they are a FIFO that neither
\* loses nor makes room.
LinkInv == LinkTypeOK /\ Conserved

LEMMA WriteOk ==
  ASSUME LinkInv, NEW m \in Message, tcp_write_ok(m)
  PROVE  LinkInv'
BY LinkAssumption, SMTT(30) DEF LinkInv, LinkTypeOK, Conserved, tcp_write_ok

LEMMA WriteErr ==
  ASSUME LinkInv, tcp_write_err
  PROVE  LinkInv'
BY LinkAssumption, SMTT(30) DEF LinkInv, LinkTypeOK, Conserved, tcp_write_err

LEMMA Ack ==
  ASSUME LinkInv, NEW n \in Nat, tcp_ack(n)
  PROVE  LinkInv'
BY LinkAssumption, SMTT(30) DEF LinkInv, LinkTypeOK, Conserved, tcp_ack

LEMMA WriteRequest ==
  ASSUME LinkInv, NEW a \in Address, tcp_write_request(a)
  PROVE  LinkInv'
<1>1. requests' \in Seq(Address)
  BY DEF LinkInv, LinkTypeOK, tcp_write_request
<1>2. write_failures' \in 0 .. MaxWriteFailures
  BY LinkAssumption DEF LinkInv, LinkTypeOK, tcp_write_request
<1> QED BY <1>1, <1>2 DEF LinkInv, LinkTypeOK, Conserved, tcp_write_request

LEMMA Deliver ==
  ASSUME LinkInv, tcp_deliver
  PROVE  LinkInv'
<1>1. Len(wire) >= 1 /\ wire' \in Seq(Message) /\ Len(wire') = Len(wire) - 1
  BY SMTT(30) DEF LinkInv, LinkTypeOK, tcp_deliver
<1> QED BY <1>1, LinkAssumption, SMTT(30)
        DEF LinkInv, LinkTypeOK, Conserved, tcp_deliver

LEMMA Stay ==
  ASSUME LinkInv, UNCHANGED linkVars
  PROVE  LinkInv'
BY DEF LinkInv, LinkTypeOK, Conserved, linkVars

\* The source's half of TypeInv.
SourceInv == SourceTypeOK /\ Asked

LEMMA Constants ==
  /\ 0 \in Unit /\ Unit \subseteq Nat /\ Batch \subseteq Nat
  /\ \A u \in Unit : Aligned(u) \in Address
  /\ \A a \in Address : a.unit \in Unit
BY LinkAssumption DEF Unit, Batch, Address, Aligned

\* A piece of memory is filled into a message.
LEMMA Filled ==
  ASSUME NEW m \in Message, NEW last \in BOOLEAN, NEW n \in Nat, NEW u \in Unit,
         NEW i \in Nat
  PROVE  [m EXCEPT !.kind = IF last THEN "REQ_MEM" ELSE @,
                   !.batch_num = n,
                   !.data = [unit |-> u, num |-> i]] \in Message
<1>1. [unit |-> u, num |-> i] \in Piece BY DEF Piece
<1>2. (IF last THEN "REQ_MEM" ELSE m.kind) \in MemKind \cup {"MIG_DONE"}
  BY DEF Message, MemKind
<1> QED BY <1>1, <1>2 DEF Message

\* A thread goes to another place of the code.
LEMMA Goto ==
  ASSUME pc \in [Thread -> Location], NEW t \in Thread, NEW l \in Location,
         goto(t, l)
  PROVE  pc' \in [Thread -> Location] /\ pc'[t] = l
BY DEF goto

LEMMA Call ==
  ASSUME pc \in [Thread -> Location], fn \in [Thread -> Sender],
         NEW t \in Thread, NEW f \in Sender, call(t, f)
  PROVE  /\ pc' \in [Thread -> Location] /\ pc'[t] = "send"
         /\ fn' \in [Thread -> Sender]
BY Goto DEF call, Location

\* The unit of an answer is a unit: no answer is made before a request.
LEMMA AskedFor ==
  ASSUME SourceInv, ~Quiet
  PROVE  requested_addr \in Address /\ requested_addr.unit \in Unit
BY Constants DEF SourceInv, Asked

\* A thread in a send function.
LEMMA SendKeepsType ==
  ASSUME SourceInv, LinkInv, NEW t \in Thread, SendStep(t)
  PROVE  SourceInv' /\ LinkInv'
<1> USE Constants
<1>1. CASE send_no_room(t)
  <2>1. LinkInv' BY <1>1, Stay DEF send_no_room
  <2>2. SourceTypeOK'
    BY <1>1, SMTT(30) DEF send_no_room, SourceInv, SourceTypeOK, copyVars, goto,
       Return, Location, Thread, Step
  <2>3. Asked'
    BY <1>1, SMTT(30) DEF send_no_room, SourceInv, SourceTypeOK, copyVars, goto,
       Return, Thread, Step, Asked, Quiet
  <2> QED BY <2>1, <2>2, <2>3 DEF SourceInv
<1>2. CASE fill_margin(t)
  <2>1. LinkInv' BY <1>2, Stay DEF fill_margin
  <2>2. SourceTypeOK'
    <3>1. seq_msg' \in Message
      <4> DEFINE lst == postcopy_state.send_num + 1 >= BATCH_SIZE
                        /\ requested_addr = Aligned(postcopy_state.start_addr)
      <4>1. lst \in BOOLEAN /\ batch["send_margin"] \in Nat
        BY DEF SourceInv, SourceTypeOK, Sender
      <4>2. postcopy_state.start_addr \in Unit /\ postcopy_state.send_num \in Nat
        BY DEF SourceInv, SourceTypeOK
      <4> HIDE DEF lst
      <4>3. seq_msg' = [seq_msg EXCEPT
              !.kind = IF lst THEN "REQ_MEM" ELSE @,
              !.batch_num = batch["send_margin"],
              !.data = [unit |-> postcopy_state.start_addr,
                        num |-> postcopy_state.send_num]]
        BY <1>2 DEF fill_margin, lst
      <4> QED BY <4>1, <4>2, <4>3, Filled DEF SourceInv, SourceTypeOK
    <3>2. postcopy_state' \in [start_addr : Unit, send_num : Nat]
      BY <1>2, SMTT(30) DEF fill_margin, SourceInv, SourceTypeOK
    <3>3. batch' \in [Sender -> Nat]
      BY <1>2, SMTT(30) DEF fill_margin, SourceInv, SourceTypeOK
    <3>4. tcp_sent' \in Callback
      BY <1>2 DEF fill_margin, Callback, Sender
    <3>5. pc' \in [Thread -> Location]
      BY <1>2, Goto DEF fill_margin, SourceInv, SourceTypeOK, Location
    <3> QED BY <1>2, <3>1, <3>2, <3>3, <3>4, <3>5
            DEF fill_margin, SourceInv, SourceTypeOK, flagVars
  <2>3. Asked'
    BY <1>2, SMTT(30) DEF fill_margin, SourceInv, SourceTypeOK, goto,
       Thread, Step, Asked, Quiet
  <2> QED BY <2>1, <2>2, <2>3 DEF SourceInv
<1>3. CASE fill_requested(t)
  <2>1. LinkInv' BY <1>3, Stay DEF fill_requested
  <2>2. SourceTypeOK'
    <3> DEFINE lst == batch[fn[t]] + 1 >= BATCH_SIZE
    <3>0. fn[t] \in Sender /\ batch[fn[t]] \in Nat /\ lst \in BOOLEAN
      BY DEF SourceInv, SourceTypeOK
    <3>1. msg' \in Message
      <4>1. requested_offset \in Unit BY DEF SourceInv, SourceTypeOK
      <4> HIDE DEF lst
      <4>2. msg' = [msg EXCEPT
              !.kind = IF lst THEN "REQ_MEM" ELSE @,
              !.batch_num = batch[fn[t]],
              !.data = [unit |-> requested_offset, num |-> batch[fn[t]]]]
        BY <1>3 DEF fill_requested, lst
      <4> QED BY <3>0, <4>1, <4>2, Filled DEF SourceInv, SourceTypeOK
    <3>2. batch' \in [Sender -> Nat]
      BY <1>3, <3>0, SMTT(30) DEF fill_requested, SourceInv, SourceTypeOK
    <3>3. tcp_sent' \in Callback
      BY <1>3, <3>0 DEF fill_requested, Callback
    <3>4. pc' \in [Thread -> Location]
      BY <1>3, Goto DEF fill_requested, SourceInv, SourceTypeOK, Location
    <3> QED BY <1>3, <3>1, <3>2, <3>3, <3>4
            DEF fill_requested, SourceInv, SourceTypeOK, flagVars
  <2>3. Asked'
    BY <1>3, SMTT(30) DEF fill_requested, SourceInv, SourceTypeOK, goto,
       Thread, Step, Asked, Quiet
  <2> QED BY <2>1, <2>2, <2>3 DEF SourceInv
<1>4. CASE write_piece(t)
  <2>1. LinkInv'
    BY <1>4, WriteOk, WriteErr
       DEF write_piece, write_ok, SourceInv, SourceTypeOK
  <2>2. SourceTypeOK'
    BY <1>4, SMTT(30) DEF write_piece, SourceInv, SourceTypeOK, flagVars,
       copyVars, goto, Return, Location, Thread
  <2>3. Asked'
    BY <1>4, SMTT(30) DEF write_piece, SourceInv, SourceTypeOK, copyVars, goto,
       Thread, Step, Asked, Quiet
  <2> QED BY <2>1, <2>2, <2>3 DEF SourceInv
<1>5. CASE write_last_margin(t)
  <2>1. LinkInv'
    BY <1>5, WriteOk, WriteErr
       DEF write_last_margin, write_ok, SourceInv, SourceTypeOK
  <2>2. SourceTypeOK'
    <3>1. is_transmitting' \in BOOLEAN /\ seq_thread_is_transmitting' \in BOOLEAN
      BY <1>5, Zenon DEF write_last_margin, sending_over, SourceInv, SourceTypeOK
    <3>2. pc' \in [Thread -> Location]
      BY <1>5, Goto
         DEF write_last_margin, SourceInv, SourceTypeOK, Location, Return
    <3> QED BY <1>5, <3>1, <3>2
            DEF write_last_margin, SourceInv, SourceTypeOK, copyVars
  <2>3. Asked'
    BY <1>5, SMTT(30) DEF write_last_margin, SourceInv, SourceTypeOK, copyVars,
       goto, Thread, Step, Asked, Quiet
  <2> QED BY <2>1, <2>2, <2>3 DEF SourceInv
<1>6. CASE write_last_requested(t)
  <2>1. LinkInv'
    BY <1>6, WriteOk, WriteErr
       DEF write_last_requested, write_ok, SourceInv, SourceTypeOK
  <2>2. SourceTypeOK'
    BY <1>6, Goto DEF write_last_requested, SourceInv, SourceTypeOK,
       flagVars, copyVars, Location
  <2>3. Asked'
    BY <1>6, SMTT(30) DEF write_last_requested, SourceInv, SourceTypeOK,
       copyVars, goto, Thread, Step, Asked, Quiet
  <2> QED BY <2>1, <2>2, <2>3 DEF SourceInv
<1>7. CASE mark_requested(t)
  <2>1. LinkInv' BY <1>7, Stay DEF mark_requested
  <2>2. requested_addr \in Address /\ requested_addr.unit \in Unit
    <3>1. ~Quiet BY <1>7 DEF mark_requested, Step, Quiet, Thread
    <3> QED BY <3>1, AskedFor
  <2>3. SourceTypeOK'
    <3>1. bitarray' \subseteq Unit
      BY <1>7, <2>2 DEF mark_requested, set_bitarray, SourceInv, SourceTypeOK
    <3>2. pc' \in [Thread -> Location]
      BY <1>7, Goto DEF mark_requested, SourceInv, SourceTypeOK, Location, Return
    <3>3. no_request' \in BOOLEAN /\ request_recv_disrupted' \in BOOLEAN
      BY <1>7, Zenon DEF mark_requested, SourceInv, SourceTypeOK
    <3> QED BY <1>7, <3>1, <3>2, <3>3
            DEF mark_requested, SourceInv, SourceTypeOK
  <2>4. Asked' BY <1>7, <2>2 DEF mark_requested, Asked
  <2> QED BY <2>1, <2>3, <2>4 DEF SourceInv
<1> QED BY <1>1, <1>2, <1>3, <1>4, <1>5, <1>6, <1>7 DEF SendStep

-----------------------------------------------------------------------------
\* The set-up of a requested send, by either thread.
LEMMA StartKeepsType ==
  ASSUME SourceInv, LinkInv, ~Quiet, NEW t \in Thread, NEW f \in Sender,
         start_requested(t, f)
  PROVE  SourceInv' /\ LinkInv'
<1>1. requested_addr.unit \in Unit BY AskedFor
<1>2. requested_addr' \in Address
  BY <1>1, Constants DEF start_requested
<1>3. LinkInv' BY Stay DEF start_requested
<1>4. msg' \in Message
  <2>1. msg \in Message /\ requested_addr.unit \in Unit
    BY <1>1 DEF SourceInv, SourceTypeOK
  <2>2. msg' = [msg EXCEPT !.kind = "MEM", !.addr = requested_addr.unit]
    BY DEF start_requested
  <2> QED BY <2>1, <2>2 DEF Message, MemKind
<1>5. pc' \in [Thread -> Location] /\ fn' \in [Thread -> Sender]
  BY Call DEF start_requested, SourceInv, SourceTypeOK
<1>6. SourceTypeOK'
  BY <1>1, <1>2, <1>4, <1>5
     DEF start_requested, SourceInv, SourceTypeOK, Callback
<1> QED BY <1>2, <1>3, <1>6 DEF SourceInv, Asked

\* The network thread at the source.
LEMMA NetKeepsType ==
  ASSUME SourceInv, LinkInv, NetStep
  PROVE  SourceInv' /\ LinkInv'
<1> USE Constants
<1>1. CASE echo_client_recv
  <2>1. Head(requests) \in Address /\ Tail(requests) \in Seq(Address)
    BY <1>1 DEF echo_client_recv, LinkInv, LinkTypeOK
  <2>2. LinkInv'
    BY <1>1, <2>1 DEF echo_client_recv, LinkInv, LinkTypeOK, Conserved
  <2>3. pc' \in [Thread -> Location]
    <3>1. PICK l \in {"idle", "check"} : goto("net", l)
      BY <1>1 DEF echo_client_recv
    <3> QED BY <3>1, Goto DEF SourceInv, SourceTypeOK, Location, Thread
  <2>4. requested_addr' \in Address BY <1>1, <2>1 DEF echo_client_recv
  <2>5. SourceTypeOK'
    BY <1>1, <2>3, <2>4 DEF echo_client_recv, SourceInv, SourceTypeOK, flagVars
  <2> QED BY <2>2, <2>4, <2>5 DEF SourceInv, Asked
<1>2. CASE request_recv
  <2>1. ~Quiet BY <1>2 DEF request_recv, Step, Quiet
  <2>2. CASE start_requested("net", "postcopy_requested")
    BY <2>1, <2>2, StartKeepsType DEF Thread, Sender
  <2>3. CASE ~start_requested("net", "postcopy_requested")
    <3>1. /\ request_recv_disrupted' = TRUE
          /\ goto("net", "idle")
          /\ UNCHANGED <<linkVars, copyVars, fn, no_request, is_transmitting,
                         seq_thread_is_transmitting, fail_to_send,
                         migration_done, migration_done_msg_sent>>
      BY <1>2, <2>3 DEF request_recv
    <3>2. LinkInv' BY <3>1, Stay
    <3>3. pc' \in [Thread -> Location]
      BY <3>1, Goto DEF SourceInv, SourceTypeOK, Location, Thread
    <3>4. SourceTypeOK'
      BY <3>1, <3>3 DEF SourceInv, SourceTypeOK, copyVars
    <3>5. requested_addr' \in Address BY <2>1, <3>1, AskedFor DEF copyVars
    <3> QED BY <3>2, <3>4, <3>5 DEF SourceInv, Asked
  <2> QED BY <2>2, <2>3
<1>3. ASSUME NEW n \in 1 .. unacked, sent_event(n)
      PROVE  SourceInv' /\ LinkInv'
  <2>1. LinkInv'
    BY <1>3, Ack DEF sent_event, LinkInv, LinkTypeOK
  <2>2. pc' \in [Thread -> Location] /\ fn' \in [Thread -> Sender]
    <3>1. CASE tcp_sent \in Sender
      BY <1>3, <3>1, Call DEF sent_event, SourceInv, SourceTypeOK, Thread
    <3>2. CASE tcp_sent \notin Sender
      BY <1>3, <3>2 DEF sent_event, SourceInv, SourceTypeOK
    <3> QED BY <3>1, <3>2
  <2>3. migration_done_msg_sent' \in BOOLEAN
    BY <1>3, Zenon DEF sent_event, SourceInv, SourceTypeOK
  <2>4. SourceTypeOK'
    BY <1>3, <2>2, <2>3 DEF sent_event, SourceInv, SourceTypeOK, copyVars
  <2>5. Asked'
    <3>1. CASE Quiet
      <4>1. UNCHANGED <<pc, fn>>
        BY <1>3, <3>1 DEF sent_event, Quiet, Sender
      <4> QED BY <1>3, <3>1, <4>1 DEF sent_event, Asked, Quiet, copyVars
    <3>2. CASE ~Quiet
      BY <1>3, <3>2, AskedFor DEF sent_event, Asked, copyVars
    <3> QED BY <3>1, <3>2
  <2> QED BY <2>1, <2>4, <2>5 DEF SourceInv
<1>4. CASE SendStep("net")
  BY <1>4, SendKeepsType DEF Thread
<1> QED BY <1>1, <1>2, <1>3, <1>4 DEF NetStep

\* The background thread outside the send functions.
SeqOwnStep ==
  \/ loop_free \/ loop_resend \/ loop_done \/ postcopy_seq_task
  \/ \E u \in Unit : get_start_addr(u)
  \/ no_start_addr \/ set_start_bitarray \/ send_disrupted_addr
  \/ send_migration_done \/ write_migration_done

LEMMA SeqIsAsked ==
  ASSUME SourceInv, SeqOwnStep
  PROVE  ~Quiet
BY Zenon DEF SeqOwnStep, loop_free, loop_resend, loop_done, loop_seq,
   postcopy_seq_task, get_start_addr, no_start_addr, set_start_bitarray,
   send_disrupted_addr, send_migration_done, write_migration_done, Step, Quiet,
   Interrupted

LEMMA SeqKeepsType ==
  ASSUME SourceInv, LinkInv, SeqStep
  PROVE  SourceInv' /\ LinkInv'
<1> USE Constants
<1>1. CASE SendStep("seq")
  BY <1>1, SendKeepsType DEF Thread
<1>2. CASE SeqOwnStep
  <2>1. requested_addr \in Address /\ requested_addr.unit \in Unit /\ ~Quiet
    BY <1>2, SeqIsAsked, AskedFor
  <2>2. /\ pc \in [Thread -> Location] /\ fn \in [Thread -> Sender]
        /\ "seq" \in Thread
    BY DEF SourceInv, SourceTypeOK, Thread
  <2>3. CASE loop_free
    <3>1. pc' \in [Thread -> Location]
      BY <2>2, <2>3, Goto DEF loop_free, loop_seq, Location
    <3>2. LinkInv' BY <2>3, Stay DEF loop_free
    <3> QED BY <2>1, <2>3, <3>1, <3>2
            DEF loop_free, SourceInv, SourceTypeOK, Asked, flagVars, copyVars
  <2>4. CASE loop_resend
    <3>1. Interrupted \in Sender BY DEF Interrupted, Sender
    <3>2. pc' \in [Thread -> Location] /\ fn' \in [Thread -> Sender]
      BY <2>2, <2>4, <3>1, Call DEF loop_resend
    <3>3. LinkInv' BY <2>4, Stay DEF loop_resend
    <3> QED BY <2>1, <2>4, <3>2, <3>3
            DEF loop_resend, SourceInv, SourceTypeOK, Asked, copyVars
  <2>5. CASE loop_done
    <3>1. pc' \in [Thread -> Location]
      BY <2>2, <2>5, Goto DEF loop_done, loop_seq, Location
    <3>2. LinkInv' BY <2>5, Stay DEF loop_done
    <3> QED BY <2>1, <2>5, <3>1, <3>2
            DEF loop_done, SourceInv, SourceTypeOK, Asked, flagVars, copyVars
  <2>6. CASE postcopy_seq_task
    <3>1. pc' \in [Thread -> Location]
      BY <2>2, <2>6, Goto DEF postcopy_seq_task, Location
    <3>2. LinkInv' BY <2>6, Stay DEF postcopy_seq_task
    <3> QED BY <2>1, <2>6, <3>1, <3>2
            DEF postcopy_seq_task, SourceInv, SourceTypeOK, Asked, copyVars
  <2>7. ASSUME NEW u \in Unit, get_start_addr(u)
        PROVE  SourceInv' /\ LinkInv'
    <3>1. pc' \in [Thread -> Location]
      BY <2>2, <2>7, Goto DEF get_start_addr, Location
    <3>2. LinkInv' BY <2>7, Stay DEF get_start_addr
    <3>3. start_addr' \in 0 .. NUnits
      BY <2>7, LinkAssumption DEF get_start_addr, get_next_addr, Unit
    <3>4. postcopy_state' \in [start_addr : Unit, send_num : Nat]
      BY <2>7 DEF get_start_addr, set_send_margin
    <3>5. seq_msg' \in Message
      <4>1. seq_msg' = [seq_msg EXCEPT !.kind = "MEM", !.addr = u]
        BY <2>7 DEF get_start_addr
      <4> QED BY <4>1 DEF SourceInv, SourceTypeOK, Message, MemKind
    <3> QED BY <2>1, <2>7, <3>1, <3>2, <3>3, <3>4, <3>5
            DEF get_start_addr, SourceInv, SourceTypeOK, Asked, flagVars
  <2>8. CASE no_start_addr
    <3>1. pc' \in [Thread -> Location]
      BY <2>2, <2>8, Goto DEF no_start_addr, Location
    <3>2. LinkInv' BY <2>8, Stay DEF no_start_addr
    <3>3. start_addr' \in 0 .. NUnits
      BY <2>8, LinkAssumption DEF no_start_addr
    <3> QED BY <2>1, <2>8, <3>1, <3>2, <3>3
            DEF no_start_addr, sending_over, SourceInv, SourceTypeOK, Asked
  <2>9. CASE set_start_bitarray
    <3>1. pc' \in [Thread -> Location] /\ fn' \in [Thread -> Sender]
      BY <2>2, <2>9, Call DEF set_start_bitarray, Sender
    <3>2. LinkInv' BY <2>9, Stay DEF set_start_bitarray
    <3>3. bitarray' \subseteq Unit
      BY <2>9 DEF set_start_bitarray, set_bitarray, SourceInv, SourceTypeOK
    <3> QED BY <2>1, <2>9, <3>1, <3>2, <3>3
            DEF set_start_bitarray, SourceInv, SourceTypeOK, Asked, flagVars
  <2>10. CASE send_disrupted_addr
    <3>1. CASE start_requested("seq", "postcopy_requested_disrupted")
      BY <2>1, <2>2, <3>1, StartKeepsType DEF Sender
    <3>2. CASE ~start_requested("seq", "postcopy_requested_disrupted")
      <4>1. /\ request_recv_disrupted' = FALSE
            /\ goto("seq", "loop")
            /\ UNCHANGED <<linkVars, copyVars, fn, no_request,
                           is_transmitting, seq_thread_is_transmitting,
                           fail_to_send, migration_done,
                           migration_done_msg_sent>>
        BY <2>10, <3>2 DEF send_disrupted_addr
      <4>2. pc' \in [Thread -> Location]
        BY <2>2, <4>1, Goto DEF Location
      <4>3. LinkInv' BY <4>1, Stay
      <4> QED BY <2>1, <4>1, <4>2, <4>3
              DEF SourceInv, SourceTypeOK, Asked, copyVars
    <3> QED BY <3>1, <3>2
  <2>11. CASE send_migration_done
    <3>1. pc' \in [Thread -> Location]
      <4>1. PICK l \in {"write_done", "loop"} : goto("seq", l)
        BY <2>11 DEF send_migration_done
      <4> QED BY <2>2, <4>1, Goto DEF Location
    <3>2. LinkInv' BY <2>11, Stay DEF send_migration_done
    <3>3. seq_msg' \in Message
      <4>1. seq_msg' = [seq_msg EXCEPT !.kind = "MIG_DONE"] \/ seq_msg' = seq_msg
        BY <2>11 DEF send_migration_done
      <4> QED BY <4>1 DEF SourceInv, SourceTypeOK, Message
    <3>4. tcp_sent' \in Callback /\ migration_done' \in BOOLEAN
      BY <2>11, Zenon
         DEF send_migration_done, SourceInv, SourceTypeOK, Callback
    <3> QED BY <2>1, <2>11, <3>1, <3>2, <3>3, <3>4
            DEF send_migration_done, SourceInv, SourceTypeOK, Asked
  <2>12. CASE write_migration_done
    <3>1. pc' \in [Thread -> Location]
      BY <2>2, <2>12, Goto DEF write_migration_done, Location
    <3>2. LinkInv'
      BY <2>12, WriteOk, WriteErr
         DEF write_migration_done, SourceInv, SourceTypeOK
    <3> QED BY <2>1, <2>12, <3>1, <3>2
            DEF write_migration_done, SourceInv, SourceTypeOK, Asked, copyVars
  <2> QED BY <1>2, <2>3, <2>4, <2>5, <2>6, <2>7, <2>8, <2>9, <2>10, <2>11, <2>12
          DEF SeqOwnStep
<1> QED BY <1>1, <1>2 DEF SeqStep, SeqOwnStep

-----------------------------------------------------------------------------
\* The destination.
LEMMA Received ==
  ASSUME LinkInv, NEW k, receive(k)
  PROVE  LinkInv' /\ Head(wire).addr \in Unit /\ Head(wire).batch_num \in Nat
<1>1. LinkInv' BY Deliver DEF receive
<1>2. Head(wire) \in Message BY DEF receive, LinkInv, LinkTypeOK
<1> QED BY <1>1, <1>2 DEF Message

LEMMA DestKeepsType ==
  ASSUME DestTypeOK, LinkInv, DestStep
  PROVE  DestTypeOK' /\ LinkInv'
<1> USE Constants
<1>1. CASE recv_req_mem
  <2>1. /\ LinkInv' /\ Head(wire).addr \in Unit
        /\ Head(wire).batch_num \in Nat
    BY <1>1, Received DEF recv_req_mem
  <2>2. mem' \subseteq [unit : Unit, num : Nat]
    BY <1>1, <2>1 DEF recv_req_mem, store, DestTypeOK
  <2>3. marking' \in 0 .. NUnits
    BY <1>1, <2>1, LinkAssumption DEF recv_req_mem, Unit
  <2> QED BY <1>1, <2>1, <2>2, <2>3 DEF recv_req_mem, DestTypeOK
<1>2. CASE mark_req_mem
  <2>1. marking \in Unit /\ NUnits \in 0 .. NUnits
    BY <1>2, LinkAssumption DEF mark_req_mem, DestTypeOK, Unit
  <2>2. LinkInv' BY <1>2, Stay DEF mark_req_mem
  <2> QED BY <1>2, <2>1, <2>2 DEF mark_req_mem, DestTypeOK
<1>3. CASE recv_mem
  <2>1. /\ LinkInv' /\ Head(wire).addr \in Unit
        /\ Head(wire).batch_num \in Nat
    BY <1>3, Received DEF recv_mem
  <2>2. mem' \subseteq [unit : Unit, num : Nat]
    BY <1>3, <2>1 DEF recv_mem, store, DestTypeOK
  <2>3. server_bitarray' \subseteq Unit
    BY <1>3, <2>1 DEF recv_mem, DestTypeOK
  <2> QED BY <1>3, <2>1, <2>2, <2>3 DEF recv_mem, DestTypeOK
<1>4. CASE recv_mig_done
  BY <1>4, Received DEF recv_mig_done, recvVars, DestTypeOK
<1>5. CASE echo_server_reply_request
  <2>1. vcpu \in [at : VcpuLocation, gphys : Address] BY DEF DestTypeOK
  <2>2. LinkInv'
    <3>1. vcpu.gphys \in Address BY <2>1
    <3> QED BY <1>5, <3>1, Stay, WriteRequest DEF echo_server_reply_request
  <2>3. vcpu' \in [at : VcpuLocation, gphys : Address]
    BY <1>5, <2>1 DEF echo_server_reply_request, move, VcpuLocation
  <2>4. ept_recved' \in BOOLEAN
    BY <1>5, Zenon DEF echo_server_reply_request, DestTypeOK
  <2> QED BY <1>5, <2>2, <2>3, <2>4
          DEF echo_server_reply_request, recvVars, DestTypeOK
<1>6. CASE wait_ept_recved
  <2>1. LinkInv' BY <1>6, Stay DEF wait_ept_recved
  <2>2. vcpu' \in [at : VcpuLocation, gphys : Address]
    BY <1>6 DEF wait_ept_recved, move, VcpuLocation, DestTypeOK
  <2> QED BY <1>6, <2>1, <2>2 DEF wait_ept_recved, recvVars, DestTypeOK
<1>7. CASE vt_ept_map_page
  <2>1. LinkInv' BY <1>7, Stay DEF vt_ept_map_page
  <2>2. /\ vcpu' \in [at : VcpuLocation, gphys : Address]
        /\ mapped' \subseteq Unit
    BY <1>7 DEF vt_ept_map_page, move, VcpuLocation, DestTypeOK
  <2>3. ept_recved' \in BOOLEAN
    BY <1>7, Zenon DEF vt_ept_map_page, DestTypeOK
  <2> QED BY <1>7, <2>1, <2>2, <2>3 DEF vt_ept_map_page, recvVars, DestTypeOK
<1>8. ASSUME NEW a \in Address, vt_ept_violation(a)
      PROVE  DestTypeOK' /\ LinkInv'
  <2>1. LinkInv' BY <1>8, Stay DEF vt_ept_violation
  <2>2. vcpu' \in [at : VcpuLocation, gphys : Address]
    BY <1>8 DEF vt_ept_violation, VcpuLocation
  <2> QED BY <1>8, <2>1, <2>2 DEF vt_ept_violation, recvVars, DestTypeOK
<1> QED BY <1>1, <1>2, <1>3, <1>4, <1>5, <1>6, <1>7, <1>8
        DEF DestStep, echo_recv, VcpuStep

-----------------------------------------------------------------------------
LEMMA InitType == Init => TypeInv
<1> SUFFICES ASSUME Init PROVE TypeInv OBVIOUS
<1> USE Constants
<1>1. LinkInv
  <2>1. <<>> \in Seq(Message) /\ <<>> \in Seq(Address) /\ Len(<<>>) = 0
    OBVIOUS
  <2> QED BY <2>1, LinkAssumption
          DEF Init, LinkInit, LinkInv, LinkTypeOK, Conserved
<1>2. PICK sent \in SUBSET Unit : SourceInit(sent) /\ DestInit(sent)
  BY DEF Init
<1>3. SourceTypeOK
  <2>1. BlankMessage \in Message
    <3>1. [unit |-> 0, num |-> 0] \in Piece BY DEF Piece
    <3> QED BY <3>1 DEF BlankMessage, Message, MemKind
  <2>2. /\ pc \in [Thread -> Location] /\ fn \in [Thread -> Sender]
        /\ batch \in [Sender -> Nat]
    BY <1>2 DEF SourceInit, Location, Sender
  <2>3. /\ start_addr \in 0 .. NUnits
        /\ postcopy_state \in [start_addr : Unit, send_num : Nat]
    BY <1>2, LinkAssumption DEF SourceInit
  <2> QED BY <1>2, <2>1, <2>2, <2>3
          DEF SourceInit, SourceTypeOK, Callback, Sender
<1>4. Quiet BY <1>2 DEF SourceInit, Quiet, Thread
<1>5. DestTypeOK
  <2>1. mem \subseteq [unit : Unit, num : Nat] BY <1>2 DEF DestInit
  <2>2. marking \in 0 .. NUnits BY <1>2, LinkAssumption DEF DestInit
  <2>3. vcpu \in [at : VcpuLocation, gphys : Address]
    BY <1>2 DEF DestInit, VcpuLocation
  <2> QED BY <1>2, <2>1, <2>2, <2>3 DEF DestInit, DestTypeOK
<1> QED BY <1>1, <1>3, <1>4, <1>5
        DEF TypeInv, TypeOK, LinkInv, Asked

LEMMA NextType == TypeInv /\ [Next]_vars => TypeInv'
<1> SUFFICES ASSUME TypeInv, [Next]_vars PROVE TypeInv' OBVIOUS
<1>1. SourceInv /\ LinkInv /\ DestTypeOK
  BY DEF TypeInv, TypeOK, SourceInv, LinkInv
<1>2. ASSUME UNCHANGED destVars PROVE DestTypeOK'
  BY <1>1, <1>2 DEF destVars, recvVars, DestTypeOK
<1>3. ASSUME UNCHANGED sourceVars PROVE SourceInv'
  BY <1>1, <1>3 DEF sourceVars, flagVars, copyVars, SourceInv, SourceTypeOK,
     Asked, Quiet
<1>4. SourceInv' /\ LinkInv' /\ DestTypeOK'
  <2>1. CASE NetStep /\ UNCHANGED destVars
    BY <1>1, <1>2, <2>1, NetKeepsType
  <2>2. CASE SeqStep /\ UNCHANGED destVars
    BY <1>1, <1>2, <2>2, SeqKeepsType
  <2>3. CASE DestStep /\ UNCHANGED sourceVars
    BY <1>1, <1>3, <2>3, DestKeepsType
  <2>4. CASE UNCHANGED vars
    BY <1>1, <1>2, <1>3, <2>4, Stay DEF vars
  <2> QED BY <2>1, <2>2, <2>3, <2>4 DEF Next
<1> QED BY <1>4 DEF TypeInv, TypeOK, SourceInv, LinkInv

\* The variables of the source, the connection and the destination keep their
\* types, whatever the threads and tcp_write() do: no room appears in the send
\* buffer that was not taken (tcp_sndbuf), and no answer is made for the address
\* of echo_client_init, which is in no unit (select_mem_area).
THEOREM TypeCorrect == Spec => []TypeOK
<1>1. Init => TypeInv BY InitType
<1>2. TypeInv /\ [Next]_vars => TypeInv' BY NextType
<1>3. TypeInv => TypeOK BY DEF TypeInv
<1> QED BY <1>1, <1>2, <1>3, PTL DEF Spec

-----------------------------------------------------------------------------
(***************************************************************************)
(* What the threads exclude, on one processor.  No lock protects the flags *)
(* or the room of the send buffer: what protects them is that a thread is  *)
(* not interrupted between its test and its use.  OneSender needs that at  *)
(* the two places where the background thread is between the two           *)
(* (Decided); RoomToWrite needs nothing but itself.                        *)
(***************************************************************************)
Serial == ParallelThreads = FALSE

Decided ==
  /\ pc["seq"] = "task" => no_request
  /\ pc["seq"] = "disrupted" => ~seq_thread_is_transmitting
SenderInv == OneSender /\ Decided

PcType == pc \in [Thread -> Location]

\* While a thread runs, the other one is at its schedule() and stays there.
LEMMA Alone ==
  ASSUME Serial, PcType, NEW t \in Thread, NEW o \in Thread \ {t}, CanRun(t),
         UNCHANGED pc \/ \E l \in Location : goto(t, l)
  PROVE  pc[o] \in {Return(o), "exit"} /\ pc'[o] = pc[o]
BY DEF Serial, PcType, CanRun, goto

\* Each step of a send function is a step of its thread.
LEMMA SendMoves ==
  ASSUME PcType, NEW t \in Thread, SendStep(t)
  PROVE  CanRun(t) /\ \E l \in Location : goto(t, l)
<1>1. CASE send_no_room(t)
  <2>1. CanRun(t) /\ goto(t, Return(t)) BY <1>1 DEF send_no_room, Step
  <2> QED BY <2>1 DEF Return, Location
<1>2. CASE fill_margin(t)
  <2>1. CanRun(t) /\ \E l \in {"last_write", "write"} : goto(t, l)
    BY <1>2 DEF fill_margin, Step
  <2> QED BY <2>1 DEF Location
<1>3. CASE fill_requested(t)
  <2>1. CanRun(t) /\ \E l \in {"last_write", "write"} : goto(t, l)
    BY <1>3 DEF fill_requested, Step
  <2> QED BY <2>1 DEF Location
<1>4. CASE write_piece(t)
  <2>1. CanRun(t) /\ \E l \in {"send", Return(t)} : goto(t, l)
    BY <1>4 DEF write_piece, Step
  <2> QED BY <2>1 DEF Location, Return
<1>5. CASE write_last_margin(t)
  <2>1. CanRun(t) /\ goto(t, Return(t)) BY <1>5 DEF write_last_margin, Step
  <2> QED BY <2>1 DEF Return, Location
<1>6. CASE write_last_requested(t)
  <2>1. CanRun(t) /\ goto(t, "mark") BY <1>6 DEF write_last_requested, Step
  <2> QED BY <2>1 DEF Location
<1>7. CASE mark_requested(t)
  <2>1. CanRun(t) /\ goto(t, Return(t)) BY <1>7 DEF mark_requested, Step
  <2> QED BY <2>1 DEF Return, Location
<1> QED BY <1>1, <1>2, <1>3, <1>4, <1>5, <1>6, <1>7 DEF SendStep

LEMMA NetAlone ==
  ASSUME Serial, PcType, NetStep
  PROVE  pc["seq"] \in {"loop", "exit"} /\ pc'["seq"] = pc["seq"]
<1>1. CanRun("net") /\ (UNCHANGED pc \/ \E l \in Location : goto("net", l))
  <2>1. CASE echo_client_recv
    <3>1. CanRun("net") /\ \E l \in {"idle", "check"} : goto("net", l)
      BY <2>1 DEF echo_client_recv, Step
    <3> QED BY <3>1 DEF Location
  <2>2. CASE request_recv
    <3>1. CanRun("net") /\ \E l \in {"idle", "send"} : goto("net", l)
      BY <2>2 DEF request_recv, Step, start_requested, call
    <3> QED BY <3>1 DEF Location
  <2>3. ASSUME NEW n \in 1 .. unacked, sent_event(n)
        PROVE  CanRun("net") /\ (UNCHANGED pc \/ \E l \in Location : goto("net", l))
    <3>1. CanRun("net") /\ (UNCHANGED pc \/ goto("net", "send"))
      BY <2>3 DEF sent_event, Step, call
    <3> QED BY <3>1 DEF Location
  <2>4. CASE SendStep("net") BY <2>4, SendMoves DEF Thread
  <2> QED BY <2>1, <2>2, <2>3, <2>4 DEF NetStep
<1>2. "net" \in Thread /\ "seq" \in Thread \ {"net"} BY DEF Thread
<1> QED BY <1>1, <1>2, Alone DEF Return

\* The flags that OneSender is about change in few places of the network
\* thread's code.
LEMMA NetSender ==
  ASSUME NetStep
  PROVE  \/ UNCHANGED <<no_request, seq_thread_is_transmitting>>
         \/ ~seq_thread_is_transmitting'
         \/ no_request' /\ UNCHANGED seq_thread_is_transmitting
BY Zenon DEF NetStep, echo_client_recv, request_recv, start_requested, sent_event,
   SendStep, send_no_room, fill_margin, fill_requested, write_piece,
   write_last_margin, write_last_requested, mark_requested, sending_over,
   flagVars

LEMMA SenderInit == Init => SenderInv
BY DEF Init, SourceInit, SenderInv, OneSender, Decided, Thread

LEMMA SenderNext ==
  ASSUME Serial, TypeInv, SenderInv, [Next]_vars
  PROVE  SenderInv'
<1>1. PcType /\ "seq" \in Thread
  BY DEF TypeInv, TypeOK, SourceTypeOK, PcType, Thread
<1>2. CASE NetStep
  <2>1. /\ pc["seq"] \in {"loop", "exit"} /\ pc'["seq"] = pc["seq"]
    BY <1>1, <1>2, NetAlone
  <2> QED BY <1>2, <2>1, NetSender DEF SenderInv, OneSender, Decided
<1>3. CASE SeqStep
  <2>1. CASE SendStep("seq")
    <3>1. PICK l \in {"loop", "last_write", "write", "send", "mark"} : goto("seq", l)
      BY <1>1, <2>1, Zenon DEF SendStep, send_no_room, fill_margin, fill_requested,
         write_piece, write_last_margin, write_last_requested, mark_requested,
         Return
    <3>2. pc'["seq"] \notin {"task", "disrupted"}
      BY <1>1, <3>1 DEF goto, PcType
    <3>3. \/ UNCHANGED <<no_request, seq_thread_is_transmitting>>
          \/ ~seq_thread_is_transmitting'
          \/ no_request' /\ UNCHANGED seq_thread_is_transmitting
      BY <2>1, Zenon DEF SendStep, send_no_room, fill_margin, fill_requested,
         write_piece, write_last_margin, write_last_requested, mark_requested,
         sending_over, flagVars
    <3> QED BY <3>2, <3>3 DEF SenderInv, OneSender, Decided
  <2>2. CASE loop_free
    BY <1>1, <2>2 DEF loop_free, loop_seq, goto, flagVars, PcType, SenderInv,
       OneSender, Decided
  <2>3. CASE loop_resend
    BY <1>1, <2>3 DEF loop_resend, call, goto, PcType, SenderInv, OneSender,
       Decided
  <2>4. CASE loop_done
    BY <1>1, <2>4 DEF loop_done, loop_seq, goto, flagVars, PcType, SenderInv,
       OneSender, Decided
  <2>5. CASE postcopy_seq_task
    BY <1>1, <2>5 DEF postcopy_seq_task, Step, goto, PcType, SenderInv, OneSender,
       Decided
  <2>6. ASSUME NEW u \in Unit, get_start_addr(u) PROVE SenderInv'
    BY <1>1, <2>6 DEF get_start_addr, goto, flagVars, PcType, SenderInv,
       OneSender, Decided
  <2>7. CASE no_start_addr
    BY <1>1, <2>7 DEF no_start_addr, sending_over, goto, PcType, SenderInv,
       OneSender, Decided
  <2>8. CASE set_start_bitarray
    BY <1>1, <2>8 DEF set_start_bitarray, call, goto, flagVars, PcType, SenderInv,
       OneSender, Decided
  <2>9. CASE send_disrupted_addr
    BY <1>1, <2>9 DEF send_disrupted_addr, start_requested, Step, call, goto,
       PcType, SenderInv, OneSender, Decided
  <2>10. CASE send_migration_done
    BY <1>1, <2>10 DEF send_migration_done, goto, PcType, SenderInv, OneSender,
       Decided
  <2>11. CASE write_migration_done
    BY <1>1, <2>11 DEF write_migration_done, goto, PcType, SenderInv, OneSender,
       Decided
  <2> QED BY <1>3, <2>1, <2>2, <2>3, <2>4, <2>5, <2>6, <2>7, <2>8, <2>9, <2>10,
             <2>11 DEF SeqStep
<1>4. CASE UNCHANGED sourceVars
  BY <1>4 DEF sourceVars, flagVars, SenderInv, OneSender, Decided
<1> QED BY <1>2, <1>3, <1>4 DEF Next, vars

\* The background copy and the answer to a request never send at the same time,
\* though request_recv and seq_transmit_thread only look at each other's flags:
\* on one processor, for any number of units and failures of tcp_write().
THEOREM OneSenderAlways ==
  ASSUME Serial
  PROVE  Spec => []OneSender
<1>1. Init => TypeInv /\ SenderInv BY InitType, SenderInit
<1>2. TypeInv /\ SenderInv /\ [Next]_vars => TypeInv' /\ SenderInv'
  BY NextType, SenderNext
<1>3. SenderInv => OneSender BY DEF SenderInv
<1> QED BY <1>1, <1>2, <1>3, PTL DEF Spec

-----------------------------------------------------------------------------
\* A thread about to call tcp_write().
Writing == {"write", "last_write", "write_done"}

\* What a step of a thread does to the room: a thread comes to a call only
\* with room, and only a call takes room.
Kept(t) == pc'[t] \in Writing => tcp_sndbuf' >= 1

LEMMA SendRoom ==
  ASSUME PcType, LinkInv, NEW t \in Thread, SendStep(t)
  PROVE  Kept(t)
<1>1. CASE send_no_room(t)
  BY <1>1 DEF send_no_room, goto, Return, PcType, Kept, Writing
<1>2. CASE fill_margin(t)
  <2>1. tcp_sndbuf >= 1 /\ tcp_sndbuf' = tcp_sndbuf
    BY <1>2 DEF fill_margin, tcp_sendbuf_available, linkVars
  <2> QED BY <2>1 DEF Kept
<1>3. CASE fill_requested(t)
  <2>1. tcp_sndbuf >= 1 /\ tcp_sndbuf' = tcp_sndbuf
    BY <1>3 DEF fill_requested, tcp_sendbuf_available, linkVars
  <2> QED BY <2>1 DEF Kept
<1>4. CASE write_piece(t)
  BY <1>4 DEF write_piece, goto, Return, PcType, Kept, Writing
<1>5. CASE write_last_margin(t)
  BY <1>5 DEF write_last_margin, goto, Return, PcType, Kept, Writing
<1>6. CASE write_last_requested(t)
  BY <1>6 DEF write_last_requested, goto, PcType, Kept, Writing
<1>7. CASE mark_requested(t)
  BY <1>7 DEF mark_requested, goto, Return, PcType, Kept, Writing
<1> QED BY <1>1, <1>2, <1>3, <1>4, <1>5, <1>6, <1>7 DEF SendStep

LEMMA NetRoom ==
  ASSUME PcType, LinkInv, RoomToWrite, NetStep
  PROVE  Kept("net")
<1>0. "net" \in Thread BY DEF Thread
<1>1. CASE echo_client_recv
  BY <1>0, <1>1 DEF echo_client_recv, goto, PcType, Kept, Writing
<1>2. CASE request_recv
  BY <1>0, <1>2 DEF request_recv, start_requested, call, goto, PcType, Kept, Writing
<1>3. ASSUME NEW n \in 1 .. unacked, sent_event(n) PROVE Kept("net")
  BY <1>0, <1>3 DEF sent_event, Step, call, goto, PcType, Kept, Writing
<1>4. CASE SendStep("net")
  BY <1>0, <1>4, SendRoom
<1> QED BY <1>1, <1>2, <1>3, <1>4 DEF NetStep

LEMMA SeqRoom ==
  ASSUME PcType, LinkInv, RoomToWrite, SeqStep
  PROVE  Kept("seq")
<1>0. "seq" \in Thread BY DEF Thread
<1>1. CASE send_migration_done
  <2>1. CASE tcp_sendbuf_available
    <3>1. tcp_sndbuf >= 1 /\ tcp_sndbuf' = tcp_sndbuf
      BY <1>1, <2>1 DEF send_migration_done, tcp_sendbuf_available, linkVars
    <3> QED BY <3>1 DEF Kept
  <2>2. CASE ~tcp_sendbuf_available
    BY <1>0, <1>1, <2>2 DEF send_migration_done, goto, PcType, Kept, Writing
  <2> QED BY <2>1, <2>2
<1>2. CASE SendStep("seq")
  BY <1>0, <1>2, SendRoom
<1>3. CASE ~send_migration_done /\ ~SendStep("seq")
  <2>1. PICK l \in {"loop", "task", "disrupted", "send", "done", "exit", "getaddr",
                    "setbit"} : goto("seq", l)
    BY <1>3, Zenon DEF SeqStep, loop_free, loop_resend, loop_done, loop_seq,
       postcopy_seq_task, get_start_addr, no_start_addr, set_start_bitarray,
       send_disrupted_addr, start_requested, call, write_migration_done
  <2> QED BY <1>0, <2>1 DEF goto, PcType, Kept, Writing
<1> QED BY <1>1, <1>2, <1>3

LEMMA SeqAlone ==
  ASSUME Serial, PcType, SeqStep
  PROVE  pc["net"] \notin Writing /\ pc'["net"] = pc["net"]
<1>1. CanRun("seq") /\ \E l : goto("seq", l)
  BY Zenon DEF SeqStep, SendStep, Step, loop_seq, loop_free, loop_resend, loop_done,
     postcopy_seq_task, get_start_addr, no_start_addr, set_start_bitarray,
     send_disrupted_addr, start_requested, call, send_migration_done,
     write_migration_done, send_no_room, fill_margin, fill_requested, write_piece,
     write_last_margin, write_last_requested, mark_requested
<1> QED BY <1>1 DEF Serial, CanRun, goto, Return, Thread, PcType, Writing

LEMMA RoomInit == Init => RoomToWrite
BY DEF Init, SourceInit, RoomToWrite, Thread

LEMMA RoomNext ==
  ASSUME Serial, TypeInv, RoomToWrite, [Next]_vars
  PROVE  RoomToWrite'
<1>1. PcType /\ LinkInv
  BY DEF TypeInv, TypeOK, SourceTypeOK, PcType, LinkInv
<1>2. CASE NetStep
  <2>1. pc'["seq"] \notin Writing
    BY <1>1, <1>2, NetAlone DEF Writing
  <2>2. Kept("net") BY <1>1, <1>2, NetRoom
  <2> QED BY <2>1, <2>2 DEF RoomToWrite, Kept, Writing, Thread
<1>3. CASE SeqStep
  <2>1. pc'["net"] \notin Writing BY <1>1, <1>3, SeqAlone
  <2>2. Kept("seq") BY <1>1, <1>3, SeqRoom
  <2> QED BY <2>1, <2>2 DEF RoomToWrite, Kept, Writing, Thread
<1>4. CASE DestStep /\ UNCHANGED sourceVars
  <2>1. UNCHANGED tcp_sndbuf
    BY <1>4, Zenon DEF DestStep, echo_recv, VcpuStep, recv_req_mem, mark_req_mem,
       recv_mem, recv_mig_done, receive, tcp_deliver, echo_server_reply_request,
       tcp_write_request, wait_ept_recved, vt_ept_map_page, vt_ept_violation,
       linkVars
  <2> QED BY <1>4, <2>1 DEF sourceVars, RoomToWrite
<1>5. CASE UNCHANGED vars
  BY <1>5 DEF vars, sourceVars, linkVars, RoomToWrite
<1> QED BY <1>2, <1>3, <1>4, <1>5 DEF Next

\* On one processor the room that tcp_sendbuf_available() found is still there
\* when tcp_write() is called, for any size of the send buffer, though two
\* threads and three callbacks fill it: tcp_write() never fails for want of room.
THEOREM RoomToWriteAlways ==
  ASSUME Serial
  PROVE  Spec => []RoomToWrite
<1>1. Init => TypeInv /\ RoomToWrite BY InitType, RoomInit
<1>2. TypeInv /\ RoomToWrite /\ [Next]_vars => TypeInv' /\ RoomToWrite'
  BY NextType, RoomNext
<1> QED BY <1>1, <1>2, PTL DEF Spec

-----------------------------------------------------------------------------
(***************************************************************************)
(* The conversation of source and destination, and the memory the guest    *)
(* finds: on one processor, for every number of units, pieces per unit and *)
(* messages in the send buffer.  The conversation (RunInv) survives the    *)
(* failures of tcp_write(); that no piece is missing (MemoryInv) does not. *)
(***************************************************************************)
NoFailure == MaxWriteFailures = 0

-----------------------------------------------------------------------------
(***************************************************************************)
(* One thread at most is in a send function, so the two pcs are read as    *)
(* where that thread is, in which function, and where the background       *)
(* thread is in a round of its loop.                                       *)
(***************************************************************************)
Sending   == {"send", "write", "last_write", "mark"}
Rounds    == {"loop", "task", "getaddr", "setbit", "disrupted", "done",
              "write_done", "exit"}
Requested == {"postcopy_requested", "postcopy_requested_disrupted"}

here  == IF pc["net"] \in Sending THEN pc["net"]
         ELSE IF pc["seq"] \in Sending THEN pc["seq"] ELSE "rest"
who   == IF pc["net"] \in Sending THEN fn["net"] ELSE fn["seq"]
round == IF pc["seq"] \in Sending THEN "loop" ELSE pc["seq"]

Checking == pc["net"] = "check"

PlaceInv ==
  /\ pc["net"] \in {"idle", "check"} \cup Sending
  /\ pc["seq"] \in Rounds \cup Sending
  /\ pc["net"] = "idle" \/ pc["seq"] \in {"loop", "exit"}

\* A unit is being sent to answer a request; the background copy has a unit.
Answering ==
  \/ tcp_sent \in Requested
  \/ here \in {"last_write", "mark"} /\ who \in Requested
Copying   == is_transmitting /\ round # "getaddr"

\* The flags, in the modes of the source: fresh (no request yet), free, copying,
\* answering, over.
FlagsInv ==
  /\ is_transmitting <=> seq_thread_is_transmitting
  /\ is_transmitting => /\ no_request /\ tcp_sent \in {"none", "send_margin"}
                        /\ round \in {"getaddr", "setbit", "loop"}
  /\ round \in {"getaddr", "setbit"} =>
       is_transmitting /\ tcp_sent = "none" /\ ~request_recv_disrupted
  /\ tcp_sent = "send_margin" => is_transmitting
  /\ tcp_sent = "migration_done_sent" => migration_done \/ round = "write_done"
  /\ tcp_sent \in Requested \cup {"send_margin", "migration_done_sent", "none"}
  /\ round = "task" =>
       /\ no_request /\ ~is_transmitting /\ ~request_recv_disrupted
       /\ ~migration_done
  /\ round = "disrupted" =>
       /\ no_request /\ ~is_transmitting /\ request_recv_disrupted
       /\ ~migration_done
  /\ round \in {"done", "write_done", "exit"} \/ migration_done =>
       no_request /\ ~is_transmitting /\ bitarray = Unit
  /\ ~no_request /\ ~Answering =>
       /\ tcp_sent = "none" /\ fail_to_send \subseteq {"send_margin"}
       /\ ~request_recv_disrupted /\ ~is_transmitting /\ round = "loop"
  /\ Answering => ~no_request /\ round = "loop"
  /\ here # "rest" /\ who = "send_margin" => is_transmitting /\ here # "mark"
  /\ here \in {"send", "write"} /\ who \in Requested => tcp_sent = who
  /\ here \in {"last_write", "mark"} => tcp_sent = "none"
  /\ here # "rest" /\ who \in Requested =>
       (request_recv_disrupted <=> who = "postcopy_requested_disrupted")
  /\ tcp_sent \in Requested =>
       (request_recv_disrupted <=> tcp_sent = "postcopy_requested_disrupted")

\* get_start_addr has left nothing behind.
CursorInv ==
  /\ \A u \in 0 .. start_addr - 1 :
       u \in bitarray \/ (round = "setbit" /\ u = postcopy_state.start_addr)
  /\ Copying => (postcopy_state.start_addr \in bitarray <=> round # "setbit")

\* tcp_write() failed for the last piece of the background copy's unit, which
\* send_margin leaves as it is: it will go on beyond the unit, if at all.
Stalled ==
  /\ here \in {"rest", "send"} /\ tcp_sent = "none"
  /\ batch["send_margin"] = 0 /\ postcopy_state.send_num >= BATCH_SIZE

\* The static counters: a send function starts at the first piece.
BatchInv ==
  /\ \A f \in Requested : batch[f] < BATCH_SIZE /\ (tcp_sent # f => batch[f] = 0)
  /\ here = "write" => batch[who] >= 1
  /\ ~Copying => batch["send_margin"] = 0
  /\ Copying =>
       IF here = "last_write"
       THEN batch["send_margin"] = 0 /\ postcopy_state.send_num >= BATCH_SIZE
       ELSE \/ /\ batch["send_margin"] = postcopy_state.send_num
               /\ postcopy_state.send_num < BATCH_SIZE
            \/ Stalled
  /\ round = "setbit" => postcopy_state.send_num = 0

\* No failure has thrown the background copy off its unit.
Steady ==
  Copying => IF here = "last_write" THEN postcopy_state.send_num = BATCH_SIZE
                                    ELSE postcopy_state.send_num < BATCH_SIZE

\* Pieces of the unit that were handed to TCP, or that tcp_write() refused.
copied ==
  IF here \in {"write", "last_write"} THEN postcopy_state.send_num - 1
                                      ELSE postcopy_state.send_num
answered ==
  IF here = "mark" THEN BATCH_SIZE
  ELSE IF here = "last_write" THEN BATCH_SIZE - 1
  ELSE IF here = "write" THEN batch[tcp_sent] - 1 ELSE batch[tcp_sent]

\* The message buffers.
MsgInv ==
  /\ Answering => /\ requested_offset \notin bitarray
                  /\ requested_addr = Aligned(requested_offset)
                  /\ msg.addr = requested_offset
                  /\ here \notin {"last_write", "mark"} => msg.kind = "MEM"
  /\ here \in {"write", "last_write"} /\ who \in Requested =>
       /\ msg.kind = IF here = "write" THEN "MEM" ELSE "REQ_MEM"
       /\ msg.batch_num = answered
       /\ msg.data = [unit |-> requested_offset, num |-> answered]
  /\ Copying => /\ seq_msg.addr = postcopy_state.start_addr
                /\ seq_msg.kind \in MemKind
                /\ seq_msg.kind = "REQ_MEM" =>
                     /\ here = "last_write" \/ Stalled
                     /\ requested_addr = Aligned(postcopy_state.start_addr)
  /\ here \in {"write", "last_write"} /\ who = "send_margin" =>
       /\ copied < BATCH_SIZE => seq_msg.batch_num = copied
       /\ seq_msg.data = [unit |-> postcopy_state.start_addr, num |-> copied]
  /\ round = "write_done" => seq_msg.kind = "MIG_DONE"

SourceRuns == PlaceInv /\ FlagsInv /\ CursorInv /\ BatchInv /\ MsgInv

-----------------------------------------------------------------------------
(***************************************************************************)
(* A unit is open as long as the source may send a piece of it, and never  *)
(* opened again.  The message that makes the destination mark the unit is  *)
(* the last of an open unit, so none follows it, whatever was lost of the  *)
(* others.                                                                 *)
(***************************************************************************)
Open(u) ==
  \/ Copying /\ u = postcopy_state.start_addr
  \/ u \notin bitarray /\ ~(here = "mark" /\ u = requested_offset)

opened == {u \in Unit : Open(u)}

\* The message m makes echo_recv mark its unit.
Closes(m) ==
  \/ m.kind = "REQ_MEM"
  \/ m.kind = "MEM" /\ m.batch_num = BATCH_SIZE - 1

\* Units that are marked as received, or about to be.
gone == {u \in Unit : u \in server_bitarray \/ u = marking}

\* Of a connection w, a set o of open units and a set g of units that are marked.
Carries(w, i) == w[i].kind \in MemKind

Once(w, o, g) ==
  /\ \A i, j \in DOMAIN w :
       i < j /\ Closes(w[i]) /\ Carries(w, j) => w[i].addr # w[j].addr
  /\ \A i \in DOMAIN w : Carries(w, i) => w[i].addr \notin g
  /\ \A i \in DOMAIN w : Closes(w[i]) => w[i].addr \notin o
  /\ g \cap o = {}

OnceInv == Once(wire, opened, gone)

OverInv ==
  (\E i \in DOMAIN wire : ~Carries(wire, i)) \/ ~aft_mig_in_mmio => migration_done

-----------------------------------------------------------------------------
(***************************************************************************)
(* The pieces of every unit come once and in order: those handed to TCP    *)
(* are the first count(u), and what is not in mem is on the wire in order. *)
(***************************************************************************)
count(u) ==
  IF Copying /\ u = postcopy_state.start_addr THEN copied
  ELSE IF Answering /\ u = requested_offset THEN answered
  ELSE IF u \in bitarray THEN BATCH_SIZE ELSE 0

counts == [u \in Unit |-> count(u)]

piece(u, b) == [unit |-> u, num |-> b]

\* Of a connection w, the numbers c of pieces handed to it and the pieces m that
\* have been stored.
InOrder(w, c) ==
  /\ \A i \in DOMAIN w : Carries(w, i) =>
       /\ w[i].batch_num \in Batch
       /\ w[i].data = piece(w[i].addr, w[i].batch_num)
       /\ w[i].kind = "REQ_MEM" => w[i].batch_num = BATCH_SIZE - 1
       /\ w[i].batch_num < c[w[i].addr]
  /\ \A i, j \in DOMAIN w :
       i < j /\ Carries(w, i) /\ Carries(w, j) /\ w[i].addr = w[j].addr
         => w[i].batch_num < w[j].batch_num
  /\ \A i, j \in DOMAIN w : i < j /\ Carries(w, j) => Carries(w, i)

NoneLost(w, c, m) ==
  \A u \in Unit, b \in Batch :
    b < c[u] => \/ piece(u, b) \in m
                \/ \E i \in DOMAIN w :
                     Carries(w, i) /\ w[i].addr = u /\ w[i].batch_num = b

NoneTwice(w, c, m) ==
  /\ \A u \in Unit, b \in Batch : piece(u, b) \in m => b < c[u]
  /\ \A i \in DOMAIN w : Carries(w, i) =>
       \A b \in Batch : piece(w[i].addr, b) \in m => b < w[i].batch_num

PiecesInv ==
  InOrder(wire, counts) /\ NoneLost(wire, counts, mem) /\ NoneTwice(wire, counts, mem)

ArrivedInv ==
  /\ \A u \in server_bitarray \cup mapped : Complete(u)
  /\ marking # NUnits => Complete(marking)
  /\ ~aft_mig_in_mmio => \A u \in Unit : Complete(u)
  /\ ept_recved => Complete(vcpu.gphys.unit)

-----------------------------------------------------------------------------
(***************************************************************************)
(* The virtual processor waits for one unit, and its question is in one    *)
(* place: on its way (Asking), taken (Checking), to be answered or         *)
(* being answered (Serving), overtaken by the background copy (Crossing),  *)
(* answered (Replying), or ept_recved is set.                              *)
(***************************************************************************)
Asking   == requests # <<>>
Serving  == (request_recv_disrupted \/ Answering) /\ here # "mark"
Crossing == Copying /\ requested_addr = Aligned(postcopy_state.start_addr)
Reply(i) == wire[i].kind = "REQ_MEM"
Replying == \E i \in DOMAIN wire : Reply(i)

Waits(u) == vcpu.at = "wait" /\ vcpu.gphys.unit = u

\* A request whose unit is not marked is one of these.
RequestInv ==
  /\ Checking \/ Serving => requested_addr.unit \in Unit \ bitarray
  /\ requested_addr.unit \in Unit \ bitarray =>
       Checking \/ Serving \/ here = "mark"

QuestionInv ==
  /\ Asking   => /\ vcpu.at = "wait" /\ requests = <<vcpu.gphys>>
                 /\ ~Checking /\ ~Serving /\ ~Crossing /\ ~Replying /\ ~ept_recved
  /\ Checking => /\ vcpu.at = "wait" /\ requested_addr = vcpu.gphys
                 /\ ~Serving /\ ~Crossing /\ ~Replying /\ ~ept_recved
  /\ Serving  => /\ Waits(requested_addr.unit)
                 /\ ~Crossing /\ ~Replying /\ ~ept_recved
  /\ Crossing => /\ Waits(requested_addr.unit) /\ ~Replying /\ ~ept_recved
  /\ Replying => /\ \A i, j \in DOMAIN wire :
                      Reply(i) /\ Reply(j) => i = j /\ Waits(wire[i].addr)
                 /\ ~ept_recved
  /\ ept_recved => vcpu.at \in {"wait", "map"}
  /\ vcpu.at = "map" => ept_recved
  /\ vcpu.at # "map_only"

TokenInv == RequestInv /\ (aft_mig_in_mmio => QuestionInv)

\* What holds whether tcp_write() fails or not, and what holds besides if it
\* does not.
RunInv    == SourceRuns /\ OnceInv /\ OverInv /\ TokenInv
MemoryInv == RunInv /\ Steady /\ PiecesInv /\ ArrivedInv

-----------------------------------------------------------------------------
(***************************************************************************)
(* The source.                                                             *)
(***************************************************************************)
Ground == Serial /\ TypeInv /\ RoomToWrite /\ SourceRuns

LEMMA Typed ==
  ASSUME Ground
  PROVE  /\ PcType /\ "net" \in Thread /\ "seq" \in Thread
         /\ fn \in [Thread -> Sender]
         /\ Sender = {"send_margin"} \cup Requested
         /\ BATCH_SIZE \in Nat /\ BATCH_SIZE >= 1
         /\ batch \in [Sender -> Nat]
         /\ postcopy_state \in [start_addr : Unit, send_num : Nat]
         /\ requested_offset \in Unit /\ bitarray \subseteq Unit
         /\ msg \in Message /\ seq_msg \in Message
         /\ start_addr \in Nat /\ NUnits \in Nat
BY LinkAssumption
   DEF Ground, TypeInv, TypeOK, SourceTypeOK, PcType, Thread, Sender, Requested

\* A step of a thread moves nothing but itself.
LEMMA Flat ==
  ASSUME Ground, NEW t \in Thread, NEW l \in Location, CanRun(t), goto(t, l)
  PROVE  /\ here = IF pc[t] \in Sending THEN pc[t] ELSE "rest"
         /\ here' = IF l \in Sending THEN l ELSE "rest"
         /\ pc[t] \in Sending => who = fn[t]
         /\ l \in Sending => who' = fn'[t]
         /\ t = "net" => /\ pc["seq"] \in {"loop", "exit"} /\ round' = round
                         /\ round = pc["seq"]
                         /\ pc'["seq"] = pc["seq"] /\ pc'["net"] = l
                         /\ Checking <=> pc[t] = "check"
                         /\ Checking' <=> l = "check"
         /\ t = "seq" => /\ pc["net"] = "idle" /\ ~Checking /\ ~Checking'
                         /\ pc'["net"] = "idle" /\ pc'["seq"] = l
                         /\ round = IF pc[t] \in Sending THEN "loop" ELSE pc[t]
                         /\ round' = IF l \in Sending THEN "loop" ELSE l
<1> USE Typed
<1>0. pc \in [Thread -> Location] BY DEF PcType
<1>1. CASE t = "net"
  <2>1. pc["seq"] \in {"loop", "exit"}
    BY <1>1 DEF Ground, Serial, CanRun, Return, Thread
  <2>2. pc'["seq"] = pc["seq"] /\ pc'["net"] = l
    BY <1>0, <1>1 DEF goto
  <2> QED BY <1>1, <2>1, <2>2 DEF here, who, round, Checking, Sending
<1>2. CASE t = "seq"
  <2>1. pc["net"] \in {"idle", "exit"}
    BY <1>2 DEF Ground, Serial, CanRun, Return, Thread
  <2>2. pc["net"] = "idle" BY <2>1 DEF Ground, SourceRuns, PlaceInv, Sending
  <2>3. pc'["net"] = pc["net"] /\ pc'["seq"] = l
    BY <1>0, <1>2 DEF goto
  <2> QED BY <1>2, <2>2, <2>3 DEF here, who, round, Checking, Sending
<1> QED BY <1>1, <1>2 DEF Thread

LEMMA SendFlat ==
  ASSUME Ground, NEW t \in Thread, NEW l \in Sending \cup {Return(t)},
         CanRun(t), pc[t] \in Sending, goto(t, l), UNCHANGED fn
  PROVE  /\ here = pc[t] /\ who = fn[t] /\ who \in Sender
         /\ here' = IF l \in Sending THEN l ELSE "rest"
         /\ l \in Sending => who' = who
         /\ round' = round /\ round \in {"loop", "exit"}
         /\ ~Checking /\ ~Checking'
         /\ PlaceInv'
<1>1. l \in Location BY DEF Sending, Location, Return, Thread
<1> USE Typed
<1>2. CASE t = "net"
  <2>1. pc["seq"] \in {"loop", "exit"} /\ pc'["seq"] = pc["seq"] /\ pc'["net"] = l
    BY <1>1, <1>2, Flat
  <2>2. l \in Sending \cup {"idle"} BY <1>2 DEF Return
  <2>3. PlaceInv' BY <2>1, <2>2 DEF PlaceInv, Sending, Rounds
  <2> QED BY <1>1, <1>2, <2>2, <2>3, Flat DEF Sending
<1>3. CASE t = "seq"
  <2>1. pc'["net"] = "idle" /\ pc'["seq"] = l BY <1>1, <1>3, Flat
  <2>2. l \in Sending \cup {"loop"} BY <1>3 DEF Return
  <2>3. PlaceInv' BY <2>1, <2>2 DEF PlaceInv, Sending, Rounds
  <2> QED BY <1>1, <1>3, <2>2, <2>3, Flat DEF Sending
<1> QED BY <1>2, <1>3 DEF Thread

-----------------------------------------------------------------------------
\* No unit is opened.
Shuts == \A u \in Unit : Open(u)' => Open(u)

\* No piece is handed over.
Even == Steady => Steady' /\ \A u \in Unit : count(u)' = count(u)

\* The message m is the next piece of its unit.
NextPiece(m, u, b) ==
  /\ m.addr = u /\ m.batch_num = b /\ m.data = piece(u, b)
  /\ m.kind = "REQ_MEM" => b = BATCH_SIZE - 1
  /\ b \in Batch /\ count(u) = b
  /\ \A v \in Unit : count(v)' = IF v = u THEN b + 1 ELSE count(v)

\* What a step of the source is to the pieces: nothing, the next piece of a
\* unit, a piece that is lost, or the end.
Stays == UNCHANGED wire /\ Shuts /\ Even

Sends(m) ==
  /\ m.kind \in MemKind /\ m.addr \in Unit /\ Open(m.addr)
  /\ wire' = Append(wire, m)
  /\ Shuts /\ (Closes(m) => ~Open(m.addr)')
  /\ Steady => Steady' /\ \E u \in Unit, b \in Nat : NextPiece(m, u, b)
  /\ ~migration_done

Loses == ~NoFailure /\ UNCHANGED wire /\ Shuts

Ends ==
  /\ migration_done' /\ Shuts /\ Even
  /\ \E m \in Message : m.kind = "MIG_DONE" /\ wire' = Append(wire, m)

\* ... and to the question of the virtual processor.
QuestionKept ==
  /\ UNCHANGED requests
  /\ Checking' => Checking /\ ~Serving' /\ UNCHANGED requested_addr
  /\ Serving' \/ Crossing' => requested_addr'.unit = requested_addr.unit
  /\ Serving' => Serving \/ Checking
  /\ Crossing' => Crossing
  /\ RequestInv => RequestInv'

\* A send function stops for want of room.
LEMMA NoRoomStep ==
  ASSUME Ground, NEW t \in Thread, send_no_room(t)
  PROVE  SourceRuns' /\ Stays /\ QuestionKept
<1> USE Typed
<1>1. /\ CanRun(t) /\ pc[t] = "send" /\ goto(t, Return(t)) /\ UNCHANGED fn
  BY DEF send_no_room, Step
<1>2. /\ here = "send" /\ who \in Sender /\ here' = "rest" /\ round' = round
      /\ ~Checking /\ ~Checking' /\ PlaceInv'
  BY <1>1, SendFlat DEF Sending, Return
<1>3. /\ UNCHANGED <<linkVars, copyVars>>
      /\ UNCHANGED <<no_request, is_transmitting, seq_thread_is_transmitting,
                     request_recv_disrupted, migration_done>>
      /\ fail_to_send' = fail_to_send \cup {who}
  BY <1>1, <1>2, SendFlat, Zenon DEF send_no_room, Sending
<1> USE <1>2, <1>3
<1>4. FlagsInv' /\ BatchInv' /\ MsgInv' /\ CursorInv'
  <2>1. FlagsInv'
    BY DEF Ground, SourceRuns, FlagsInv, Answering, copyVars, Requested
  <2>2. CursorInv'
    BY DEF Ground, SourceRuns, CursorInv, Copying, copyVars
  <2>3. BatchInv'
    BY DEF Ground, SourceRuns, BatchInv, Stalled, Copying, copyVars
  <2>4. MsgInv'
    BY DEF Ground, SourceRuns, MsgInv, Stalled, Copying, Answering, copyVars
  <2> QED BY <2>1, <2>2, <2>3, <2>4
<1>5. Stays
  <2>1. Shuts BY DEF Shuts, Open, Copying, copyVars
  <2>2. Even
    BY DEF Even, Steady, count, Copying, Answering, copied, answered, copyVars
  <2> QED BY <2>1, <2>2 DEF Stays, linkVars
<1>6. QuestionKept
  BY DEF QuestionKept, Serving, Crossing, Copying, Answering, RequestInv, copyVars,
     linkVars
<1> QED BY <1>4, <1>5, <1>6 DEF SourceRuns

\* The next piece of the background copy goes into seq_msg.
LEMMA FillMarginStep ==
  ASSUME Ground, NEW t \in Thread, fill_margin(t)
  PROVE  SourceRuns' /\ Stays /\ QuestionKept
<1> USE Typed
<1> DEFINE last == postcopy_state.send_num + 1 >= BATCH_SIZE
           asked == requested_addr = Aligned(postcopy_state.start_addr)
<1> PICK l : l = IF last THEN "last_write" ELSE "write" OBVIOUS
<1>1. CanRun(t) /\ pc[t] = "send" /\ goto(t, l) /\ UNCHANGED fn
  BY DEF fill_margin, Step
<1>2. /\ here = "send" /\ who = "send_margin" /\ who' = who /\ here' = l
      /\ round' = round /\ round \in {"loop", "exit"}
      /\ ~Checking /\ ~Checking' /\ PlaceInv'
  BY <1>1, SendFlat DEF Sending, fill_margin
<1>3. /\ UNCHANGED <<linkVars, flagVars, bitarray, requested_addr,
                     requested_offset, start_addr, msg>>
      /\ postcopy_state' = [postcopy_state EXCEPT !.send_num = @ + 1]
      /\ batch' = [batch EXCEPT !["send_margin"] = IF last THEN 0 ELSE @ + 1]
      /\ tcp_sent' = IF last THEN "none" ELSE "send_margin"
      /\ seq_msg' = [seq_msg EXCEPT
           !.kind = IF last /\ asked THEN "REQ_MEM" ELSE @,
           !.batch_num = batch["send_margin"],
           !.data = [unit |-> postcopy_state.start_addr,
                     num |-> postcopy_state.send_num]]
  BY DEF fill_margin
<1>4. /\ Copying /\ Copying' /\ ~Answering /\ ~Answering' /\ is_transmitting
      /\ no_request /\ round = "loop"
      /\ \/ /\ batch["send_margin"] = postcopy_state.send_num
            /\ postcopy_state.send_num < BATCH_SIZE /\ seq_msg.kind = "MEM"
         \/ postcopy_state.send_num >= BATCH_SIZE
      /\ seq_msg.addr = postcopy_state.start_addr /\ seq_msg.kind \in MemKind
      /\ seq_msg.kind = "REQ_MEM" => asked
      /\ postcopy_state.send_num \in Nat
  BY <1>2, <1>3
     DEF Ground, SourceRuns, FlagsInv, BatchInv, MsgInv, Copying, Answering, Stalled,
         flagVars, Requested, MemKind
<1>5. /\ postcopy_state'.start_addr = postcopy_state.start_addr
      /\ postcopy_state'.send_num = postcopy_state.send_num + 1
      /\ batch'["send_margin"] = IF last THEN 0 ELSE postcopy_state.send_num + 1
      /\ \A f \in Requested : batch'[f] = batch[f]
      /\ seq_msg'.addr = seq_msg.addr
      /\ seq_msg'.kind = IF last /\ asked THEN "REQ_MEM" ELSE seq_msg.kind
      /\ postcopy_state.send_num < BATCH_SIZE =>
           seq_msg'.batch_num = postcopy_state.send_num
      /\ seq_msg'.data = piece(postcopy_state.start_addr, postcopy_state.send_num)
      /\ last \/ postcopy_state.send_num + 1 < BATCH_SIZE
  BY <1>3, <1>4 DEF Message, Requested, piece
<1>6. FlagsInv'
  BY <1>2, <1>3, <1>4 DEF Ground, SourceRuns, FlagsInv, flagVars, Requested
<1>7. CursorInv'
  BY <1>2, <1>3, <1>4, <1>5 DEF Ground, SourceRuns, CursorInv
<1>8. BatchInv'
  <2>1. /\ l = IF last THEN "last_write" ELSE "write"
        /\ last \in BOOLEAN
    OBVIOUS
  <2> HIDE DEF last
  <2>2. \A f \in Requested : batch'[f] < BATCH_SIZE /\ (tcp_sent' # f => batch'[f] = 0)
    BY <1>3, <1>4, <1>5 DEF Ground, SourceRuns, BatchInv, Answering
  <2>3. here' = "write" => batch'[who'] >= 1
    BY <1>2, <1>5, <2>1
  <2>4. IF here' = "last_write"
        THEN batch'["send_margin"] = 0 /\ postcopy_state'.send_num >= BATCH_SIZE
        ELSE /\ batch'["send_margin"] = postcopy_state'.send_num
             /\ postcopy_state'.send_num < BATCH_SIZE
    <3>1. last <=> postcopy_state.send_num + 1 >= BATCH_SIZE BY DEF last
    <3> QED BY <1>2, <1>4, <1>5, <2>1, <3>1
  <2> QED BY <1>2, <1>4, <2>2, <2>3, <2>4 DEF BatchInv
<1>9. MsgInv'
  <2>1. copied' = postcopy_state.send_num BY <1>2, <1>4, <1>5 DEF copied
  <2>2. seq_msg'.kind \in MemKind BY <1>4, <1>5 DEF MemKind
  <2>3. seq_msg'.kind = "REQ_MEM" => here' = "last_write" /\ asked
    BY <1>2, <1>4, <1>5
  <2> QED BY <1>2, <1>3, <1>4, <1>5, <2>1, <2>2, <2>3
          DEF Ground, SourceRuns, MsgInv, piece, Requested
<1>10. Stays
  <2>1. Shuts BY <1>2, <1>3, <1>4, <1>5 DEF Shuts, Open
  <2>2. Even BY <1>2, <1>3, <1>4, <1>5 DEF Even, Steady, count, copied
  <2> QED BY <1>3, <2>1, <2>2 DEF Stays, linkVars
<1>11. QuestionKept
  BY <1>2, <1>3, <1>4, <1>5
     DEF QuestionKept, Serving, Crossing, RequestInv, linkVars, flagVars
<1> QED BY <1>2, <1>6, <1>7, <1>8, <1>9, <1>10, <1>11 DEF SourceRuns

\* The next piece of the requested unit goes into msg.
LEMMA FillRequestedStep ==
  ASSUME Ground, NEW t \in Thread, fill_requested(t)
  PROVE  SourceRuns' /\ Stays /\ QuestionKept
<1> USE Typed
<1> DEFINE last == batch[who] + 1 >= BATCH_SIZE
<1> PICK l : l = IF last THEN "last_write" ELSE "write" OBVIOUS
<1>0. CanRun(t) /\ pc[t] = "send" /\ UNCHANGED fn /\ fn[t] = who
  <2>1. CanRun(t) /\ pc[t] = "send" /\ UNCHANGED fn
        /\ \E k \in {"last_write", "write"} : goto(t, k)
    BY DEF fill_requested, Step
  <2> QED BY <2>1, SendFlat DEF Sending
<1>1. goto(t, l) BY <1>0 DEF fill_requested
<1>2. /\ here = "send" /\ who \in Requested /\ who' = who /\ here' = l
      /\ round' = round
      /\ ~Checking /\ ~Checking' /\ PlaceInv'
  BY <1>0, <1>1, SendFlat DEF Sending, fill_requested
<1>3. /\ UNCHANGED <<linkVars, flagVars, bitarray, requested_addr,
                     requested_offset, start_addr, postcopy_state, seq_msg>>
      /\ batch' = [batch EXCEPT ![who] = IF last THEN 0 ELSE @ + 1]
      /\ tcp_sent' = IF last THEN "none" ELSE who
      /\ msg' = [msg EXCEPT
           !.kind = IF last THEN "REQ_MEM" ELSE @,
           !.batch_num = batch[who],
           !.data = [unit |-> requested_offset, num |-> batch[who]]]
  BY <1>0 DEF fill_requested
<1>4. /\ tcp_sent = who /\ Answering /\ Answering' /\ ~Copying /\ ~Copying'
      /\ ~is_transmitting /\ ~no_request /\ round = "loop"
      /\ batch[who] < BATCH_SIZE /\ batch["send_margin"] = 0
      /\ \A f \in Requested \ {who} : batch[f] = 0
      /\ requested_offset \notin bitarray
      /\ requested_addr = Aligned(requested_offset)
      /\ msg.addr = requested_offset /\ msg.kind = "MEM"
  BY <1>2, <1>3
     DEF Ground, SourceRuns, FlagsInv, BatchInv, MsgInv, Copying, Answering, flagVars,
         Requested
<1>5. /\ batch'[who] = IF last THEN 0 ELSE batch[who] + 1
      /\ \A f \in Sender \ {who} : batch'[f] = 0
      /\ msg'.addr = requested_offset
      /\ msg'.kind = IF last THEN "REQ_MEM" ELSE "MEM"
      /\ msg'.batch_num = batch[who]
      /\ msg'.data = piece(requested_offset, batch[who])
      /\ batch[who] \in Nat
      /\ last <=> batch[who] + 1 = BATCH_SIZE
  BY <1>2, <1>3, <1>4 DEF Message, Requested, piece
<1>6. FlagsInv'
  BY <1>2, <1>3, <1>4 DEF Ground, SourceRuns, FlagsInv, flagVars, Requested
<1>7. CursorInv'
  BY <1>2, <1>3, <1>4, <1>5 DEF Ground, SourceRuns, CursorInv
<1>8. l = (IF last THEN "last_write" ELSE "write") /\ last \in BOOLEAN OBVIOUS
<1> HIDE DEF last
<1>9. BatchInv'
  <2>1. \A f \in Requested : batch'[f] < BATCH_SIZE /\ (tcp_sent' # f => batch'[f] = 0)
    BY <1>2, <1>3, <1>4, <1>5
  <2>2. here' = "write" => batch'[who'] >= 1
    BY <1>2, <1>5, <1>8
  <2>3. batch'["send_margin"] = 0 BY <1>2, <1>5 DEF Requested
  <2> QED BY <1>2, <1>4, <2>1, <2>2, <2>3 DEF BatchInv
<1>10. answered' = batch[who] /\ answered = batch[who]
  BY <1>2, <1>3, <1>4, <1>5, <1>8 DEF answered
<1>11. MsgInv'
  BY <1>2, <1>3, <1>4, <1>5, <1>8, <1>10
     DEF MsgInv, piece, Requested
<1>12. Stays
  <2>1. Shuts BY <1>2, <1>3, <1>4, <1>8 DEF Shuts, Open
  <2>2. Even BY <1>2, <1>3, <1>4, <1>10 DEF Even, Steady, count
  <2> QED BY <1>3, <2>1, <2>2 DEF Stays, linkVars
<1>13. QuestionKept
  BY <1>2, <1>3, <1>4, <1>8
     DEF QuestionKept, Serving, Crossing, RequestInv, linkVars, flagVars
<1> QED BY <1>2, <1>6, <1>7, <1>9, <1>11, <1>12, <1>13 DEF SourceRuns

\* With room tcp_write() fails only for want of memory.
LEMMA Refused ==
  ASSUME Ground, NEW t \in Thread, pc[t] \in Writing, tcp_write_err
  PROVE  ~NoFailure /\ UNCHANGED <<wire, requests>>
<1>1. tcp_sndbuf >= 1 BY DEF Ground, RoomToWrite, Writing
<1>2. write_failures \in 0 .. MaxWriteFailures /\ tcp_sndbuf \in Nat
  BY LinkAssumption DEF Ground, TypeInv, TypeOK, LinkTypeOK
<1> QED BY <1>1, <1>2, LinkAssumption DEF tcp_write_err, NoFailure

\* A piece that is not the last goes to the connection, or is lost.
LEMMA WritePieceStep ==
  ASSUME Ground, NEW t \in Thread, write_piece(t)
  PROVE  /\ SourceRuns' /\ QuestionKept
         /\ Loses \/ \E m \in Message : Sends(m) /\ m.kind = "MEM"
<1> USE Typed
<1>1. PICK l \in {"send", Return(t)} :
        /\ CanRun(t) /\ pc[t] = "write" /\ goto(t, l) /\ UNCHANGED fn
        /\ \/ l = "send" /\ write_ok(t)
           \/ tcp_write_err /\ (l # "send" => fn[t] = "send_margin")
  BY DEF write_piece, Step
<1>2. /\ here = "write" /\ who \in Sender
      /\ here' = (IF l = "send" THEN "send" ELSE "rest")
      /\ l = "send" => who' = who
      /\ fn[t] = who /\ round' = round /\ round \in {"loop", "exit"}
      /\ ~Checking /\ ~Checking' /\ PlaceInv'
  <2>1. Return(t) \in {"idle", "loop"} BY DEF Return
  <2> QED BY <1>1, <2>1, SendFlat DEF Sending
<1>3. /\ UNCHANGED <<flagVars, copyVars, requests>>
      /\ \/ wire' = Append(wire, IF who = "send_margin" THEN seq_msg ELSE msg)
         \/ ~NoFailure /\ UNCHANGED wire
      /\ l # "send" => who = "send_margin"
  <2>1. UNCHANGED <<flagVars, copyVars>> BY DEF write_piece
  <2>2. CASE l = "send" /\ write_ok(t)
    BY <1>1, <1>2, <2>1, <2>2 DEF write_ok, tcp_write_ok
  <2>3. CASE tcp_write_err /\ (l # "send" => fn[t] = "send_margin")
    BY <1>1, <1>2, <2>1, <2>3, Refused DEF Writing
  <2> QED BY <1>1, <2>2, <2>3
<1>4. (Copying' <=> Copying) /\ (Answering' <=> Answering)
  BY <1>2, <1>3 DEF Ground, SourceRuns, FlagsInv, Copying, Answering, flagVars,
     copyVars, Requested
<1>5. FlagsInv'
  BY <1>2, <1>3, <1>4
     DEF Ground, SourceRuns, FlagsInv, flagVars, copyVars, Requested
<1>6. CursorInv'
  BY <1>2, <1>3 DEF Ground, SourceRuns, CursorInv, Copying, flagVars, copyVars
<1>7. BatchInv'
  BY <1>2, <1>3, <1>4 DEF Ground, SourceRuns, BatchInv, Stalled, copyVars
<1>8. MsgInv'
  BY <1>2, <1>3, <1>4 DEF Ground, SourceRuns, MsgInv, Stalled, copyVars
<1>9. QuestionKept
  BY <1>2, <1>3, <1>4
     DEF QuestionKept, Serving, Crossing, RequestInv, flagVars, copyVars
<1>10. Shuts
  BY <1>2, <1>3, <1>4 DEF Shuts, Open, copyVars
<1>11. SourceRuns' BY <1>2, <1>5, <1>6, <1>7, <1>8 DEF SourceRuns
<1>12. CASE ~NoFailure /\ UNCHANGED wire
  BY <1>9, <1>10, <1>11, <1>12 DEF Loses
<1>13. CASE who = "send_margin" /\ wire' = Append(wire, seq_msg)
  <2>1. /\ Copying /\ is_transmitting /\ no_request /\ ~Answering
        /\ ~migration_done
        /\ seq_msg.kind = "MEM"
        /\ seq_msg.addr = postcopy_state.start_addr
        /\ postcopy_state.send_num < BATCH_SIZE /\ postcopy_state.send_num \in Nat
        /\ postcopy_state.send_num >= 1
    BY <1>2, <1>3, <1>13
       DEF Ground, SourceRuns, FlagsInv, BatchInv, MsgInv, Copying, Answering,
           Stalled, flagVars, copyVars, Requested, MemKind
  <2> DEFINE u == postcopy_state.start_addr
             b == postcopy_state.send_num - 1
  <2>2. /\ copied = b /\ copied' = b + 1
        /\ b \in Batch /\ b \in Nat /\ b < BATCH_SIZE - 1 /\ u \in Unit /\ u' = u
    <3>1. l = "send" \/ here' = "rest" BY <1>2
    <3> QED BY <1>2, <1>3, <2>1, <3>1 DEF copied, copyVars, Batch
  <2>3. seq_msg.batch_num = b /\ seq_msg.data = piece(u, b)
    BY <1>2, <1>13, <2>2 DEF Ground, SourceRuns, MsgInv, piece
  <2>4. count(u) = b /\ \A v \in Unit : count(v)' = IF v = u THEN b + 1 ELSE count(v)
    BY <1>3, <1>4, <2>1, <2>2 DEF count, copyVars
  <2>5. Steady => Steady'
    BY <1>2, <1>3, <1>4, <2>1 DEF Steady, copyVars
  <2>6. NextPiece(seq_msg, u, b) BY <2>1, <2>2, <2>3, <2>4 DEF NextPiece
  <2>7. ~Closes(seq_msg) BY <2>1, <2>2, <2>3 DEF Closes
  <2>8. Open(u) BY <2>1 DEF Open
  <2>9. Sends(seq_msg)
    BY <1>10, <1>13, <2>1, <2>2, <2>5, <2>6, <2>7, <2>8 DEF Sends, MemKind
  <2> QED BY <1>9, <1>11, <2>1, <2>9
<1>14. CASE who \in Requested /\ wire' = Append(wire, msg)
  <2>1. /\ Answering /\ ~Copying /\ ~is_transmitting
        /\ ~no_request /\ ~migration_done
        /\ tcp_sent = who /\ requested_offset \notin bitarray
        /\ msg.kind = "MEM" /\ msg.addr = requested_offset
        /\ msg.batch_num = answered /\ msg.data = piece(requested_offset, answered)
        /\ batch[who] < BATCH_SIZE /\ batch[who] \in Nat /\ batch[who] >= 1
        /\ l = "send"
    BY <1>2, <1>3, <1>14
       DEF Ground, SourceRuns, FlagsInv, BatchInv, MsgInv, Copying, Answering,
           piece, flagVars, copyVars, Requested
  <2> DEFINE u == requested_offset
             b == batch[who] - 1
  <2>2. /\ answered = b /\ answered' = b + 1
        /\ b \in Batch /\ b \in Nat /\ b < BATCH_SIZE - 1 /\ u \in Unit /\ u' = u
    BY <1>2, <1>3, <2>1 DEF answered, copyVars, Batch
  <2>3. count(u) = b /\ \A v \in Unit : count(v)' = IF v = u THEN b + 1 ELSE count(v)
    BY <1>3, <1>4, <2>1, <2>2 DEF count, copyVars
  <2>4. Steady => Steady' BY <1>4, <2>1 DEF Steady
  <2>5. NextPiece(msg, u, b) BY <2>1, <2>2, <2>3 DEF NextPiece
  <2>6. ~Closes(msg) BY <2>1, <2>2 DEF Closes
  <2>7. Open(u) BY <1>2, <2>1 DEF Open
  <2>8. Sends(msg)
    BY <1>10, <1>14, <2>1, <2>2, <2>4, <2>5, <2>6, <2>7 DEF Sends, MemKind
  <2> QED BY <1>9, <1>11, <2>1, <2>8
<1> QED BY <1>2, <1>3, <1>12, <1>13, <1>14 DEF Requested

\* The message m answers the question.
Answers(m) ==
  /\ Serving \/ Crossing
  /\ requested_addr.unit = m.addr
  /\ UNCHANGED requests
  /\ ~Checking' /\ ~Serving' /\ ~Crossing'
  /\ RequestInv => RequestInv'

\* A piece is handed over, or lost.
SendsLast ==
  \/ Loses /\ QuestionKept
  \/ \E m \in Message :
       Sends(m) /\ IF m.kind = "REQ_MEM" THEN Answers(m) ELSE QuestionKept

\* The last piece of the background copy's unit goes to the connection.
LEMMA LastMarginSent ==
  ASSUME Ground, RequestInv, NEW t \in Thread, write_last_margin(t),
         write_ok(t), sending_over
  PROVE  SourceRuns' /\ SendsLast
<1> USE Typed
<1>1. /\ CanRun(t) /\ pc[t] = "last_write" /\ goto(t, Return(t)) /\ UNCHANGED fn
      /\ fn[t] = "send_margin"
  BY DEF write_last_margin, Step
<1>2. /\ here = "last_write" /\ who = "send_margin" /\ here' = "rest"
      /\ round' = round /\ round \in {"loop", "exit"}
      /\ ~Checking /\ ~Checking' /\ PlaceInv'
  BY <1>1, SendFlat DEF Sending, Return
<1>3. /\ UNCHANGED <<copyVars, requests, no_request, request_recv_disrupted,
                     fail_to_send, migration_done>>
      /\ wire' = Append(wire, seq_msg)
      /\ ~is_transmitting' /\ ~seq_thread_is_transmitting'
  <2>1. ~is_transmitting' /\ ~seq_thread_is_transmitting'
    BY Zenon DEF sending_over
  <2> QED BY <1>1, <2>1 DEF write_last_margin, write_ok, tcp_write_ok
<1> DEFINE u == postcopy_state.start_addr
           b == BATCH_SIZE - 1
<1>4. /\ Copying /\ ~Copying' /\ is_transmitting /\ no_request /\ ~Answering
      /\ ~Answering' /\ ~migration_done /\ round = "loop" /\ tcp_sent = "none"
      /\ seq_msg.kind \in MemKind
      /\ seq_msg.kind = "REQ_MEM" => requested_addr = Aligned(u)
      /\ seq_msg.addr = u /\ batch["send_margin"] = 0
      /\ u \in bitarray /\ u \in Unit
  BY <1>2, <1>3
     DEF Ground, SourceRuns, FlagsInv, CursorInv, BatchInv, MsgInv, Copying,
         Answering, copyVars, Requested
<1>5. FlagsInv'
  BY <1>2, <1>3, <1>4 DEF Ground, SourceRuns, FlagsInv, copyVars, Requested
<1>6. CursorInv'
  BY <1>2, <1>3, <1>4 DEF Ground, SourceRuns, CursorInv, copyVars
<1>7. BatchInv'
  BY <1>2, <1>3, <1>4 DEF Ground, SourceRuns, BatchInv, copyVars
<1>8. MsgInv'
  BY <1>2, <1>3, <1>4 DEF Ground, SourceRuns, MsgInv, copyVars
<1>9. Shuts /\ Open(u) /\ ~Open(seq_msg.addr)'
  BY <1>2, <1>3, <1>4 DEF Shuts, Open, copyVars
<1>10. Steady => Steady' /\ \E v \in Unit, k \in Nat : NextPiece(seq_msg, v, k)
  <2> SUFFICES ASSUME Steady
               PROVE  Steady' /\ \E v \in Unit, k \in Nat : NextPiece(seq_msg, v, k)
    OBVIOUS
  <2>1. /\ postcopy_state.send_num = BATCH_SIZE /\ copied = b
        /\ b \in Nat /\ b \in Batch
    BY <1>2, <1>4 DEF Steady, copied, Batch
  <2>2. seq_msg.batch_num = b /\ seq_msg.data = piece(u, b)
    BY <1>2, <2>1 DEF Ground, SourceRuns, MsgInv, piece
  <2>3. count(u) = b /\ \A v \in Unit : count(v)' = IF v = u THEN b + 1 ELSE count(v)
    BY <1>3, <1>4, <2>1 DEF count, copyVars
  <2>4. NextPiece(seq_msg, u, b) BY <1>4, <2>1, <2>2, <2>3 DEF NextPiece
  <2> QED BY <1>4, <2>1, <2>4 DEF Steady
<1>11. Sends(seq_msg)
  BY <1>3, <1>4, <1>9, <1>10 DEF Sends
<1>12. RequestInv => RequestInv'
  BY <1>2, <1>3, <1>4 DEF RequestInv, Serving, copyVars
<1>13. QuestionKept
  BY <1>2, <1>3, <1>4, <1>12 DEF QuestionKept, Serving, Crossing, copyVars
<1>14. seq_msg.kind = "REQ_MEM" => Answers(seq_msg)
  <2>1. seq_msg.kind = "REQ_MEM" => requested_addr.unit = u
    BY <1>4 DEF Aligned
  <2>2. requested_addr.unit = u => ~Serving
    BY <1>4 DEF RequestInv
  <2>3. requested_addr.unit = u => ~Serving'
    BY <1>2, <1>3, <1>4, <2>2 DEF Serving
  <2> QED BY <1>2, <1>3, <1>4, <1>12, <2>1, <2>3 DEF Answers, Crossing
<1> QED BY <1>2, <1>5, <1>6, <1>7, <1>8, <1>11, <1>13, <1>14
        DEF SourceRuns, SendsLast

\* It is lost: the two flags stay set.
LEMMA LastMarginLost ==
  ASSUME Ground, NEW t \in Thread, write_last_margin(t), tcp_write_err,
         UNCHANGED <<is_transmitting, seq_thread_is_transmitting>>
  PROVE  SourceRuns' /\ Loses /\ QuestionKept
<1> USE Typed
<1>1. /\ CanRun(t) /\ pc[t] = "last_write" /\ goto(t, Return(t)) /\ UNCHANGED fn
      /\ fn[t] = "send_margin"
  BY DEF write_last_margin, Step
<1>2. /\ here = "last_write" /\ who = "send_margin" /\ here' = "rest"
      /\ round' = round /\ round \in {"loop", "exit"}
      /\ ~Checking /\ ~Checking' /\ PlaceInv'
  BY <1>1, SendFlat DEF Sending, Return
<1>3. /\ UNCHANGED <<copyVars, flagVars, requests, wire>> /\ ~NoFailure
  BY <1>1, Refused DEF write_last_margin, flagVars, Writing
<1>4. /\ Copying /\ Copying' /\ ~Answering /\ ~Answering' /\ is_transmitting
      /\ no_request /\ tcp_sent = "none" /\ batch["send_margin"] = 0
      /\ postcopy_state.send_num >= BATCH_SIZE /\ Stalled'
  BY <1>2, <1>3
     DEF Ground, SourceRuns, FlagsInv, BatchInv, Copying, Answering, Stalled,
         flagVars, copyVars, Requested
<1>5. FlagsInv'
  BY <1>2, <1>3, <1>4 DEF Ground, SourceRuns, FlagsInv, copyVars, flagVars, Requested
<1>6. CursorInv'
  BY <1>2, <1>3, <1>4 DEF Ground, SourceRuns, CursorInv, copyVars
<1>7. BatchInv'
  BY <1>2, <1>3, <1>4 DEF Ground, SourceRuns, BatchInv, copyVars
<1>8. MsgInv'
  BY <1>2, <1>3, <1>4 DEF Ground, SourceRuns, MsgInv, copyVars
<1>9. Shuts BY <1>2, <1>3, <1>4 DEF Shuts, Open, copyVars
<1>10. QuestionKept
  BY <1>2, <1>3, <1>4
     DEF QuestionKept, Serving, Crossing, RequestInv, copyVars, flagVars
<1> QED BY <1>2, <1>3, <1>5, <1>6, <1>7, <1>8, <1>9, <1>10 DEF SourceRuns, Loses

LEMMA WriteLastMarginStep ==
  ASSUME Ground, RequestInv, NEW t \in Thread, write_last_margin(t)
  PROVE  SourceRuns' /\ SendsLast
<1>1. CASE write_ok(t) /\ sending_over BY <1>1, LastMarginSent
<1>2. CASE tcp_write_err /\ UNCHANGED <<is_transmitting, seq_thread_is_transmitting>>
  BY <1>2, LastMarginLost DEF SendsLast
<1> QED BY <1>1, <1>2, Zenon DEF write_last_margin

\* The last piece of a requested unit.
LEMMA WriteLastRequestedStep ==
  ASSUME Ground, NEW t \in Thread, write_last_requested(t)
  PROVE  SourceRuns' /\ SendsLast
<1> USE Typed
<1>1. /\ CanRun(t) /\ pc[t] = "last_write" /\ goto(t, "mark") /\ UNCHANGED fn
      /\ fn[t] # "send_margin" /\ (write_ok(t) \/ tcp_write_err)
  BY DEF write_last_requested, Step
<1>2. /\ here = "last_write" /\ who \in Requested /\ here' = "mark" /\ who' = who
      /\ round' = round /\ round \in {"loop", "exit"}
      /\ ~Checking /\ ~Checking' /\ PlaceInv'
  BY <1>1, SendFlat DEF Sending, Return, write_last_requested
<1>3. /\ UNCHANGED <<copyVars, flagVars, requests>>
      /\ wire' = Append(wire, msg) \/ (~NoFailure /\ UNCHANGED wire)
  <2>1. UNCHANGED <<copyVars, flagVars>> BY DEF write_last_requested
  <2>2. CASE write_ok(t)
    BY <2>1, <2>2 DEF write_last_requested, write_ok, tcp_write_ok
  <2>3. CASE tcp_write_err
    BY <1>1, <2>1, <2>3, Refused DEF Writing
  <2> QED BY <2>2, <2>3 DEF write_last_requested
<1> DEFINE u == requested_offset
           b == BATCH_SIZE - 1
<1>4. /\ Answering /\ Answering' /\ ~Copying /\ ~Copying' /\ ~is_transmitting
      /\ ~no_request /\ ~migration_done /\ round = "loop" /\ tcp_sent = "none"
      /\ msg.kind = "REQ_MEM" /\ requested_addr = Aligned(u)
      /\ msg.addr = u /\ msg.batch_num = b /\ msg.data = piece(u, b)
      /\ u \notin bitarray /\ answered = b /\ answered' = b + 1
  BY <1>2, <1>3
     DEF Ground, SourceRuns, FlagsInv, MsgInv, Copying, Answering, answered, piece,
         copyVars, flagVars, Requested
<1>5. FlagsInv'
  BY <1>2, <1>3, <1>4 DEF Ground, SourceRuns, FlagsInv, copyVars, flagVars, Requested
<1>6. CursorInv'
  BY <1>2, <1>3, <1>4 DEF Ground, SourceRuns, CursorInv, copyVars
<1>7. BatchInv'
  BY <1>2, <1>3, <1>4 DEF Ground, SourceRuns, BatchInv, copyVars
<1>8. MsgInv'
  BY <1>2, <1>3, <1>4 DEF Ground, SourceRuns, MsgInv, copyVars
<1>9. SourceRuns' BY <1>2, <1>5, <1>6, <1>7, <1>8 DEF SourceRuns
<1>10. /\ u \in Unit /\ b \in Nat /\ b \in Batch /\ count(u) = b
       /\ \A v \in Unit : count(v)' = IF v = u THEN b + 1 ELSE count(v)
  BY <1>3, <1>4 DEF count, copyVars, Batch
<1>11. Shuts /\ Open(u) /\ ~Open(msg.addr)'
  BY <1>2, <1>3, <1>4 DEF Shuts, Open, copyVars
<1>12. RequestInv => RequestInv'
  BY <1>2, <1>3, <1>4 DEF RequestInv, Serving, copyVars
<1>13. CASE wire' = Append(wire, msg)
  <2>1. Steady => Steady' BY <1>4 DEF Steady
  <2>2. NextPiece(msg, u, b) BY <1>4, <1>10 DEF NextPiece
  <2>3. Sends(msg)
    BY <1>4, <1>10, <1>11, <1>13, <2>1, <2>2 DEF Sends, MemKind
  <2>4. Answers(msg)
    BY <1>2, <1>3, <1>4, <1>12 DEF Answers, Serving, Crossing, Aligned, copyVars
  <2> QED BY <1>4, <1>9, <2>3, <2>4 DEF SendsLast
<1>14. CASE ~NoFailure /\ UNCHANGED wire
  <2>1. QuestionKept
    BY <1>2, <1>3, <1>4, <1>12 DEF QuestionKept, Serving, Crossing, copyVars
  <2> QED BY <1>9, <1>11, <1>14, <2>1 DEF Loses, SendsLast
<1> QED BY <1>3, <1>13, <1>14

\* The requested unit is marked.
LEMMA MarkStep ==
  ASSUME Ground, NEW t \in Thread, mark_requested(t)
  PROVE  SourceRuns' /\ Stays /\ QuestionKept
<1> USE Typed
<1>1. CanRun(t) /\ pc[t] = "mark" /\ goto(t, Return(t)) /\ UNCHANGED fn
  BY DEF mark_requested, Step
<1>2. /\ here = "mark" /\ who \in Sender /\ who = fn[t] /\ here' = "rest"
      /\ round' = round /\ round \in {"loop", "exit"}
      /\ ~Checking /\ ~Checking' /\ PlaceInv'
  BY <1>1, SendFlat DEF Sending, Return
<1>3. /\ who \in Requested /\ Answering /\ ~Copying /\ ~is_transmitting
      /\ ~no_request /\ ~migration_done /\ round = "loop" /\ tcp_sent = "none"
      /\ request_recv_disrupted <=> who = "postcopy_requested_disrupted"
      /\ requested_addr = Aligned(requested_offset)
      /\ requested_offset \notin bitarray /\ answered = BATCH_SIZE
  BY <1>2
     DEF Ground, SourceRuns, FlagsInv, MsgInv, Copying, Answering, answered, Requested
<1>4. /\ UNCHANGED <<linkVars, requested_addr, requested_offset, start_addr,
                     postcopy_state, batch, msg, seq_msg, tcp_sent, is_transmitting,
                     seq_thread_is_transmitting, fail_to_send, migration_done>>
      /\ bitarray' = bitarray \cup {requested_offset}
      /\ no_request' /\ ~request_recv_disrupted'
  <2>1. no_request' /\ ~request_recv_disrupted'
    BY <1>2, <1>3, Zenon DEF mark_requested
  <2>2. requested_addr.unit = requested_offset BY <1>3 DEF Aligned
  <2> QED BY <2>1, <2>2 DEF mark_requested, set_bitarray
<1>5. ~Answering' /\ ~Copying'
  BY <1>2, <1>3, <1>4 DEF Answering, Copying, Requested
<1>6. FlagsInv'
  BY <1>2, <1>3, <1>4, <1>5 DEF Ground, SourceRuns, FlagsInv
<1>7. CursorInv'
  BY <1>2, <1>3, <1>4, <1>5 DEF Ground, SourceRuns, CursorInv
<1>8. BatchInv'
  BY <1>2, <1>3, <1>4, <1>5 DEF Ground, SourceRuns, BatchInv
<1>9. MsgInv'
  BY <1>2, <1>3, <1>4, <1>5 DEF Ground, SourceRuns, MsgInv
<1>10. Stays
  <2>1. Shuts BY <1>2, <1>3, <1>4, <1>5 DEF Shuts, Open
  <2>2. Even BY <1>3, <1>4, <1>5 DEF Even, Steady, count
  <2> QED BY <1>4, <2>1, <2>2 DEF Stays, linkVars
<1>11. QuestionKept
  BY <1>2, <1>3, <1>4, <1>5
     DEF QuestionKept, Serving, Crossing, RequestInv, linkVars, Aligned
<1> QED BY <1>2, <1>6, <1>7, <1>8, <1>9, <1>10, <1>11 DEF SourceRuns

-----------------------------------------------------------------------------
(***************************************************************************)
(* The network thread at the source.                                       *)
(***************************************************************************)
Tokens == OverInv /\ TokenInv

\* No answer is under way when a question comes, or is looked at.
LEMMA FreeToAsk ==
  ASSUME Ground, Tokens, here = "rest", requests # <<>> \/ Checking
  PROVE  ~Answering /\ ~request_recv_disrupted /\ ~Crossing
<1>1. CASE aft_mig_in_mmio
  BY <1>1 DEF Tokens, TokenInv, QuestionInv, Asking, Serving
<1>2. CASE ~aft_mig_in_mmio
  <2>1. no_request /\ ~is_transmitting /\ bitarray = Unit
    BY <1>2 DEF Tokens, OverInv, Ground, SourceRuns, FlagsInv
  <2> QED BY <2>1 DEF Tokens, TokenInv, RequestInv, Serving, Crossing, Copying,
             Ground, SourceRuns, FlagsInv
<1> QED BY <1>1, <1>2

\* The thread of a requested send leaves its place for the send function.
LEMMA StartStep ==
  ASSUME Ground, RequestInv, NEW t \in Thread, NEW f \in Requested,
         start_requested(t, f), CanRun(t),
         IF t = "net" THEN pc[t] = "check" ELSE pc[t] = "disrupted",
         ~is_transmitting, ~Answering, ~migration_done,
         request_recv_disrupted <=> f = "postcopy_requested_disrupted",
         Checking \/ request_recv_disrupted
  PROVE  SourceRuns' /\ Stays /\ QuestionKept
<1> USE Typed
<1>1. goto(t, "send") /\ fn' = [fn EXCEPT ![t] = f] /\ "send" \in Location
  BY DEF start_requested, call, Location
<1>2. /\ here = "rest" /\ here' = "send" /\ who' = f
      /\ round' = "loop" /\ round \in {"loop", "disrupted"} /\ ~Checking'
      /\ PlaceInv' /\ requested_addr.unit \in Unit \ bitarray
  <2>1. requested_addr.unit \in Unit \ bitarray /\ here = "rest"
    BY <1>1, Flat DEF RequestInv, Serving, Sending
  <2>2. CASE t = "net"
    <3>1. pc["seq"] = "loop"
      BY <1>1, <2>1, <2>2, Flat DEF Ground, SourceRuns, FlagsInv
    <3>2. pc'["seq"] = "loop" /\ pc'["net"] = "send" /\ round = "loop" /\ round' = round
      BY <1>1, <2>2, <3>1, Flat
    <3> QED BY <1>1, <2>1, <2>2, <3>1, <3>2, Flat DEF Sending, PlaceInv, Rounds
  <2>3. CASE t = "seq"
    <3>1. pc'["net"] = "idle" /\ pc'["seq"] = "send"
      BY <1>1, <2>3, Flat
    <3> QED BY <1>1, <2>1, <2>3, <3>1, Flat DEF Sending, PlaceInv, Rounds
  <2> QED BY <2>2, <2>3 DEF Thread
<1> DEFINE u == requested_addr.unit
<1>3. /\ UNCHANGED <<linkVars, bitarray, start_addr, postcopy_state, batch, seq_msg,
                     is_transmitting, seq_thread_is_transmitting,
                     request_recv_disrupted, fail_to_send, migration_done>>
      /\ requested_addr' = Aligned(u) /\ requested_offset' = u
      /\ msg'.kind = "MEM" /\ msg'.addr = u
      /\ tcp_sent' = f /\ ~no_request'
  <2>1. ~no_request' BY Zenon DEF start_requested
  <2> QED BY <1>2, <2>1 DEF start_requested, Message
<1>4. ~Copying /\ ~Copying' /\ Answering'
  BY <1>2, <1>3 DEF Copying, Answering
<1>5. FlagsInv'
  BY <1>2, <1>3, <1>4 DEF Ground, SourceRuns, FlagsInv, Requested
<1>6. CursorInv'
  BY <1>2, <1>3, <1>4 DEF Ground, SourceRuns, CursorInv
<1>7. BatchInv'
  BY <1>2, <1>3, <1>4 DEF Ground, SourceRuns, BatchInv, Answering
<1>8. MsgInv'
  BY <1>2, <1>3, <1>4 DEF Ground, SourceRuns, MsgInv
<1>9. Stays
  <2>1. answered' = 0
    BY <1>2, <1>3 DEF answered, Ground, SourceRuns, BatchInv, Answering
  <2>2. Shuts BY <1>2, <1>3, <1>4 DEF Shuts, Open
  <2>3. Even BY <1>2, <1>3, <1>4, <2>1 DEF Even, Steady, count
  <2> QED BY <1>3, <2>2, <2>3 DEF Stays, linkVars
<1>10. QuestionKept
  BY <1>2, <1>3, <1>4
     DEF QuestionKept, Serving, Crossing, RequestInv, linkVars, Aligned
<1> QED BY <1>2, <1>5, <1>6, <1>7, <1>8, <1>9, <1>10 DEF SourceRuns

\* The source takes the question.
Takes ==
  /\ requests # <<>> /\ requests' = Tail(requests)
  /\ requested_addr' = Head(requests)
  /\ ~Serving' /\ (Checking' => ~Crossing') /\ RequestInv'

LEMMA TakeStep ==
  ASSUME Ground, Tokens, echo_client_recv
  PROVE  SourceRuns' /\ Stays /\ Takes
<1> USE Typed
<1> PICK l : l = IF Head(requests).unit \in bitarray THEN "idle" ELSE "check" OBVIOUS
<1>1. /\ CanRun("net") /\ pc["net"] = "idle" /\ goto("net", l) /\ l \in Location
      /\ Head(requests) \in Address /\ Head(requests).unit \in Unit
  <2>1. requests \in Seq(Address) /\ requests # <<>>
    BY DEF echo_client_recv, Ground, TypeInv, TypeOK, LinkTypeOK
  <2>2. Head(requests) \in Address BY <2>1
  <2>3. Head(requests).unit \in Unit BY <2>2 DEF Address
  <2>4. l \in Location BY DEF Location
  <2> QED BY <2>2, <2>3, <2>4 DEF echo_client_recv, Step
<1>2. /\ here = "rest" /\ here' = "rest" /\ round' = round /\ round \in {"loop", "exit"}
      /\ ~Checking /\ (Checking' <=> l = "check")
      /\ pc'["net"] = l /\ pc'["seq"] \in {"loop", "exit"} /\ l \in {"idle", "check"}
  BY <1>1, Flat DEF Sending
<1>3. PlaceInv' BY <1>2 DEF PlaceInv, Rounds
<1>4. /\ UNCHANGED <<flagVars, wire, bitarray, requested_offset, start_addr,
                     postcopy_state, batch, msg, seq_msg, tcp_sent>>
      /\ requests # <<>> /\ requests' = Tail(requests)
      /\ requested_addr' = Head(requests)
  BY DEF echo_client_recv
<1>5. ~Answering /\ ~request_recv_disrupted /\ ~Crossing
  BY <1>2, <1>4, FreeToAsk
<1>6. ~Answering' /\ (Copying' <=> Copying) /\ ~request_recv_disrupted'
  BY <1>2, <1>4, <1>5 DEF Answering, Copying, flagVars
<1>7. FlagsInv'
  BY <1>2, <1>4, <1>5, <1>6 DEF Ground, SourceRuns, FlagsInv, flagVars
<1>8. CursorInv'
  BY <1>2, <1>4, <1>5, <1>6 DEF Ground, SourceRuns, CursorInv
<1>9. BatchInv'
  BY <1>2, <1>4, <1>5, <1>6 DEF Ground, SourceRuns, BatchInv, Stalled
<1>10. MsgInv'
  BY <1>2, <1>4, <1>5, <1>6 DEF Ground, SourceRuns, MsgInv, Crossing, MemKind
<1>11. Stays
  <2>1. Shuts BY <1>2, <1>4, <1>6 DEF Shuts, Open
  <2>2. Even BY <1>2, <1>4, <1>5, <1>6 DEF Even, Steady, count, copied
  <2> QED BY <1>4, <2>1, <2>2 DEF Stays
<1>12. Takes
  <2>1. ~Serving' BY <1>6 DEF Serving
  <2>2. Checking' => Head(requests).unit \notin bitarray BY <1>2
  <2>3. Crossing' => Head(requests).unit \in bitarray
    BY <1>2, <1>4, <1>6 DEF Crossing, Aligned, Ground, SourceRuns, CursorInv
  <2>4. RequestInv' BY <1>1, <1>2, <1>4, <2>1 DEF RequestInv
  <2> QED BY <1>4, <2>1, <2>2, <2>3, <2>4 DEF Takes
<1> QED BY <1>3, <1>7, <1>8, <1>9, <1>10, <1>11, <1>12 DEF SourceRuns

\* request_recv answers, or leaves the answer to the background thread.
LEMMA CheckStep ==
  ASSUME Ground, Tokens, request_recv
  PROVE  SourceRuns' /\ Stays /\ QuestionKept
<1> USE Typed
<1>1. CanRun("net") /\ pc["net"] = "check" /\ RequestInv
  BY DEF request_recv, Step, Tokens, TokenInv
<1>2. here = "rest" /\ Checking /\ round \in {"loop", "exit"}
  <2>1. pc["seq"] \in {"loop", "exit"}
    BY <1>1 DEF Ground, Serial, CanRun, Return, Thread
  <2> QED BY <1>1, <2>1 DEF here, round, Checking, Sending
<1>3. ~Answering /\ ~request_recv_disrupted BY <1>2, FreeToAsk
<1>4. requested_addr.unit \in Unit \ bitarray /\ ~migration_done /\ round = "loop"
  BY <1>1, <1>2 DEF RequestInv, Ground, SourceRuns, FlagsInv
<1>5. CASE ~seq_thread_is_transmitting /\ start_requested("net", "postcopy_requested")
  <2>1. ~is_transmitting
    BY <1>5 DEF Ground, SourceRuns, FlagsInv
  <2> DEFINE f == "postcopy_requested"
  <2>2. f \in Requested /\ (request_recv_disrupted <=> f = "postcopy_requested_disrupted")
    BY <1>3 DEF Requested
  <2> QED BY <1>1, <1>2, <1>3, <1>4, <1>5, <2>1, <2>2, StartStep
<1>6. CASE ~(~seq_thread_is_transmitting /\ start_requested("net", "postcopy_requested"))
  <2>1. /\ is_transmitting /\ request_recv_disrupted' /\ goto("net", "idle")
        /\ UNCHANGED <<linkVars, copyVars, fn, no_request, is_transmitting,
                       seq_thread_is_transmitting, fail_to_send, migration_done>>
    <3>1. request_recv_disrupted' BY <1>6, Zenon DEF request_recv
    <3> QED BY <1>6, <3>1 DEF request_recv, Ground, SourceRuns, FlagsInv
  <2>2. /\ here' = "rest" /\ round' = round /\ ~Checking'
        /\ pc'["net"] = "idle" /\ pc'["seq"] \in {"loop", "exit"}
    BY <1>1, <2>1, Flat DEF Sending, Location
  <2>3. PlaceInv' BY <2>2 DEF PlaceInv, Rounds
  <2>4. Copying /\ Copying' /\ ~Answering'
    BY <1>2, <1>3, <2>1, <2>2 DEF Copying, Answering, copyVars
  <2>5. FlagsInv'
    BY <1>2, <1>3, <2>1, <2>2, <2>4 DEF Ground, SourceRuns, FlagsInv, Requested,
       copyVars
  <2>6. CursorInv'
    BY <1>2, <2>1, <2>2, <2>4 DEF Ground, SourceRuns, CursorInv, copyVars
  <2>7. BatchInv'
    BY <1>2, <2>1, <2>2, <2>4 DEF Ground, SourceRuns, BatchInv, Stalled, copyVars
  <2>8. MsgInv'
    BY <1>2, <2>1, <2>2, <2>4 DEF Ground, SourceRuns, MsgInv, Stalled, copyVars
  <2>9. Stays
    <3>1. Shuts BY <1>2, <2>1, <2>2, <2>4 DEF Shuts, Open, copyVars
    <3>2. Even
      BY <1>2, <1>3, <2>1, <2>2, <2>4 DEF Even, Steady, count, copied, copyVars
    <3> QED BY <2>1, <3>1, <3>2 DEF Stays, linkVars
  <2>10. QuestionKept
    BY <1>2, <1>4, <2>1, <2>2, <2>4
       DEF QuestionKept, Serving, Crossing, RequestInv, copyVars, linkVars
  <2> QED BY <2>3, <2>5, <2>6, <2>7, <2>8, <2>9, <2>10 DEF SourceRuns
<1> QED BY <1>5, <1>6

\* The callback of tcp_sent() goes on with a send function.
LEMMA SentStep ==
  ASSUME Ground, NEW n \in 1 .. unacked, sent_event(n)
  PROVE  SourceRuns' /\ Stays /\ QuestionKept
<1> USE Typed
<1>1. /\ CanRun("net") /\ pc["net"] = "idle"
      /\ UNCHANGED <<copyVars, wire, requests, no_request, is_transmitting,
                     seq_thread_is_transmitting, request_recv_disrupted,
                     fail_to_send, migration_done>>
  BY DEF sent_event, Step, tcp_ack
<1>2. /\ here = "rest" /\ round \in {"loop", "exit"} /\ ~Checking
      /\ pc["seq"] \in {"loop", "exit"}
  <2>1. pc["seq"] \in {"loop", "exit"}
    BY <1>1 DEF Ground, Serial, CanRun, Return, Thread
  <2> QED BY <1>1, <2>1 DEF here, round, Checking, Sending
<1>3. /\ round' = round /\ ~Checking' /\ PlaceInv'
      /\ IF tcp_sent \in Sender THEN here' = "send" /\ who' = tcp_sent
                                ELSE here' = "rest"
  <2>1. CASE tcp_sent \in Sender
    <3>1. goto("net", "send") /\ fn'["net"] = tcp_sent /\ "send" \in Location
      BY <2>1 DEF sent_event, call, Location
    <3>2. /\ round' = round /\ ~Checking' /\ here' = "send" /\ who' = tcp_sent
          /\ pc'["net"] = "send" /\ pc'["seq"] = pc["seq"]
      BY <1>1, <3>1, Flat DEF Sending
    <3> QED BY <1>2, <2>1, <3>2 DEF PlaceInv, Rounds, Sending
  <2>2. CASE tcp_sent \notin Sender
    <3>1. pc' = pc BY <2>2 DEF sent_event
    <3> QED BY <1>1, <1>2, <2>2, <3>1
            DEF here, round, Checking, PlaceInv, Rounds, Sending
  <2> QED BY <2>1, <2>2
<1>4. (Copying' <=> Copying) /\ (Answering' <=> Answering)
  BY <1>1, <1>2, <1>3 DEF Copying, Answering, copyVars
<1>5. FlagsInv'
  BY <1>1, <1>2, <1>3, <1>4 DEF Ground, SourceRuns, FlagsInv, Requested, copyVars
<1>6. CursorInv'
  BY <1>1, <1>2, <1>3, <1>4 DEF Ground, SourceRuns, CursorInv, copyVars
<1>7. BatchInv'
  BY <1>1, <1>2, <1>3, <1>4 DEF Ground, SourceRuns, BatchInv, Stalled, copyVars
<1>8. MsgInv'
  BY <1>1, <1>2, <1>3, <1>4 DEF Ground, SourceRuns, MsgInv, Stalled, copyVars
<1>9. Stays
  <2>1. Shuts BY <1>1, <1>2, <1>3, <1>4 DEF Shuts, Open, copyVars
  <2>2. Even
    BY <1>1, <1>2, <1>3, <1>4 DEF Even, Steady, count, copied, answered, copyVars
  <2> QED BY <1>1, <2>1, <2>2 DEF Stays
<1>10. QuestionKept
  BY <1>1, <1>2, <1>3, <1>4
     DEF QuestionKept, Serving, Crossing, RequestInv, copyVars
<1> QED BY <1>3, <1>5, <1>6, <1>7, <1>8, <1>9, <1>10 DEF SourceRuns

-----------------------------------------------------------------------------
(***************************************************************************)
(* The background thread outside the send functions.                       *)
(***************************************************************************)
LEMMA SeqFlat ==
  ASSUME Ground, NEW l \in Rounds \cup {"send"}, CanRun("seq"), pc["seq"] \in Rounds,
         goto("seq", l)
  PROVE  /\ here = "rest" /\ here' = IF l = "send" THEN "send" ELSE "rest"
         /\ round = pc["seq"] /\ round' = IF l = "send" THEN "loop" ELSE l
         /\ ~Checking /\ ~Checking' /\ PlaceInv'
         /\ l = "send" => who' = fn'["seq"]
<1> USE Typed
<1>1. l \in Location BY DEF Rounds, Location
<1>2. /\ pc'["net"] = "idle" /\ pc'["seq"] = l /\ ~Checking /\ ~Checking'
      /\ here = "rest" /\ here' = IF l = "send" THEN "send" ELSE "rest"
      /\ round = pc["seq"] /\ round' = IF l = "send" THEN "loop" ELSE l
      /\ l = "send" => who' = fn'["seq"]
  BY <1>1, Flat DEF Rounds, Sending
<1> QED BY <1>2 DEF PlaceInv, Sending

\* A round of the loop begins, without a change.
LEMMA LoopStep ==
  ASSUME Ground, loop_free \/ loop_done
  PROVE  SourceRuns' /\ Stays /\ QuestionKept
<1> USE Typed
<1>1. /\ CanRun("seq") /\ pc["seq"] = "loop"
      /\ UNCHANGED <<linkVars, flagVars, copyVars, fn>>
  BY DEF loop_free, loop_done, loop_seq, Step
<1>2. PICK l \in {"disrupted", "task", "exit", "done"} :
        /\ goto("seq", l)
        /\ IF l \in {"disrupted", "task"}
             THEN /\ ~migration_done /\ no_request /\ ~is_transmitting
                  /\ l = "disrupted" <=> request_recv_disrupted
             ELSE migration_done
  BY Zenon DEF loop_free, loop_done, loop_seq, Ground, SourceRuns, FlagsInv
<1>3. /\ here = "rest" /\ here' = "rest" /\ round = "loop" /\ round' = l
      /\ ~Checking /\ ~Checking' /\ PlaceInv'
  BY <1>1, <1>2, SeqFlat DEF Rounds
<1>4. /\ ~Answering /\ ~Answering' /\ ~Copying /\ ~Copying'
      /\ no_request /\ ~is_transmitting
  BY <1>1, <1>2, <1>3
     DEF Ground, SourceRuns, FlagsInv, Answering, Copying, flagVars, copyVars
<1>5. FlagsInv'
  BY <1>1, <1>2, <1>3, <1>4 DEF Ground, SourceRuns, FlagsInv, flagVars, copyVars
<1>6. CursorInv'
  BY <1>1, <1>2, <1>3, <1>4 DEF Ground, SourceRuns, CursorInv, copyVars
<1>7. BatchInv'
  BY <1>1, <1>2, <1>3, <1>4 DEF Ground, SourceRuns, BatchInv, copyVars
<1>8. MsgInv'
  BY <1>1, <1>2, <1>3, <1>4 DEF Ground, SourceRuns, MsgInv, copyVars
<1>9. Stays
  <2>1. Shuts BY <1>1, <1>3, <1>4 DEF Shuts, Open, copyVars
  <2>2. Even BY <1>1, <1>3, <1>4 DEF Even, Steady, count, copyVars
  <2> QED BY <1>1, <2>1, <2>2 DEF Stays, linkVars
<1>10. QuestionKept
  BY <1>1, <1>2, <1>3, <1>4
     DEF QuestionKept, Serving, Crossing, RequestInv, copyVars, flagVars, linkVars
<1> QED BY <1>3, <1>5, <1>6, <1>7, <1>8, <1>9, <1>10 DEF SourceRuns

\* A send function that ran out of room is called again.
LEMMA ResendStep ==
  ASSUME Ground, loop_resend
  PROVE  SourceRuns' /\ Stays /\ QuestionKept
<1> USE Typed
<1>1. /\ CanRun("seq") /\ pc["seq"] = "loop" /\ goto("seq", "send")
      /\ fn' = [fn EXCEPT !["seq"] = Interrupted]
      /\ ~migration_done /\ ~(no_request /\ ~is_transmitting)
      /\ Interrupted \in fail_to_send
      /\ fail_to_send' = fail_to_send \ {Interrupted}
      /\ UNCHANGED <<linkVars, copyVars, no_request, is_transmitting,
                     seq_thread_is_transmitting, request_recv_disrupted,
                     migration_done>>
  BY DEF loop_resend, call, Step
<1>2. /\ here = "rest" /\ here' = "send" /\ round = "loop" /\ round' = "loop"
      /\ ~Checking /\ ~Checking' /\ PlaceInv' /\ who' = Interrupted
  BY <1>1, SeqFlat DEF Rounds
<1>3. IF Interrupted = "send_margin" THEN is_transmitting
      ELSE Interrupted \in Requested /\ tcp_sent = Interrupted /\ ~no_request
  <2>1. CASE no_request BY <1>1, <2>1 DEF Interrupted
  <2>2. CASE ~no_request
    <3>1. /\ Interrupted \in Requested
          /\ (Interrupted = "postcopy_requested_disrupted" <=> request_recv_disrupted)
          /\ Interrupted # "send_margin"
      BY <2>2 DEF Interrupted, Requested
    <3>2. Answering BY <1>1, <2>2, <3>1 DEF Ground, SourceRuns, FlagsInv
    <3>3. tcp_sent \in Requested BY <1>2, <3>2 DEF Answering
    <3>4. tcp_sent = Interrupted
      BY <3>1, <3>3 DEF Ground, SourceRuns, FlagsInv, Requested
    <3> QED BY <2>2, <3>1, <3>4
  <2> QED BY <2>1, <2>2
<1>4. (Answering' <=> Answering) /\ (Copying' <=> Copying)
  BY <1>1, <1>2 DEF Answering, Copying, copyVars
<1> HIDE DEF Interrupted
<1>5. FlagsInv'
  BY <1>1, <1>2, <1>3, <1>4 DEF Ground, SourceRuns, FlagsInv, copyVars, Requested
<1>6. CursorInv'
  BY <1>1, <1>2, <1>3, <1>4 DEF Ground, SourceRuns, CursorInv, copyVars
<1>7. BatchInv'
  BY <1>1, <1>2, <1>3, <1>4 DEF Ground, SourceRuns, BatchInv, Stalled, copyVars
<1>8. MsgInv'
  BY <1>1, <1>2, <1>3, <1>4 DEF Ground, SourceRuns, MsgInv, Stalled, copyVars
<1>9. Stays
  <2>1. Shuts BY <1>1, <1>2, <1>4 DEF Shuts, Open, copyVars
  <2>2. Even
    BY <1>1, <1>2, <1>3, <1>4 DEF Even, Steady, count, copied, answered, copyVars
  <2> QED BY <1>1, <2>1, <2>2 DEF Stays, linkVars
<1>10. QuestionKept
  BY <1>1, <1>2, <1>3, <1>4
     DEF QuestionKept, Serving, Crossing, RequestInv, copyVars, linkVars
<1> QED BY <1>2, <1>5, <1>6, <1>7, <1>8, <1>9, <1>10 DEF SourceRuns

\* postcopy_seq_task begins the copy of a unit.
LEMMA TaskStep ==
  ASSUME Ground, postcopy_seq_task
  PROVE  SourceRuns' /\ Stays /\ QuestionKept
<1> USE Typed
<1>1. /\ CanRun("seq") /\ pc["seq"] = "task" /\ goto("seq", "getaddr")
      /\ is_transmitting' /\ seq_thread_is_transmitting'
      /\ UNCHANGED <<linkVars, copyVars, fn, no_request, request_recv_disrupted,
                     fail_to_send, migration_done>>
  <2>1. is_transmitting' /\ seq_thread_is_transmitting'
    BY Zenon DEF postcopy_seq_task
  <2> QED BY <2>1 DEF postcopy_seq_task, Step
<1>2. /\ here = "rest" /\ here' = "rest" /\ round = "task" /\ round' = "getaddr"
      /\ ~Checking /\ ~Checking' /\ PlaceInv'
  BY <1>1, SeqFlat DEF Rounds
<1>3. /\ ~Answering /\ ~Answering' /\ ~Copying /\ ~Copying' /\ no_request
      /\ tcp_sent = "none" /\ ~migration_done /\ ~request_recv_disrupted
  BY <1>1, <1>2
     DEF Ground, SourceRuns, FlagsInv, Answering, Copying, copyVars
<1>4. FlagsInv'
  BY <1>1, <1>2, <1>3 DEF Ground, SourceRuns, FlagsInv, copyVars, Requested
<1>5. CursorInv'
  BY <1>1, <1>2, <1>3 DEF Ground, SourceRuns, CursorInv, copyVars
<1>6. BatchInv'
  BY <1>1, <1>2, <1>3 DEF Ground, SourceRuns, BatchInv, copyVars
<1>7. MsgInv'
  BY <1>1, <1>2, <1>3 DEF Ground, SourceRuns, MsgInv, copyVars
<1>8. Stays
  <2>1. Shuts BY <1>1, <1>2, <1>3 DEF Shuts, Open, copyVars
  <2>2. Even BY <1>1, <1>2, <1>3 DEF Even, Steady, count, copyVars
  <2> QED BY <1>1, <2>1, <2>2 DEF Stays, linkVars
<1>9. QuestionKept
  BY <1>1, <1>2, <1>3
     DEF QuestionKept, Serving, Crossing, RequestInv, copyVars, linkVars
<1> QED BY <1>2, <1>4, <1>5, <1>6, <1>7, <1>8, <1>9 DEF SourceRuns

\* get_start_addr finds the unit u.
LEMMA GetAddrStep ==
  ASSUME Ground, RequestInv, NEW u \in Unit, get_start_addr(u)
  PROVE  SourceRuns' /\ Stays /\ QuestionKept
<1> USE Typed
<1>1. /\ CanRun("seq") /\ pc["seq"] = "getaddr" /\ goto("seq", "setbit")
      /\ u >= start_addr /\ u \notin bitarray /\ start_addr .. u - 1 \subseteq bitarray
      /\ start_addr' = u + 1 /\ u \in Nat
      /\ postcopy_state'.start_addr = u /\ postcopy_state'.send_num = 0
      /\ seq_msg'.kind = "MEM" /\ seq_msg'.addr = u
      /\ UNCHANGED <<linkVars, flagVars, fn, bitarray, requested_addr,
                     requested_offset, batch, msg, tcp_sent>>
  BY DEF get_start_addr, get_next_addr, set_send_margin, Step, Message, Unit
<1>2. /\ here = "rest" /\ here' = "rest" /\ round = "getaddr" /\ round' = "setbit"
      /\ ~Checking /\ ~Checking' /\ PlaceInv'
  BY <1>1, SeqFlat DEF Rounds
<1>3. /\ ~Answering /\ ~Answering' /\ ~Copying /\ Copying' /\ no_request
      /\ is_transmitting /\ tcp_sent = "none" /\ ~request_recv_disrupted
      /\ ~migration_done /\ batch["send_margin"] = 0
  BY <1>1, <1>2
     DEF Ground, SourceRuns, FlagsInv, BatchInv, Answering, Copying, flagVars,
         Requested
<1>4. FlagsInv'
  BY <1>1, <1>2, <1>3 DEF Ground, SourceRuns, FlagsInv, flagVars
<1>5. CursorInv'
  <2>1. \A v \in 0 .. start_addr - 1 : v \in bitarray
    BY <1>2 DEF Ground, SourceRuns, CursorInv
  <2>2. \A v \in 0 .. (u + 1) - 1 : v \in bitarray \/ v = u
    BY <1>1, <2>1
  <2> QED BY <1>1, <1>2, <1>3, <2>2 DEF CursorInv
<1>6. BatchInv'
  BY <1>1, <1>2, <1>3 DEF Ground, SourceRuns, BatchInv
<1>7. MsgInv'
  BY <1>1, <1>2, <1>3 DEF Ground, SourceRuns, MsgInv, MemKind
<1>8. Stays
  <2>1. Shuts BY <1>1, <1>2, <1>3 DEF Shuts, Open
  <2>2. Even BY <1>1, <1>2, <1>3 DEF Even, Steady, count, copied
  <2> QED BY <1>1, <2>1, <2>2 DEF Stays, linkVars
<1>9. QuestionKept
  <2>1. requested_addr.unit # u
    BY <1>1, <1>2, <1>3 DEF RequestInv, Serving
  <2>2. ~Crossing' BY <1>1, <2>1 DEF Crossing, Aligned
  <2> QED BY <1>1, <1>2, <1>3, <2>2
          DEF QuestionKept, Serving, RequestInv, flagVars, linkVars
<1> QED BY <1>2, <1>4, <1>5, <1>6, <1>7, <1>8, <1>9 DEF SourceRuns

\* get_start_addr finds none.
LEMMA NoAddrStep ==
  ASSUME Ground, no_start_addr
  PROVE  SourceRuns' /\ Stays /\ QuestionKept
<1> USE Typed
<1>1. /\ CanRun("seq") /\ pc["seq"] = "getaddr" /\ goto("seq", "done")
      /\ start_addr .. NUnits - 1 \subseteq bitarray
      /\ start_addr' = NUnits
      /\ ~is_transmitting' /\ ~seq_thread_is_transmitting'
      /\ UNCHANGED <<linkVars, fn, bitarray, requested_addr, requested_offset,
                     postcopy_state, batch, msg, seq_msg, tcp_sent, no_request,
                     request_recv_disrupted, fail_to_send, migration_done>>
  <2>1. ~is_transmitting' /\ ~seq_thread_is_transmitting'
    BY Zenon DEF no_start_addr, sending_over
  <2> QED BY <2>1 DEF no_start_addr, Step
<1>2. /\ here = "rest" /\ here' = "rest" /\ round = "getaddr" /\ round' = "done"
      /\ ~Checking /\ ~Checking' /\ PlaceInv'
  BY <1>1, SeqFlat DEF Rounds
<1>3. /\ ~Answering /\ ~Answering' /\ ~Copying /\ ~Copying' /\ no_request
      /\ tcp_sent = "none" /\ ~migration_done /\ ~request_recv_disrupted
  BY <1>1, <1>2
     DEF Ground, SourceRuns, FlagsInv, Answering, Copying, Requested
<1>4. bitarray = Unit
  <2>1. \A v \in 0 .. start_addr - 1 : v \in bitarray
    BY <1>2 DEF Ground, SourceRuns, CursorInv
  <2>2. \A v \in 0 .. NUnits - 1 : v \in bitarray
    BY <1>1, <2>1
  <2> QED BY <2>2 DEF Unit
<1>5. FlagsInv'
  BY <1>1, <1>2, <1>3, <1>4 DEF Ground, SourceRuns, FlagsInv
<1>6. CursorInv'
  BY <1>1, <1>2, <1>3, <1>4 DEF CursorInv, Unit
<1>7. BatchInv'
  BY <1>1, <1>2, <1>3 DEF Ground, SourceRuns, BatchInv
<1>8. MsgInv'
  BY <1>1, <1>2, <1>3 DEF Ground, SourceRuns, MsgInv
<1>9. Stays
  <2>1. Shuts BY <1>1, <1>2, <1>3 DEF Shuts, Open
  <2>2. Even BY <1>1, <1>2, <1>3 DEF Even, Steady, count
  <2> QED BY <1>1, <2>1, <2>2 DEF Stays, linkVars
<1>10. QuestionKept
  BY <1>1, <1>2, <1>3
     DEF QuestionKept, Serving, Crossing, RequestInv, linkVars
<1> QED BY <1>2, <1>5, <1>6, <1>7, <1>8, <1>9, <1>10 DEF SourceRuns

\* The unit of the background copy is marked before it is sent.
LEMMA SetBitStep ==
  ASSUME Ground, set_start_bitarray
  PROVE  SourceRuns' /\ Stays /\ QuestionKept
<1> USE Typed
<1> DEFINE u == postcopy_state.start_addr
<1>1. /\ CanRun("seq") /\ pc["seq"] = "setbit" /\ goto("seq", "send")
      /\ fn' = [fn EXCEPT !["seq"] = "send_margin"]
      /\ bitarray' = bitarray \cup {u}
      /\ UNCHANGED <<linkVars, flagVars, requested_addr, requested_offset,
                     start_addr, postcopy_state, batch, msg, seq_msg, tcp_sent>>
  BY DEF set_start_bitarray, set_bitarray, call, Step
<1>2. /\ here = "rest" /\ here' = "send" /\ round = "setbit" /\ round' = "loop"
      /\ ~Checking /\ ~Checking' /\ PlaceInv' /\ who' = "send_margin"
  BY <1>1, SeqFlat DEF Rounds
<1>3. /\ ~Answering /\ ~Answering' /\ Copying /\ Copying' /\ no_request
      /\ is_transmitting /\ tcp_sent = "none" /\ ~migration_done
      /\ ~request_recv_disrupted
  BY <1>1, <1>2
     DEF Ground, SourceRuns, FlagsInv, Answering, Copying, flagVars, Requested
<1>4. FlagsInv'
  BY <1>1, <1>2, <1>3 DEF Ground, SourceRuns, FlagsInv, flagVars, Requested
<1>5. CursorInv'
  BY <1>1, <1>2, <1>3 DEF Ground, SourceRuns, CursorInv
<1>6. BatchInv'
  BY <1>1, <1>2, <1>3 DEF Ground, SourceRuns, BatchInv, Stalled
<1>7. MsgInv'
  BY <1>1, <1>2, <1>3 DEF Ground, SourceRuns, MsgInv, Stalled, Requested
<1>8. Stays
  <2>1. Shuts BY <1>1, <1>2, <1>3 DEF Shuts, Open
  <2>2. Even BY <1>1, <1>2, <1>3 DEF Even, Steady, count, copied
  <2> QED BY <1>1, <2>1, <2>2 DEF Stays, linkVars
<1>9. QuestionKept
  BY <1>1, <1>2, <1>3
     DEF QuestionKept, Serving, Crossing, RequestInv, flagVars, linkVars
<1> QED BY <1>2, <1>4, <1>5, <1>6, <1>7, <1>8, <1>9 DEF SourceRuns

\* The answer that was left to the background thread.
LEMMA DisruptedStep ==
  ASSUME Ground, Tokens, send_disrupted_addr
  PROVE  SourceRuns' /\ Stays /\ QuestionKept
<1> USE Typed
<1>1. CanRun("seq") /\ pc["seq"] = "disrupted" /\ RequestInv
  BY DEF send_disrupted_addr, Step, Tokens, TokenInv
<1>2. here = "rest" /\ round = "disrupted"
  <2>1. pc["net"] \notin Sending
    BY <1>1 DEF Ground, Serial, CanRun, Return, Thread, Sending
  <2> QED BY <1>1, <2>1 DEF here, round, Sending
<1>3. /\ no_request /\ ~is_transmitting /\ request_recv_disrupted
      /\ ~migration_done /\ ~Answering
  BY <1>2 DEF Ground, SourceRuns, FlagsInv
<1>4. requested_addr.unit \notin bitarray
  BY <1>1, <1>2, <1>3 DEF RequestInv, Serving
<1> DEFINE f == "postcopy_requested_disrupted"
<1>5. /\ f \in Requested /\ start_requested("seq", f)
      /\ (request_recv_disrupted <=> f = "postcopy_requested_disrupted")
  BY <1>3, <1>4 DEF send_disrupted_addr, Requested
<1> QED BY <1>1, <1>3, <1>5, StartStep

\* The message that the migration is done is made ...
LEMMA DoneStep ==
  ASSUME Ground, send_migration_done
  PROVE  SourceRuns' /\ Stays /\ QuestionKept
<1> USE Typed
<1>1. /\ CanRun("seq") /\ pc["seq"] = "done"
      /\ UNCHANGED <<linkVars, fn, bitarray, requested_addr, requested_offset,
                     start_addr, postcopy_state, batch, msg, no_request,
                     is_transmitting, seq_thread_is_transmitting,
                     request_recv_disrupted, fail_to_send>>
  BY DEF send_migration_done, Step
<1>2. PICK l \in {"write_done", "loop"} :
        /\ goto("seq", l)
        /\ IF l = "write_done"
             THEN /\ seq_msg'.kind = "MIG_DONE"
                  /\ tcp_sent' = "migration_done_sent"
                  /\ UNCHANGED migration_done
             ELSE migration_done' /\ UNCHANGED <<seq_msg, tcp_sent>>
  <2>1. CASE tcp_sendbuf_available
    <3>1. seq_msg' = [seq_msg EXCEPT !.kind = "MIG_DONE"]
      BY <2>1 DEF send_migration_done
    <3>2. seq_msg'.kind = "MIG_DONE" BY <3>1 DEF Message
    <3>3. goto("seq", "write_done") /\ tcp_sent' = "migration_done_sent"
          /\ UNCHANGED migration_done
      BY <2>1 DEF send_migration_done
    <3> QED BY <3>2, <3>3
  <2>2. CASE ~tcp_sendbuf_available
    <3>1. migration_done' BY <2>2, Zenon DEF send_migration_done
    <3>2. goto("seq", "loop") /\ UNCHANGED <<seq_msg, tcp_sent>>
      BY <2>2 DEF send_migration_done
    <3> QED BY <3>1, <3>2
  <2> QED BY <2>1, <2>2
<1>3. /\ here = "rest" /\ here' = "rest" /\ round = "done" /\ round' = l
      /\ ~Checking /\ ~Checking' /\ PlaceInv'
  BY <1>1, <1>2, SeqFlat DEF Rounds
<1>4. /\ ~Answering /\ ~Answering' /\ ~Copying /\ ~Copying' /\ no_request
      /\ ~is_transmitting /\ bitarray = Unit
  BY <1>1, <1>2, <1>3
     DEF Ground, SourceRuns, FlagsInv, Answering, Copying, Requested
<1>5. FlagsInv'
  BY <1>1, <1>2, <1>3, <1>4 DEF Ground, SourceRuns, FlagsInv, Unit, Requested
<1>6. CursorInv'
  BY <1>1, <1>2, <1>3, <1>4 DEF Ground, SourceRuns, CursorInv
<1>7. BatchInv'
  BY <1>1, <1>2, <1>3, <1>4 DEF Ground, SourceRuns, BatchInv, Answering
<1>8. MsgInv'
  BY <1>1, <1>2, <1>3, <1>4 DEF Ground, SourceRuns, MsgInv
<1>9. Stays
  <2>1. Shuts BY <1>1, <1>3, <1>4 DEF Shuts, Open
  <2>2. Even BY <1>1, <1>3, <1>4 DEF Even, Steady, count
  <2> QED BY <1>1, <2>1, <2>2 DEF Stays, linkVars
<1>10. QuestionKept
  BY <1>1, <1>3, <1>4
     DEF QuestionKept, Serving, Crossing, RequestInv, linkVars
<1> QED BY <1>3, <1>5, <1>6, <1>7, <1>8, <1>9, <1>10 DEF SourceRuns

\* ... and sent, or lost.
LEMMA WriteDoneStep ==
  ASSUME Ground, write_migration_done
  PROVE  SourceRuns' /\ (Stays \/ Ends) /\ QuestionKept
<1> USE Typed
<1>1. /\ CanRun("seq") /\ pc["seq"] = "write_done" /\ goto("seq", "loop")
      /\ migration_done' /\ UNCHANGED requests
      /\ wire' = Append(wire, seq_msg) \/ UNCHANGED wire
      /\ UNCHANGED <<copyVars, fn, no_request, is_transmitting,
                     seq_thread_is_transmitting, request_recv_disrupted,
                     fail_to_send>>
  <2>1. migration_done' BY Zenon DEF write_migration_done
  <2>2. CanRun("seq") /\ pc["seq"] = "write_done"
    BY DEF write_migration_done, Step
  <2>3. CASE tcp_write_ok(seq_msg)
    BY <2>1, <2>2, <2>3 DEF write_migration_done, tcp_write_ok
  <2>4. CASE tcp_write_err
    BY <2>1, <2>2, <2>4 DEF write_migration_done, tcp_write_err
  <2> QED BY <2>3, <2>4 DEF write_migration_done
<1>2. /\ here = "rest" /\ here' = "rest" /\ round = "write_done" /\ round' = "loop"
      /\ ~Checking /\ ~Checking' /\ PlaceInv'
  BY <1>1, SeqFlat DEF Rounds
<1>3. /\ ~Answering /\ ~Answering' /\ ~Copying /\ ~Copying' /\ no_request
      /\ ~is_transmitting /\ bitarray = Unit /\ seq_msg.kind = "MIG_DONE"
  BY <1>1, <1>2
     DEF Ground, SourceRuns, FlagsInv, MsgInv, Answering, Copying, Requested, copyVars
<1>4. FlagsInv'
  BY <1>1, <1>2, <1>3 DEF Ground, SourceRuns, FlagsInv, Unit, Requested, copyVars
<1>5. CursorInv'
  BY <1>1, <1>2, <1>3 DEF Ground, SourceRuns, CursorInv, copyVars
<1>6. BatchInv'
  BY <1>1, <1>2, <1>3 DEF Ground, SourceRuns, BatchInv, Answering, copyVars
<1>7. MsgInv'
  BY <1>1, <1>2, <1>3 DEF Ground, SourceRuns, MsgInv, copyVars
<1>8. Stays \/ Ends
  <2>1. Shuts BY <1>1, <1>2, <1>3 DEF Shuts, Open, copyVars
  <2>2. Even BY <1>1, <1>2, <1>3 DEF Even, Steady, count, copyVars
  <2> QED BY <1>1, <1>3, <2>1, <2>2 DEF Stays, Ends
<1>9. QuestionKept
  BY <1>1, <1>2, <1>3
     DEF QuestionKept, Serving, Crossing, RequestInv, copyVars
<1> QED BY <1>2, <1>4, <1>5, <1>6, <1>7, <1>8, <1>9 DEF SourceRuns

\* Every step of the source.
LEMMA SourceStep ==
  ASSUME Ground, Tokens, NetStep \/ SeqStep
  PROVE  /\ SourceRuns'
         /\ \/ Stays /\ (QuestionKept \/ Takes)
            \/ SendsLast
            \/ Ends /\ QuestionKept
<1>1. RequestInv BY DEF Tokens, TokenInv
<1>2. ASSUME NEW t \in Thread, SendStep(t)
      PROVE  SourceRuns' /\ ((Stays /\ QuestionKept) \/ SendsLast)
  <2>1. CASE send_no_room(t) BY <2>1, NoRoomStep
  <2>2. CASE fill_margin(t) BY <2>2, FillMarginStep
  <2>3. CASE fill_requested(t) BY <2>3, FillRequestedStep
  <2>4. CASE write_piece(t) BY <2>4, WritePieceStep DEF SendsLast
  <2>5. CASE write_last_margin(t) BY <1>1, <2>5, WriteLastMarginStep
  <2>6. CASE write_last_requested(t) BY <2>6, WriteLastRequestedStep
  <2>7. CASE mark_requested(t) BY <2>7, MarkStep
  <2> QED BY <1>2, <2>1, <2>2, <2>3, <2>4, <2>5, <2>6, <2>7 DEF SendStep
<1>3. CASE NetStep
  <2>1. CASE echo_client_recv BY <2>1, TakeStep
  <2>2. CASE request_recv BY <2>2, CheckStep
  <2>3. CASE \E n \in 1 .. unacked : sent_event(n) BY <2>3, SentStep
  <2>4. CASE SendStep("net") BY <1>2, <2>4 DEF Thread
  <2> QED BY <1>3, <2>1, <2>2, <2>3, <2>4 DEF NetStep
<1>4. CASE SeqStep
  <2>1. CASE loop_free \/ loop_done BY <2>1, LoopStep
  <2>2. CASE loop_resend BY <2>2, ResendStep
  <2>3. CASE postcopy_seq_task BY <2>3, TaskStep
  <2>4. CASE \E u \in Unit : get_start_addr(u) BY <1>1, <2>4, GetAddrStep
  <2>5. CASE no_start_addr BY <2>5, NoAddrStep
  <2>6. CASE set_start_bitarray BY <2>6, SetBitStep
  <2>7. CASE send_disrupted_addr BY <2>7, DisruptedStep
  <2>8. CASE send_migration_done BY <2>8, DoneStep
  <2>9. CASE write_migration_done BY <2>9, WriteDoneStep
  <2>10. CASE SendStep("seq") BY <1>2, <2>10 DEF Thread
  <2> QED BY <1>4, <2>1, <2>2, <2>3, <2>4, <2>5, <2>6, <2>7, <2>8, <2>9, <2>10
          DEF SeqStep
<1> QED BY <1>3, <1>4

-----------------------------------------------------------------------------
(***************************************************************************)
(* The connection and the pieces.                                          *)
(***************************************************************************)
LEMMA Wire ==
  ASSUME NEW w \in Seq(Message)
  PROVE  /\ Len(w) \in Nat /\ DOMAIN w = 1 .. Len(w)
         /\ \A i \in DOMAIN w : w[i] \in Message /\ w[i].addr \in Unit
         /\ Batch \subseteq Nat /\ BATCH_SIZE \in Nat
<1>1. /\ Len(w) \in Nat /\ DOMAIN w = 1 .. Len(w)
      /\ \A i \in DOMAIN w : w[i] \in Message
  OBVIOUS
<1>2. \A m \in Message : m.addr \in Unit BY DEF Message
<1>3. Batch \subseteq Nat /\ BATCH_SIZE \in Nat BY LinkAssumption DEF Batch
<1> QED BY <1>1, <1>2, <1>3

LEMMA AppendAt ==
  ASSUME NEW w \in Seq(Message), NEW m \in Message, NEW w1, w1 = Append(w, m),
         NEW n, n = Len(w)
  PROVE  /\ w1 \in Seq(Message) /\ n \in Nat
         /\ DOMAIN w = 1 .. n /\ DOMAIN w1 = 1 .. n + 1
         /\ w1[n + 1] = m /\ \A i \in 1 .. n : w1[i] = w[i]
OBVIOUS

\* The next piece of a unit is appended.
Grows(w, c, m, u, b, w1, c1) ==
  /\ w \in Seq(Message) /\ m \in Message /\ u \in Unit /\ b \in Batch
  /\ m.kind \in MemKind /\ m.addr = u /\ m.batch_num = b /\ m.data = piece(u, b)
  /\ m.kind = "REQ_MEM" => b = BATCH_SIZE - 1
  /\ \A i \in DOMAIN w : Carries(w, i)
  /\ w1 = Append(w, m)
  /\ c \in [Unit -> Nat] /\ c1 \in [Unit -> Nat] /\ c[u] = b
  /\ \A v \in Unit : c1[v] = IF v = u THEN b + 1 ELSE c[v]

LEMMA AppendPiece ==
  ASSUME NEW w, NEW c, NEW m, NEW u, NEW b, NEW w1, NEW c1, NEW mm,
         Grows(w, c, m, u, b, w1, c1),
         InOrder(w, c), NoneLost(w, c, mm), NoneTwice(w, c, mm)
  PROVE  InOrder(w1, c1) /\ NoneLost(w1, c1, mm) /\ NoneTwice(w1, c1, mm)
<1> USE DEF Grows
<1> PICK n : n = Len(w) OBVIOUS
<1>1. /\ w1 \in Seq(Message) /\ n \in Nat
      /\ DOMAIN w = 1 .. n /\ DOMAIN w1 = 1 .. n + 1
      /\ w1[n + 1] = m /\ \A i \in 1 .. n : w1[i] = w[i]
  BY AppendAt
<1>2. b \in Nat /\ \A v \in Unit : c[v] \in Nat /\ c1[v] \in Nat /\ c[v] <= c1[v]
  BY Wire
<1>3. /\ \A i \in DOMAIN w : w[i].addr \in Unit /\ w[i].batch_num \in Nat
      /\ \A i \in DOMAIN w : Carries(w, i)
  BY Wire DEF Message
<1>4. \A i \in DOMAIN w : w[i].batch_num < c[w[i].addr]
  BY <1>3 DEF InOrder
<1>5. InOrder(w1, c1)
  <2>1. ASSUME NEW i \in DOMAIN w1
        PROVE  /\ w1[i].batch_num \in Batch
               /\ w1[i].data = piece(w1[i].addr, w1[i].batch_num)
               /\ w1[i].kind = "REQ_MEM" => w1[i].batch_num = BATCH_SIZE - 1
               /\ w1[i].batch_num < c1[w1[i].addr]
    <3>1. CASE i \in DOMAIN w
      <4>1. /\ w1[i] = w[i] /\ w[i].batch_num < c[w[i].addr]
            /\ c[w[i].addr] <= c1[w[i].addr]
        BY <1>1, <1>2, <1>3, <1>4, <3>1
      <4>2. w[i].batch_num \in Nat /\ c[w[i].addr] \in Nat /\ c1[w[i].addr] \in Nat
        BY <1>2, <1>3, <3>1
      <4>3. w[i].batch_num < c1[w[i].addr] BY <4>1, <4>2
      <4> QED BY <1>3, <3>1, <4>1, <4>3 DEF InOrder
    <3>2. CASE i = n + 1 BY <1>1, <1>2, <3>2
    <3> QED BY <1>1, <2>1, <3>1, <3>2
  <2>2. ASSUME NEW i \in DOMAIN w1, NEW j \in DOMAIN w1, i < j, w1[i].addr = w1[j].addr
        PROVE  w1[i].batch_num < w1[j].batch_num
    <3>1. CASE j \in DOMAIN w
      <4>1. i \in DOMAIN w BY <1>1, <2>2, <3>1
      <4>2. w1[i] = w[i] /\ w1[j] = w[j] BY <1>1, <3>1, <4>1
      <4> QED BY <1>3, <2>2, <3>1, <4>1, <4>2 DEF InOrder
    <3>2. CASE j = n + 1
      <4>1. i \in DOMAIN w /\ w1[i] = w[i] BY <1>1, <2>2, <3>2
      <4>2. w[i].addr = u BY <1>1, <2>2, <3>2, <4>1
      <4> QED BY <1>1, <1>4, <3>2, <4>1, <4>2
    <3> QED BY <1>1, <3>1, <3>2
  <2>3. \A i \in DOMAIN w1 : Carries(w1, i)
    BY <1>1, <1>3 DEF Carries
  <2> QED BY <2>1, <2>2, <2>3 DEF InOrder
<1>6. NoneLost(w1, c1, mm)
  <2>1. ASSUME NEW v \in Unit, NEW k \in Batch, k < c1[v]
        PROVE  \/ piece(v, k) \in mm
               \/ \E i \in DOMAIN w1 :
                    Carries(w1, i) /\ w1[i].addr = v /\ w1[i].batch_num = k
    <3>1. CASE k < c[v]
      <4>1. CASE piece(v, k) \in mm BY <4>1
      <4>2. CASE piece(v, k) \notin mm
        <5>1. PICK i \in DOMAIN w : Carries(w, i) /\ w[i].addr = v /\ w[i].batch_num = k
          BY <3>1, <4>2 DEF NoneLost
        <5>2. i \in DOMAIN w1 /\ w1[i] = w[i] BY <1>1
        <5> QED BY <5>1, <5>2 DEF Carries
      <4> QED BY <4>1, <4>2
    <3>2. CASE ~(k < c[v])
      <4>1. v = u /\ k = b BY <1>2, <2>1, <3>2, Wire
      <4> QED BY <1>1, <4>1 DEF Carries
    <3> QED BY <3>1, <3>2
  <2> QED BY <2>1 DEF NoneLost
<1>7. NoneTwice(w1, c1, mm)
  <2>1. ASSUME NEW v \in Unit, NEW k \in Batch, piece(v, k) \in mm PROVE k < c1[v]
    <3>1. k < c[v] /\ k \in Nat BY <2>1, Wire DEF NoneTwice
    <3> QED BY <1>2, <3>1
  <2>2. ASSUME NEW i \in DOMAIN w1, NEW k \in Batch, piece(w1[i].addr, k) \in mm
        PROVE  k < w1[i].batch_num
    <3>1. CASE i \in DOMAIN w BY <1>1, <1>3, <2>2, <3>1 DEF NoneTwice
    <3>2. CASE i = n + 1 BY <1>1, <2>2, <3>2 DEF NoneTwice
    <3> QED BY <1>1, <3>1, <3>2
  <2> QED BY <2>1, <2>2 DEF NoneTwice
<1> QED BY <1>5, <1>6, <1>7

\* A message without a piece is appended.
LEMMA AppendDone ==
  ASSUME NEW w \in Seq(Message), NEW c \in [Unit -> Nat], NEW mm,
         InOrder(w, c), NoneLost(w, c, mm), NoneTwice(w, c, mm),
         NEW m \in Message, m.kind \notin MemKind, NEW w1, w1 = Append(w, m)
  PROVE  InOrder(w1, c) /\ NoneLost(w1, c, mm) /\ NoneTwice(w1, c, mm)
<1> PICK n : n = Len(w) OBVIOUS
<1>1. /\ w1 \in Seq(Message) /\ n \in Nat
      /\ DOMAIN w = 1 .. n /\ DOMAIN w1 = 1 .. n + 1
      /\ w1[n + 1] = m /\ \A i \in 1 .. n : w1[i] = w[i]
  BY AppendAt
<1>2. \A i \in DOMAIN w1 : Carries(w1, i) => i \in DOMAIN w /\ Carries(w, i) /\ w1[i] = w[i]
  BY <1>1 DEF Carries
<1>3. \A i \in DOMAIN w : i \in DOMAIN w1 /\ w1[i] = w[i] /\ (Carries(w, i) => Carries(w1, i))
  BY <1>1 DEF Carries
<1>4. InOrder(w1, c)
  <2>1. \A i \in DOMAIN w1 : Carries(w1, i) =>
          /\ w1[i].batch_num \in Batch
          /\ w1[i].data = piece(w1[i].addr, w1[i].batch_num)
          /\ w1[i].kind = "REQ_MEM" => w1[i].batch_num = BATCH_SIZE - 1
          /\ w1[i].batch_num < c[w1[i].addr]
    BY <1>2 DEF InOrder
  <2>2. \A i, j \in DOMAIN w1 :
          i < j /\ Carries(w1, i) /\ Carries(w1, j) /\ w1[i].addr = w1[j].addr
            => w1[i].batch_num < w1[j].batch_num
    BY <1>2 DEF InOrder
  <2>3. ASSUME NEW i \in DOMAIN w1, NEW j \in DOMAIN w1, i < j, Carries(w1, j)
        PROVE  Carries(w1, i)
    <3>1. j \in DOMAIN w /\ Carries(w, j) BY <1>2, <2>3
    <3>2. i \in DOMAIN w BY <1>1, <2>3, <3>1
    <3>3. Carries(w, i) BY <2>3, <3>1, <3>2 DEF InOrder
    <3> QED BY <1>3, <3>2, <3>3
  <2> QED BY <2>1, <2>2, <2>3 DEF InOrder
<1>5. NoneLost(w1, c, mm)
  BY <1>3 DEF NoneLost
<1>6. NoneTwice(w1, c, mm)
  BY <1>2 DEF NoneTwice
<1> QED BY <1>4, <1>5, <1>6

LEMMA TailAt ==
  ASSUME NEW w \in Seq(Message), w # <<>>, NEW w1, w1 = Tail(w), NEW n, n = Len(w)
  PROVE  /\ w1 \in Seq(Message) /\ n \in Nat /\ n >= 1
         /\ DOMAIN w = 1 .. n /\ DOMAIN w1 = 1 .. n - 1
         /\ Head(w) = w[1] /\ \A i \in 1 .. n - 1 : w1[i] = w[i + 1]
OBVIOUS

\* The first message is taken, and its piece is stored.
LEMMA TakeHead ==
  ASSUME NEW w \in Seq(Message), NEW c \in [Unit -> Nat], NEW mm,
         InOrder(w, c), NoneLost(w, c, mm), NoneTwice(w, c, mm),
         w # <<>>, NEW h, h = Head(w), NEW w1, w1 = Tail(w),
         NEW m1, m1 = IF h.kind \in MemKind THEN mm \cup {h.data} ELSE mm
  PROVE  InOrder(w1, c) /\ NoneLost(w1, c, m1) /\ NoneTwice(w1, c, m1)
<1> PICK n : n = Len(w) OBVIOUS
<1>1. /\ w1 \in Seq(Message) /\ n \in Nat /\ n >= 1
      /\ DOMAIN w = 1 .. n /\ DOMAIN w1 = 1 .. n - 1
      /\ h = w[1] /\ \A i \in 1 .. n - 1 : w1[i] = w[i + 1]
  BY TailAt
<1>2. \A i \in DOMAIN w1 : /\ i + 1 \in DOMAIN w /\ w1[i] = w[i + 1]
                           /\ Carries(w1, i) <=> Carries(w, i + 1)
  BY <1>1 DEF Carries
<1>3. 1 \in DOMAIN w /\ (Carries(w, 1) <=> h.kind \in MemKind)
  BY <1>1 DEF Carries
<1>4. InOrder(w1, c)
  <2>1. ASSUME NEW i \in DOMAIN w1, Carries(w1, i)
        PROVE  /\ w1[i].batch_num \in Batch
               /\ w1[i].data = piece(w1[i].addr, w1[i].batch_num)
               /\ w1[i].kind = "REQ_MEM" => w1[i].batch_num = BATCH_SIZE - 1
               /\ w1[i].batch_num < c[w1[i].addr]
    BY <1>2, <2>1 DEF InOrder
  <2>2. ASSUME NEW i \in DOMAIN w1, NEW j \in DOMAIN w1, i < j, Carries(w1, i),
               Carries(w1, j), w1[i].addr = w1[j].addr
        PROVE  w1[i].batch_num < w1[j].batch_num
    <3>1. i + 1 < j + 1 BY <1>1, <2>2
    <3> QED BY <1>2, <2>2, <3>1 DEF InOrder
  <2>3. ASSUME NEW i \in DOMAIN w1, NEW j \in DOMAIN w1, i < j, Carries(w1, j)
        PROVE  Carries(w1, i)
    <3>1. i + 1 < j + 1 BY <1>1, <2>3
    <3> QED BY <1>2, <2>3, <3>1 DEF InOrder
  <2> QED BY <2>1, <2>2, <2>3 DEF InOrder
<1>5. ASSUME Carries(w, 1)
      PROVE  h.addr \in Unit /\ h.batch_num \in Batch /\ h.data = piece(h.addr, h.batch_num)
  BY <1>1, <1>3, <1>5, Wire DEF InOrder
<1>6. NoneLost(w1, c, m1)
  <2>1. ASSUME NEW v \in Unit, NEW k \in Batch, k < c[v], piece(v, k) \notin m1
        PROVE  \E i \in DOMAIN w1 :
                 Carries(w1, i) /\ w1[i].addr = v /\ w1[i].batch_num = k
    <3>1. piece(v, k) \notin mm BY <2>1
    <3>2. PICK i \in DOMAIN w : Carries(w, i) /\ w[i].addr = v /\ w[i].batch_num = k
      BY <2>1, <3>1 DEF NoneLost
    <3>3. i # 1 BY <1>1, <1>3, <1>5, <2>1, <3>2
    <3>4. i - 1 \in DOMAIN w1 /\ (i - 1) + 1 = i BY <1>1, <3>3
    <3>5. w1[i - 1] = w[i] /\ Carries(w1, i - 1) BY <1>2, <3>2, <3>4
    <3> QED BY <3>2, <3>4, <3>5
  <2> QED BY <2>1 DEF NoneLost
<1>7. NoneTwice(w1, c, m1)
  <2>1. ASSUME NEW v \in Unit, NEW k \in Batch, piece(v, k) \in m1 PROVE k < c[v]
    <3>1. CASE piece(v, k) \in mm BY <3>1 DEF NoneTwice
    <3>2. CASE piece(v, k) \notin mm
      <4>1. Carries(w, 1) /\ piece(v, k) = h.data BY <1>3, <2>1, <3>2
      <4>2. v = h.addr /\ k = h.batch_num BY <1>5, <4>1 DEF piece
      <4> QED BY <1>1, <1>3, <4>1, <4>2 DEF InOrder
    <3> QED BY <3>1, <3>2
  <2>2. ASSUME NEW i \in DOMAIN w1, Carries(w1, i), NEW k \in Batch,
               piece(w1[i].addr, k) \in m1
        PROVE  k < w1[i].batch_num
    <3>0. i + 1 \in DOMAIN w /\ w1[i] = w[i + 1] /\ Carries(w, i + 1) /\ 1 < i + 1
      BY <1>1, <1>2, <2>2
    <3>1. CASE piece(w1[i].addr, k) \in mm BY <3>0, <3>1 DEF NoneTwice
    <3>2. CASE piece(w1[i].addr, k) \notin mm
      <4>1. Carries(w, 1) /\ piece(w1[i].addr, k) = h.data BY <1>3, <2>2, <3>2
      <4>2. w1[i].addr = h.addr /\ k = h.batch_num BY <1>5, <4>1 DEF piece
      <4> QED BY <1>1, <1>3, <3>0, <4>1, <4>2 DEF InOrder
    <3> QED BY <3>1, <3>2
  <2> QED BY <2>1, <2>2 DEF NoneTwice
<1> QED BY <1>4, <1>6, <1>7

\* The last piece of a unit makes it complete; nothing of it comes after that.
LEMMA LastPiece ==
  ASSUME NEW w \in Seq(Message), NEW c \in [Unit -> Nat], NEW mm,
         InOrder(w, c), NoneLost(w, c, mm), NoneTwice(w, c, mm),
         w # <<>>, NEW h, h = Head(w), h.kind \in MemKind,
         NEW b \in Batch
  PROVE  /\ h.batch_num = BATCH_SIZE - 1 => piece(h.addr, b) \in mm \cup {h.data}
         /\ ~ \A k \in Batch : piece(h.addr, k) \in mm
<1>1. 1 \in DOMAIN w /\ h = w[1] /\ Carries(w, 1) /\ DOMAIN w = 1 .. Len(w)
      /\ Len(w) \in Nat
  BY DEF Carries
<1>2. h.addr \in Unit /\ h.batch_num \in Batch /\ h.data = piece(h.addr, h.batch_num)
      /\ h.batch_num < c[h.addr]
  BY <1>1, Wire DEF InOrder
<1>3. ~ \A k \in Batch : piece(h.addr, k) \in mm
  BY <1>1, <1>2, Wire DEF NoneTwice
<1>4. ASSUME h.batch_num = BATCH_SIZE - 1, piece(h.addr, b) \notin mm \cup {h.data}
      PROVE  FALSE
  <2>1. b # h.batch_num BY <1>2, <1>4
  <2>2. b < h.batch_num BY <1>2, <1>4, <2>1, LinkAssumption DEF Batch
  <2>3. b < c[h.addr] BY <1>2, <2>2, Wire
  <2>4. PICK i \in DOMAIN w : Carries(w, i) /\ w[i].addr = h.addr /\ w[i].batch_num = b
    BY <1>2, <1>4, <2>3 DEF NoneLost
  <2>5. i # 1 BY <1>1, <2>1, <2>4
  <2>6. 1 < i BY <1>1, <2>5
  <2>7. h.batch_num < b BY <1>1, <2>4, <2>6 DEF InOrder
  <2> QED BY <1>2, <2>2, <2>7, Wire
<1> QED BY <1>3, <1>4

\* Units are shut.
LEMMA OnceShuts ==
  ASSUME NEW w, NEW o, NEW g, Once(w, o, g), NEW o1 \in SUBSET o
  PROVE  Once(w, o1, g)
BY DEF Once

\* A message of an open unit is appended; if it is the last one, the unit is shut.
LEMMA OnceAppend ==
  ASSUME NEW w \in Seq(Message), NEW o, NEW g, Once(w, o, g),
         NEW m \in Message, m.kind \in MemKind => m.addr \in o,
         NEW o1 \in SUBSET o, Closes(m) => m.addr \notin o1,
         NEW w1, w1 = Append(w, m)
  PROVE  Once(w1, o1, g)
<1> PICK n : n = Len(w) OBVIOUS
<1>1. /\ n \in Nat /\ DOMAIN w = 1 .. n /\ DOMAIN w1 = 1 .. n + 1
      /\ w1[n + 1] = m /\ \A i \in 1 .. n : w1[i] = w[i]
  BY AppendAt
<1>2. \A i \in DOMAIN w1 : \/ i \in DOMAIN w /\ w1[i] = w[i]
                           \/ i = n + 1 /\ w1[i] = m
  BY <1>1
<1>3. ASSUME NEW i \in DOMAIN w1, NEW j \in DOMAIN w1, i < j, Closes(w1[i]),
             Carries(w1, j)
      PROVE  w1[i].addr # w1[j].addr
  <2>1. i \in DOMAIN w /\ w1[i] = w[i] BY <1>1, <1>3
  <2>2. CASE j \in DOMAIN w /\ w1[j] = w[j]
    BY <1>3, <2>1, <2>2 DEF Once, Carries
  <2>3. CASE j = n + 1 /\ w1[j] = m
    <3>1. m.addr \in o BY <1>3, <2>3 DEF Carries
    <3> QED BY <1>3, <2>1, <2>3, <3>1 DEF Once
  <2> QED BY <1>2, <2>2, <2>3
<1>4. ASSUME NEW i \in DOMAIN w1, Carries(w1, i) PROVE w1[i].addr \notin g
  BY <1>2, <1>4 DEF Once, Carries
<1>5. ASSUME NEW i \in DOMAIN w1, Closes(w1[i]) PROVE w1[i].addr \notin o1
  BY <1>2, <1>5 DEF Once
<1>6. g \cap o1 = {} BY DEF Once
<1> QED BY <1>3, <1>4, <1>5, <1>6 DEF Once

\* The first message is taken; its unit is marked if it is the last one.
LEMMA OnceTail ==
  ASSUME NEW w \in Seq(Message), NEW o, NEW g, Once(w, o, g),
         w # <<>>, NEW h, h = Head(w), NEW w1, w1 = Tail(w),
         NEW g1, g1 \subseteq g \cup (IF Closes(h) THEN {h.addr} ELSE {})
  PROVE  Once(w1, o, g1)
<1> PICK n : n = Len(w) OBVIOUS
<1>1. /\ n \in Nat /\ n >= 1 /\ DOMAIN w = 1 .. n /\ DOMAIN w1 = 1 .. n - 1
      /\ h = w[1] /\ \A i \in 1 .. n - 1 : w1[i] = w[i + 1]
  BY TailAt
<1>2. \A i \in DOMAIN w1 : /\ i \in Nat /\ 1 < i + 1
                           /\ i + 1 \in DOMAIN w /\ w1[i] = w[i + 1]
                           /\ Carries(w1, i) <=> Carries(w, i + 1)
  BY <1>1 DEF Carries
<1>3. 1 \in DOMAIN w BY <1>1
<1>4. ASSUME NEW i \in DOMAIN w1, NEW j \in DOMAIN w1, i < j, Closes(w1[i]),
             Carries(w1, j)
      PROVE  w1[i].addr # w1[j].addr
  <2>1. i + 1 < j + 1 BY <1>2, <1>4
  <2> QED BY <1>2, <1>4, <2>1 DEF Once
<1>5. ASSUME NEW i \in DOMAIN w1, Carries(w1, i) PROVE w1[i].addr \notin g1
  <2>1. w1[i].addr \notin g BY <1>2, <1>5 DEF Once
  <2>2. Closes(h) => h.addr # w1[i].addr BY <1>1, <1>2, <1>3, <1>5 DEF Once
  <2> QED BY <2>1, <2>2
<1>6. ASSUME NEW i \in DOMAIN w1, Closes(w1[i]) PROVE w1[i].addr \notin o
  BY <1>2, <1>6 DEF Once
<1>7. g1 \cap o = {} BY <1>1, <1>3 DEF Once
<1> QED BY <1>4, <1>5, <1>6, <1>7 DEF Once

-----------------------------------------------------------------------------
(***************************************************************************)
(* The invariant is inductive: the steps of the source.                    *)
(***************************************************************************)
LEMMA CountType == Ground => \A u \in Unit : count(u) \in Nat
<1> SUFFICES ASSUME Ground, NEW u \in Unit PROVE count(u) \in Nat
  OBVIOUS
<1> USE Typed
<1>1. here # "rest" => who \in Sender
  <2>1. PcType /\ fn["net"] \in Sender /\ fn["seq"] \in Sender OBVIOUS
  <2> QED BY <2>1 DEF who
<1>2. Copying => copied \in Nat
  BY <1>1
     DEF Ground, SourceRuns, FlagsInv, BatchInv, Stalled, Copying, copied, Requested
<1>3. Answering => answered \in Nat
  <2>1. CASE here \in {"mark", "last_write"} BY <2>1 DEF answered
  <2>2. CASE here \notin {"mark", "last_write"} /\ Answering
    <3>1. tcp_sent \in Requested /\ batch[tcp_sent] \in Nat
      BY <2>2 DEF Answering
    <3>2. here = "write" => batch[tcp_sent] >= 1
      BY <1>1, <2>2 DEF Ground, SourceRuns, FlagsInv, BatchInv, Requested
    <3> QED BY <2>2, <3>1, <3>2 DEF answered
  <2> QED BY <2>1, <2>2
<1> QED BY <1>2, <1>3 DEF count

LEMMA OverOnce ==
  ASSUME NetStep \/ SeqStep
  PROVE  migration_done => migration_done'
BY Zenon DEF NetStep, SeqStep, SendStep, echo_client_recv, request_recv,
   start_requested, sent_event, send_no_room, fill_margin, fill_requested,
   write_piece, write_last_margin, write_last_requested, mark_requested, loop_free,
   loop_resend, loop_done, postcopy_seq_task, get_start_addr, no_start_addr,
   set_start_bitarray, send_disrupted_addr, send_migration_done,
   write_migration_done, flagVars

\* What the source does to the connection: units are shut, and the messages of
\* open units come before the end.
LEMMA SourceOnce ==
  ASSUME Ground, Tokens, OnceInv, NetStep \/ SeqStep, UNCHANGED destVars
  PROVE  OnceInv' /\ OverInv'
<1>1. /\ wire \in Seq(Message) /\ UNCHANGED aft_mig_in_mmio /\ gone' = gone
      /\ OverInv /\ (migration_done => migration_done')
  BY OverOnce DEF Ground, TypeInv, TypeOK, LinkTypeOK, destVars, recvVars, Tokens, gone
<1> PICK o, o1, w1 : o = opened /\ o1 = opened' /\ w1 = wire' OBVIOUS
<1>2. Once(wire, o, gone) BY DEF OnceInv
<1>3. Shuts
  BY SourceStep DEF Stays, SendsLast, Loses, Sends, Ends
<1>4. o1 \in SUBSET o BY <1>3 DEF Shuts, opened
<1> SUFFICES /\ Once(w1, o1, gone)
             /\ (\E i \in DOMAIN w1 : ~Carries(w1, i)) => migration_done'
  BY <1>1 DEF OnceInv, OverInv
<1>5. CASE wire' = wire
  <2>1. Once(wire, o1, gone) BY <1>2, <1>4, OnceShuts
  <2> QED BY <1>1, <1>5, <2>1 DEF OverInv
<1>6. ASSUME NEW m \in Message, Sends(m)
      PROVE  /\ Once(w1, o1, gone)
             /\ (\E i \in DOMAIN w1 : ~Carries(w1, i)) => migration_done'
  <2>1. /\ m.kind \in MemKind /\ m.addr \in o /\ w1 = Append(wire, m)
        /\ Closes(m) => m.addr \notin o1
    BY <1>6 DEF Sends, opened
  <2>2. Once(w1, o1, gone) BY <1>1, <1>2, <1>4, <2>1, OnceAppend
  <2>3. \A i \in DOMAIN wire : Carries(wire, i) BY <1>1, <1>6 DEF Sends, OverInv
  <2>4. \A i \in DOMAIN w1 : Carries(w1, i)
    <3>1. PICK n : n = Len(wire) OBVIOUS
    <3>2. /\ n \in Nat /\ DOMAIN wire = 1 .. n /\ DOMAIN w1 = 1 .. n + 1
          /\ w1[n + 1] = m /\ \A i \in 1 .. n : w1[i] = wire[i]
      BY <1>1, <2>1, <3>1, AppendAt
    <3> QED BY <2>1, <2>3, <3>2 DEF Carries
  <2> QED BY <2>2, <2>4
<1>7. CASE Ends
  <2>1. PICK m \in Message : m.kind = "MIG_DONE" /\ wire' = Append(wire, m)
    BY <1>7 DEF Ends
  <2>2. m.kind \notin MemKind /\ ~Closes(m) BY <2>1 DEF MemKind, Closes
  <2>3. Once(w1, o1, gone) BY <1>1, <1>2, <1>4, <2>1, <2>2, OnceAppend
  <2> QED BY <1>7, <2>3 DEF Ends
<1> QED BY <1>5, <1>6, <1>7, SourceStep DEF Stays, SendsLast, Loses

LEMMA SourcePieces ==
  ASSUME NoFailure, Ground, Ground', Tokens, Steady, PiecesInv, NetStep \/ SeqStep,
         UNCHANGED destVars
  PROVE  Steady' /\ PiecesInv'
<1>1. /\ wire \in Seq(Message) /\ UNCHANGED mem /\ OverInv
  BY DEF Ground, TypeInv, TypeOK, LinkTypeOK, destVars, recvVars, Tokens
<1>2. \A u \in Unit : count(u) \in Nat BY CountType
<1>3. (\A u \in Unit : count(u) \in Nat)'
  <2>1. (Ground => \A u \in Unit : count(u) \in Nat)' BY CountType, PTL
  <2> QED BY <2>1
<1> PICK c : c = counts OBVIOUS
<1> PICK c1 : c1 = counts' OBVIOUS
<1>4. /\ c \in [Unit -> Nat] /\ \A u \in Unit : c[u] = count(u)
      /\ InOrder(wire, c) /\ NoneLost(wire, c, mem) /\ NoneTwice(wire, c, mem)
  BY <1>2 DEF counts, PiecesInv
<1>5. c1 \in [Unit -> Nat] /\ \A u \in Unit : c1[u] = count(u)'
  BY <1>3 DEF counts
<1> SUFFICES /\ Steady'
             /\ InOrder(wire', c1) /\ NoneLost(wire', c1, mem)
             /\ NoneTwice(wire', c1, mem)
  BY <1>1 DEF PiecesInv
<1>6. CASE Stays
  <2>1. c1 = c BY <1>4, <1>5, <1>6 DEF Stays, Even
  <2>2. wire' = wire /\ Steady' BY <1>6 DEF Stays, Even
  <2> QED BY <1>1, <1>4, <2>1, <2>2
<1>7. ASSUME NEW m \in Message, Sends(m)
      PROVE  /\ Steady'
             /\ InOrder(wire', c1) /\ NoneLost(wire', c1, mem)
             /\ NoneTwice(wire', c1, mem)
  <2>1. PICK u \in Unit, b \in Nat : NextPiece(m, u, b)
    BY <1>7 DEF Sends
  <2>2. /\ \A i \in DOMAIN wire : Carries(wire, i)
        /\ c[u] = b /\ b \in Batch
        /\ \A v \in Unit : c1[v] = IF v = u THEN b + 1 ELSE c[v]
    BY <1>1, <1>4, <1>5, <1>7, <2>1 DEF Sends, NextPiece, OverInv
  <2>3. PICK w1 : w1 = wire' OBVIOUS
  <2>4. InOrder(w1, c1) /\ NoneLost(w1, c1, mem) /\ NoneTwice(w1, c1, mem)
    <3>1. /\ m.kind \in MemKind /\ m.addr = u /\ m.batch_num = b /\ m.data = piece(u, b)
          /\ m.kind = "REQ_MEM" => b = BATCH_SIZE - 1
          /\ w1 = Append(wire, m)
      BY <1>7, <2>1, <2>3 DEF Sends, NextPiece
    <3>2. Grows(wire, c, m, u, b, w1, c1)
      BY <1>1, <1>4, <1>5, <2>2, <3>1 DEF Grows
    <3> QED BY <1>4, <3>2, AppendPiece
  <2>5. Steady' BY <1>7 DEF Sends
  <2> QED BY <2>3, <2>4, <2>5
<1>8. CASE Ends
  <2>1. PICK m \in Message : m.kind = "MIG_DONE" /\ wire' = Append(wire, m)
    BY <1>8 DEF Ends
  <2>2. c1 = c /\ Steady' BY <1>4, <1>5, <1>8 DEF Ends, Even
  <2>3. PICK w1 : w1 = wire' OBVIOUS
  <2>4. InOrder(w1, c) /\ NoneLost(w1, c, mem) /\ NoneTwice(w1, c, mem)
    BY <1>1, <1>4, <2>1, <2>3, AppendDone DEF MemKind
  <2> QED BY <2>2, <2>3, <2>4
<1> QED BY <1>6, <1>7, <1>8, SourceStep DEF SendsLast, Loses

\* The question is in one place when the source sends or takes.
LEMMA SourceQuestion ==
  ASSUME Ground, Tokens, NetStep \/ SeqStep, UNCHANGED destVars
  PROVE  TokenInv'
<1>1. /\ wire \in Seq(Message) /\ requests \in Seq(Address)
      /\ UNCHANGED <<aft_mig_in_mmio, vcpu, ept_recved>>
      /\ RequestInv /\ (aft_mig_in_mmio => QuestionInv)
  BY DEF Ground, TypeInv, TypeOK, LinkTypeOK, destVars, Tokens, TokenInv
<1>2. ASSUME QuestionKept,
             \A i \in DOMAIN wire' : Reply(i)' => i \in DOMAIN wire /\ wire'[i] = wire[i]
      PROVE  TokenInv'
  <2>1. RequestInv' BY <1>1, <1>2 DEF QuestionKept
  <2>2. ASSUME QuestionInv PROVE QuestionInv'
    <3>1. Replying' => Replying
      BY <1>2 DEF Replying, Reply
    <3>2. (\A i, j \in DOMAIN wire :
             Reply(i) /\ Reply(j) => i = j /\ Waits(wire[i].addr))'
      <4>1. \A i, j \in DOMAIN wire :
              Reply(i) /\ Reply(j) => i = j /\ Waits(wire[i].addr)
        BY <2>2 DEF QuestionInv, Replying
      <4> QED BY <1>1, <1>2, <4>1 DEF Reply, Waits
    <3>3. Asking' <=> Asking BY <1>2 DEF QuestionKept, Asking
    <3>4. Asking' => /\ (vcpu.at = "wait" /\ requests = <<vcpu.gphys>>)'
                     /\ ~Checking' /\ ~Serving' /\ ~Crossing' /\ ~Replying' /\ ~ept_recved'
      BY <1>1, <1>2, <2>2, <3>1, <3>3 DEF QuestionInv, QuestionKept
    <3>5. Checking' => /\ (vcpu.at = "wait" /\ requested_addr = vcpu.gphys)'
                       /\ ~Serving' /\ ~Crossing' /\ ~Replying' /\ ~ept_recved'
      BY <1>1, <1>2, <2>2, <3>1 DEF QuestionInv, QuestionKept
    <3>6. Serving' => /\ Waits(requested_addr.unit)'
                      /\ ~Crossing' /\ ~Replying' /\ ~ept_recved'
      <4> SUFFICES ASSUME Serving'
                   PROVE  /\ Waits(requested_addr.unit)'
                          /\ ~Crossing' /\ ~Replying' /\ ~ept_recved'
        OBVIOUS
      <4>1. Waits(requested_addr.unit) /\ ~Crossing /\ ~Replying /\ ~ept_recved
        BY <1>2, <2>2 DEF QuestionInv, QuestionKept, Waits
      <4>2. requested_addr'.unit = requested_addr.unit BY <1>2 DEF QuestionKept
      <4>3. Waits(requested_addr.unit)' BY <1>1, <4>1, <4>2 DEF Waits
      <4> QED BY <1>1, <1>2, <3>1, <4>1, <4>3 DEF QuestionKept
    <3>7. Crossing' => Waits(requested_addr.unit)' /\ ~Replying' /\ ~ept_recved'
      <4> SUFFICES ASSUME Crossing'
                   PROVE  Waits(requested_addr.unit)' /\ ~Replying' /\ ~ept_recved'
        OBVIOUS
      <4>1. Waits(requested_addr.unit) /\ ~Replying /\ ~ept_recved
        BY <1>2, <2>2 DEF QuestionInv, QuestionKept
      <4>2. requested_addr'.unit = requested_addr.unit BY <1>2 DEF QuestionKept
      <4>3. Waits(requested_addr.unit)' BY <1>1, <4>1, <4>2 DEF Waits
      <4> QED BY <1>1, <3>1, <4>1, <4>3
    <3>8. /\ ept_recved' => (vcpu.at \in {"wait", "map"})'
          /\ (vcpu.at = "map" => ept_recved)' /\ (vcpu.at # "map_only")'
      BY <1>1, <2>2 DEF QuestionInv
    <3>9. Replying' => ~ept_recved' BY <1>1, <2>2, <3>1 DEF QuestionInv
    <3> QED BY <3>2, <3>4, <3>5, <3>6, <3>7, <3>8, <3>9 DEF QuestionInv
  <2> QED BY <1>1, <2>1, <2>2 DEF TokenInv
<1>3. CASE UNCHANGED wire /\ QuestionKept
  BY <1>2, <1>3 DEF Reply
<1>4. CASE Stays /\ Takes
  <2>1. RequestInv' BY <1>4 DEF Takes
  <2>2. ASSUME QuestionInv PROVE QuestionInv'
    <3>1. /\ vcpu.at = "wait" /\ requests = <<vcpu.gphys>>
          /\ ~Replying /\ ~ept_recved
      BY <1>4, <2>2 DEF QuestionInv, Takes, Asking
    <3>2. requests' = <<>> /\ requested_addr' = vcpu.gphys
      BY <1>4, <3>1 DEF Takes
    <3>3. wire' = wire BY <1>4 DEF Stays
    <3>4. ~Replying' BY <3>1, <3>3 DEF Replying, Reply
    <3>5. Waits(requested_addr.unit)' BY <1>1, <3>1, <3>2 DEF Waits
    <3> QED BY <1>1, <1>4, <3>1, <3>2, <3>4, <3>5
            DEF QuestionInv, Takes, Asking, Replying
  <2> QED BY <1>1, <2>1, <2>2 DEF TokenInv
<1>5. ASSUME NEW m \in Message, wire' = Append(wire, m)
      PROVE  /\ m.kind # "REQ_MEM" => \A i \in DOMAIN wire' :
                  Reply(i)' => i \in DOMAIN wire /\ wire'[i] = wire[i]
             /\ \A i \in DOMAIN wire' :
                  \/ i \in DOMAIN wire /\ wire'[i] = wire[i]
                  \/ i = Len(wire) + 1 /\ wire'[i] = m
  <2>1. PICK n, w1 : n = Len(wire) /\ w1 = wire' OBVIOUS
  <2>2. /\ n \in Nat /\ DOMAIN wire = 1 .. n /\ DOMAIN w1 = 1 .. n + 1
        /\ w1[n + 1] = m /\ \A i \in 1 .. n : w1[i] = wire[i]
    BY <1>1, <1>5, <2>1, AppendAt
  <2> QED BY <2>1, <2>2 DEF Reply
<1>6. ASSUME NEW m \in Message, Sends(m),
             IF m.kind = "REQ_MEM" THEN Answers(m) ELSE QuestionKept
      PROVE  TokenInv'
  <2>1. CASE m.kind # "REQ_MEM"
    BY <1>2, <1>5, <1>6, <2>1 DEF Sends
  <2>2. CASE m.kind = "REQ_MEM"
    <3>1. Answers(m) /\ wire' = Append(wire, m) BY <1>6, <2>2 DEF Sends
    <3>2. RequestInv' BY <1>1, <3>1 DEF Answers
    <3>3. ASSUME QuestionInv PROVE QuestionInv'
      <4>1. /\ Waits(m.addr) /\ ~Replying /\ ~ept_recved /\ ~Asking
            /\ vcpu.at \notin {"map", "map_only"}
        BY <3>1, <3>3 DEF QuestionInv, Answers, Waits
      <4>2. \A i \in DOMAIN wire' : Reply(i)' => i = Len(wire) + 1 /\ wire'[i] = m
        BY <1>5, <3>1, <4>1 DEF Replying, Reply
      <4>3. (\A i, j \in DOMAIN wire :
               Reply(i) /\ Reply(j) => i = j /\ Waits(wire[i].addr))'
        BY <1>1, <4>1, <4>2 DEF Waits, Reply
      <4>4. ~Asking' BY <3>1, <4>1 DEF Asking, Answers
      <4> QED BY <1>1, <3>1, <4>1, <4>3, <4>4 DEF QuestionInv, Answers
    <3> QED BY <1>1, <3>2, <3>3 DEF TokenInv
  <2> QED BY <2>1, <2>2
<1>7. CASE Ends /\ QuestionKept
  <2>1. PICK m \in Message : m.kind = "MIG_DONE" /\ wire' = Append(wire, m)
    BY <1>7 DEF Ends
  <2> QED BY <1>2, <1>5, <1>7, <2>1
<1> QED BY <1>3, <1>4, <1>6, <1>7, SourceStep DEF Stays, SendsLast, Loses

-----------------------------------------------------------------------------
(***************************************************************************)
(* The steps of the destination; each is a step of DemandPaging, too.      *)
(***************************************************************************)
LEMMA SourceStands ==
  ASSUME SourceRuns, UNCHANGED sourceVars
  PROVE  /\ SourceRuns' /\ counts' = counts /\ opened' = opened
         /\ Steady => Steady'
         /\ Checking' <=> Checking
         /\ Serving' <=> Serving
         /\ Crossing' <=> Crossing
         /\ RequestInv => RequestInv'
         /\ UNCHANGED <<requested_addr, bitarray, migration_done>>
<1>1. UNCHANGED <<flagVars, copyVars, pc, fn>> BY DEF sourceVars
<1>2. here' = here /\ who' = who /\ round' = round /\ (Checking' <=> Checking)
  BY <1>1 DEF here, who, round, Checking
<1>3. (Answering' <=> Answering) /\ (Copying' <=> Copying)
  BY <1>1, <1>2 DEF Answering, Copying, copyVars, flagVars
<1>4. copied' = copied /\ answered' = answered
  BY <1>1, <1>2 DEF copied, answered, copyVars
<1>5. PlaceInv' BY <1>1 DEF SourceRuns, PlaceInv
<1>6. FlagsInv'
  BY <1>1, <1>2, <1>3 DEF SourceRuns, FlagsInv, copyVars, flagVars
<1>7. CursorInv' BY <1>1, <1>2, <1>3 DEF SourceRuns, CursorInv, copyVars
<1>8. BatchInv' BY <1>1, <1>2, <1>3 DEF SourceRuns, BatchInv, Stalled, copyVars
<1>9. MsgInv' BY <1>1, <1>2, <1>3, <1>4 DEF SourceRuns, MsgInv, Stalled, copyVars
<1>10. counts' = counts
  <2>1. \A u \in Unit : count(u)' = count(u)
    BY <1>1, <1>3, <1>4 DEF count, copyVars
  <2> QED BY <2>1 DEF counts
<1>11. (Serving' <=> Serving) /\ (Crossing' <=> Crossing)
  BY <1>1, <1>2, <1>3 DEF Serving, Crossing, copyVars, flagVars
<1>12. RequestInv => RequestInv'
  BY <1>1, <1>2, <1>11 DEF RequestInv, copyVars
<1>13. opened' = opened BY <1>1, <1>2, <1>3 DEF opened, Open, copyVars
<1>14. Steady => Steady' BY <1>1, <1>2, <1>3 DEF Steady, copyVars
<1> QED BY <1>1, <1>2, <1>5, <1>6, <1>7, <1>8, <1>9, <1>10, <1>11, <1>12, <1>13, <1>14
        DEF SourceRuns, copyVars, flagVars

LEMMA CompleteIs ==
  ASSUME NEW mm, NEW u
  PROVE  [unit : {u}, num : Batch] \subseteq mm <=> \A b \in Batch : piece(u, b) \in mm
<1>1. \A b \in Batch : piece(u, b) \in [unit : {u}, num : Batch] BY DEF piece
<1>2. \A p \in [unit : {u}, num : Batch] : p.num \in Batch /\ p = piece(u, p.num)
  BY DEF piece
<1> QED BY <1>1, <1>2

\* What the destination has, as DemandPaging sees it.
Arrived == {u \in Unit : Complete(u)}
Faults  == IF vcpu.at = "guest" THEN {} ELSE {vcpu.gphys.unit}
PagingStep ==
  Paging!Next \/ UNCHANGED <<Arrived, mapped, Faults, aft_mig_in_mmio>>

DestGround == TypeInv /\ RunInv

\* Every piece has come in order so far.
Whole ==
  Steady /\ PiecesInv /\ ArrivedInv /\ \A u \in Unit : count(u) \in Nat

LEMMA DestTyped ==
  ASSUME DestGround
  PROVE  /\ wire \in Seq(Message) /\ requests \in Seq(Address)
         /\ vcpu \in [at : VcpuLocation, gphys : Address] /\ vcpu.gphys \in Address
         /\ vcpu.gphys.unit \in Unit
         /\ server_bitarray \subseteq Unit /\ mapped \subseteq Unit
         /\ marking \in 0 .. NUnits /\ NUnits \notin Unit
         /\ SourceRuns /\ OnceInv /\ OverInv /\ TokenInv
<1>1. vcpu \in [at : VcpuLocation, gphys : Address]
  BY DEF DestGround, TypeInv, TypeOK, DestTypeOK
<1>2. vcpu.gphys \in Address BY <1>1
<1>3. vcpu.gphys.unit \in Unit BY <1>2 DEF Address
<1>4. NUnits \notin Unit BY LinkAssumption DEF Unit
<1> QED BY <1>1, <1>2, <1>3, <1>4
        DEF DestGround, RunInv, TypeInv, TypeOK, DestTypeOK, LinkTypeOK

LEMMA WholeTyped == Whole => counts \in [Unit -> Nat]
BY DEF Whole, counts

\* What is kept in any case, and what is kept when every piece has come in order.
Runs == OnceInv' /\ OverInv' /\ TokenInv'
Good == Steady' /\ PiecesInv' /\ ArrivedInv' /\ PagingStep

\* A message is received; what it makes echo_recv mark is marked at most.
LEMMA ReceiveHead ==
  ASSUME DestGround, UNCHANGED sourceVars, NEW k, receive(k), NEW h, h = Head(wire),
         aft_mig_in_mmio' = aft_mig_in_mmio \/ k = "MIG_DONE",
         gone' \subseteq gone \cup (IF Closes(h) THEN {h.addr} ELSE {})
  PROVE  /\ h \in Message /\ h.addr \in Unit /\ h = wire[1] /\ 1 \in DOMAIN wire
         /\ h.kind = k /\ wire' = Tail(wire) /\ UNCHANGED requests
         /\ \A i \in DOMAIN wire' :
              i \in Nat /\ i + 1 \in DOMAIN wire /\ wire'[i] = wire[i + 1]
         /\ OnceInv' /\ OverInv'
<1> USE DestTyped
<1>1. /\ wire # <<>> /\ h.kind = k /\ wire' = Tail(wire) /\ UNCHANGED requests
  BY DEF receive, tcp_deliver
<1>2. h \in Message /\ h = wire[1] /\ 1 \in DOMAIN wire BY <1>1
<1>3. h.addr \in Unit BY <1>2 DEF Message
<1> PICK w1, o, g, g1, n : /\ w1 = wire' /\ o = opened /\ g = gone /\ g1 = gone'
                           /\ n = Len(wire)
  OBVIOUS
<1>4. \A i \in DOMAIN w1 :
        i \in Nat /\ i + 1 \in DOMAIN wire /\ w1[i] = wire[i + 1]
  BY <1>1, TailAt
<1>5. opened' = o /\ (migration_done' <=> migration_done)
  BY SourceStands
<1>6. Once(wire, o, g) BY DEF OnceInv
<1>7. Once(w1, o, g1) BY <1>1, <1>6, OnceTail
<1>8. OnceInv' BY <1>5, <1>7 DEF OnceInv
<1>9. OverInv'
  <2>1. CASE k = "MIG_DONE"
    <3>1. ~Carries(wire, 1) BY <1>1, <1>2, <2>1 DEF Carries, MemKind
    <3>2. migration_done BY <1>2, <3>1 DEF OverInv
    <3> QED BY <1>5, <3>2 DEF OverInv
  <2>2. CASE aft_mig_in_mmio' = aft_mig_in_mmio
    BY <1>4, <1>5, <2>2 DEF OverInv, Carries
  <2> QED BY <2>1, <2>2
<1> QED BY <1>1, <1>2, <1>3, <1>4, <1>8, <1>9

\* A piece is received.
LEMMA ReceivePiece ==
  ASSUME DestGround, Whole, UNCHANGED sourceVars, NEW k \in MemKind, receive(k),
         store(Head(wire)), NEW h, h = Head(wire)
  PROVE  /\ Steady' /\ PiecesInv'
         /\ \A u : Complete(u) => Complete(u)'
         /\ ~Complete(h.addr)
         /\ \A u \in Unit \ {h.addr} : Complete(u)' <=> Complete(u)
         /\ h.batch_num = BATCH_SIZE - 1 => Complete(h.addr)'
         /\ h.kind = "REQ_MEM" => h.batch_num = BATCH_SIZE - 1
<1> USE DestTyped, WholeTyped
<1> PICK w1, m1 : w1 = wire' /\ m1 = mem' OBVIOUS
<1>1. /\ wire # <<>> /\ h.kind = k /\ h.kind \in MemKind /\ w1 = Tail(wire)
  BY DEF receive, tcp_deliver
<1>2. h \in Message /\ h = wire[1] /\ 1 \in DOMAIN wire BY <1>1
<1>3. /\ h.addr \in Unit /\ h.batch_num \in Batch /\ h.data = piece(h.addr, h.batch_num)
      /\ h.kind = "REQ_MEM" => h.batch_num = BATCH_SIZE - 1
  BY <1>1, <1>2, Wire DEF Whole, PiecesInv, InOrder, Carries
<1>4. m1 = mem \cup {h.data}
  BY <1>3 DEF store, piece
<1>5. InOrder(wire, counts) /\ NoneLost(wire, counts, mem) /\ NoneTwice(wire, counts, mem)
  BY DEF Whole, PiecesInv
<1>6. InOrder(w1, counts) /\ NoneLost(w1, counts, m1) /\ NoneTwice(w1, counts, m1)
  BY <1>1, <1>4, <1>5, TakeHead
<1>7. counts' = counts /\ Steady'
  BY SourceStands DEF Whole
<1>8. PiecesInv' BY <1>6, <1>7 DEF PiecesInv
<1>9. \A b \in Batch : /\ h.batch_num = BATCH_SIZE - 1 => piece(h.addr, b) \in m1
                       /\ ~ \A j \in Batch : piece(h.addr, j) \in mem
  BY <1>1, <1>4, <1>5, LastPiece
<1>10. /\ ~Complete(h.addr)
       /\ h.batch_num = BATCH_SIZE - 1 => [unit : {h.addr}, num : Batch] \subseteq m1
  BY <1>3, <1>9, CompleteIs DEF Complete
<1>11. \A u \in Unit \ {h.addr}, b \in Batch : piece(u, b) \in m1 <=> piece(u, b) \in mem
  BY <1>3, <1>4 DEF piece
<1>12. \A u \in Unit \ {h.addr} :
         [unit : {u}, num : Batch] \subseteq m1 <=> [unit : {u}, num : Batch] \subseteq mem
  BY <1>11, CompleteIs
<1>13. \A u : Complete(u) => [unit : {u}, num : Batch] \subseteq m1
  BY <1>4 DEF Complete
<1> QED BY <1>3, <1>7, <1>8, <1>10, <1>12, <1>13 DEF Complete

\* What the steps leave that touch neither the connection nor the memory nor the
\* marks.
LEMMA WireStands ==
  ASSUME DestGround, UNCHANGED sourceVars, gone' = gone,
         UNCHANGED <<wire, mem, aft_mig_in_mmio>>
  PROVE  /\ OnceInv' /\ OverInv' /\ (Replying' <=> Replying)
         /\ Whole => Steady' /\ PiecesInv'
         /\ \A u : Complete(u)' <=> Complete(u)
         /\ Arrived' = Arrived
<1> USE DestTyped
<1>1. /\ counts' = counts /\ opened' = opened /\ (Steady => Steady')
      /\ (migration_done' <=> migration_done)
  BY SourceStands
<1>2. Whole => Steady' /\ PiecesInv' BY <1>1 DEF Whole, PiecesInv
<1>3. OverInv' BY <1>1 DEF OverInv
<1>4. \A u : Complete(u)' <=> Complete(u) BY DEF Complete
<1>5. Arrived' = Arrived BY <1>4 DEF Arrived
<1>6. OnceInv' BY <1>1 DEF OnceInv
<1> QED BY <1>2, <1>3, <1>4, <1>5, <1>6 DEF Replying, Reply

\* The question stands while the connection and the processor do.
LEMMA QuestionStands ==
  ASSUME DestGround, UNCHANGED sourceVars,
         UNCHANGED <<wire, requests, aft_mig_in_mmio, vcpu, ept_recved>>
  PROVE  TokenInv'
<1>1. /\ RequestInv' /\ (Checking' <=> Checking) /\ (Serving' <=> Serving)
      /\ (Crossing' <=> Crossing) /\ UNCHANGED requested_addr
  BY SourceStands, DestTyped DEF TokenInv
<1>2. ASSUME QuestionInv PROVE QuestionInv'
  BY <1>1, <1>2 DEF QuestionInv, Asking, Replying, Reply, Waits
<1> QED BY <1>1, <1>2, DestTyped DEF TokenInv

\* The pieces of a unit, in a message of its own kind or of an answer.
LEMMA RecvMemStep ==
  ASSUME DestGround, UNCHANGED sourceVars, recv_mem
  PROVE  Runs /\ (Whole => Good)
<1> USE DestTyped
<1>1. /\ receive("MEM") /\ store(Head(wire)) /\ "MEM" \in MemKind
      /\ marking = NUnits
      /\ UNCHANGED <<marking, ept_recved, aft_mig_in_mmio, vcpu, mapped>>
  BY DEF recv_mem, receive, MemKind
<1> PICK h : h = Head(wire) OBVIOUS
<1>2. server_bitarray' = IF h.batch_num = BATCH_SIZE - 1
                         THEN server_bitarray \cup {h.addr} ELSE server_bitarray
  BY DEF recv_mem, is_last
<1>3. h.kind = "MEM" BY <1>1 DEF receive
<1>4. gone' \subseteq gone \cup (IF Closes(h) THEN {h.addr} ELSE {})
  BY <1>1, <1>2, <1>3 DEF gone, Closes
<1>5. /\ h.addr \in Unit /\ OnceInv' /\ OverInv' /\ UNCHANGED requests
      /\ \A i \in DOMAIN wire' :
           i \in Nat /\ i + 1 \in DOMAIN wire /\ wire'[i] = wire[i + 1]
  BY <1>1, <1>4, ReceiveHead
<1>6. TokenInv'
  <2>1. RequestInv' /\ (Checking' <=> Checking) /\ (Serving' <=> Serving)
        /\ (Crossing' <=> Crossing) /\ UNCHANGED requested_addr
    BY SourceStands DEF TokenInv
  <2>2. ASSUME QuestionInv PROVE QuestionInv'
    <3>1. Replying' => Replying BY <1>5 DEF Replying, Reply
    <3>2. (\A i, j \in DOMAIN wire :
             Reply(i) /\ Reply(j) => i = j /\ Waits(wire[i].addr))'
      <4>1. Replying => \A i, j \in DOMAIN wire :
              Reply(i) /\ Reply(j) => i = j /\ Waits(wire[i].addr)
        BY <2>2 DEF QuestionInv
      <4>2. ASSUME NEW i \in DOMAIN wire', NEW j \in DOMAIN wire',
                   wire'[i].kind = "REQ_MEM", wire'[j].kind = "REQ_MEM"
            PROVE  i = j /\ vcpu.at = "wait" /\ vcpu.gphys.unit = wire'[i].addr
        <5>1. i \in Nat /\ j \in Nat /\ i + 1 \in DOMAIN wire /\ j + 1 \in DOMAIN wire
              /\ Reply(i + 1) /\ Reply(j + 1) /\ wire'[i] = wire[i + 1]
          BY <1>5, <4>2 DEF Reply
        <5>2. i + 1 = j + 1 /\ Waits(wire[i + 1].addr)
          BY <4>1, <5>1 DEF Replying
        <5> QED BY <5>1, <5>2 DEF Waits
      <4> QED BY <1>1, <4>2 DEF Reply, Waits
    <3>3. Asking' <=> Asking BY <1>5 DEF Asking
    <3>4. (Waits(requested_addr.unit))' <=> Waits(requested_addr.unit)
      BY <1>1, <2>1 DEF Waits
    <3> QED BY <1>1, <1>5, <2>1, <2>2, <3>1, <3>2, <3>3, <3>4 DEF QuestionInv
  <2> QED BY <1>1, <2>1, <2>2 DEF TokenInv
<1>7. ASSUME Whole PROVE Good
  <2>1. /\ Steady' /\ PiecesInv' /\ ~Complete(h.addr)
        /\ \A u : Complete(u) => Complete(u)'
        /\ \A u \in Unit \ {h.addr} : Complete(u)' <=> Complete(u)
        /\ h.batch_num = BATCH_SIZE - 1 => Complete(h.addr)'
    BY <1>1, <1>7, ReceivePiece
  <2>2. ArrivedInv'
    <3>1. (ept_recved => Complete(vcpu.gphys.unit))'
      <4>1. PICK u : u = vcpu.gphys.unit OBVIOUS
      <4>2. ept_recved => Complete(u)' BY <1>7, <2>1, <4>1 DEF Whole, ArrivedInv
      <4> QED BY <1>1, <4>1, <4>2 DEF Complete
    <3> QED BY <1>1, <1>2, <1>7, <2>1, <3>1 DEF Whole, ArrivedInv
  <2>3. PagingStep
    <3>1. CASE Complete(h.addr)'
      <4>1. Arrived' = Arrived \cup {h.addr} /\ h.addr \notin Arrived
        BY <1>5, <2>1, <3>1 DEF Arrived
      <4>2. Paging!Arrive(h.addr)
        BY <1>1, <4>1 DEF Paging!Arrive, Arrived
      <4> QED BY <1>5, <4>2 DEF PagingStep, Paging!Next
    <3>2. CASE ~Complete(h.addr)'
      <4>1. Arrived' = Arrived BY <2>1, <3>2 DEF Arrived
      <4> QED BY <1>1, <4>1 DEF PagingStep, Faults
    <3> QED BY <3>1, <3>2
  <2> QED BY <2>1, <2>2, <2>3 DEF Good
<1> QED BY <1>5, <1>6, <1>7 DEF Runs

\* The last piece of an answer.
LEMMA RecvReqMemStep ==
  ASSUME DestGround, UNCHANGED sourceVars, recv_req_mem
  PROVE  Runs /\ (Whole => Good)
<1> USE DestTyped
<1>1. /\ receive("REQ_MEM") /\ store(Head(wire)) /\ "REQ_MEM" \in MemKind
      /\ marking = NUnits /\ ept_recved'
      /\ UNCHANGED <<server_bitarray, aft_mig_in_mmio, vcpu, mapped>>
  <2>1. ept_recved' BY Zenon DEF recv_req_mem
  <2> QED BY <2>1 DEF recv_req_mem, receive, MemKind
<1> PICK h : h = Head(wire) OBVIOUS
<1>2. marking' = h.addr /\ h.kind = "REQ_MEM"
  BY <1>1 DEF recv_req_mem, receive
<1>3. gone' \subseteq gone \cup (IF Closes(h) THEN {h.addr} ELSE {})
  BY <1>1, <1>2 DEF gone, Closes
<1>4. /\ h.addr \in Unit /\ OnceInv' /\ OverInv' /\ UNCHANGED requests
      /\ h = wire[1] /\ 1 \in DOMAIN wire /\ wire' = Tail(wire)
      /\ \A i \in DOMAIN wire' :
           i \in Nat /\ i + 1 \in DOMAIN wire /\ wire'[i] = wire[i + 1]
  BY <1>1, <1>3, ReceiveHead
<1>5. QuestionInv =>
        /\ Waits(h.addr) /\ \A i \in DOMAIN wire : Reply(i) => i = 1
        /\ ~Asking /\ ~Checking /\ ~Serving /\ ~Crossing
  <2>1. Reply(1) /\ Replying BY <1>2, <1>4 DEF Reply, Replying
  <2> QED BY <1>4, <2>1 DEF QuestionInv
<1>6. TokenInv'
  <2>1. RequestInv' /\ (Checking' <=> Checking) /\ (Serving' <=> Serving)
        /\ (Crossing' <=> Crossing) /\ UNCHANGED requested_addr
    BY SourceStands DEF TokenInv
  <2>2. ASSUME QuestionInv PROVE QuestionInv'
    <3>1. ~Replying'
      <4>1. ASSUME NEW i \in DOMAIN wire', wire'[i].kind = "REQ_MEM" PROVE FALSE
        <5>1. i \in Nat /\ i + 1 \in DOMAIN wire /\ wire[i + 1].kind = "REQ_MEM"
          BY <1>4, <4>1
        <5>2. i + 1 = 1 BY <1>5, <2>2, <5>1 DEF Reply
        <5>3. i = 0 BY <5>1, <5>2
        <5>4. i \in 1 .. Len(wire')
          BY <1>1, <4>1 DEF receive, tcp_deliver
        <5> QED BY <5>3, <5>4
      <4> QED BY <4>1 DEF Replying, Reply
    <3>2. vcpu'.at = "wait" BY <1>1, <1>5, <2>2 DEF Waits
    <3>3. ~Asking' BY <1>4, <1>5, <2>2 DEF Asking
    <3> QED BY <1>1, <1>5, <2>1, <2>2, <3>1, <3>2, <3>3 DEF QuestionInv
  <2> QED BY <1>1, <2>1, <2>2 DEF TokenInv
<1>7. ASSUME Whole PROVE Good
  <2>1. /\ Steady' /\ PiecesInv' /\ ~Complete(h.addr) /\ Complete(h.addr)'
        /\ \A u : Complete(u) => Complete(u)'
        /\ \A u \in Unit \ {h.addr} : Complete(u)' <=> Complete(u)
    BY <1>1, <1>2, <1>7, ReceivePiece
  <2>2. ArrivedInv'
    <3>1. PICK u : u = vcpu.gphys.unit OBVIOUS
    <3>2. Complete(u)'
      <4>1. CASE aft_mig_in_mmio
        BY <1>5, <2>1, <3>1, <4>1 DEF TokenInv, Waits
      <4>2. CASE ~aft_mig_in_mmio
        BY <1>7, <2>1, <3>1, <4>2 DEF Whole, ArrivedInv
      <4> QED BY <4>1, <4>2
    <3>3. (ept_recved => Complete(vcpu.gphys.unit))'
      BY <1>1, <3>1, <3>2 DEF Complete
    <3>4. (marking # NUnits => Complete(marking))'
      BY <1>2, <2>1 DEF Complete
    <3> QED BY <1>1, <1>7, <2>1, <3>3, <3>4 DEF Whole, ArrivedInv
  <2>3. PagingStep
    <3>1. Arrived' = Arrived \cup {h.addr} /\ h.addr \notin Arrived
      BY <1>4, <2>1 DEF Arrived
    <3>2. Paging!Arrive(h.addr)
      BY <1>1, <3>1 DEF Paging!Arrive, Arrived
    <3> QED BY <1>4, <3>2 DEF PagingStep, Paging!Next
  <2> QED BY <2>1, <2>2, <2>3 DEF Good
<1> QED BY <1>4, <1>6, <1>7 DEF Runs

LEMMA MarkReqMemStep ==
  ASSUME DestGround, UNCHANGED sourceVars, mark_req_mem
  PROVE  Runs /\ (Whole => Good)
<1> USE DestTyped
<1>1. /\ marking # NUnits /\ server_bitarray' = server_bitarray \cup {marking}
      /\ marking' = NUnits
      /\ UNCHANGED <<wire, requests, mem, ept_recved, aft_mig_in_mmio, vcpu, mapped>>
  BY DEF mark_req_mem, linkVars
<1>2. gone' = gone BY <1>1 DEF gone
<1>3. /\ OnceInv' /\ OverInv' /\ Arrived' = Arrived
      /\ Whole => Steady' /\ PiecesInv'
      /\ \A u : Complete(u)' <=> Complete(u)
  BY <1>1, <1>2, WireStands
<1>4. TokenInv' BY <1>1, QuestionStands
<1>5. ASSUME Whole PROVE ArrivedInv'
  <2>1. (ept_recved => Complete(vcpu.gphys.unit))'
    BY <1>1, <1>5 DEF Whole, ArrivedInv, Complete
  <2> QED BY <1>1, <1>3, <1>5, <2>1 DEF Whole, ArrivedInv
<1>6. PagingStep BY <1>1, <1>3 DEF PagingStep, Faults
<1> QED BY <1>3, <1>4, <1>5, <1>6 DEF Runs, Good

\* The migration is over: everything has arrived.
LEMMA RecvMigDoneStep ==
  ASSUME DestGround, UNCHANGED sourceVars, recv_mig_done
  PROVE  Runs /\ (Whole => Good)
<1> USE DestTyped
<1>1. /\ receive("MIG_DONE") /\ ~aft_mig_in_mmio'
      /\ UNCHANGED <<server_bitarray, mem, marking, ept_recved, vcpu, mapped>>
  <2>1. ~aft_mig_in_mmio' BY Zenon DEF recv_mig_done
  <2> QED BY <2>1 DEF recv_mig_done, receive, recvVars
<1> PICK h, w1 : h = Head(wire) /\ w1 = wire' OBVIOUS
<1>2. gone' = gone BY <1>1 DEF gone
<1>3. /\ OnceInv' /\ OverInv' /\ h.kind = "MIG_DONE" /\ h = wire[1]
      /\ 1 \in DOMAIN wire /\ w1 = Tail(wire)
  BY <1>1, <1>2, ReceiveHead
<1>4. wire # <<>> /\ h.kind \notin MemKind /\ ~Carries(wire, 1)
  BY <1>1, <1>3 DEF receive, MemKind, Carries
<1>5. /\ counts' = counts /\ (Steady => Steady') /\ RequestInv'
  BY SourceStands DEF TokenInv
<1>6. migration_done BY <1>3, <1>4 DEF OverInv
<1>7. TokenInv' BY <1>1, <1>5 DEF TokenInv
<1>8. ASSUME Whole PROVE Good
  <2>1. InOrder(wire, counts) /\ NoneLost(wire, counts, mem) /\ NoneTwice(wire, counts, mem)
    BY <1>8 DEF Whole, PiecesInv
  <2>2. PiecesInv'
    BY <1>1, <1>3, <1>4, <1>5, <1>8, <2>1, WholeTyped, TakeHead DEF PiecesInv
  <2>3. \A i \in DOMAIN wire : ~Carries(wire, i)
    <3>1. ASSUME NEW i \in DOMAIN wire, Carries(wire, i) PROVE FALSE
      <4>1. i # 1 /\ i \in 1 .. Len(wire) BY <1>4, <3>1
      <4>2. 1 < i BY <4>1
      <4> QED BY <1>3, <1>4, <2>1, <3>1, <4>2 DEF InOrder
    <3> QED BY <3>1
  <2>4. \A u \in Unit : counts[u] = BATCH_SIZE
    <3>1. ~Copying /\ ~Answering /\ bitarray = Unit
      BY <1>6 DEF SourceRuns, FlagsInv, Copying
    <3>2. \A u \in Unit : count(u) = BATCH_SIZE BY <3>1 DEF count
    <3> QED BY <3>2 DEF counts
  <2>5. \A u \in Unit : Complete(u)
    <3>1. \A u \in Unit, b \in Batch : b < counts[u]
      BY <2>4, LinkAssumption DEF Batch
    <3>2. \A u \in Unit, b \in Batch : piece(u, b) \in mem
      BY <2>1, <2>3, <3>1 DEF NoneLost
    <3> QED BY <3>2, CompleteIs DEF Complete
  <2>6. \A u : Complete(u)' <=> Complete(u) BY <1>1 DEF Complete
  <2>7. ArrivedInv'
    <3>1. Complete(vcpu.gphys.unit)' BY <1>1, <2>5 DEF Complete
    <3> QED BY <1>1, <1>8, <2>5, <2>6, <3>1 DEF Whole, ArrivedInv
  <2>8. PagingStep
    <3>1. Arrived' = Arrived /\ Arrived = Unit BY <2>5, <2>6 DEF Arrived
    <3>2. (~aft_mig_in_mmio') = TRUE BY <1>1
    <3>3. Paging!Finish BY <1>1, <3>1, <3>2 DEF Paging!Finish, Arrived
    <3> QED BY <3>3 DEF PagingStep, Paging!Next
  <2> QED BY <1>5, <1>8, <2>2, <2>7, <2>8 DEF Good, Whole
<1> QED BY <1>3, <1>7, <1>8 DEF Runs

-----------------------------------------------------------------------------
\* The virtual processor faults ...
LEMMA FaultStep ==
  ASSUME DestGround, UNCHANGED sourceVars, NEW a \in Address, vt_ept_violation(a)
  PROVE  Runs /\ (Whole => Good)
<1> USE DestTyped
<1>1. /\ vcpu.at = "guest" /\ vcpu'.gphys = a
      /\ vcpu'.at = IF aft_mig_in_mmio THEN "reply" ELSE "map_only"
      /\ UNCHANGED <<wire, requests, mem, server_bitarray, marking, ept_recved,
                     aft_mig_in_mmio, mapped>>
  BY DEF vt_ept_violation, linkVars, recvVars
<1>2. gone' = gone /\ a.unit \in Unit BY <1>1 DEF gone, Address
<1>3. /\ OnceInv' /\ OverInv' /\ Arrived' = Arrived /\ (Replying' <=> Replying)
      /\ Whole => Steady' /\ PiecesInv'
      /\ \A u : Complete(u)' <=> Complete(u)
  BY <1>1, <1>2, WireStands
<1>4. QuestionInv =>
        ~Asking /\ ~Checking /\ ~Serving /\ ~Crossing /\ ~Replying /\ ~ept_recved
  BY <1>1 DEF QuestionInv, Waits, Replying
<1>5. TokenInv'
  <2>1. /\ RequestInv' /\ (Checking' <=> Checking) /\ (Serving' <=> Serving)
        /\ (Crossing' <=> Crossing)
    BY SourceStands DEF TokenInv
  <2>2. ASSUME aft_mig_in_mmio, QuestionInv PROVE QuestionInv'
    <3>1. ~Asking' /\ ~ept_recved' /\ vcpu'.at \notin {"map", "map_only"}
      BY <1>1, <1>4, <2>2 DEF Asking
    <3> QED BY <1>3, <1>4, <2>1, <2>2, <3>1 DEF QuestionInv
  <2> QED BY <1>1, <2>1, <2>2 DEF TokenInv
<1>6. ASSUME Whole PROVE ArrivedInv'
  <2>1. ept_recved => ~aft_mig_in_mmio BY <1>4 DEF TokenInv
  <2>2. ept_recved => Complete(a.unit)
    BY <1>2, <1>6, <2>1 DEF Whole, ArrivedInv
  <2>3. (ept_recved => Complete(vcpu.gphys.unit))'
    BY <1>1, <2>2 DEF Complete
  <2> QED BY <1>1, <1>3, <1>6, <2>3 DEF Whole, ArrivedInv
<1>7. PagingStep
  <2>1. Faults = {} /\ Faults' = {a.unit} BY <1>1 DEF Faults
  <2>2. Paging!Touch(a.unit)
    BY <1>1, <1>3, <2>1 DEF Paging!Touch, Faults, Arrived
  <2> QED BY <1>2, <2>2 DEF PagingStep, Paging!Next
<1> QED BY <1>3, <1>5, <1>6, <1>7 DEF Runs, Good

\* ... asks ...
LEMMA ReplyStep ==
  ASSUME DestGround, UNCHANGED sourceVars, echo_server_reply_request
  PROVE  Runs /\ (Whole => Good)
<1> USE DestTyped
<1>1. /\ vcpu.at = "reply" /\ vcpu'.at = "wait" /\ vcpu'.gphys = vcpu.gphys
      /\ UNCHANGED <<wire, mem, server_bitarray, marking, aft_mig_in_mmio, mapped>>
  BY DEF echo_server_reply_request, move, tcp_write_request, linkVars, recvVars
<1>2. \/ /\ vcpu.gphys.unit \in server_bitarray /\ ept_recved' /\ UNCHANGED requests
      \/ /\ requests' = Append(requests, vcpu.gphys) \/ UNCHANGED requests
         /\ UNCHANGED ept_recved
  <2>1. vcpu.gphys.unit \in server_bitarray => ept_recved' /\ UNCHANGED requests
    BY Zenon DEF echo_server_reply_request, linkVars
  <2>2. vcpu.gphys.unit \notin server_bitarray =>
          /\ requests' = Append(requests, vcpu.gphys) \/ UNCHANGED requests
          /\ UNCHANGED ept_recved
    BY DEF echo_server_reply_request, tcp_write_request
  <2> QED BY <2>1, <2>2
<1>3. gone' = gone BY <1>1 DEF gone
<1>4. /\ OnceInv' /\ OverInv' /\ Arrived' = Arrived /\ (Replying' <=> Replying)
      /\ Whole => Steady' /\ PiecesInv'
      /\ \A u : Complete(u)' <=> Complete(u)
  BY <1>1, <1>3, WireStands
<1>5. TokenInv'
  <2>1. /\ RequestInv' /\ (Checking' <=> Checking) /\ (Serving' <=> Serving)
        /\ (Crossing' <=> Crossing)
    BY SourceStands DEF TokenInv
  <2>2. ASSUME QuestionInv PROVE QuestionInv'
    <3>1. ~Asking /\ ~Checking /\ ~Serving /\ ~Crossing /\ ~Replying /\ ~ept_recved
      BY <1>1, <2>2 DEF QuestionInv, Waits, Replying
    <3>2. requests = <<>> BY <3>1 DEF Asking
    <3>3. CASE ept_recved' /\ UNCHANGED requests
      <4>1. ~Asking' BY <3>2, <3>3 DEF Asking
      <4> QED BY <1>1, <1>4, <2>1, <3>1, <4>1 DEF QuestionInv
    <3>4. CASE /\ requests' = Append(requests, vcpu.gphys) \/ UNCHANGED requests
               /\ UNCHANGED ept_recved
      <4>1. requests' = <<vcpu'.gphys>> \/ requests' = <<>>
        BY <1>1, <3>2, <3>4
      <4>2. Asking' => requests' = <<vcpu'.gphys>> BY <4>1 DEF Asking
      <4>3. ~ept_recved' BY <3>1, <3>4
      <4> QED BY <1>1, <1>4, <2>1, <3>1, <4>2, <4>3 DEF QuestionInv
    <3> QED BY <1>2, <3>3, <3>4
  <2> QED BY <1>1, <2>1, <2>2 DEF TokenInv
<1>6. ASSUME Whole PROVE ArrivedInv'
  <2>1. ept_recved' => Complete(vcpu.gphys.unit)
    BY <1>2, <1>6 DEF Whole, ArrivedInv
  <2>2. (ept_recved => Complete(vcpu.gphys.unit))'
    BY <1>1, <2>1 DEF Complete
  <2> QED BY <1>1, <1>4, <1>6, <2>2 DEF Whole, ArrivedInv
<1>7. PagingStep
  <2>1. Faults' = Faults BY <1>1 DEF Faults
  <2> QED BY <1>1, <1>4, <2>1 DEF PagingStep
<1> QED BY <1>4, <1>5, <1>6, <1>7 DEF Runs, Good

\* ... waits ...
LEMMA WaitStep ==
  ASSUME DestGround, UNCHANGED sourceVars, wait_ept_recved
  PROVE  Runs /\ (Whole => Good)
<1> USE DestTyped
<1>1. /\ vcpu.at = "wait" /\ vcpu'.at = "map" /\ vcpu'.gphys = vcpu.gphys
      /\ ept_recved \/ ~aft_mig_in_mmio
      /\ UNCHANGED <<wire, requests, mem, server_bitarray, marking, ept_recved,
                     aft_mig_in_mmio, mapped>>
  BY DEF wait_ept_recved, move, linkVars, recvVars
<1>2. gone' = gone BY <1>1 DEF gone
<1>3. /\ OnceInv' /\ OverInv' /\ Arrived' = Arrived /\ (Replying' <=> Replying)
      /\ Whole => Steady' /\ PiecesInv'
      /\ \A u : Complete(u)' <=> Complete(u)
  BY <1>1, <1>2, WireStands
<1>4. TokenInv'
  <2>1. /\ RequestInv' /\ (Checking' <=> Checking) /\ (Serving' <=> Serving)
        /\ (Crossing' <=> Crossing)
    BY SourceStands DEF TokenInv
  <2>2. ASSUME aft_mig_in_mmio, QuestionInv PROVE QuestionInv'
    <3>1. ~Asking /\ ~Checking /\ ~Serving /\ ~Crossing /\ ~Replying
      BY <1>1, <2>2 DEF QuestionInv
    <3>2. ~Asking' BY <1>1, <3>1 DEF Asking
    <3>3. ept_recved' BY <1>1, <2>2
    <3> QED BY <1>1, <1>3, <2>1, <3>1, <3>2, <3>3 DEF QuestionInv
  <2> QED BY <1>1, <2>1, <2>2 DEF TokenInv
<1>5. ASSUME Whole PROVE ArrivedInv'
  <2>1. (ept_recved => Complete(vcpu.gphys.unit))'
    BY <1>1, <1>5 DEF Whole, ArrivedInv, Complete
  <2> QED BY <1>1, <1>3, <1>5, <2>1 DEF Whole, ArrivedInv
<1>6. PagingStep
  <2>1. Faults' = Faults BY <1>1 DEF Faults
  <2> QED BY <1>1, <1>3, <2>1 DEF PagingStep
<1> QED BY <1>3, <1>4, <1>5, <1>6 DEF Runs, Good

\* ... and maps the page.
LEMMA MapStep ==
  ASSUME DestGround, UNCHANGED sourceVars, vt_ept_map_page
  PROVE  Runs /\ (Whole => Good)
<1> USE DestTyped
<1>1. /\ vcpu.at \in {"map", "map_only"} /\ vcpu'.at = "guest"
      /\ vcpu'.gphys = vcpu.gphys
      /\ mapped' = mapped \cup {vcpu.gphys.unit}
      /\ ept_recved' => ept_recved /\ vcpu.at # "map"
      /\ UNCHANGED <<wire, requests, mem, server_bitarray, marking, aft_mig_in_mmio>>
  <2>1. ept_recved' => ept_recved /\ vcpu.at # "map"
    BY Zenon DEF vt_ept_map_page
  <2> QED BY <2>1 DEF vt_ept_map_page, move, linkVars, recvVars
<1>2. gone' = gone BY <1>1 DEF gone
<1>3. /\ OnceInv' /\ OverInv' /\ Arrived' = Arrived /\ (Replying' <=> Replying)
      /\ Whole => Steady' /\ PiecesInv'
      /\ \A u : Complete(u)' <=> Complete(u)
  BY <1>1, <1>2, WireStands
<1>4. QuestionInv => vcpu.at = "map" /\ ept_recved
  BY <1>1 DEF QuestionInv
<1>5. TokenInv'
  <2>1. /\ RequestInv' /\ (Checking' <=> Checking) /\ (Serving' <=> Serving)
        /\ (Crossing' <=> Crossing)
    BY SourceStands DEF TokenInv
  <2>2. ASSUME aft_mig_in_mmio, QuestionInv PROVE QuestionInv'
    <3>1. ~Asking /\ ~Checking /\ ~Serving /\ ~Crossing /\ ~Replying
      BY <1>4, <2>2 DEF QuestionInv
    <3>2. ~Asking' /\ ~ept_recved' BY <1>1, <1>4, <2>2, <3>1 DEF Asking
    <3> QED BY <1>1, <1>3, <2>1, <3>1, <3>2 DEF QuestionInv
  <2> QED BY <1>1, <2>1, <2>2 DEF TokenInv
<1>6. ASSUME Whole PROVE ArrivedInv' /\ PagingStep
  <2>1. Complete(vcpu.gphys.unit)
    <3>1. CASE aft_mig_in_mmio
      BY <1>4, <1>6, <3>1 DEF TokenInv, Whole, ArrivedInv
    <3>2. CASE ~aft_mig_in_mmio
      BY <1>6, <3>2 DEF Whole, ArrivedInv
    <3> QED BY <3>1, <3>2
  <2>2. Complete(vcpu.gphys.unit)' BY <1>1, <2>1 DEF Complete
  <2>3. ArrivedInv'
    BY <1>1, <1>3, <1>6, <2>1, <2>2 DEF Whole, ArrivedInv
  <2>4. Faults = {vcpu.gphys.unit} /\ Faults' = {} BY <1>1 DEF Faults
  <2>5. Faults \subseteq Arrived BY <2>1, <2>4 DEF Arrived
  <2>6. Paging!Resume
    BY <1>1, <1>3, <2>4, <2>5 DEF Paging!Resume, Faults, Arrived
  <2> QED BY <2>3, <2>6 DEF PagingStep, Paging!Next
<1> QED BY <1>3, <1>5, <1>6 DEF Runs, Good

LEMMA DestKeeps ==
  ASSUME DestGround, DestStep, UNCHANGED sourceVars
  PROVE  SourceRuns' /\ Runs /\ (Whole => Good)
<1>1. SourceRuns' BY SourceStands, DestTyped
<1>2. CASE recv_req_mem BY <1>1, <1>2, RecvReqMemStep
<1>3. CASE mark_req_mem BY <1>1, <1>3, MarkReqMemStep
<1>4. CASE recv_mem BY <1>1, <1>4, RecvMemStep
<1>5. CASE recv_mig_done BY <1>1, <1>5, RecvMigDoneStep
<1>6. CASE echo_server_reply_request BY <1>1, <1>6, ReplyStep
<1>7. CASE wait_ept_recved BY <1>1, <1>7, WaitStep
<1>8. CASE vt_ept_map_page BY <1>1, <1>8, MapStep
<1>9. CASE \E a \in Address : vt_ept_violation(a) BY <1>1, <1>9, FaultStep
<1> QED BY <1>1, <1>2, <1>3, <1>4, <1>5, <1>6, <1>7, <1>8, <1>9
        DEF DestStep, echo_recv, VcpuStep

-----------------------------------------------------------------------------
(***************************************************************************)
(* The theorems.                                                           *)
(***************************************************************************)
\* The units of the margins and of the virtio buffers have been sent, and nobody
\* asks for anything.
LEMMA MemoryInit == Init => MemoryInv
<1> SUFFICES ASSUME Init PROVE MemoryInv OBVIOUS
<1> PICK sent \in SUBSET Unit : SourceInit(sent) /\ DestInit(sent) BY DEF Init
<1>1. pc["net"] = "idle" /\ pc["seq"] = "loop" BY DEF SourceInit, Thread
<1>2. here = "rest" /\ round = "loop" /\ ~Checking
  BY <1>1 DEF here, round, Checking, Sending
<1>3. ~Answering /\ ~Copying
  BY <1>2 DEF SourceInit, Answering, Copying, Requested
<1>4. PlaceInv BY <1>1 DEF PlaceInv, Rounds
<1>5. FlagsInv BY <1>2, <1>3 DEF SourceInit, FlagsInv, Requested
<1>6. CursorInv BY <1>2, <1>3 DEF SourceInit, CursorInv
<1>7. BatchInv /\ Steady
  BY <1>2, <1>3, LinkAssumption DEF SourceInit, BatchInv, Steady, Sender, Requested
<1>8. MsgInv BY <1>2, <1>3 DEF MsgInv
<1>9. wire = <<>> /\ requests = <<>> /\ mem = [unit : sent, num : Batch]
  BY DEF Init, LinkInit, DestInit
<1>10. \A u \in Unit : counts[u] = IF u \in sent THEN BATCH_SIZE ELSE 0
  BY <1>3 DEF SourceInit, counts, count
<1>11. PiecesInv
  <2>1. \A u, b : piece(u, b) \in mem <=> u \in sent /\ b \in Batch
    BY <1>9 DEF piece
  <2>2. \A u \in Unit, b \in Batch : b < counts[u] <=> u \in sent
    BY <1>10, LinkAssumption DEF Batch
  <2> QED BY <1>9, <2>1, <2>2 DEF PiecesInv, InOrder, NoneLost, NoneTwice
<1>12. OverInv BY <1>9 DEF DestInit, OverInv
<1>13. \A u \in sent : Complete(u) BY <1>9 DEF Complete
<1>14. ArrivedInv BY <1>13 DEF DestInit, ArrivedInv
<1>15. TokenInv
  <2>1. requested_addr.unit \notin Unit /\ ~request_recv_disrupted
    BY LinkAssumption DEF SourceInit, NoAddress, Unit
  <2>2. ~Serving /\ ~Crossing /\ ~Asking /\ ~Replying
    BY <1>3, <1>9, <2>1 DEF Serving, Crossing, Asking, Replying
  <2> QED BY <1>2, <2>1, <2>2
          DEF DestInit, TokenInv, RequestInv, QuestionInv
<1>16. OnceInv
  <2>1. gone = sent
    <3>1. server_bitarray = sent /\ marking = NUnits BY DEF DestInit
    <3>2. \A u \in Unit : u # NUnits BY LinkAssumption DEF Unit
    <3> QED BY <3>1, <3>2 DEF gone
  <2>2. opened = Unit \ sent
    BY <1>2, <1>3 DEF SourceInit, opened, Open
  <2> QED BY <1>9, <2>1, <2>2 DEF OnceInv, Once
<1> QED BY <1>4, <1>5, <1>6, <1>7, <1>8, <1>11, <1>12, <1>14, <1>15, <1>16
        DEF MemoryInv, RunInv, SourceRuns

\* What a step keeps, whether tcp_write() fails or not.
LEMMA RunNext ==
  ASSUME Serial, TypeInv, RoomToWrite, RunInv, [Next]_vars
  PROVE  RunInv'
<1>1. Ground /\ Tokens /\ DestGround BY DEF Ground, Tokens, DestGround, RunInv
<1>2. CASE (NetStep \/ SeqStep) /\ UNCHANGED destVars
  <2>1. SourceRuns' BY <1>1, <1>2, SourceStep
  <2>2. OnceInv' /\ OverInv' BY <1>1, <1>2, SourceOnce DEF RunInv
  <2>3. TokenInv' BY <1>1, <1>2, SourceQuestion
  <2> QED BY <2>1, <2>2, <2>3 DEF RunInv
<1>3. CASE DestStep /\ UNCHANGED sourceVars
  BY <1>1, <1>3, DestKeeps DEF Runs, RunInv
<1>4. CASE UNCHANGED vars
  <2>1. /\ UNCHANGED sourceVars /\ gone' = gone
        /\ UNCHANGED <<wire, requests, mem, aft_mig_in_mmio, vcpu, ept_recved>>
    BY <1>4 DEF vars, linkVars, destVars, recvVars, gone
  <2>2. SourceRuns' BY <1>1, <2>1, SourceStands DEF DestGround, RunInv
  <2>3. OnceInv' /\ OverInv' BY <1>1, <2>1, WireStands
  <2>4. TokenInv' BY <1>1, <2>1, QuestionStands
  <2> QED BY <2>2, <2>3, <2>4 DEF RunInv
<1> QED BY <1>2, <1>3, <1>4 DEF Next

\* What a step keeps when it does not, and that it is a step of DemandPaging or
\* none.
LEMMA MemoryNext ==
  ASSUME Serial, NoFailure, TypeInv, TypeInv', RoomToWrite, RoomToWrite',
         MemoryInv, [Next]_vars
  PROVE  MemoryInv' /\ PagingStep
<1>1. Ground /\ Tokens /\ DestGround
  BY DEF Ground, Tokens, DestGround, MemoryInv, RunInv
<1>2. Whole
  BY <1>1, CountType DEF Whole, MemoryInv
<1>3. RunInv' BY RunNext DEF MemoryInv
<1>4. ASSUME UNCHANGED destVars PROVE ArrivedInv' /\ PagingStep
  <2>1. UNCHANGED <<server_bitarray, mem, marking, aft_mig_in_mmio, vcpu, mapped,
                    ept_recved>>
    BY <1>4 DEF destVars, recvVars
  <2>2. \A u : Complete(u)' <=> Complete(u) BY <2>1 DEF Complete
  <2>3. (ept_recved => Complete(vcpu.gphys.unit))'
    BY <2>1 DEF MemoryInv, ArrivedInv, Complete
  <2>4. ArrivedInv' BY <2>1, <2>2, <2>3 DEF MemoryInv, ArrivedInv
  <2>5. Arrived' = Arrived /\ Faults' = Faults BY <2>1, <2>2 DEF Arrived, Faults
  <2> QED BY <2>1, <2>4, <2>5 DEF PagingStep
<1>5. CASE (NetStep \/ SeqStep) /\ UNCHANGED destVars
  <2>1. Ground' BY <1>3 DEF Ground, Serial, RunInv
  <2>2. Steady' /\ PiecesInv'
    BY <1>1, <1>5, <2>1, SourcePieces DEF MemoryInv
  <2> QED BY <1>3, <1>4, <1>5, <2>2 DEF MemoryInv
<1>6. CASE DestStep /\ UNCHANGED sourceVars
  BY <1>1, <1>2, <1>3, <1>6, DestKeeps DEF Good, MemoryInv
<1>7. CASE UNCHANGED vars
  <2>1. /\ UNCHANGED sourceVars /\ UNCHANGED destVars /\ gone' = gone
        /\ UNCHANGED <<wire, mem, aft_mig_in_mmio>>
    BY <1>7 DEF vars, linkVars, destVars, recvVars, gone
  <2>2. Steady' /\ PiecesInv' BY <1>1, <1>2, <2>1, WireStands
  <2> QED BY <1>3, <1>4, <2>1, <2>2 DEF MemoryInv
<1> QED BY <1>5, <1>6, <1>7 DEF Next

LEMMA RunAlways ==
  ASSUME Serial
  PROVE  Spec => [](TypeInv /\ RoomToWrite /\ RunInv)
<1>1. Init => TypeInv /\ RoomToWrite /\ RunInv
  BY InitType, RoomInit, MemoryInit DEF MemoryInv
<1>2. TypeInv /\ RoomToWrite /\ RunInv /\ [Next]_vars
        => TypeInv' /\ RoomToWrite' /\ RunInv'
  BY NextType, RoomNext, RunNext
<1> QED BY <1>1, <1>2, PTL DEF Spec

LEMMA MemoryAlways ==
  ASSUME Serial, NoFailure
  PROVE  Spec => [](TypeInv /\ RoomToWrite /\ MemoryInv)
<1>1. Init => TypeInv /\ RoomToWrite /\ MemoryInv
  BY InitType, RoomInit, MemoryInit
<1>2. TypeInv /\ RoomToWrite /\ MemoryInv /\ [Next]_vars
        => TypeInv' /\ RoomToWrite' /\ MemoryInv'
  <2> SUFFICES ASSUME TypeInv, RoomToWrite, MemoryInv, [Next]_vars
               PROVE  TypeInv' /\ RoomToWrite' /\ MemoryInv'
    OBVIOUS
  <2>1. TypeInv' /\ RoomToWrite' BY NextType, RoomNext
  <2> QED BY <2>1, MemoryNext
<1> QED BY <1>1, <1>2, PTL DEF Spec

\* Whatever tcp_write() refuses: the flags of the source say what it does, a unit
\* that the source has left is never sent again, the end comes last, and the
\* question of the waiting processor is in one place (request_recv,
\* seq_transmit_thread, echo_recv).
THEOREM RunInvariant ==
  ASSUME Serial
  PROVE  Spec => []RunInv
BY RunAlways, PTL

\* The strengthening that the following rest on when tcp_write() does not fail for
\* want of memory: besides, the pieces of each unit come once and in order, and
\* ept_recved means that the unit the virtual processor waits for is complete.
THEOREM MemoryInvariant ==
  ASSUME Serial, NoFailure
  PROVE  Spec => []MemoryInv
BY MemoryAlways, PTL

\* The guest never uses a unit of which a piece is missing, and no message can
\* overwrite what it wrote, whatever it touches and whenever (vt_ept_violation,
\* echo_recv, request_recv, seq_transmit_thread).
THEOREM GuestMemoryAlwaysSafe ==
  ASSUME Serial, NoFailure
  PROVE  Spec => []GuestMemorySafe
<1>1. TypeInv /\ MemoryInv => GuestMemorySafe
  <2> SUFFICES ASSUME TypeInv, MemoryInv, NEW u \in mapped, InTransit(u),
                      Complete(u)
               PROVE  FALSE
    BY DEF GuestMemorySafe, MemoryInv, ArrivedInv
  <2>1. PICK i \in DOMAIN wire : Carries(wire, i) /\ wire[i].addr = u
    BY DEF InTransit, Carries
  <2>2. wire[i].batch_num \in Batch
    BY <2>1 DEF MemoryInv, PiecesInv, InOrder
  <2>3. piece(u, wire[i].batch_num) \in mem
    BY <2>2, CompleteIs DEF Complete
  <2>4. wire[i].batch_num < wire[i].batch_num
    BY <2>1, <2>2, <2>3 DEF MemoryInv, PiecesInv, NoneTwice
  <2> QED BY <2>2, <2>4, LinkAssumption DEF Batch
<1> QED BY <1>1, MemoryAlways, PTL

\* PROTO_ID_META_MIG_DONE arrives after everything: when it clears
\* aft_mig_in_mmio and faults are no longer asked about, no unit is missing.
THEOREM DoneIsAlwaysComplete ==
  ASSUME Serial, NoFailure
  PROVE  Spec => []DoneIsComplete
<1>1. MemoryInv => DoneIsComplete BY DEF MemoryInv, ArrivedInv, DoneIsComplete
<1> QED BY <1>1, MemoryAlways, PTL

\* A unit that get_start_addr and request_recv will skip has been handed over
\* whole, or the background copy is at it.
THEOREM MarkedIsAlwaysSent ==
  ASSUME Serial, NoFailure
  PROVE  Spec => []MarkedIsSent
<1>1. TypeInv /\ MemoryInv => MarkedIsSent
  <2> SUFFICES ASSUME TypeInv, MemoryInv, NEW u \in bitarray,
                      ~(is_transmitting /\ postcopy_state.start_addr = u)
               PROVE  HandedOver(u)
    BY DEF MarkedIsSent
  <2>1. u \in Unit BY DEF TypeInv, TypeOK, SourceTypeOK
  <2>2. Answering => requested_offset \notin bitarray
    BY DEF MemoryInv, RunInv, SourceRuns, MsgInv
  <2>3. counts[u] = BATCH_SIZE
    BY <2>1, <2>2 DEF counts, count, Copying
  <2>4. \A b \in Batch : b < counts[u] BY <2>3, LinkAssumption DEF Batch
  <2>5. \A b \in Batch :
          \/ piece(u, b) \in mem
          \/ \E i \in DOMAIN wire :
               Carries(wire, i) /\ wire[i].addr = u /\ wire[i].batch_num = b
    BY <2>1, <2>4 DEF MemoryInv, PiecesInv, NoneLost
  <2> QED BY <2>5 DEF HandedOver, Carries, piece
<1> QED BY <1>1, MemoryAlways, PTL

\* The last piece of a unit sets its bit at the destination (echo_recv), and then
\* the others are there, too.
THEOREM ReceivedIsAlwaysComplete ==
  ASSUME Serial, NoFailure
  PROVE  Spec => []ReceivedIsComplete
<1>1. MemoryInv => ReceivedIsComplete
  BY DEF MemoryInv, ArrivedInv, ReceivedIsComplete
<1> QED BY <1>1, MemoryAlways, PTL

\* The debug assertion of echo_recv (CONFIG_POSTCOPY_DBG) never fails, though
\* pieces are lost when tcp_write() fails: the message that makes a unit marked is
\* the last one of that unit that is ever sent.
THEOREM NeverSentTwice ==
  ASSUME Serial
  PROVE  Spec => []NotSentTwice
<1>1. TypeInv /\ RunInv => NotSentTwice
  <2> SUFFICES ASSUME TypeInv, RunInv, wire # <<>>, Head(wire).kind = "MEM",
                      Head(wire).addr \in server_bitarray
               PROVE  FALSE
    BY DEF NotSentTwice
  <2>1. wire \in Seq(Message) /\ server_bitarray \subseteq Unit
    BY DEF TypeInv, TypeOK, LinkTypeOK, DestTypeOK
  <2>2. 1 \in DOMAIN wire /\ Carries(wire, 1) /\ Head(wire) = wire[1]
    BY <2>1 DEF Carries, MemKind
  <2>3. wire[1].addr \notin gone BY <2>2 DEF RunInv, OnceInv, Once
  <2> QED BY <2>1, <2>2, <2>3 DEF gone
<1> QED BY <1>1, RunAlways, PTL

\* Source, connection and destination are demand paging: every step of theirs is
\* the arrival of a unit, a fault, the end of a fault whose unit has arrived, the
\* end of the migration when everything has arrived, or nothing to the guest.
THEOREM PagingKept ==
  ASSUME Serial, NoFailure
  PROVE  Spec => PagingSpec
<1>1. Init => Paging!Init
  <2> SUFFICES ASSUME Init PROVE Paging!Init OBVIOUS
  <2>1. mapped = {} /\ vcpu.at = "guest" /\ aft_mig_in_mmio
    BY DEF Init, DestInit
  <2> QED BY <2>1 DEF Paging!Init
<1>2. TypeInv /\ TypeInv' /\ RoomToWrite /\ RoomToWrite' /\ MemoryInv /\ [Next]_vars
        => [Paging!Next]_(Paging!vars)
  BY MemoryNext DEF PagingStep, Paging!vars, Arrived, Faults
<1>3. Paging!Init /\ [][Paging!Next]_(Paging!vars) => PagingSpec
  BY DEF PagingSpec, Paging!Spec
<1> QED BY <1>1, <1>2, <1>3, MemoryAlways, PTL DEF Spec
==============================================================================
