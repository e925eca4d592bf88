--------------------------- MODULE PostcopySource ---------------------------
(***************************************************************************)
(* The migration source, bitvisor_client/ip/echo-client.c, in the          *)
(* background-copy phase: from thread_new(seq_transmit_thread) to its      *)
(* thread_exit().                                                          *)
(*                                                                         *)
(* Two BitVisor threads run this code.  The network thread receives page   *)
(* requests (echo_client_recv) and runs the callback of tcp_sent() when an *)
(* acknowledgement arrives; seq_transmit_thread copies the units that were *)
(* not asked for, in address order.  Both send a unit with one of three    *)
(* functions, send_margin, postcopy_requested and                          *)
(* postcopy_requested_disrupted, which stop when the send buffer is full   *)
(* and go on where they stopped when they are called again.                *)
(***************************************************************************)
EXTENDS PostcopyLink

CONSTANT
  ParallelThreads  \* may two BitVisor threads run at the same time?  So it is
                   \* with CONFIG_THREAD_1CPU=0 on more than one processor.

ASSUME ThreadAssumption == ParallelThreads \in BOOLEAN

Thread   == {"net", "seq"}
Sender   == {"send_margin", "postcopy_requested", "postcopy_requested_disrupted"}
Callback == Sender \cup {"migration_done_sent", "none"}

VARIABLES
  bitarray,                   \* units marked as sent
  requested_addr,             \* the address of the last request
  requested_offset,           \* the unit whose memory answers it
  no_request,
  is_transmitting,
  seq_thread_is_transmitting,
  request_recv_disrupted,
  fail_to_send,               \* the fail_to_send_* flags that are set
  migration_done,
  migration_done_msg_sent,
  start_addr,                 \* cursor of get_start_addr; NUnits is its end
  postcopy_state,             \* start_addr and send_num of the background copy
  batch,                      \* the static counter of each send function
  msg, seq_msg,               \* the two message buffers
  tcp_sent,                   \* the callback of the connection
  pc, fn                      \* where a thread is; the send function it runs

flagVars == <<no_request, is_transmitting, seq_thread_is_transmitting,
              request_recv_disrupted, fail_to_send, migration_done,
              migration_done_msg_sent>>
copyVars == <<bitarray, requested_addr, requested_offset, start_addr,
              postcopy_state, batch, msg, seq_msg, tcp_sent>>
sourceVars == <<flagVars, copyVars, pc, fn>>

Location == {"idle", "check",                                       \* net
             "loop", "task", "getaddr", "setbit", "disrupted",      \* seq
             "done", "write_done", "exit",
             "send", "write", "last_write", "mark"}                 \* both

SourceTypeOK ==
  /\ bitarray \subseteq Unit
  /\ requested_addr \in Address \cup {NoAddress}
  /\ requested_offset \in Unit
  /\ no_request \in BOOLEAN /\ is_transmitting \in BOOLEAN
  /\ seq_thread_is_transmitting \in BOOLEAN
  /\ request_recv_disrupted \in BOOLEAN
  /\ migration_done \in BOOLEAN /\ migration_done_msg_sent \in BOOLEAN
  /\ fail_to_send \subseteq Sender
  /\ start_addr \in 0 .. NUnits
  /\ postcopy_state \in [start_addr : Unit, send_num : Nat]
  /\ batch \in [Sender -> Nat]
  /\ msg \in Message /\ seq_msg \in Message
  /\ tcp_sent \in Callback
  /\ pc \in [Thread -> Location]
  /\ fn \in [Thread -> Sender]

BlankMessage == [kind |-> "MEM", addr |-> 0, batch_num |-> 0,
                 data |-> [unit |-> 0, num |-> 0]]

\* send_margins() has sent the units in 'sent' and started the thread; when it
\* ran out of room on the way, fail_to_send_seq is still set.
SourceInit(sent) ==
  /\ bitarray = sent
  /\ requested_addr = NoAddress /\ requested_offset = 0
  /\ no_request = FALSE  \* echo_client_init: no background copy before a request
  /\ is_transmitting = FALSE /\ seq_thread_is_transmitting = FALSE
  /\ request_recv_disrupted = FALSE
  /\ fail_to_send \in SUBSET {"send_margin"}
  /\ migration_done = FALSE /\ migration_done_msg_sent = FALSE
  /\ start_addr = 0
  /\ postcopy_state = [start_addr |-> 0, send_num |-> 0]
  /\ batch = [f \in Sender |-> 0]
  /\ msg = BlankMessage /\ seq_msg = BlankMessage
  /\ tcp_sent = "none"
  /\ pc = [t \in Thread |-> IF t = "net" THEN "idle" ELSE "loop"]
  /\ fn = [t \in Thread |-> IF t = "net" THEN "postcopy_requested"
                                         ELSE "send_margin"]

-----------------------------------------------------------------------------
\* Where a send function returns to.
Return(t) == IF t = "net" THEN "idle" ELSE "loop"
goto(t, l) == pc' = [pc EXCEPT ![t] = l]

\* A thread that is not at its return point holds the processor until
\* schedule(), unless several processors run BitVisor threads.
CanRun(t) ==
  ParallelThreads \/ \A o \in Thread \ {t} : pc[o] \in {Return(o), "exit"}
Step(t, l) == CanRun(t) /\ pc[t] = l

\* A mistake the checks find: nothing is marked.
set_no_bitarray(u) == UNCHANGED bitarray

set_bitarray(u) == bitarray' = bitarray \cup {u}

\* A send function is called by its thread.
call(t, f) ==
  /\ goto(t, "send")
  /\ fn' = [fn EXCEPT ![t] = f]

-----------------------------------------------------------------------------
\* The body of a send function: while (tcp_sendbuf_available (tpcb)) ...

send_no_room(t) ==
  /\ Step(t, "send")
  /\ ~tcp_sendbuf_available
  /\ fail_to_send' = fail_to_send \cup {fn[t]}
  /\ goto(t, Return(t))
  /\ UNCHANGED <<linkVars, copyVars, fn, no_request, is_transmitting,
                 seq_thread_is_transmitting, request_recv_disrupted,
                 migration_done, migration_done_msg_sent>>

\* The next piece of the unit of the background copy goes into seq_msg.
fill_margin(t) ==
  LET last == postcopy_state.send_num + 1 >= BATCH_SIZE
      asked == requested_addr = Aligned(postcopy_state.start_addr)
  IN
  /\ Step(t, "send") /\ fn[t] = "send_margin"
  /\ tcp_sendbuf_available
  /\ seq_msg' = [seq_msg EXCEPT
       !.kind = IF last /\ asked THEN "REQ_MEM" ELSE @,
       !.batch_num = batch["send_margin"],
       !.data = [unit |-> postcopy_state.start_addr,
                 num |-> postcopy_state.send_num]]
  /\ postcopy_state' = [postcopy_state EXCEPT !.send_num = @ + 1]
  /\ batch' = [batch EXCEPT !["send_margin"] = IF last THEN 0 ELSE @ + 1]
  /\ tcp_sent' = IF last THEN "none" ELSE "send_margin"
  /\ goto(t, IF last THEN "last_write" ELSE "write")
  /\ UNCHANGED <<linkVars, flagVars, fn, bitarray, requested_addr,
                 requested_offset, start_addr, msg>>

\* The next piece of the requested unit goes into msg.
fill_requested(t) ==
  LET f == fn[t]
      last == batch[f] + 1 >= BATCH_SIZE
  IN
  /\ Step(t, "send") /\ f # "send_margin"
  /\ tcp_sendbuf_available
  /\ msg' = [msg EXCEPT
       !.kind = IF last THEN "REQ_MEM" ELSE @,
       !.batch_num = batch[f],
       !.data = [unit |-> requested_offset, num |-> batch[f]]]
  /\ batch' = [batch EXCEPT ![f] = IF last THEN 0 ELSE @ + 1]
  /\ tcp_sent' = IF last THEN "none" ELSE f
  /\ goto(t, IF last THEN "last_write" ELSE "write")
  /\ UNCHANGED <<linkVars, flagVars, fn, bitarray, requested_addr,
                 requested_offset, start_addr, postcopy_state, seq_msg>>

\* tcp_send_msg, tcp_send_seq_msg.
write_ok(t)  == tcp_write_ok(IF fn[t] = "send_margin" THEN seq_msg ELSE msg)

\* A piece that is not the last: send_margin gives up when tcp_write() fails,
\* the other two go on to the next piece.
write_piece(t) ==
  /\ Step(t, "write")
  /\ \/ /\ write_ok(t)
        /\ goto(t, "send")
     \/ /\ tcp_write_err
        /\ goto(t, IF fn[t] = "send_margin" THEN Return(t) ELSE "send")
  /\ UNCHANGED <<flagVars, copyVars, fn>>

\* A mistake the checks find: one of the two flags stays set.
sending_half_over ==
  /\ seq_thread_is_transmitting' = FALSE
  /\ UNCHANGED is_transmitting

sending_over ==
  /\ is_transmitting' = FALSE
  /\ seq_thread_is_transmitting' = FALSE

\* The last piece of the background copy's unit.
write_last_margin(t) ==
  /\ Step(t, "last_write") /\ fn[t] = "send_margin"
  /\ \/ /\ write_ok(t)
        /\ sending_over
     \/ /\ tcp_write_err
        /\ UNCHANGED <<is_transmitting, seq_thread_is_transmitting>>
  /\ goto(t, Return(t))
  /\ UNCHANGED <<copyVars, fn, no_request, request_recv_disrupted,
                 fail_to_send, migration_done, migration_done_msg_sent>>

\* The last piece of a requested unit, and what follows it.
write_last_requested(t) ==
  /\ Step(t, "last_write") /\ fn[t] # "send_margin"
  /\ write_ok(t) \/ tcp_write_err
  /\ goto(t, "mark")
  /\ UNCHANGED <<flagVars, copyVars, fn>>

mark_requested(t) ==
  /\ Step(t, "mark")
  /\ set_bitarray(requested_addr.unit)
  /\ no_request' = TRUE
  /\ request_recv_disrupted' =
       (request_recv_disrupted /\ fn[t] # "postcopy_requested_disrupted")
  /\ goto(t, Return(t))
  /\ UNCHANGED <<linkVars, fn, requested_addr, requested_offset, start_addr,
                 postcopy_state, batch, msg, seq_msg, tcp_sent,
                 is_transmitting, seq_thread_is_transmitting, fail_to_send,
                 migration_done, migration_done_msg_sent>>

-----------------------------------------------------------------------------
\* The network thread.

\* echo_client_recv takes a request; request_recv drops it when the unit is
\* marked as sent.
echo_client_recv ==
  /\ Step("net", "idle")
  /\ requests # <<>>
  /\ requests' = Tail(requests)
  /\ requested_addr' = Head(requests)
  /\ goto("net", IF Head(requests).unit \in bitarray THEN "idle" ELSE "check")
  /\ UNCHANGED <<flagVars, fn, wire, unacked, tcp_sndbuf, write_failures,
                 bitarray, requested_offset, start_addr, postcopy_state,
                 batch, msg, seq_msg, tcp_sent>>

\* select_mem_area and the set-up of msg, for either kind of requested send.
start_requested(t, f) ==
  /\ requested_addr' = Aligned(requested_addr.unit)
  /\ requested_offset' = requested_addr.unit
  /\ msg' = [msg EXCEPT !.kind = "MEM", !.addr = requested_addr.unit]
  /\ no_request' = FALSE
  /\ tcp_sent' = f
  /\ call(t, f)
  /\ UNCHANGED <<linkVars, bitarray, start_addr, postcopy_state, batch, seq_msg,
                 is_transmitting, seq_thread_is_transmitting,
                 request_recv_disrupted, fail_to_send, migration_done,
                 migration_done_msg_sent>>

\* A mistake the checks find: the background copy is not looked at.
request_recv_at_once ==
  /\ Step("net", "check")
  /\ start_requested("net", "postcopy_requested")

\* The rest of request_recv: left to the background thread while it sends.
request_recv ==
  /\ Step("net", "check")
  /\ \/ /\ seq_thread_is_transmitting
        /\ request_recv_disrupted' = TRUE
        /\ goto("net", "idle")
        /\ UNCHANGED <<linkVars, copyVars, fn, no_request, is_transmitting,
                       seq_thread_is_transmitting, fail_to_send,
                       migration_done, migration_done_msg_sent>>
     \/ /\ ~seq_thread_is_transmitting
        /\ start_requested("net", "postcopy_requested")

\* An acknowledgement of n messages: lwIP calls the callback of tcp_sent().
sent_event(n) ==
  /\ Step("net", "idle")
  /\ tcp_ack(n)
  /\ migration_done_msg_sent' =
       (migration_done_msg_sent \/ tcp_sent = "migration_done_sent")
  /\ IF tcp_sent \in Sender THEN call("net", tcp_sent) ELSE UNCHANGED <<pc, fn>>
  /\ UNCHANGED <<copyVars, no_request, is_transmitting,
                 seq_thread_is_transmitting, request_recv_disrupted,
                 fail_to_send, migration_done>>

-----------------------------------------------------------------------------
\* seq_transmit_thread: one round of its loop.

loop_seq(l) == Step("seq", "loop") /\ goto("seq", l)

\* A mistake the checks find: a request that is being answered is not looked at.
loop_free_unasked ==
  /\ ~migration_done
  /\ ~is_transmitting
  /\ loop_seq("task")
  /\ UNCHANGED <<linkVars, flagVars, copyVars, fn>>

\* Nothing to send and nobody sends: serve a request that came while this
\* thread was sending, else copy the next unit.
loop_free ==
  /\ ~migration_done
  /\ no_request /\ ~is_transmitting
  /\ loop_seq(IF request_recv_disrupted /\ ~seq_thread_is_transmitting
              THEN "disrupted" ELSE "task")
  /\ UNCHANGED <<linkVars, flagVars, copyVars, fn>>

\* CONFIG_RESEND_IN_THREAD: the send function that ran out of room, if any.
Interrupted ==
  IF no_request THEN "send_margin"
  ELSE IF request_recv_disrupted THEN "postcopy_requested_disrupted"
  ELSE "postcopy_requested"

loop_resend ==
  /\ ~migration_done
  /\ ~(no_request /\ ~is_transmitting)
  /\ Interrupted \in fail_to_send
  /\ Step("seq", "loop")
  /\ fail_to_send' = fail_to_send \ {Interrupted}
  /\ call("seq", Interrupted)
  /\ UNCHANGED <<linkVars, copyVars, no_request, is_transmitting,
                 seq_thread_is_transmitting, request_recv_disrupted,
                 migration_done, migration_done_msg_sent>>

\* Every unit is sent: tell the destination until an acknowledgement comes.
loop_done ==
  /\ migration_done
  /\ loop_seq(IF migration_done_msg_sent THEN "exit" ELSE "done")
  /\ UNCHANGED <<linkVars, flagVars, copyVars, fn>>

\* postcopy_seq_task.
postcopy_seq_task ==
  /\ Step("seq", "task")
  /\ is_transmitting' = TRUE
  /\ seq_thread_is_transmitting' = TRUE
  /\ goto("seq", "getaddr")
  /\ UNCHANGED <<linkVars, copyVars, fn, no_request, request_recv_disrupted,
                 fail_to_send, migration_done, migration_done_msg_sent>>

\* Mistakes the checks find: the cursor goes one unit too far; the count of
\* pieces goes on from the unit before.
get_next_addr_far(u) == IF u + 2 < NUnits THEN u + 2 ELSE NUnits
set_send_margin_on(u) == postcopy_state' = [postcopy_state EXCEPT !.start_addr = u]

get_next_addr(u) == u + 1
set_send_margin(u) == postcopy_state' = [start_addr |-> u, send_num |-> 0]

\* get_start_addr returns the next unit that is not marked, and
\* set_send_margin makes it the unit of the background copy.
get_start_addr(u) ==
  /\ Step("seq", "getaddr")
  /\ u >= start_addr /\ u \notin bitarray
  /\ start_addr .. u - 1 \subseteq bitarray
  /\ start_addr' = get_next_addr(u)
  /\ set_send_margin(u)
  /\ seq_msg' = [seq_msg EXCEPT !.kind = "MEM", !.addr = u]
  /\ goto("seq", "setbit")
  /\ UNCHANGED <<linkVars, flagVars, fn, bitarray, requested_addr,
                 requested_offset, batch, msg, tcp_sent>>

\* get_start_addr returns 0xffffffffffffffff.
no_start_addr ==
  /\ Step("seq", "getaddr")
  /\ start_addr .. NUnits - 1 \subseteq bitarray
  /\ start_addr' = NUnits
  /\ sending_over
  /\ goto("seq", "done")
  /\ UNCHANGED <<linkVars, fn, bitarray, requested_addr, requested_offset,
                 postcopy_state, batch, msg, seq_msg, tcp_sent, no_request,
                 request_recv_disrupted, fail_to_send, migration_done,
                 migration_done_msg_sent>>

set_start_bitarray ==
  /\ Step("seq", "setbit")
  /\ set_bitarray(postcopy_state.start_addr)
  /\ call("seq", "send_margin")
  /\ UNCHANGED <<linkVars, flagVars, requested_addr, requested_offset,
                 start_addr, postcopy_state, batch, msg, seq_msg, tcp_sent>>

\* send_disrupted_addr.
send_disrupted_addr ==
  /\ Step("seq", "disrupted")
  /\ \/ /\ requested_addr.unit \in bitarray
        /\ request_recv_disrupted' = FALSE
        /\ goto("seq", "loop")
        /\ UNCHANGED <<linkVars, copyVars, fn, no_request, is_transmitting,
                       seq_thread_is_transmitting, fail_to_send,
                       migration_done, migration_done_msg_sent>>
     \/ /\ requested_addr.unit \notin bitarray
        /\ start_requested("seq", "postcopy_requested_disrupted")

\* send_migration_done, and migration_done = true after its first call.
send_migration_done ==
  /\ Step("seq", "done")
  /\ \/ /\ tcp_sendbuf_available
        /\ seq_msg' = [seq_msg EXCEPT !.kind = "MIG_DONE"]
        /\ tcp_sent' = "migration_done_sent"
        /\ goto("seq", "write_done")
        /\ UNCHANGED migration_done
     \/ /\ ~tcp_sendbuf_available
        /\ migration_done' = TRUE
        /\ goto("seq", "loop")
        /\ UNCHANGED <<seq_msg, tcp_sent>>
  /\ UNCHANGED <<linkVars, fn, bitarray, requested_addr, requested_offset,
                 start_addr, postcopy_state, batch, msg, no_request,
                 is_transmitting, seq_thread_is_transmitting,
                 request_recv_disrupted, fail_to_send,
                 migration_done_msg_sent>>

write_migration_done ==
  /\ Step("seq", "write_done")
  /\ tcp_write_ok(seq_msg) \/ tcp_write_err
  /\ migration_done' = TRUE
  /\ goto("seq", "loop")
  /\ UNCHANGED <<copyVars, fn, no_request, is_transmitting,
                 seq_thread_is_transmitting, request_recv_disrupted,
                 fail_to_send, migration_done_msg_sent>>

-----------------------------------------------------------------------------
\* What either thread may do in a send function, and each thread's steps.
SendStep(t) ==
  \/ send_no_room(t)
  \/ fill_margin(t)
  \/ fill_requested(t)
  \/ write_piece(t)
  \/ write_last_margin(t)
  \/ write_last_requested(t)
  \/ mark_requested(t)

NetStep ==
  \/ echo_client_recv
  \/ request_recv
  \/ \E n \in 1 .. unacked : sent_event(n)
  \/ SendStep("net")

SeqStep ==
  \/ loop_free
  \/ loop_resend
  \/ loop_done
  \/ postcopy_seq_task
  \/ \E u \in Unit : get_start_addr(u)
  \/ no_start_addr
  \/ set_start_bitarray
  \/ send_disrupted_addr
  \/ send_migration_done
  \/ write_migration_done
  \/ SendStep("seq")
=============================================================================
