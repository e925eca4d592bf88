-------------------------------- MODULE Dbgsh --------------------------------
(***************************************************************************)
(* The debug shell, core/vmmcall_dbgsh.c: a thread of the VMM asks, and a  *)
(* program of the guest (tools/dbgsh) answers.  The guest cannot be        *)
(* called, so the program polls with a vmmcall; the question waits in s,   *)
(* the answer in r, and the thread stops until the vmmcall wakes it.       *)
(*                                                                         *)
(* The vmmcall and the thread may run on two processors at once, even in   *)
(* the build that runs threads on one, for a vmmcall is no thread.         *)
(* dbgsh_lock is taken by the vmmcall alone, and one program runs at a     *)
(* time, so the lock is left out.  i is sleeper # NoTid, tid is sleeper.   *)
(***************************************************************************)
EXTENDS ThreadSched

VARIABLES
  started,                   \* the processors the guest has started
  s, r,                      \* question and answer; None: there is none
  stopped,                   \* thread_will_stop() has been called (ever)
  dbgsh_lock2,               \* who holds it
  asker, question, tmp,      \* dbgsh_thread: where it is, its question, the answer
  caller, cpu, b, a          \* the program: where it is, on which processor,
                             \* %rbx of its vmmcall and the result of the last

shell   == <<s, r, stopped, dbgsh_lock2>>
thread  == <<asker, question, tmp>>
program == <<caller, cpu, b, a>>
dvars   == <<vars, started, shell, thread, program>>

None == -1                   \* also the argument of a poll
Ack  == 0                    \* the answer to what was written
Key  == 1                    \* the answer to what is read: never 0
In   == 0                    \* dbgsh_ttyin_msghandler asks
Out  == 1                    \* dbgsh_ttyout_msghandler asks
Bye  == 2                    \* 0x100 | '\n': the shell has exited

DInit ==
  /\ Init
  /\ started \in {{0}, Cpu}
  /\ s = None /\ r = None /\ stopped = FALSE /\ dbgsh_lock2 = "free"
  /\ asker = "ask" /\ question = Out /\ tmp = Ack
  /\ caller = "off" /\ cpu = 0 /\ b = None /\ a = None

-----------------------------------------------------------------------------
\* dbgsh_thread runs on c, outside schedule().
Asking(c, l) == at(c) = "run" /\ tid[c] = sleeper /\ asker = l

ask(c, q) ==
  /\ Asking(c, "ask")
  /\ question' = q /\ s' = q
  /\ asker' = "test_r" /\ tmp' = None
  /\ UNCHANGED <<vars, r, stopped, dbgsh_lock2>>

\* A mistake the checks find: it waits only while both are missing.
test_r_and(c) ==
  /\ Asking(c, "test_r")
  /\ asker' = IF r = None THEN "test_s" ELSE "take"
  /\ UNCHANGED <<vars, shell, question, tmp>>

\* r == -1 || s != -1, one read after the other.
test_r(c) ==
  /\ Asking(c, "test_r")
  /\ asker' = IF r = None THEN "stop" ELSE "test_s"
  /\ UNCHANGED <<vars, shell, question, tmp>>

test_s(c) ==
  /\ Asking(c, "test_s")
  /\ asker' = IF s # None THEN "stop" ELSE "take"
  /\ UNCHANGED <<vars, shell, question, tmp>>

\* A mistake the checks find: the program is not told that the thread stops.
stop_untold(c) ==
  /\ Asking(c, "stop") /\ dbgsh_lock2 = "free"
  /\ thread_will_stop(c)
  /\ asker' = "schedule"
  /\ UNCHANGED <<shell, question, tmp>>

\* The section under dbgsh_lock2: nothing else reads what it writes without
\* the lock, except schedule().
stop(c) ==
  /\ Asking(c, "stop") /\ dbgsh_lock2 = "free"
  /\ stopped' = TRUE
  /\ thread_will_stop(c)
  /\ asker' = "schedule"
  /\ UNCHANGED <<s, r, dbgsh_lock2, question, tmp>>

\* schedule() in the loop of dbgsh_send_to_guest, and in dbgsh_thread's own.
yield(c) ==
  /\ asker \in {"schedule", "exited"} /\ Asking(c, asker)
  /\ schedule(c)
  /\ asker' = IF asker = "schedule" THEN "test_r" ELSE "ask"
  /\ UNCHANGED <<shell, question, tmp>>

take(c) ==
  /\ Asking(c, "take")
  /\ tmp' = r /\ r' = None
  /\ asker' = IF question = Bye THEN "exited" ELSE "ask"
  /\ UNCHANGED <<vars, s, stopped, dbgsh_lock2, question>>

dbgsh_thread(c) ==
  /\ \/ \E q \in {In, Out, Bye} : ask(c, q)
     \/ test_r(c) \/ test_s(c) \/ stop(c) \/ yield(c) \/ take(c)
  /\ UNCHANGED <<started, program>>

-----------------------------------------------------------------------------
\* The processor is in the vmmcall: dbgsh_enabled is at l.
InCall(c) == caller \notin {"off", "guest"} /\ cpu = c
Calling(l) == caller = l /\ at(cpu) = "run"

\* What tools/dbgsh calls next with.  GETCHAR may find the end of the file, -1.
Next_b == CASE a = None -> {None}
            [] a = In   -> {Key, None}
            [] a \in {Out, Bye} -> {Ack}

\* main: the user starts the program.  It polls once before its loop.
main ==
  /\ caller = "off"
  /\ caller' = "guest"
  /\ UNCHANGED <<vars, shell, cpu, b, a>>

killed ==
  /\ caller = "guest"
  /\ caller' = "off" /\ a' = None
  /\ UNCHANGED <<vars, shell, cpu, b>>

\* The guest's scheduler has put the program on processor c.
vmcall_dbgsh(c) ==
  /\ caller = "guest"
  /\ at(c) = "run" /\ sp[c] = BootStack(c)
  /\ cpu' = c /\ b' \in Next_b
  /\ caller' = "create"
  /\ UNCHANGED <<vars, shell, a>>

\* A mistake the checks find: a poll answers too.
create_answers ==
  /\ Calling("create")
  /\ IF sleeper # NoTid
     THEN UNCHANGED vars
     ELSE \E st \in Heap : thread_new(cpu, st) /\ sleeper' # NoTid
  /\ caller' = "put_r"
  /\ UNCHANGED <<shell, cpu, b, a>>

create ==
  /\ Calling("create")
  /\ IF sleeper # NoTid
     THEN UNCHANGED vars
     ELSE \E st \in Heap : thread_new(cpu, st) /\ sleeper' # NoTid
  /\ caller' = IF b # None THEN "put_r" ELSE "return"
  /\ UNCHANGED <<shell, cpu, b, a>>

put_r ==
  /\ Calling("put_r")
  /\ r' = b
  /\ caller' = "put_s"
  /\ UNCHANGED <<vars, s, stopped, dbgsh_lock2, cpu, b, a>>

put_s ==
  /\ Calling("put_s")
  /\ s' = None
  /\ caller' = "lock"
  /\ UNCHANGED <<vars, r, stopped, dbgsh_lock2, cpu, b, a>>

lock_wake ==
  /\ Calling("lock") /\ dbgsh_lock2 = "free"
  /\ dbgsh_lock2' = "vmmcall"
  /\ caller' = IF stopped THEN "wake" ELSE "unlock"
  /\ UNCHANGED <<vars, s, r, stopped, cpu, b, a>>

\* thread_wakeup goes on with thread_wakeup_add if the thread had stopped.
wake ==
  /\ Calling("wake")
  /\ thread_wakeup(cpu)
  /\ caller' = "unlock"
  /\ UNCHANGED <<shell, cpu, b, a>>

wake_add ==
  /\ caller = "unlock"
  /\ thread_wakeup_add(cpu)
  /\ UNCHANGED <<shell, program>>

unlock ==
  /\ Calling("unlock")
  /\ dbgsh_lock2' = "free"
  /\ caller' = "return"
  /\ UNCHANGED <<vars, s, r, stopped, cpu, b, a>>

\* The program that has said goodbye exits.
return ==
  /\ Calling("return")
  /\ a' = IF a = Bye THEN None ELSE s
  /\ caller' = IF a = Bye THEN "off" ELSE "guest"
  /\ cpu' = 0 /\ b' = None
  /\ UNCHANGED <<vars, shell>>

dbgsh_enabled ==
  /\ \/ create \/ put_r \/ put_s \/ lock_wake \/ wake \/ wake_add
     \/ unlock \/ return
  /\ UNCHANGED <<started, thread>>

dbgsh(c) == vmcall_dbgsh(c) /\ UNCHANGED <<started, thread>>

-----------------------------------------------------------------------------
\* The main loops of the processors, and one worker, in td[NCpus], that may be
\* created before the shell and exits in the end.
main_loop(c) ==
  /\ ~InCall(c)
  /\ tid[c] = sleeper => at(c) \notin {"run", "exit"}
  /\ Schedule(c)
  /\ UNCHANGED <<started, shell, thread, program>>

worker(c) ==
  /\ ~InCall(c)
  /\ \/ /\ sleeper = NoTid /\ Head(td_free) = NCpus
        /\ \E st \in Heap : thread_new(c, st) /\ sleeper' = sleeper
     \/ thread_exit(c)
  /\ UNCHANGED <<started, shell, thread, program>>

DNext ==
  \/ (main \/ killed) /\ UNCHANGED <<started, thread>>
  \/ dbgsh_enabled
  \/ \E c \in started :
       dbgsh(c) \/ dbgsh_thread(c) \/ main_loop(c) \/ worker(c)

\* A vmmcall goes on, every processor calls schedule() again and again, and the
\* thread runs when it has a processor.  Nobody waits for a lock for ever on one
\* processor, the only case in which liveness is claimed.
DFairness ==
  /\ SF_dvars(dbgsh_enabled)
  /\ \A c \in Cpu : /\ SF_dvars(c \in started /\ main_loop(c))
                    /\ SF_dvars(c \in started /\ dbgsh_thread(c))

DSpec == DInit /\ [][DNext]_dvars /\ DFairness

-----------------------------------------------------------------------------
\* What is read is a key and what is written is acknowledged: dbgsh_send_to_guest
\* returns the answer to its own question, never an older one and never -1,
\* although the program may poll, be killed and be started again at any time.
AnsweredInTurn ==
  asker \in {"ask", "exited"} =>
    tmp = IF question = In THEN Key ELSE Ack

\* No question is forgotten: while the thread waits, its question stands until
\* an answer is in r.  Neither a poll nor the end of the vmmcall that answered
\* the question before (put_s) wipes it out, and the thread does not wait for ever.
QuestionStands ==
  asker \in {"test_r", "stop", "schedule"} /\ r = None /\ caller # "put_s" =>
    s = question

\* On one processor dbgsh_send_to_guest gets every answer the program gives: the
\* thread is woken if it has stopped.  (On two the wake-up can be lost: the
\* thread tests r, the vmmcall finds it running, the thread stops.)
AnswerTaken == started = {0} /\ r # None ~> r = None
=============================================================================
