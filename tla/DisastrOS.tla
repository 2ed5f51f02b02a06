----------------------------- MODULE DisastrOS -----------------------------
(***************************************************************************)
(* The process manager (Processes) and the message queues (Mailboxes) on   *)
(* one CPU.                                                                *)
(*                                                                         *)
(* Composing them adds what neither has alone: a send or a receive that    *)
(* blocks really puts its caller on the waiting and timer lists and stores *)
(* its result in the process that runs next; exit releases descriptors     *)
(* only when a parent waits; and the PCB of a process that had queues open *)
(* is handed to another.                                                   *)
(*                                                                         *)
(* The calls are those of a program of communicating processes: spawn,     *)
(* wait, exit and the five calls on queues, with the timer interrupt       *)
(* between any two.  The others add nothing to the composition: sleep is   *)
(* the parking of a blocked send, preempt a timer interrupt without a      *)
(* tick, and shutdown ends everything (module TestPrograms uses sleep and  *)
(* shutdown).  The discipline is that of the tests, the sleeper (pid 1)    *)
(* makes no call, and a process uses its own fds only: the rest is checked *)
(* in Processes and in Mailboxes.                                          *)
(***************************************************************************)
EXTENDS Processes

CONSTANTS
  MAX_NUM_RESOURCES, MAX_NUM_MESSAGES, MQ_MAX_MSG_SIZE, Ids, Msgs, Modes, MaxFd,
  MailLiberties,      \* the liberties of Mailboxes
  SLEEP               \* ticks a blocked send or receive sleeps (30 in the code)

VARIABLES
  syscall_arg1, resources_list, messages, num_msg, mq_allocator,
  resource_allocator, messages_allocator, desc, descriptors, last_fd

Mail == INSTANCE Mailboxes WITH
  Proc <- Pcb, MAX_NUM_DESCRIPTORS <- MAX_NUM_PROCESSES, Liberties <- MailLiberties

ASSUME DisastrOSAssumption ==
  /\ {MAX_NUM_RESOURCES, MAX_NUM_MESSAGES, MQ_MAX_MSG_SIZE, MaxFd} \subseteq Nat \ {0}
  /\ Modes \subseteq SUBSET {Mail!CREATE, Mail!EXCL, Mail!READ}
  /\ Mail!NoMsg \notin Msgs
  /\ MailLiberties \subseteq Mail!AllLiberties
  /\ SLEEP \in Nat

mail    == <<resources_list, messages, num_msg, mq_allocator, resource_allocator,
             messages_allocator, desc, descriptors, last_fd>>
sysVars == <<vars, syscall_arg1, mail>>

-----------------------------------------------------------------------------
(* The calls of Processes *)

\* A process that makes calls has the CPU.
Calling == InUserCode /\ pid[running] # 1

\* No descriptor is open in a new process.
spawn ==
  /\ Calling
  /\ internal_spawn
  /\ IF system' # "up" THEN UNCHANGED <<syscall_arg1, mail>>
     ELSE /\ Mail!SecondArg(Mail!NoMsg)
          /\ Mail!FreshPcb(Head(pcb_allocator))
          /\ UNCHANGED <<resources_list, messages, num_msg, mq_allocator,
                         resource_allocator, messages_allocator, desc>>

\* Mutation: nobody releases the descriptors of a process that exits.
ReleaseOnExit_Never(p) ==
  /\ UNCHANGED <<resources_list, desc>>
  /\ descriptors' = [descriptors EXCEPT ![p] = {}]
\* Mutation: `running` is already the parent when the loop starts.
ReleaseOnExit_OfParent(p) ==
  /\ Mail!ReleaseAll(parent[p])
  /\ descriptors' = [descriptors EXCEPT ![p] = {}]

\* The loop of internal_exit over running->descriptors.
ReleaseOnExit(p) ==
  /\ Mail!ReleaseAll(p)
  /\ descriptors' = [descriptors EXCEPT ![p] = {}]

\* The process that exits releases its descriptors only if its PCB is freed at
\* once; a zombie keeps them, and internal_wait frees its PCB without them.
exit ==
  /\ Calling
  /\ "unclosed" \in MailLiberties \/ descriptors[running] = {}
  /\ internal_exit
  /\ IF pcb_allocator' # pcb_allocator
     THEN /\ ReleaseOnExit(running)
          /\ UNCHANGED <<messages, num_msg, mq_allocator, resource_allocator,
                         messages_allocator, last_fd>>
     ELSE UNCHANGED mail
  /\ UNCHANGED syscall_arg1

wait(p) ==
  /\ Calling
  /\ internal_wait(p)
  /\ Mail!SecondArg(Mail!NoMsg)
  /\ UNCHANGED mail

sleep(cycles) ==
  /\ Calling
  /\ internal_sleep(cycles)
  /\ UNCHANGED <<syscall_arg1, mail>>

shutdown ==
  /\ Calling
  /\ internal_shutdown
  /\ UNCHANGED <<syscall_arg1, mail>>

timer == timerInterrupt /\ UNCHANGED <<syscall_arg1, mail>>

-----------------------------------------------------------------------------
(* The calls on queues *)

\* The fds the caller has open.
OwnFds == {desc[d].fd : d \in descriptors[running]}

\* Mutation: the blocked caller keeps the status it had.
ParkCaller_NoStatus ==
  /\ DispatchFirstReady
  /\ timer_list' = TimerList_add(timer_list, SLEEP, running)
  /\ waiting_list' = waiting_list \cup {running}
  /\ UNCHANGED <<status, zombie_list, family, allocators, system>>

\* "Preempt manually": the caller is parked as internal_sleep does it.
ParkCaller == ParkOnTimer(SLEEP)

\* A call that finds its queue full or empty.  `running` is the next process
\* when the result is stored; with nobody ready it is the null pointer.
Block(num, arg, code) ==
  /\ MayBlock
  /\ IF ready_list = <<>> THEN Crash /\ UNCHANGED syscall_arg1
     ELSE /\ ParkCaller
          /\ retvalue' = [retvalue EXCEPT ![running'] = code]
          /\ Called(num, 0)
          /\ Mail!SecondArg(arg)
  /\ UNCHANGED mail

\* The call returns to its caller.
Completes(num) ==
  /\ Called(num, 0)
  /\ UNCHANGED <<running, lists, status, family, allocators>>

mq_open(i, mode) ==
  /\ Calling
  /\ Mail!internal_mqOpen(i, Mail!DSOS_MQ, mode)
  /\ Completes("mq_open")

mq_close(fd) ==
  /\ Calling
  /\ Mail!internal_closeResource(fd)
  /\ Completes("mq_close")

mq_unlink(i) ==
  /\ Calling
  /\ Mail!internal_mqUnlink(i)
  /\ Completes("mq_unlink")

mq_send(fd, m) ==
  /\ Calling
  /\ \/ Mail!internal_mqSend(fd, m) /\ Completes("mq_send")
     \/ Mail!BlocksInSend(fd) /\ Block("mq_send", m, Mail!DSOS_MQ_FULL)

mq_receive(fd) ==
  /\ Calling
  /\ \/ Mail!internal_mqReceive(fd) /\ Completes("mq_receive")
     \/ Mail!BlocksInReceive(fd) /\ Block("mq_receive", Mail!NoMsg, Mail!DSOS_MQ_EMPTY)

-----------------------------------------------------------------------------
SysInit ==
  /\ Init
  /\ syscall_arg1 = [p \in Pcb |-> Mail!NoMsg]
  /\ resources_list = [b \in {} |-> <<>>]
  /\ messages = [b \in Mail!MqBlock |-> <<>>]
  /\ num_msg = [b \in Mail!MqBlock |-> 0]
  /\ mq_allocator = [i \in 1..MAX_NUM_RESOURCES |-> i]
  /\ resource_allocator = [i \in 1..MAX_NUM_RESOURCES |-> MAX_NUM_RESOURCES + i]
  /\ messages_allocator = MAX_NUM_MESSAGES
  /\ desc = [d \in {} |-> <<>>]
  /\ descriptors = [p \in Pcb |-> {}]
  /\ last_fd = [p \in Pcb |-> 0]

SysNext ==
  \/ spawn
  \/ exit
  \/ \E p \in Pid : wait(p)
  \/ timer
  \/ \E i \in Ids, mode \in Modes : mq_open(i, mode)
  \/ \E fd \in OwnFds : mq_close(fd)
  \/ \E i \in Ids : mq_unlink(i)
  \/ \E fd \in OwnFds, m \in Msgs : mq_send(fd, m)
  \/ \E fd \in OwnFds : mq_receive(fd)

SysSpec == SysInit /\ [][SysNext]_sysVars

-----------------------------------------------------------------------------
(* Properties.  Those of Processes are checked here too, with more actors. *)

\* No descriptor dangles when queues are opened, closed and unlinked by
\* processes that are preempted, block, exit and are replaced by others in the
\* same PCB.
OpenQueuesExist == Mail!DescriptorsAgree

\* A queue that blocks senders is full and one that blocks receivers is empty,
\* whoever ran in between: the counters are the lengths.
CountersAreLengths == Mail!CounterIsLength

\* internal_exit, "we release all resources of a process upon termination": when
\* a process hands the CPU to the parent that waits for it, no queue counts a
\* descriptor of that process among its users any more.
ExitReleasesAll ==
  [][\A b \in LivePcbs : running = b /\ b \in FreePcbs' =>
       \A d \in descriptors[b], q \in DOMAIN resources_list' :
         d \notin resources_list'[q].opened]_sysVars

=============================================================================
