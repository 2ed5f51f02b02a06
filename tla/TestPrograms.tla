---------------------------- MODULE TestPrograms ----------------------------
(***************************************************************************)
(* The two test programs of the repository, disastrOS_test_blocking.c and  *)
(* disastrOS_test.c, running on the whole system (module DisastrOS).       *)
(*                                                                         *)
(* DisastrOS lets every process make any call; here the processes execute  *)
(* their code.  A program is the sequence of calls its loops amount to, a  *)
(* process has a program counter, and what it does next depends on what    *)
(* its calls return.                                                       *)
(*                                                                         *)
(* A call takes two steps.  In the first, the trap, the handler runs with  *)
(* SIGALRM masked.  Then the caller is resumed in disastrOS_syscall, with  *)
(* SIGALRM enabled, and reads running->syscall_retvalue (disastrOS.c:101)  *)
(* in the second.  The timer may strike in between, and another process    *)
(* may run.                                                                *)
(***************************************************************************)
EXTENDS DisastrOS

CONSTANTS
  M_blocking,  \* messages sent in disastrOS_test_blocking (13, the capacity is 10)
  N, P, M,     \* queues, children and messages per queue in disastrOS_test (7, 5, 5)
  buf,         \* buf[i][j] is the text of message j of queue i
  naps         \* ticks of a child's sleep (4 in the code)

ASSUME TestsAssumption ==
  /\ {M_blocking, N, P, M} \subseteq Nat \ {0}
  /\ buf \in [Ids -> Seq(Msgs)]
  /\ M_blocking <= Len(buf[0])
  /\ \A i \in Ids : IsInjective(buf[i]) /\ M <= Len(buf[i])
  /\ 0..N - 1 \subseteq Ids
  /\ P + 2 <= N                     \* the children are 2..P + 1, each with a queue
  /\ naps \in SleepTimes
  /\ MaxPid <= MAX_NUM_PROCESSES   \* no PCB is used twice

VARIABLES
  test,        \* the program that was started, "blocking" or "stress"
  pc,          \* PCB -> the index of its next, or unfinished, call
  fd,          \* PCB -> its variable `fd`, Unset before mq_open returned
  in_call,     \* the PCBs that called and have not read the result
  answer,      \* PCB -> <<code>> when a handler answered its call, else <<>>
  read,        \* PCB -> the texts it found when a receive reported success
  failed       \* some call has reported an error to its caller

testVars == <<test, pc, fd, in_call, answer, read, failed>>
allVars  == <<sysVars, testVars>>

-----------------------------------------------------------------------------
(* The programs *)

Unset == -1
Own   == -2    \* the operand that stands for the variable `fd`

Spawn         == [op |-> "spawn"]
Open(i, mode) == [op |-> "mq_open", id |-> i, mode |-> mode]
Send(f, m)    == [op |-> "mq_send", fd |-> f, msg |-> m]
Receive       == [op |-> "mq_receive"]
Close(f)      == [op |-> "mq_close", fd |-> f]
Unlink(i)     == [op |-> "mq_unlink", id |-> i]
Wait          == [op |-> "wait"]
Nap           == [op |-> "sleep"]
Exit          == [op |-> "exit"]
Shutdown      == [op |-> "shutdown"]

Times(n, call_) == [k \in 1..n |-> call_]

\* initFunction of disastrOS_test_blocking.
InitOfBlocking ==
  <<Spawn, Open(0, {Mail!CREATE}), Spawn>>
    \o [j \in 1..M_blocking |-> Send(Own, buf[0][j])]
    \o <<Wait, Close(Own), Unlink(0), Shutdown>>

\* childFunctionRecv of disastrOS_test_blocking, in the process p.
ChildOfBlocking(p) ==
  <<Open(0, {})>> \o Times(M_blocking, Receive) \o <<Close(Own)>>
    \o Times(p + 1, Nap) \o <<Exit>>

\* initFunction of disastrOS_test.  It takes for granted that fd i is queue i.
InitOfStress ==
  LET Fill(i) == <<Open(i, {Mail!CREATE})>> \o [j \in 1..M |-> Send(i, buf[i][j])]
  IN  <<Spawn>> \o FlattenSeq([k \in 1..N |-> Fill(k - 1)])
        \o [k \in 1..N |-> Close(k - 1)]
        \o Times(P, Spawn) \o Times(P, Wait)
        \o [k \in 1..N |-> Unlink(k - 1)] \o <<Shutdown>>

\* childFunction of disastrOS_test, in the process p: its queue has its pid.
ChildOfStress(p) ==
  <<Open(p, {})>> \o Times(M, Receive) \o <<Close(Own)>>
    \o Times(p + 1, Nap) \o <<Exit>>

\* What the process p executes.  Pid 1 is the sleeper, which calls nothing.
Program ==
  [t \in {"blocking", "stress"} |->
    [p \in Pid |->
       CASE p = 0 -> IF t = "blocking" THEN InitOfBlocking ELSE InitOfStress
         [] p = 1 -> <<>>
         [] OTHER -> IF t = "blocking" THEN ChildOfBlocking(p) ELSE ChildOfStress(p)]]

-----------------------------------------------------------------------------
(* A call *)

Instr(b) == Program[test][pid[b]][pc[b]]

\* The fd in the call of b.
Operand(b) == IF Instr(b).fd = Own THEN fd[b] ELSE Instr(b).fd

\* The call of `running` that is next in its program.
Invoke ==
  LET in == Instr(running)
  IN  \/ in.op = "spawn" /\ spawn
      \/ in.op = "mq_open" /\ mq_open(in.id, in.mode)
      \/ in.op = "mq_send" /\ mq_send(Operand(running), in.msg)
      \/ in.op = "mq_receive" /\ mq_receive(fd[running])
      \/ in.op = "mq_close" /\ mq_close(Operand(running))
      \/ in.op = "mq_unlink" /\ mq_unlink(in.id)
      \/ in.op = "wait" /\ wait(0)
      \/ in.op = "sleep" /\ sleep(naps)
      \/ in.op = "exit" /\ exit
      \/ in.op = "shutdown" /\ shutdown

\* The handler stored the result of b's call in this step: b called and goes on,
\* or waited and is handed the CPU by a child that exits and is freed.
Answered(b) ==
  /\ b = running'
  /\ \/ b = running
     \/ pcb_allocator' # pcb_allocator

\* The first step of a call: the trap.
Trap ==
  /\ Calling
  /\ running \notin in_call
  /\ Invoke
  /\ in_call' = in_call \cup {running}
  /\ answer' = [b \in Pcb |->
       IF Answered(b) THEN <<retvalue'[b]>>
       ELSE IF b = running THEN <<>>
       ELSE answer[b]]
  /\ UNCHANGED <<test, pc, fd, read, failed>>

\* disastrOS_spawn and disastrOS_sleep return nothing.
IsVoid(in) == in.op \in {"spawn", "sleep"}

\* `while(alive_children>0 && disastrOS_wait(0, &retval)>=0)`: an error ends the
\* loop, whatever number of children is left.
NextInstr(b, ret) ==
  IF Instr(b).op = "wait" /\ ret < 0
  THEN CHOOSE k \in pc[b] + 1..Len(Program[test][pid[b]]) :
         /\ Program[test][pid[b]][k].op # "wait"
         /\ \A j \in pc[b]..k - 1 : Program[test][pid[b]][j].op = "wait"
  ELSE pc[b] + 1

\* The second step: disastrOS_syscall reads the result, and the program uses it.
Return ==
  LET in  == Instr(running)
      ret == retvalue[running]
  IN  /\ Calling
      /\ running \in in_call
      /\ in_call' = in_call \ {running}
      /\ pc' = [pc EXCEPT ![running] = NextInstr(running, ret)]
      /\ fd' = IF in.op = "mq_open" THEN [fd EXCEPT ![running] = ret] ELSE fd
      /\ read' = IF in.op = "mq_receive" /\ ret >= 0
                 THEN [read EXCEPT ![running] = Append(@, syscall_arg1[running])]
                 ELSE read
      /\ failed' = (failed \/ (~IsVoid(in) /\ ret < 0))
      /\ UNCHANGED <<sysVars, test, answer>>

Step(b) == running = b /\ (Trap \/ Return)

TestInit ==
  /\ SysInit
  /\ test \in {"blocking", "stress"}
  /\ pc = [b \in Pcb |-> 1]
  /\ fd = [b \in Pcb |-> Unset]
  /\ in_call = {}
  /\ answer = [b \in Pcb |-> <<>>]
  /\ read = [b \in Pcb |-> <<>>]
  /\ failed = FALSE

TestNext ==
  \/ \E b \in Pcb : Step(b)
  \/ timer /\ UNCHANGED testVars

\* setitimer raises SIGALRM for ever; and a process that gets the CPU again and
\* again gets on with its program, for a time slice is 100 ms and a step of a
\* program far less.
TestSpec ==
  /\ TestInit /\ [][TestNext]_allVars
  /\ WF_allVars(timer /\ UNCHANGED testVars)
  /\ \A b \in Pcb : SF_allVars(Step(b))

-----------------------------------------------------------------------------
(* Properties *)

\* Both programs come to their shutdown, in every interleaving with the timer:
\* no process is blocked for ever, faults, or finds a call it cannot make,
\* though results get lost on the way.
Terminates == <>(system = "down")

\* disastrOS_test.c, "EVERYTHING WORKS FINE": each child reads all the messages
\* of its queue in the order they were sent, and no call reports an error,
\* wherever init and the children preempt each other.
StressDeliversAll ==
  test = "stress" /\ system = "down" =>
    /\ ~failed
    /\ \A p \in 2..P + 1 : \E b \in Pcb : pid[b] = p /\ read[b] = SubSeq(buf[p], 1, M)

\* The queue the child b opens.
QueueId(b) == IF test = "blocking" THEN 0 ELSE pid[b]
Unread(i)  == IF \E q \in Mail!Queues : resources_list[q].id = i
              THEN messages[Mail!Block(i)] ELSE <<>>

\* The texts s are messages for the queue i in the order of the program that
\* sends them, none of them twice.
InOrder(i, s) ==
  \A j, k \in DOMAIN s :
    j < k /\ s[j] # Mail!NoMsg /\ s[k] # Mail!NoMsg =>
      \E m, n \in DOMAIN buf[i] : m < n /\ s[j] = buf[i][m] /\ s[k] = buf[i][n]

\* What a child has read, and then what is left in its queue, is in the order of
\* the program that sends, without a message twice: also when senders and
\* receivers block, give up, and leave gaps.
DeliveredInOrder ==
  \A b \in Pcb : pid[b] > 1 => InOrder(QueueId(b), read[b] \o Unread(QueueId(b)))

\* Only the code of a queue call that blocked ever replaces the result of another
\* process' call before that process has read it.
ForeignResultsAreErrors ==
  \A b \in in_call : answer[b] # <<>> =>
    retvalue[b] \in {answer[b][1], Mail!DSOS_MQ_FULL, Mail!DSOS_MQ_EMPTY}

\* A program whose calls report no error leaves nothing behind: no queue, no
\* descriptor, no message, and no process but init and the sleeper.
CleanEnd ==
  system = "down" /\ ~failed =>
    /\ resources_list = <<>> /\ desc = <<>>
    /\ messages_allocator = MAX_NUM_MESSAGES
    /\ \A b \in LivePcbs : pid[b] \in {0, 1}

=============================================================================
