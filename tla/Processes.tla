----------------------------- MODULE Processes -----------------------------
(***************************************************************************)
(* The process manager of disastrOS: PCB memory, the ready, waiting and    *)
(* zombie lists, the timer list, and the system calls spawn, fork, wait,   *)
(* exit, sleep, preempt and shutdown with the timer interrupt.             *)
(*                                                                         *)
(* One CPU: the process `running` executes user code; a system call masks  *)
(* SIGALRM (disastrOS.c:224) and so is one atomic step, and the timer      *)
(* interrupt may strike between any two of them.  A PCB is named by its    *)
(* address (a block of the PCB pool), because the code keeps addresses and *)
(* follows them after the block was freed and reused: the fields of a      *)
(* freed block keep their last contents, as the C memory does.             *)
(*                                                                         *)
(* Abstractions.  The waiting and zombie lists are sets, since the code    *)
(* only inserts in them and detaches a given item.  Awakening times are    *)
(* kept relative to disastrOS_time, since the code only compares the two.  *)
(* Exit values, the function a process runs, its stack, and the signal     *)
(* bits (set by exit, read by nobody) are left out: a process may make any *)
(* call at any time, and never returns from its function.                  *)
(***************************************************************************)
EXTENDS Integers, Sequences, SequencesExt

CONSTANTS
  MAX_NUM_PROCESSES,  \* blocks in the PCB pool and in the PCBPtr pool
  MaxPid,             \* bound: at most MaxPid processes are ever created
  SleepTimes,         \* bound: the arguments processes give to sleep
  Liberties           \* what processes do beyond the discipline of the tests

Null == 0             \* the null pointer
Pcb  == 1..MAX_NUM_PROCESSES
Pid  == 0..MaxPid

(***************************************************************************)
(* The programs of the repository follow a discipline that the system      *)
(* calls do not enforce.  Each element of Liberties drops one part of it:  *)
(*   "no_sleeper"  a process may block or exit when no other process is    *)
(*                 ready (the tests keep one that never does: the sleeper) *)
(*   "orphan"      a process may exit before it has waited for its children*)
(*   "stranger"    a process may wait for a pid that is not its child's    *)
(*   "init_exits"  init may call exit                                      *)
(*   "exhaust"     a process may spawn when a pool has no block left       *)
(*   "fork"        a process may call fork, which prepares no context      *)
(***************************************************************************)
AllLiberties ==
  {"no_sleeper", "orphan", "stranger", "init_exits", "exhaust", "fork"}

ASSUME ProcessesAssumption ==
  /\ MAX_NUM_PROCESSES \in Nat \ {0}
  /\ MaxPid \in Nat \ {0}
  /\ SleepTimes \subseteq Nat
  /\ Liberties \subseteq AllLiberties

DSOS_EWAIT == -5

VARIABLES
  running,            \* the PCB that has the CPU, Null when all are asleep
  ready_list,         \* sequence of PCBs
  waiting_list,       \* set of PCBs
  zombie_list,        \* set of PCBs
  timer_list,         \* sequence of [pcb, left], left = awakening_time - time
  pid, status, parent, children,        \* the fields of the PCB blocks
  syscall_num, syscall_arg, retvalue,   \* "none" before the first call
  init_pcb,           \* the process that inherits orphans
  last_pid,           \* the pid of the next process
  pcb_allocator,      \* free PCB blocks, the next one to be handed out first
  pcb_ptr_allocator,  \* number of free PCBPtr blocks
  contexts,           \* the PCB blocks whose cpu_state was ever written
  system              \* "up", "down" (shutdown), "hung" or "crashed"

lists      == <<ready_list, waiting_list, zombie_list, timer_list>>
family     == <<pid, parent, children, init_pcb>>
call       == <<syscall_num, syscall_arg>>
allocators == <<pcb_allocator, pcb_ptr_allocator, last_pid, contexts>>
vars == <<running, lists, status, family, call, retvalue, allocators, system>>

ProcessStatus == {"Created", "Running", "Ready", "Waiting", "Zombie"}
Syscall ==
  {"none", "preempt", "fork", "spawn", "wait", "exit", "sleep", "shutdown",
   "open", "destroy", "mq_open", "mq_close", "mq_unlink", "mq_send", "mq_receive"}

-----------------------------------------------------------------------------
(* Helpers *)

\* Mutation: the block keeps the status of its previous owner.
PCB_init_NoStatus(b, st, par) ==
  /\ pid' = [pid EXCEPT ![b] = last_pid]
  /\ parent' = [parent EXCEPT ![b] = par]
  /\ UNCHANGED status
\* Mutation: every process is a child of init.
PCB_init_InitIsParent(b, st, par) ==
  /\ pid' = [pid EXCEPT ![b] = last_pid]
  /\ status' = [status EXCEPT ![b] = st]
  /\ parent' = [parent EXCEPT ![b] = init_pcb]
\* Mutation: spawn does not set the parent pointer that PCB_alloc cleared.
PCB_init_NoParent(b, st, par) ==
  /\ pid' = [pid EXCEPT ![b] = last_pid]
  /\ status' = [status EXCEPT ![b] = st]
  /\ parent' = [parent EXCEPT ![b] = Null]

\* What PCB_alloc and its caller write in the new PCB; the syscall fields keep
\* what the block's previous owner left there.
PCB_init(b, st, par) ==
  /\ pid' = [pid EXCEPT ![b] = last_pid]
  /\ status' = [status EXCEPT ![b] = st]
  /\ parent' = [parent EXCEPT ![b] = par]

\* PCB_alloc takes the first free block.
PCB_alloc(st, par) ==
  /\ PCB_init(Head(pcb_allocator), st, par)
  /\ pcb_allocator' = Tail(pcb_allocator)
  /\ last_pid' = last_pid + 1

\* Mutation: the new item goes last.
TimerList_add_AtEnd(timers, left, b) == Append(timers, [pcb |-> b, left |-> left])
\* Mutation: two processes cannot wake at the same time.
TimerList_add_OnePerTime(timers, left, b) ==
  LET item  == [pcb |-> b, left |-> left]
      later == SelectInSeq(timers, LAMBDA t : left <= t.left)
  IN  CASE later = 0 -> Append(timers, item)
        [] later > 0 /\ timers[later].left = left -> timers
        [] OTHER -> InsertAt(timers, later, item)

\* TimerList_add: the new item goes after every item that is not later.
TimerList_add(timers, left, b) ==
  LET item  == [pcb |-> b, left |-> left]
      later == SelectInSeq(timers, LAMBDA t : left < t.left)
  IN  IF later = 0 THEN Append(timers, item) ELSE InsertAt(timers, later, item)

\* How many timers the loop of internal_schedule removes: it looks at the
\* first item only and stops at one that has not elapsed.
ElapsedTimers(timers) ==
  LET pending == SelectInSeq(timers, LAMBDA t : t.left > 0)
  IN  IF pending = 0 THEN Len(timers) ELSE pending - 1

\* The child at which the loop of internal_wait stops.  When no child
\* satisfies the condition, the loop ends with the last one it looked at.
AwaitedChild(kids, p) ==
  LET Matches(c) == IF p = 0 THEN status[c] = "Zombie" ELSE pid[c] = p
      i == SelectInSeq(kids, Matches)
  IN  IF i = 0 THEN Last(kids) ELSE kids[i]

\* Mutation: the argument is taken from the slot of the last result.
Called_ArgIsResult(num, arg) ==
  /\ syscall_num' = [syscall_num EXCEPT ![running] = num]
  /\ syscall_arg' = [syscall_arg EXCEPT ![running] = retvalue[running]]

\* disastrOS_syscall: the caller leaves number and argument in its own PCB.
Called(num, arg) ==
  /\ syscall_num' = [syscall_num EXCEPT ![running] = num]
  /\ syscall_arg' = [syscall_arg EXCEPT ![running] = arg]

\* Mutation: a process that exits keeps its children.
ChildrenAfterExit_Kept(b, p) == children[b]

\* The children list of b once p has exited: init inherits those of p, whose
\* parent pointers stay as they are.
ChildrenAfterExit(b, p) ==
  IF b = p THEN <<>>
  ELSE IF b = init_pcb THEN children[b] \o children[p]
  ELSE children[b]

\* Mutation: wait for any child is not recognised.
ParentAwaits_NoWildcard(p) ==
  /\ status[parent[p]] = "Waiting"
  /\ syscall_num[parent[p]] = "wait"
  /\ syscall_arg[parent[p]] = pid[p]
\* Mutation: any child ends any wait.
ParentAwaits_AnyChild(p) ==
  /\ status[parent[p]] = "Waiting"
  /\ syscall_num[parent[p]] = "wait"
\* Mutation: a parent blocked in any call is taken to wait.
ParentAwaits_InAnyCall(p) ==
  /\ status[parent[p]] = "Waiting"
  /\ syscall_arg[parent[p]] \in {0, pid[p]}

\* exit finds the process its parent pointer names blocked in a wait for it.
ParentAwaits(p) ==
  /\ status[parent[p]] = "Waiting"
  /\ syscall_num[parent[p]] = "wait"
  /\ syscall_arg[parent[p]] \in {0, pid[p]}

\* Mutation: the pid is not put in the return value.
Report_NotStored(p, child) == UNCHANGED retvalue

\* The process p, which waited, gets the pid of its child.
Report(p, child) == retvalue' = [retvalue EXCEPT ![p] = pid[child]]

\* PCB_free: the block is the next to be handed out.
PCB_free(b) == pcb_allocator' = <<b>> \o pcb_allocator

\* Mutation: the process is not detached from the ready list.
DispatchFirstReady_NotDetached ==
  /\ running' = Head(ready_list)
  /\ UNCHANGED ready_list

\* The first ready process is detached and gets the CPU.
DispatchFirstReady ==
  /\ running' = Head(ready_list)
  /\ ready_list' = Tail(ready_list)

\* Mutation: the preempted process goes in front of the others.
ReadyAfterPreemption_AtFront(ready) == <<running>> \o Tail(ready)

\* The ready list once its head has the CPU.
ReadyAfterPreemption(ready) == Append(Tail(ready), running)

-----------------------------------------------------------------------------
(* The discipline of the processes *)

\* The CPU runs the code of a process.
InUserCode == system = "up" /\ running \in contexts

\* The caller is not the sleeper (pid 1, the first process init spawns), and
\* the sleeper exists.
MayBlock == "no_sleeper" \in Liberties \/ (last_pid > 1 /\ pid[running] # 1)

MaySpawn == "exhaust" \in Liberties \/ (pcb_allocator # <<>> /\ pcb_ptr_allocator > 0)

MayExit ==
  /\ MayBlock
  /\ "init_exits" \in Liberties \/ running # init_pcb
  /\ "orphan" \in Liberties \/ running = init_pcb \/ children[running] = <<>>

MayWaitFor(p) ==
  \/ p = 0
  \/ "stranger" \in Liberties
  \/ \E c \in Range(children[running]) : pid[c] = p

-----------------------------------------------------------------------------
(* A null or dangling pointer is followed: the host process is killed; or a
   loop in the kernel never ends. *)
Stop(how) ==
  /\ system' = how
  /\ UNCHANGED <<running, lists, status, family, call, retvalue, allocators>>

Crash == Stop("crashed")

\* A new process, ready and last in its parent's list.  Neither PCB_alloc nor
\* PCBPtr_alloc checks the block it got.
NewProcess(num, withContext) ==
  /\ InUserCode
  /\ MaySpawn
  /\ last_pid < MaxPid
  /\ IF pcb_allocator = <<>> \/ pcb_ptr_allocator = 0
     THEN Crash
     ELSE LET new_pcb == Head(pcb_allocator)
          IN  /\ PCB_alloc("Ready", running)
              /\ children' = [children EXCEPT ![new_pcb] = <<>>,
                                              ![running] = Append(@, new_pcb)]
              /\ pcb_ptr_allocator' = pcb_ptr_allocator - 1
              /\ ready_list' = Append(ready_list, new_pcb)
              /\ retvalue' = [retvalue EXCEPT ![running] = last_pid]
              /\ contexts' = IF withContext THEN contexts \cup {new_pcb} ELSE contexts
              /\ Called(num, 0)
              /\ UNCHANGED <<running, waiting_list, zombie_list, timer_list,
                             init_pcb, system>>

internal_spawn == NewProcess("spawn", TRUE)

\* internal_fork is internal_spawn without getcontext and makecontext: the child
\* resumes whatever the last owner of its block left there.
internal_fork ==
  /\ "fork" \in Liberties
  /\ NewProcess("fork", FALSE)

\* setcontext to a cpu_state of zeros: its pointers are null.
ResumeWithoutContext ==
  /\ system = "up"
  /\ running \in Pcb \ contexts
  /\ Crash

\* internal_exit, the branch in which the parent is blocked in a wait for this
\* process: the parent gets the CPU at once and this PCB is freed.  The PCBPtr
\* taken off the parent's list is not.
ExitToWaitingParent(p) ==
  LET waiter == parent[p]
  IN  IF ~Contains(ChildrenAfterExit(waiter, p), p)
      THEN Crash
      ELSE /\ children' = [b \in Pcb |->
                             IF b = waiter THEN RemoveFirst(ChildrenAfterExit(b, p), p)
                             ELSE ChildrenAfterExit(b, p)]
           /\ status' = [status EXCEPT ![p] = "Zombie", ![waiter] = "Running"]
           /\ running' = waiter
           /\ waiting_list' = waiting_list \ {waiter}
           /\ Called("exit", 0)
           /\ Report(waiter, p)
           /\ PCB_free(p)
           /\ UNCHANGED <<ready_list, zombie_list, timer_list, pid, parent,
                          init_pcb, pcb_ptr_allocator, last_pid, contexts, system>>

\* internal_exit, the other branch: a zombie, and the first ready process runs.
ExitAsZombie(p) ==
  IF ready_list = <<>>
  THEN Crash
  ELSE /\ children' = [b \in Pcb |-> ChildrenAfterExit(b, p)]
       /\ status' = [status EXCEPT ![p] = "Zombie", ![Head(ready_list)] = "Running"]
       /\ zombie_list' = zombie_list \cup {p}
       /\ DispatchFirstReady
       /\ Called("exit", 0)
       /\ UNCHANGED <<waiting_list, timer_list, pid, parent, init_pcb, retvalue,
                      allocators, system>>

\* internal_exit.  Init would move its own children to itself for ever, and a
\* process without parent dereferences its null parent pointer.
internal_exit ==
  /\ InUserCode
  /\ MayExit
  /\ IF running = init_pcb /\ children[running] # <<>> THEN Stop("hung")
     ELSE IF parent[running] = Null THEN Crash
     ELSE IF ParentAwaits(running) THEN ExitToWaitingParent(running)
     ELSE ExitAsZombie(running)

\* Mutation: the PCBPtr is not freed.
Reap_PointerKept(child) ==
  /\ children' = [children EXCEPT ![running] = RemoveFirst(@, child)]
  /\ zombie_list' = zombie_list \ {child}
  /\ Report(running, child)
  /\ PCB_free(child)
  /\ UNCHANGED <<running, ready_list, waiting_list, timer_list, status, pid, parent,
                 init_pcb, pcb_ptr_allocator, last_pid, contexts, system>>

\* internal_wait finds a zombie: it frees the PCB and the PCBPtr.
Reap(child) ==
  /\ children' = [children EXCEPT ![running] = RemoveFirst(@, child)]
  /\ zombie_list' = zombie_list \ {child}
  /\ Report(running, child)
  /\ PCB_free(child)
  /\ pcb_ptr_allocator' = pcb_ptr_allocator + 1
  /\ UNCHANGED <<running, ready_list, waiting_list, timer_list, status, pid,
                 parent, init_pcb, last_pid, contexts, system>>

\* internal_wait, "all fine, but the process is not a zombie need to sleep".
\* The next process is not given the status "Running".
BlockInWait ==
  /\ status' = [status EXCEPT ![running] = "Waiting"]
  /\ waiting_list' = waiting_list \cup {running}
  /\ DispatchFirstReady
  /\ UNCHANGED <<zombie_list, timer_list, family, retvalue, allocators, system>>

internal_wait(p) ==
  LET kids  == children[running]
      child == AwaitedChild(kids, p)
  IN  /\ InUserCode
      /\ MayWaitFor(p)
      /\ IF kids = <<>>
         THEN /\ retvalue' = [retvalue EXCEPT ![running] = DSOS_EWAIT]
              /\ Called("wait", p)
              /\ UNCHANGED <<running, lists, status, family, allocators, system>>
         ELSE IF status[child] = "Zombie" THEN Reap(child) /\ Called("wait", p)
         ELSE /\ MayBlock
              /\ IF ready_list = <<>> THEN Crash
                 ELSE BlockInWait /\ Called("wait", p)

\* internal_sleep and the blocking part of the message queue calls: the caller
\* waits for a timer and the first ready process, if any, gets the CPU.
ParkOnTimer(cycles) ==
  /\ timer_list' = TimerList_add(timer_list, cycles, running)
  /\ status' = [status EXCEPT ![running] = "Waiting"]
  /\ waiting_list' = waiting_list \cup {running}
  /\ IF ready_list = <<>>
     THEN running' = Null /\ UNCHANGED ready_list
     ELSE DispatchFirstReady
  /\ UNCHANGED <<zombie_list, family, allocators, system>>

\* Mutation: the result is stored through `running`, the next process by then.
internal_sleep_ReturnsZero(cycles) ==
  /\ InUserCode
  /\ MayBlock
  /\ ParkOnTimer(cycles)
  /\ Called("sleep", 0)
  /\ retvalue' = [b \in Pcb |-> IF b = running' THEN 0 ELSE retvalue[b]]

internal_sleep(cycles) ==
  /\ InUserCode
  /\ MayBlock
  /\ ParkOnTimer(cycles)
  /\ Called("sleep", 0)
  /\ UNCHANGED retvalue

\* internal_schedule: the processes whose timers elapsed go in front of the
\* ready list, in timer order, and the first ready process is run; the one
\* that was running goes to the end.
internal_schedule(timers) ==
  LET n     == ElapsedTimers(timers)
      woken == [i \in 1..n |-> timers[i].pcb]
      ready == woken \o ready_list
  IN  /\ timer_list' = SubSeq(timers, n + 1, Len(timers))
      /\ waiting_list' = waiting_list \ Range(woken)
      /\ IF ready = <<>>
         THEN UNCHANGED <<running, ready_list, status>>
         ELSE /\ running' = Head(ready)
              /\ ready_list' = ReadyAfterPreemption(ready)
              /\ status' = [b \in Pcb |->
                              IF b = Head(ready) THEN "Running"
                              ELSE IF b \in Range(woken) \cup {running} THEN "Ready"
                              ELSE status[b]]
      /\ UNCHANGED <<zombie_list, family, retvalue, allocators, system>>

internal_preempt ==
  /\ InUserCode
  /\ internal_schedule(timer_list)
  /\ Called("preempt", 0)

\* timerInterrupt: ++disastrOS_time, so every timer is one tick nearer.  When
\* nothing runs the signal handler dereferences the null `running`.
timerInterrupt ==
  /\ system = "up"
  /\ running \in contexts \cup {Null}
  /\ IF running = Null
     THEN Crash
     ELSE /\ internal_schedule([i \in DOMAIN timer_list |->
                                 [timer_list[i] EXCEPT !.left = @ - 1]])
          /\ UNCHANGED call

internal_shutdown ==
  /\ InUserCode
  /\ Called("shutdown", 0)
  /\ system' = "down"
  /\ UNCHANGED <<running, lists, status, family, retvalue, allocators>>

\* disastrOS_trap returns with no process to run: control goes to main_context
\* and the tail of disastrOS_start starts a second init.
RestartFromMain ==
  /\ system = "up"
  /\ running = Null
  /\ last_pid < MaxPid
  /\ IF pcb_allocator = <<>>
     THEN Crash
     ELSE LET new_pcb == Head(pcb_allocator)
          IN  /\ PCB_alloc("Running", Null)
              /\ children' = [children EXCEPT ![new_pcb] = <<>>]
              /\ running' = new_pcb
              /\ init_pcb' = new_pcb
              /\ contexts' = contexts \cup {new_pcb}
              /\ UNCHANGED <<lists, call, retvalue, pcb_ptr_allocator, system>>

-----------------------------------------------------------------------------
\* disastrOS_start: all lists empty, and the first block of the pool is init.
\* The pool is static memory, and the ProcessStatus with value 0 is Created.
Init ==
  /\ running = 1
  /\ init_pcb = 1
  /\ ready_list = <<>>
  /\ waiting_list = {}
  /\ zombie_list = {}
  /\ timer_list = <<>>
  /\ pid = [b \in Pcb |-> 0]
  /\ status = [b \in Pcb |-> IF b = 1 THEN "Running" ELSE "Created"]
  /\ parent = [b \in Pcb |-> Null]
  /\ children = [b \in Pcb |-> <<>>]
  /\ syscall_num = [b \in Pcb |-> "none"]
  /\ syscall_arg = [b \in Pcb |-> 0]
  /\ retvalue = [b \in Pcb |-> 0]
  /\ last_pid = 1
  /\ pcb_allocator = [i \in 1..MAX_NUM_PROCESSES - 1 |-> i + 1]
  /\ pcb_ptr_allocator = MAX_NUM_PROCESSES
  /\ contexts = {1}
  /\ system = "up"

Next ==
  \/ internal_spawn
  \/ internal_fork
  \/ ResumeWithoutContext
  \/ internal_exit
  \/ \E p \in Pid : internal_wait(p)
  \/ \E cycles \in SleepTimes : internal_sleep(cycles)
  \/ internal_preempt
  \/ internal_shutdown
  \/ timerInterrupt
  \/ RestartFromMain

Spec == Init /\ [][Next]_vars

\* setitimer raises SIGALRM for ever and user code never masks it.
FairSpec == Spec /\ WF_vars(timerInterrupt)

-----------------------------------------------------------------------------
(* Properties *)

FreePcbs == Range(pcb_allocator)
LivePcbs == Pcb \ FreePcbs
Sleepers == {timer_list[i].pcb : i \in DOMAIN timer_list}

\* Every variable has its type: the lists hold PCBs, never a null pointer.
TypeOK ==
  /\ running \in Pcb \cup {Null}
  /\ ready_list \in Seq(Pcb)
  /\ waiting_list \subseteq Pcb
  /\ zombie_list \subseteq Pcb
  /\ timer_list \in Seq([pcb: Pcb, left: Int])
  /\ pid \in [Pcb -> Pid]
  /\ status \in [Pcb -> ProcessStatus]
  /\ parent \in [Pcb -> Pcb \cup {Null}]
  /\ children \in [Pcb -> Seq(Pcb)]
  /\ syscall_num \in [Pcb -> Syscall]
  /\ syscall_arg \in [Pcb -> Pid]
  /\ retvalue \in [Pcb -> Pid \cup {DSOS_EWAIT}]
  /\ init_pcb \in Pcb
  /\ last_pid \in Pid
  /\ pcb_allocator \in Seq(Pcb)
  /\ pcb_ptr_allocator \in Nat
  /\ contexts \subseteq Pcb
  /\ system \in {"up", "down", "hung", "crashed"}

\* A PCB block is in exactly one place, once: it runs, is in one of the three
\* lists, or is in the pool.  The lists are intrusive (list.next and list.prev
\* live in the PCB), so a PCB in two of them would splice them together.
EachProcessInOnePlace ==
  /\ IsInjective(ready_list) /\ IsInjective(pcb_allocator)
  /\ running \notin Range(ready_list) \cup waiting_list \cup zombie_list \cup FreePcbs
  /\ Range(ready_list) \cap (waiting_list \cup zombie_list \cup FreePcbs) = {}
  /\ waiting_list \cap (zombie_list \cup FreePcbs) = {}
  /\ zombie_list \cap FreePcbs = {}
  /\ LivePcbs \ {running} \subseteq Range(ready_list) \cup waiting_list \cup zombie_list

\* The status in a PCB tells which list it is in: internal_wait and
\* internal_exit decide by the status and then detach from the list it implies.
\* (The running process may still be "Ready": see DispatchFirstReady.)
StatusMatchesPlace ==
  /\ \A b \in Range(ready_list) : status[b] = "Ready"
  /\ \A b \in waiting_list : status[b] = "Waiting"
  /\ \A b \in zombie_list : status[b] = "Zombie"
  /\ running # Null => status[running] \in {"Running", "Ready"}

\* The timer list holds one item for every blocked process but those in wait, who
\* have none, earliest first: internal_schedule looks at its first item only,
\* and detaches the process it names from the waiting list without a check.
TimersMatchSleepers ==
  /\ IsInjective([i \in DOMAIN timer_list |-> timer_list[i].pcb])
  /\ Sleepers = {b \in waiting_list : syscall_num[b] # "wait"}
  /\ \A i, j \in DOMAIN timer_list : i < j => timer_list[i].left <= timer_list[j].left
  /\ \A i \in DOMAIN timer_list : timer_list[i].left >= 0

\* Every process but an init is in one children list, once, and that list
\* belongs to a process that is not a zombie: somebody can still wait for it,
\* and nobody can reap (free) it twice.
OneGuardianEach ==
  /\ \A b \in Pcb : IsInjective(children[b]) /\ Range(children[b]) \subseteq LivePcbs
  /\ \A b, c \in Pcb : b # c => Range(children[b]) \cap Range(children[c]) = {}
  /\ \A b \in LivePcbs : parent[b] # Null =>
       \E guardian \in LivePcbs \ zombie_list : Contains(children[guardian], b)

\* What internal_exit assumes of `running->parent`: the parent is alive and has
\* this process in its children list.
ParentPointersLive ==
  \A b \in LivePcbs \ {init_pcb} :
    /\ parent[b] \in LivePcbs \ zombie_list
    /\ Contains(children[parent[b]], b)

\* No system call and no interrupt follows a null or dangling pointer, fails an
\* assertion or loops for ever.
NeverFaults == system \in {"up", "down"}

BlockedInWait(w) == w \in waiting_list /\ syscall_num[w] = "wait"
AwaitedBy(w) ==
  {c \in Range(children[w]) : syscall_arg[w] \in {0, pid[c]}}

\* A process blocked in wait has something to wait for that has not happened:
\* a child it asked for is alive, none of those is a zombie, and each of them
\* will look for this process when it exits.
NoLostWakeup ==
  system = "up" => \A w \in waiting_list : BlockedInWait(w) =>
    /\ AwaitedBy(w) # {}
    /\ \A c \in AwaitedBy(w) : c \notin zombie_list /\ parent[c] = w

\* wait(pid) returns the pid it was asked for, or the error.
WaitReturnsAskedChild ==
  \A b \in LivePcbs :
    syscall_num[b] = "wait" /\ b \notin waiting_list /\ syscall_arg[b] > 0
      => retvalue[b] \in {syscall_arg[b], DSOS_EWAIT}

\* A PCB goes back to the pool only when its parent has been told its pid, in a
\* wait, and has the CPU to read it.
FreedIsReported ==
  \A b \in LivePcbs : b \in FreePcbs' =>
    /\ parent[b] = running'
    /\ Contains(children[parent[b]], b)
    /\ syscall_num'[running'] = "wait"
    /\ retvalue'[running'] = pid[b]
ReapedIsReported == [][FreedIsReported]_vars

\* The PCBPtr blocks that are free or an item of a children list.
ChildItems == UNION {{b} \X DOMAIN children[b] : b \in Pcb}
PtrStock   == pcb_ptr_allocator + Cardinality(ChildItems)

\* Each child costs its parent one PCBPtr, wherever the children lists are moved
\* to, and the pool gets it back; all but that of a process that exits while its
\* parent waits for it (disastrOS_exit.c:52 detaches it and frees only the PCB).
OnlyAwaitedExitLosesPointer ==
  [][\/ PtrStock' = PtrStock
     \/ /\ PtrStock' = PtrStock - 1
        /\ running \in FreePcbs' /\ running' = parent[running]]_vars

\* Round robin: a ready process gets the CPU in the end, whatever the others
\* do, although awakened processes are put in front of it.
ReadyRuns == \A b \in Pcb :
  (b \in Range(ready_list)) ~> (running = b \/ system # "up")

\* A process that sleeps is awakened and runs, however many others sleep till
\* the same tick.
SleeperWakes == \A b \in Pcb :
  (b \in waiting_list /\ syscall_num[b] # "wait") ~> (running = b \/ system # "up")

=============================================================================
