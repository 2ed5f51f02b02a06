--------------------------- MODULE ProcessesProofs ---------------------------
(***************************************************************************)
(* The types of the process manager, and its main safety theorems: every   *)
(* PCB block is in exactly one place, and its status says which, for every *)
(* size of the pools, every bound and whatever the processes do.           *)
(*                                                                         *)
(* The placement is not inductive.  internal_exit takes a parent off the   *)
(* waiting list because of its status, so a free block must never look     *)
(* like a waiting one; internal_wait frees the zombie it finds among the   *)
(* children of the caller, so children must be allocated and be in one     *)
(* children list only; internal_schedule takes whoever a timer names off   *)
(* the waiting list, so timers must name blocked processes, once each, and *)
(* none that internal_exit could wake.  Inv says all this.                 *)
(*                                                                         *)
(* The last part is the other half of the timers: whoever is blocked in    *)
(* anything but a wait has one, and none that has elapsed stays behind.    *)
(***************************************************************************)
EXTENDS Processes, SequenceLemmas

Item   == [pcb: Pcb, left: Int]
Timers == Seq(Item)

\* TypeOK, but for the results of the calls: with the calls on queues there are
\* others than pids and DSOS_EWAIT, and nothing below looks at them.
StateTyped ==
  /\ running \in Pcb \cup {Null}
  /\ ready_list \in Seq(Pcb)
  /\ waiting_list \subseteq Pcb
  /\ zombie_list \subseteq Pcb
  /\ timer_list \in Seq([pcb: Pcb, left: Int])
  /\ pid \in [Pcb -> Pid]
  /\ status \in [Pcb -> ProcessStatus]
  /\ parent \in [Pcb -> Pcb \cup {Null}]
  /\ children \in [Pcb -> Seq(Pcb)]
  /\ syscall_num \in [Pcb -> Syscall]
  /\ syscall_arg \in [Pcb -> Pid]
  /\ retvalue \in [Pcb -> Int]
  /\ init_pcb \in Pcb
  /\ last_pid \in Pid
  /\ pcb_allocator \in Seq(Pcb)
  /\ pcb_ptr_allocator \in Nat
  /\ contexts \subseteq Pcb
  /\ system \in {"up", "down", "hung", "crashed"}

-----------------------------------------------------------------------------
(* Types of the helpers *)

\* The sorted insertion of a timer yields a timer list.
LEMMA TimerList_addType ==
  ASSUME NEW timers \in Timers, NEW left \in Int, NEW b \in Pcb
  PROVE  TimerList_add(timers, left, b) \in Timers
<1> DEFINE item  == [pcb |-> b, left |-> left]
           I     == {i \in 1..Len(timers) : left < timers[i].left}
           later == IF I # {} THEN Min(I) ELSE 0
<1>1. item \in Item /\ Len(timers) \in Nat
  BY LenProperties DEF Timers, Item
<1>2. TimerList_add(timers, left, b) =
        IF later = 0 THEN Append(timers, item) ELSE InsertAt(timers, later, item)
  BY DEF TimerList_add, SelectInSeq
<1>3. later \in 0..Len(timers)
  <2>1. I \subseteq 1..Len(timers)
    OBVIOUS
  <2> HIDE DEF I
  <2> QED
    BY <1>1, <2>1, FirstIndex
<1> HIDE DEF item, later
<1>4. CASE later = 0
  BY <1>1, <1>2, <1>4, AppendProperties DEF Timers
<1>5. CASE later \in 1..Len(timers)
  <2>1. /\ SubSeq(timers, 1, later - 1) \in Timers
        /\ SubSeq(timers, later, Len(timers)) \in Timers
    BY <1>1, <1>5, SubSeqElements DEF Timers
  <2>2. <<item>> \in Timers
    BY <1>1 DEF Timers
  <2>3. InsertAt(timers, later, item) \in Timers
    BY <2>1, <2>2, ConcatProperties DEF InsertAt, Timers
  <2> QED
    BY <1>2, <1>5, <2>3
<1> QED
  BY <1>1, <1>3, <1>4, <1>5

\* The number of elapsed timers does not exceed the number of timers.
LEMMA ElapsedTimersRange ==
  ASSUME NEW timers \in Timers
  PROVE  ElapsedTimers(timers) \in 0..Len(timers)
<1> DEFINE I == {i \in 1..Len(timers) : timers[i].left > 0}
           pending == IF I # {} THEN Min(I) ELSE 0
<1>1. Len(timers) \in Nat
  BY LenProperties DEF Timers
<1>2. ElapsedTimers(timers) = IF pending = 0 THEN Len(timers) ELSE pending - 1
  BY DEF ElapsedTimers, SelectInSeq
<1>3. I \subseteq 1..Len(timers)
  OBVIOUS
<1> HIDE DEF I
<1>4. pending \in 0..Len(timers)
  BY <1>1, <1>3, FirstIndex
<1> QED
  BY <1>1, <1>2, <1>4

\* The scan of internal_wait ends on a child of the caller.
LEMMA AwaitedChildIsChild ==
  ASSUME NEW kids \in Seq(Pcb), kids # <<>>, NEW p
  PROVE  AwaitedChild(kids, p) \in Range(kids)
<1> DEFINE Matches(c) == IF p = 0 THEN status[c] = "Zombie" ELSE pid[c] = p
           I == {i \in 1..Len(kids) : Matches(kids[i])}
           i == IF I # {} THEN Min(I) ELSE 0
<1>1. Len(kids) \in Nat \ {0} /\ DOMAIN kids = 1..Len(kids)
  BY LenProperties, EmptySeq
<1>2. AwaitedChild(kids, p) = IF i = 0 THEN kids[Len(kids)] ELSE kids[i]
  BY DEF AwaitedChild, SelectInSeq, Last
<1>3. I \subseteq 1..Len(kids)
  OBVIOUS
<1> HIDE DEF I
<1>4. i \in 0..Len(kids)
  BY <1>1, <1>3, FirstIndex
<1> HIDE DEF i
<1> QED
  BY <1>1, <1>2, <1>4 DEF Range

\* Handing the children of a process to init yields lists of PCBs.
LEMMA ChildrenAfterExitType ==
  ASSUME StateTyped, NEW b \in Pcb, NEW p \in Pcb
  PROVE  ChildrenAfterExit(b, p) \in Seq(Pcb)
BY ConcatProperties DEF StateTyped, ChildrenAfterExit

\* What internal_schedule does with the timers, in terms of the processes it
\* wakes up: used for the type and for the placement invariant.
LEMMA WokenType ==
  ASSUME NEW timers \in Timers, NEW n, n = ElapsedTimers(timers)
  PROVE  /\ n \in 0..Len(timers) /\ Len(timers) \in Nat
         /\ \A i \in 1..Len(timers) : timers[i].pcb \in Pcb
         /\ [i \in 1..n |-> timers[i].pcb] \in Seq(Pcb)
         /\ SubSeq(timers, n + 1, Len(timers)) \in Timers
<1>1. n \in 0..Len(timers) /\ Len(timers) \in Nat
  BY ElapsedTimersRange, LenProperties DEF Timers
<1>2. \A i \in 1..Len(timers) : timers[i] \in Item
  BY ElementOfSeq DEF Timers
<1>3. \A i \in 1..Len(timers) : timers[i].pcb \in Pcb
  BY <1>2 DEF Item
<1>4. SubSeq(timers, n + 1, Len(timers)) \in Timers
  BY <1>1, SubSeqElements DEF Timers
<1> QED
  BY <1>1, <1>3, <1>4

\* A scheduling pass keeps the types.
LEMMA ScheduleType ==
  ASSUME StateTyped, running # Null, NEW timers \in Timers, internal_schedule(timers),
         syscall_num' \in [Pcb -> Syscall], syscall_arg' \in [Pcb -> Pid]
  PROVE  StateTyped'
<1> DEFINE n     == ElapsedTimers(timers)
           woken == [i \in 1..n |-> timers[i].pcb]
           ready == woken \o ready_list
<1>1. woken \in Seq(Pcb) /\ SubSeq(timers, n + 1, Len(timers)) \in Timers
  BY WokenType
<1>2. ready_list \in Seq(Pcb) /\ running \in Pcb
  BY DEF StateTyped
<1>3. timer_list' \in Timers /\ waiting_list' \subseteq waiting_list
  BY <1>1 DEF internal_schedule
<1>4. UNCHANGED <<zombie_list, family, retvalue, allocators, system>>
  BY DEF internal_schedule
<1> HIDE DEF woken
<1>5. ready \in Seq(Pcb)
  BY <1>1, <1>2, ConcatProperties
<1>6. CASE ready = <<>>
  <2>1. UNCHANGED <<running, ready_list, status>>
    BY <1>6 DEF internal_schedule, woken
  <2> QED
    BY <1>3, <1>4, <2>1 DEF StateTyped, Timers, Item, family, allocators
<1>7. CASE ready # <<>>
  <2>1. Head(ready) \in Pcb /\ Tail(ready) \in Seq(Pcb)
    BY <1>5, <1>7, HeadTailProperties
  <2>2. Append(Tail(ready), running) \in Seq(Pcb)
    BY <1>2, <2>1, AppendProperties
  <2>3. /\ running' = Head(ready)
        /\ ready_list' = Append(Tail(ready), running)
        /\ status' = [b \in Pcb |->
                        IF b = Head(ready) THEN "Running"
                        ELSE IF b \in Range(woken) \cup {running} THEN "Ready"
                        ELSE status[b]]
    BY <1>7 DEF internal_schedule, ReadyAfterPreemption, woken
  <2> HIDE DEF ready
  <2>4. status' \in [Pcb -> ProcessStatus]
    BY <2>3 DEF StateTyped, ProcessStatus
  <2> QED
    BY <1>3, <1>4, <2>1, <2>2, <2>3, <2>4 DEF StateTyped, Timers, Item, family, allocators
<1> QED
  BY <1>6, <1>7

\* The types hold when init has been created.
LEMMA TypeInit == Init => StateTyped
<1> SUFFICES ASSUME Init PROVE StateTyped
  OBVIOUS
<1>1. 1 \in Pcb /\ 0 \in Pid /\ 1 \in Pid /\ MAX_NUM_PROCESSES \in Nat
  BY ProcessesAssumption DEF Pcb, Pid
<1>2. pcb_allocator \in Seq(Pcb)
  <2>1. \A i \in 1..MAX_NUM_PROCESSES - 1 : i + 1 \in Pcb
    BY <1>1 DEF Pcb
  <2>2. MAX_NUM_PROCESSES - 1 \in Nat
    BY ProcessesAssumption
  <2>3. pcb_allocator = [i \in 1..MAX_NUM_PROCESSES - 1 |-> i + 1]
    BY DEF Init
  <2> QED
    BY <2>1, <2>2, <2>3, IsASeq
<1>3. timer_list \in Seq([pcb: Pcb, left: Int]) /\ ready_list \in Seq(Pcb)
  BY DEF Init
<1> QED
  BY <1>1, <1>2, <1>3 DEF Init, StateTyped, ProcessStatus, Syscall

\* A call leaves its number and its argument.
LEMMA CallTypes ==
  ASSUME StateTyped, NEW num \in Syscall, NEW arg \in Pid, Called(num, arg)
  PROVE  syscall_num' \in [Pcb -> Syscall] /\ syscall_arg' \in [Pcb -> Pid]
  BY DEF Called, StateTyped

\* A call that blocks its caller with a timer, whatever it returns.
LEMMA ParkType ==
  ASSUME StateTyped, running \in Pcb, NEW cycles \in Int, ParkOnTimer(cycles),
         NEW num \in Syscall, Called(num, 0), retvalue' \in [Pcb -> Int]
  PROVE  StateTyped'
<1>1. timer_list' \in Seq([pcb: Pcb, left: Int])
  BY TimerList_addType DEF ParkOnTimer, StateTyped, Timers, Item
<1>2. syscall_num' \in [Pcb -> Syscall] /\ syscall_arg' \in [Pcb -> Pid]
  BY CallTypes, ProcessesAssumption DEF Pid
<1>3. status' \in [Pcb -> ProcessStatus]
  BY DEF ParkOnTimer, StateTyped, ProcessStatus
<1>4. ready_list # <<>> => Head(ready_list) \in Pcb /\ Tail(ready_list) \in Seq(Pcb)
  BY HeadTailProperties DEF StateTyped
<1> QED
  BY <1>1, <1>2, <1>3, <1>4
     DEF ParkOnTimer, DispatchFirstReady, StateTyped, family, allocators

\* A call that answers its caller at once, whatever it returns.
LEMMA AnswerType ==
  ASSUME StateTyped, NEW num \in Syscall, Called(num, 0), retvalue' \in [Pcb -> Int],
         UNCHANGED <<running, lists, status, family, allocators>>,
         system' \in {"up", "down", "hung", "crashed"}
  PROVE  StateTyped'
<1>1. syscall_num' \in [Pcb -> Syscall] /\ syscall_arg' \in [Pcb -> Pid]
  BY CallTypes, ProcessesAssumption DEF Pid
<1> QED
  BY <1>1 DEF StateTyped, lists, family, allocators

\* Every step keeps the types: one case per action.
LEMMA TypeStep == StateTyped /\ [Next]_vars => StateTyped'
<1> SUFFICES ASSUME StateTyped, [Next]_vars PROVE StateTyped'
  OBVIOUS
<1> USE DEF allocators, family, lists, call
<1>1. ASSUME NEW num \in Syscall, NEW arg \in Pid, Called(num, arg)
      PROVE  syscall_num' \in [Pcb -> Syscall] /\ syscall_arg' \in [Pcb -> Pid]
  BY <1>1, CallTypes
<1>2. ASSUME NEW how \in {"hung", "crashed"}, Stop(how)
      PROVE  StateTyped'
  BY <1>2 DEF Stop, StateTyped
<1>3. /\ 0 \in Pid /\ \A b \in Pcb : pid[b] \in Pid
      /\ Pid \subseteq Int /\ DSOS_EWAIT \in Int
  BY ProcessesAssumption DEF Pid, DSOS_EWAIT, StateTyped
<1>4. ready_list # <<>> => Head(ready_list) \in Pcb /\ Tail(ready_list) \in Seq(Pcb)
  BY HeadTailProperties DEF StateTyped
<1>5. ASSUME NEW st \in ProcessStatus, NEW par \in Pcb \cup {Null},
             pcb_allocator # <<>>, last_pid < MaxPid, PCB_alloc(st, par)
      PROVE  /\ Head(pcb_allocator) \in Pcb
             /\ pcb_allocator' \in Seq(Pcb) /\ last_pid' \in Pid
             /\ pid' \in [Pcb -> Pid] /\ status' \in [Pcb -> ProcessStatus]
             /\ parent' \in [Pcb -> Pcb \cup {Null}]
  <2>1. Head(pcb_allocator) \in Pcb /\ Tail(pcb_allocator) \in Seq(Pcb)
    BY <1>5, HeadTailProperties DEF StateTyped
  <2>2. last_pid \in Pid /\ last_pid + 1 \in Pid
    BY <1>5, ProcessesAssumption DEF StateTyped, Pid
  <2> QED
    BY <1>5, <2>1, <2>2 DEF StateTyped, PCB_alloc, PCB_init
<1>6. ASSUME NEW num \in {"spawn", "fork"}, NEW withContext \in BOOLEAN,
             NewProcess(num, withContext)
      PROVE  StateTyped'
  <2>1. CASE pcb_allocator = <<>> \/ pcb_ptr_allocator = 0
    BY <1>2, <1>6, <2>1 DEF NewProcess, Crash
  <2>2. CASE pcb_allocator # <<>> /\ pcb_ptr_allocator # 0
    <3> DEFINE new_pcb == Head(pcb_allocator)
    <3>1. /\ last_pid < MaxPid /\ running \in Pcb
          /\ PCB_alloc("Ready", running)
          /\ children' = [children EXCEPT ![new_pcb] = <<>>,
                                          ![running] = Append(@, new_pcb)]
          /\ pcb_ptr_allocator' = pcb_ptr_allocator - 1
          /\ ready_list' = Append(ready_list, new_pcb)
          /\ retvalue' = [retvalue EXCEPT ![running] = last_pid]
          /\ Called(num, 0)
          /\ contexts' \subseteq contexts \cup {new_pcb}
          /\ UNCHANGED <<running, waiting_list, zombie_list, timer_list,
                         init_pcb, system>>
      BY <1>6, <2>2 DEF NewProcess, InUserCode, StateTyped
    <3>2. /\ new_pcb \in Pcb
          /\ pcb_allocator' \in Seq(Pcb) /\ last_pid' \in Pid
          /\ pid' \in [Pcb -> Pid] /\ status' \in [Pcb -> ProcessStatus]
          /\ parent' \in [Pcb -> Pcb \cup {Null}]
      BY <1>5, <2>2, <3>1 DEF ProcessStatus
    <3> HIDE DEF new_pcb
    <3>3. \A s \in Seq(Pcb) : Append(s, new_pcb) \in Seq(Pcb)
      BY <3>2, AppendProperties
    <3>4. children' \in [Pcb -> Seq(Pcb)]
      <4>1. children[running] \in Seq(Pcb) /\ Append(children[running], new_pcb) \in Seq(Pcb)
        BY <3>1, <3>3 DEF StateTyped
      <4> QED
        BY <3>1, <4>1, EmptySeq DEF StateTyped
    <3>5. ready_list' \in Seq(Pcb)
      BY <3>1, <3>3 DEF StateTyped
    <3>6. retvalue' \in [Pcb -> Int]
      BY <1>3, <3>1 DEF StateTyped
    <3>7. pcb_ptr_allocator' \in Nat
      BY <2>2, <3>1 DEF StateTyped
    <3>8. syscall_num' \in [Pcb -> Syscall] /\ syscall_arg' \in [Pcb -> Pid]
      BY <1>1, <1>3, <3>1 DEF Syscall
    <3> QED
      BY <3>1, <3>2, <3>4, <3>5, <3>6, <3>7, <3>8 DEF StateTyped
  <2> QED
    BY <2>1, <2>2
<1>7. CASE internal_exit
  <2>1. running \in Pcb
    BY <1>7 DEF internal_exit, InUserCode, StateTyped
  <2>2. \A b \in Pcb : ChildrenAfterExit(b, running) \in Seq(Pcb)
    BY <2>1, ChildrenAfterExitType
  <2>3. CASE Stop("hung") \/ Crash
    BY <1>2, <2>3 DEF Crash
  <2>4. CASE ~Crash /\ parent[running] # Null /\ ExitToWaitingParent(running)
    <3> DEFINE waiter == parent[running]
    <3>1. waiter \in Pcb
      BY <2>1, <2>4 DEF StateTyped
    <3>2. /\ children' = [b \in Pcb |->
                            IF b = waiter
                            THEN RemoveFirst(ChildrenAfterExit(b, running), running)
                            ELSE ChildrenAfterExit(b, running)]
          /\ status' = [status EXCEPT ![running] = "Zombie", ![waiter] = "Running"]
          /\ running' = waiter
          /\ waiting_list' = waiting_list \ {waiter}
          /\ Called("exit", 0) /\ Report(waiter, running) /\ PCB_free(running)
          /\ UNCHANGED <<ready_list, zombie_list, timer_list, pid, parent,
                         init_pcb, pcb_ptr_allocator, last_pid, contexts, system>>
      BY <2>4 DEF ExitToWaitingParent
    <3> HIDE DEF waiter
    <3>3. children' \in [Pcb -> Seq(Pcb)]
      BY <2>2, <3>2, RemoveFirstElements
    <3>4. status' \in [Pcb -> ProcessStatus]
      BY <3>2 DEF StateTyped, ProcessStatus
    <3>5. retvalue' \in [Pcb -> Int]
      BY <1>3, <2>1, <3>2 DEF StateTyped, Report
    <3>6. pcb_allocator' \in Seq(Pcb)
      BY <2>1, <3>2, ConsElements DEF StateTyped, PCB_free
    <3>7. syscall_num' \in [Pcb -> Syscall] /\ syscall_arg' \in [Pcb -> Pid]
      BY <1>1, <1>3, <3>2 DEF Syscall
    <3> QED
      BY <3>1, <3>2, <3>3, <3>4, <3>5, <3>6, <3>7 DEF StateTyped
  <2>5. CASE ~Crash /\ ExitAsZombie(running)
    <3>1. /\ ready_list # <<>>
          /\ children' = [b \in Pcb |-> ChildrenAfterExit(b, running)]
          /\ status' = [status EXCEPT ![running] = "Zombie", ![Head(ready_list)] = "Running"]
          /\ zombie_list' = zombie_list \cup {running}
          /\ DispatchFirstReady
          /\ Called("exit", 0)
          /\ UNCHANGED <<waiting_list, timer_list, pid, parent, init_pcb,
                         retvalue, allocators, system>>
      BY <2>5 DEF ExitAsZombie
    <3>2. children' \in [Pcb -> Seq(Pcb)]
      BY <2>2, <3>1
    <3>3. status' \in [Pcb -> ProcessStatus]
      BY <3>1 DEF StateTyped, ProcessStatus
    <3>4. syscall_num' \in [Pcb -> Syscall] /\ syscall_arg' \in [Pcb -> Pid]
      BY <1>1, <1>3, <3>1 DEF Syscall
    <3> QED
      BY <1>4, <2>1, <3>1, <3>2, <3>3, <3>4 DEF StateTyped, DispatchFirstReady
  <2> QED
    BY <1>7, <2>3, <2>4, <2>5 DEF internal_exit
<1>8. ASSUME NEW p \in Pid, internal_wait(p)
      PROVE  StateTyped'
  <2> DEFINE kids  == children[running]
             child == AwaitedChild(kids, p)
  <2>1. running \in Pcb /\ kids \in Seq(Pcb)
    BY <1>8 DEF internal_wait, InUserCode, StateTyped
  <2>2. Called("wait", p) => syscall_num' \in [Pcb -> Syscall] /\ syscall_arg' \in [Pcb -> Pid]
    BY <1>1, <1>8 DEF Syscall
  <2>3. CASE kids = <<>>
    BY <1>3, <1>8, <2>1, <2>2, <2>3 DEF internal_wait, StateTyped
  <2>4. CASE kids # <<>> /\ status[child] = "Zombie"
    <3>1. child \in Pcb
      BY <2>1, <2>4, AwaitedChildIsChild, RangeOfSeq
    <3>2. Reap(child) /\ Called("wait", p)
      BY <1>8, <2>4 DEF internal_wait
    <3> HIDE DEF child
    <3>3. children' \in [Pcb -> Seq(Pcb)]
      BY <2>1, <3>2, RemoveFirstElements DEF Reap, StateTyped
    <3>4. pcb_allocator' \in Seq(Pcb)
      BY <3>1, <3>2, ConsElements DEF Reap, PCB_free, StateTyped
    <3>5. retvalue' \in [Pcb -> Int]
      BY <1>3, <3>1, <3>2 DEF Reap, Report, StateTyped
    <3> QED
      BY <2>1, <2>2, <3>2, <3>3, <3>4, <3>5 DEF Reap, StateTyped
  <2>5. CASE kids # <<>> /\ status[child] # "Zombie" /\ ready_list = <<>>
    BY <1>2, <1>8, <2>5 DEF internal_wait, Crash
  <2>6. CASE kids # <<>> /\ status[child] # "Zombie" /\ ready_list # <<>>
    <3>1. BlockInWait /\ Called("wait", p)
      BY <1>8, <2>6 DEF internal_wait
    <3>2. status' \in [Pcb -> ProcessStatus]
      BY <3>1 DEF BlockInWait, StateTyped, ProcessStatus
    <3> QED
      BY <1>4, <2>1, <2>2, <2>6, <3>1, <3>2 DEF BlockInWait, DispatchFirstReady, StateTyped
  <2> QED
    BY <2>3, <2>4, <2>5, <2>6
<1>9. ASSUME NEW cycles \in SleepTimes, internal_sleep(cycles)
      PROVE  StateTyped'
  <2>1. running \in Pcb /\ cycles \in Int /\ retvalue' \in [Pcb -> Int] /\ "sleep" \in Syscall
    BY <1>9, ProcessesAssumption DEF internal_sleep, InUserCode, StateTyped, Syscall
  <2>2. ParkOnTimer(cycles) /\ Called("sleep", 0)
    BY <1>9 DEF internal_sleep
  <2> QED
    BY <2>1, <2>2, ParkType
<1>10. CASE internal_preempt
  <2>1. timer_list \in Timers
    BY DEF StateTyped, Timers, Item
  <2>2. running # Null /\ internal_schedule(timer_list)
    BY <1>10 DEF internal_preempt, InUserCode, StateTyped, Pcb, Null
  <2>3. syscall_num' \in [Pcb -> Syscall] /\ syscall_arg' \in [Pcb -> Pid]
    BY <1>1, <1>3, <1>10 DEF internal_preempt, Syscall
  <2> QED
    BY <2>1, <2>2, <2>3, ScheduleType
<1>11. CASE internal_shutdown
  <2>1. /\ Called("shutdown", 0) /\ UNCHANGED retvalue /\ system' = "down"
        /\ UNCHANGED <<running, lists, status, family, allocators>>
    BY <1>11 DEF internal_shutdown
  <2>2. retvalue' \in [Pcb -> Int] /\ "shutdown" \in Syscall
    BY <2>1 DEF StateTyped, Syscall
  <2> QED
    BY <2>1, <2>2, AnswerType
<1>12. CASE timerInterrupt
  <2>1. CASE running = Null
    BY <1>2, <1>12, <2>1 DEF timerInterrupt, Crash
  <2>2. CASE running # Null
    <3> DEFINE timers == [i \in DOMAIN timer_list |->
                            [timer_list[i] EXCEPT !.left = @ - 1]]
    <3>1. timers \in Timers
      <4>1. /\ Len(timer_list) \in Nat /\ DOMAIN timer_list = 1..Len(timer_list)
            /\ \A i \in 1..Len(timer_list) : timer_list[i] \in Item
        BY LenProperties, ElementOfSeq DEF StateTyped, Item
      <4>2. \A i \in 1..Len(timer_list) : [timer_list[i] EXCEPT !.left = @ - 1] \in Item
        BY <4>1 DEF Item
      <4> QED
        BY <4>1, <4>2 DEF Timers
    <3>2. internal_schedule(timers) /\ UNCHANGED call
      BY <1>12, <2>2 DEF timerInterrupt
    <3> HIDE DEF timers
    <3>3. syscall_num' \in [Pcb -> Syscall] /\ syscall_arg' \in [Pcb -> Pid]
      BY <3>2 DEF StateTyped
    <3> QED
      BY <2>2, <3>1, <3>2, <3>3, ScheduleType
  <2> QED
    BY <2>1, <2>2
<1>13. CASE RestartFromMain
  <2>1. CASE pcb_allocator = <<>>
    BY <1>2, <1>13, <2>1 DEF RestartFromMain, Crash
  <2>2. CASE pcb_allocator # <<>>
    <3>1. /\ last_pid < MaxPid /\ PCB_alloc("Running", Null)
          /\ children' = [children EXCEPT ![Head(pcb_allocator)] = <<>>]
          /\ running' = Head(pcb_allocator) /\ init_pcb' = Head(pcb_allocator)
          /\ contexts' = contexts \cup {Head(pcb_allocator)}
          /\ UNCHANGED <<lists, call, retvalue, pcb_ptr_allocator, system>>
      BY <1>13, <2>2 DEF RestartFromMain
    <3>2. /\ Head(pcb_allocator) \in Pcb
          /\ pcb_allocator' \in Seq(Pcb) /\ last_pid' \in Pid
          /\ pid' \in [Pcb -> Pid] /\ status' \in [Pcb -> ProcessStatus]
          /\ parent' \in [Pcb -> Pcb \cup {Null}]
      BY <1>5, <2>2, <3>1 DEF ProcessStatus
    <3>3. children' \in [Pcb -> Seq(Pcb)]
      BY <3>1, EmptySeq DEF StateTyped
    <3> QED
      BY <3>1, <3>2, <3>3 DEF StateTyped
  <2> QED
    BY <2>1, <2>2
<1>14. CASE UNCHANGED vars
  BY <1>14 DEF vars, StateTyped
<1>15. CASE internal_spawn \/ internal_fork
  BY <1>6, <1>15 DEF internal_spawn, internal_fork
<1>16. CASE ResumeWithoutContext
  BY <1>2, <1>16 DEF ResumeWithoutContext, Crash
<1> QED
  BY <1>7, <1>8, <1>9, <1>10, <1>11, <1>12, <1>13, <1>14, <1>15, <1>16 DEF Next

LEMMA StateTypes == Spec => []StateTyped
BY TypeInit, TypeStep, PTL DEF Spec

\* A call returns a pid or the error of wait.
ResultsTyped == retvalue \in [Pcb -> Pid \cup {DSOS_EWAIT}]

\* The results stay, but for one, a pid or the error of wait.
OneResult ==
  \E b \in Pcb, code \in Pid \cup {DSOS_EWAIT} : retvalue' = [retvalue EXCEPT ![b] = code]

LEMMA ResultStep ==
  ASSUME StateTyped, [Next]_vars
  PROVE  UNCHANGED retvalue \/ OneResult
<1>1. \A b \in Pcb : pid[b] \in Pid
  BY DEF StateTyped
<1>2. last_pid \in Pid /\ (InUserCode => running \in Pcb)
  BY DEF StateTyped, InUserCode
<1>3. CASE internal_spawn \/ internal_fork
  BY <1>2, <1>3 DEF internal_spawn, internal_fork, NewProcess, Crash, Stop, OneResult
<1>4. CASE internal_exit
  <2>1. parent[running] # Null => parent[running] \in Pcb
    BY <1>2, <1>4 DEF internal_exit, StateTyped
  <2> QED
    BY <1>1, <1>2, <1>4, <2>1 DEF internal_exit, Stop, Crash, ExitToWaitingParent, Report,
                             ExitAsZombie, OneResult
<1>5. ASSUME NEW p \in Pid, internal_wait(p)
      PROVE  UNCHANGED retvalue \/ OneResult
  <2> DEFINE kids  == children[running]
             child == AwaitedChild(kids, p)
  <2>1. running \in Pcb /\ kids \in Seq(Pcb)
    BY <1>2, <1>5 DEF internal_wait, StateTyped
  <2>2. CASE kids = <<>>
    BY <1>5, <2>1, <2>2 DEF internal_wait, OneResult
  <2>3. CASE kids # <<>> /\ status[child] = "Zombie"
    <3>1. child \in Pcb
      BY <2>1, <2>3, AwaitedChildIsChild, RangeOfSeq
    <3>2. Reap(child)
      BY <1>5, <2>3 DEF internal_wait
    <3> HIDE DEF child
    <3> QED
      BY <1>1, <2>1, <3>1, <3>2 DEF Reap, Report, OneResult
  <2>4. CASE kids # <<>> /\ status[child] # "Zombie"
    BY <1>5, <2>4 DEF internal_wait, Crash, Stop, BlockInWait
  <2> QED
    BY <2>2, <2>3, <2>4
<1>6. CASE \/ \E cycles \in SleepTimes : internal_sleep(cycles)
           \/ internal_shutdown \/ RestartFromMain \/ ResumeWithoutContext
  BY <1>6 DEF internal_sleep, internal_shutdown, RestartFromMain, ResumeWithoutContext,
              Crash, Stop
<1>7. CASE internal_preempt \/ timerInterrupt
  BY <1>7 DEF internal_preempt, timerInterrupt, internal_schedule, Crash, Stop
<1>8. CASE UNCHANGED vars
  BY <1>8 DEF vars
<1> QED
  BY <1>3, <1>4, <1>5, <1>6, <1>7, <1>8 DEF Next

\* Every variable keeps its type, in every state the machine can reach.
THEOREM TypeCorrect == Spec => []TypeOK
<1>1. Init => ResultsTyped
  BY ProcessesAssumption DEF Init, ResultsTyped, Pid
<1>2. StateTyped /\ ResultsTyped /\ [Next]_vars => ResultsTyped'
  BY ResultStep DEF ResultsTyped, OneResult
<1>3. StateTyped /\ ResultsTyped => TypeOK
  BY DEF StateTyped, ResultsTyped, TypeOK
<1> QED
  BY <1>1, <1>2, <1>3, StateTypes, PTL DEF Spec

-----------------------------------------------------------------------------
(* Every block in one place *)

FreeStatus == \A b \in FreePcbs : status[b] \in {"Created", "Zombie"}

TimersSound ==
  /\ \A i, j \in 1..Len(timer_list) : timer_list[i].pcb = timer_list[j].pcb => i = j
  /\ \A i \in 1..Len(timer_list) : /\ timer_list[i].pcb \in waiting_list
                                   /\ syscall_num[timer_list[i].pcb] # "wait"

ChildrenSound ==
  /\ \A b \in Pcb : IsInjective(children[b]) /\ Range(children[b]) \subseteq LivePcbs
  /\ \A b, c \in Pcb : b # c => Range(children[b]) \cap Range(children[c]) = {}

Sound ==
  /\ EachProcessInOnePlace /\ StatusMatchesPlace /\ FreeStatus
  /\ TimersSound /\ ChildrenSound

Inv == StateTyped /\ Sound

-----------------------------------------------------------------------------
(* The lists *)

\* A list of PCBs or of timers: its length, its indices and its items.
LEMMA ListFacts ==
  ASSUME StateTyped
  PROVE  /\ Range(ready_list) \subseteq Pcb /\ FreePcbs \subseteq Pcb
         /\ Null \notin Pcb
         /\ DOMAIN timer_list = 1..Len(timer_list) /\ Len(timer_list) \in Nat
         /\ \A i \in 1..Len(timer_list) : timer_list[i] \in Item
<1>1. ready_list \in Seq(Pcb) /\ pcb_allocator \in Seq(Pcb) /\ timer_list \in Seq(Item)
  BY DEF StateTyped, Item
<1>2. Range(ready_list) \subseteq Pcb /\ FreePcbs \subseteq Pcb
  BY <1>1, RangeOfSeq DEF FreePcbs
<1>3. DOMAIN timer_list = 1..Len(timer_list) /\ Len(timer_list) \in Nat
  BY <1>1, LenProperties
<1>4. \A i \in 1..Len(timer_list) : timer_list[i] \in Item
  BY <1>1, ElementOfSeq
<1>5. Null \notin Pcb
  BY DEF Null, Pcb
<1> QED
  BY <1>2, <1>3, <1>4, <1>5

\* PCB_alloc hands out a free block, and the others stay free.
LEMMA AllocFacts ==
  ASSUME StateTyped, EachProcessInOnePlace, pcb_allocator # <<>>,
         pcb_allocator' = Tail(pcb_allocator)
  PROVE  /\ Head(pcb_allocator) \in FreePcbs
         /\ IsInjective(pcb_allocator')
         /\ Range(pcb_allocator') = FreePcbs \ {Head(pcb_allocator)}
<1>1. pcb_allocator \in Seq(Pcb) /\ IsInjective(pcb_allocator)
  BY DEF StateTyped, EachProcessInOnePlace
<1> QED
  BY <1>1, TailElements DEF FreePcbs

\* PCB_free adds the block to the free ones; it was not free before.
LEMMA FreeFacts ==
  ASSUME StateTyped, EachProcessInOnePlace, NEW b \in LivePcbs, PCB_free(b)
  PROVE  /\ IsInjective(pcb_allocator')
         /\ Range(pcb_allocator') = FreePcbs \cup {b}
<1>1. pcb_allocator \in Seq(Pcb) /\ IsInjective(pcb_allocator)
  BY DEF StateTyped, EachProcessInOnePlace
<1>2. b \in Pcb /\ b \notin Range(pcb_allocator)
  BY DEF LivePcbs, FreePcbs
<1> QED
  BY <1>1, <1>2, ConsElements DEF FreePcbs, PCB_free

\* The process that gets the CPU leaves the ready list.
LEMMA DispatchFacts ==
  ASSUME StateTyped, EachProcessInOnePlace, ready_list # <<>>, DispatchFirstReady
  PROVE  /\ running' \in Range(ready_list)
         /\ IsInjective(ready_list')
         /\ Range(ready_list') = Range(ready_list) \ {running'}
<1>1. ready_list \in Seq(Pcb) /\ IsInjective(ready_list)
  BY DEF StateTyped, EachProcessInOnePlace
<1> QED
  BY <1>1, TailElements DEF DispatchFirstReady

\* The timers of blocked processes are not touched by a call of another.
LEMMA TimersFrame ==
  ASSUME StateTyped, EachProcessInOnePlace, TimersSound, timer_list' = timer_list,
         NEW num, NEW arg, Called(num, arg) \/ UNCHANGED call,
         \A w \in waiting_list : w \in waiting_list' \/ syscall_num[w] = "wait"
  PROVE  TimersSound'
<1>1. \A w \in waiting_list : syscall_num'[w] = syscall_num[w]
  BY DEF Called, call, StateTyped, EachProcessInOnePlace
<1> QED
  BY <1>1 DEF TimersSound

\* The caller joins the waiting list and the first ready process has the CPU.
LEMMA ParkedPlaces ==
  ASSUME StateTyped, EachProcessInOnePlace, StatusMatchesPlace, FreeStatus, running \in Pcb,
         status' = [status EXCEPT ![running] = "Waiting"],
         waiting_list' = waiting_list \cup {running},
         UNCHANGED <<zombie_list, pcb_allocator>>,
         running' \in Range(ready_list), IsInjective(ready_list'),
         Range(ready_list') = Range(ready_list) \ {running'}
  PROVE  EachProcessInOnePlace' /\ (StatusMatchesPlace /\ FreeStatus)'
<1>1. EachProcessInOnePlace'
  BY DEF EachProcessInOnePlace, FreePcbs, LivePcbs
<1>2. \A b \in Pcb : status'[b] = IF b = running THEN "Waiting" ELSE status[b]
  BY DEF StateTyped
<1>3. running \notin Range(ready_list) \cup waiting_list \cup zombie_list \cup FreePcbs
  BY DEF EachProcessInOnePlace
<1>4. /\ waiting_list \subseteq Pcb /\ zombie_list \subseteq Pcb
      /\ Range(ready_list) \subseteq Pcb /\ FreePcbs \subseteq Pcb
  BY ListFacts DEF StateTyped
<1>5. (StatusMatchesPlace /\ FreeStatus)'
  BY <1>2, <1>3, <1>4 DEF StatusMatchesPlace, FreeStatus, FreePcbs
<1> QED
  BY <1>1, <1>5

\* The caller joins the waiting list and nobody has the CPU.
LEMMA ParkedPlacesIdle ==
  ASSUME StateTyped, EachProcessInOnePlace, StatusMatchesPlace, FreeStatus, running \in Pcb,
         status' = [status EXCEPT ![running] = "Waiting"],
         waiting_list' = waiting_list \cup {running},
         UNCHANGED <<zombie_list, pcb_allocator, ready_list>>, running' = Null
  PROVE  EachProcessInOnePlace' /\ (StatusMatchesPlace /\ FreeStatus)'
<1>1. \A b \in Pcb : status'[b] = IF b = running THEN "Waiting" ELSE status[b]
  BY DEF StateTyped
<1>2. running \notin Range(ready_list) \cup waiting_list \cup zombie_list \cup FreePcbs
  BY DEF EachProcessInOnePlace
<1>3. /\ waiting_list \subseteq Pcb /\ zombie_list \subseteq Pcb
      /\ Range(ready_list) \subseteq Pcb /\ FreePcbs \subseteq Pcb /\ Null \notin Pcb
  BY ListFacts DEF StateTyped
<1>4. EachProcessInOnePlace'
  BY <1>2, <1>3 DEF EachProcessInOnePlace, FreePcbs, LivePcbs
<1>5. (StatusMatchesPlace /\ FreeStatus)'
  BY <1>1, <1>2, <1>3 DEF StatusMatchesPlace, FreeStatus, FreePcbs
<1> QED
  BY <1>4, <1>5

\* The new timer goes to the one index k that leaves a sorted list sorted.
InsertedAt(k, timers, item, result) ==
  /\ Len(result) = Len(timers) + 1
  /\ \A i \in 1..Len(timers) + 1 : result[i] = IF i < k THEN timers[i]
                                               ELSE IF i = k THEN item ELSE timers[i - 1]
  /\ \A i \in 1..Len(timers) : i < k => timers[i].left <= item.left
  /\ k \in 1..Len(timers) => item.left < timers[k].left

LEMMA TimerList_addShape ==
  ASSUME NEW timers \in Timers, NEW left \in Int, NEW b \in Pcb,
         NEW result, result = TimerList_add(timers, left, b)
  PROVE  \E k \in 1..Len(timers) + 1 :
           InsertedAt(k, timers, [pcb |-> b, left |-> left], result)
<1> DEFINE item  == [pcb |-> b, left |-> left]
           I     == {i \in 1..Len(timers) : left < timers[i].left}
           later == IF I # {} THEN Min(I) ELSE 0
           n     == Len(timers)
<1>1. item \in Item /\ n \in Nat /\ item.pcb = b /\ item.left = left
  BY LenProperties DEF Timers, Item
<1>2. result = IF later = 0 THEN Append(timers, item) ELSE InsertAt(timers, later, item)
  BY DEF TimerList_add, SelectInSeq
<1>3. /\ later \in 0..n
      /\ later # 0 => /\ left < timers[later].left
                     /\ \A i \in 1..n : i < later => ~(left < timers[i].left)
      /\ later = 0 => \A i \in 1..n : ~(left < timers[i].left)
  <2>1. I \subseteq 1..n
    OBVIOUS
  <2> HIDE DEF I
  <2>2. /\ later \in 0..n
        /\ later # 0 => later \in I /\ \A j \in I : later <= j
        /\ later = 0 => I = {}
    BY <1>1, <2>1, FirstIndex
  <2> HIDE DEF later
  <2> QED
    BY <1>1, <2>2 DEF I
<1> HIDE DEF item, later
<1>4. ASSUME NEW k \in 1..n + 1, k = IF later = 0 THEN n + 1 ELSE later
      PROVE  /\ Len(result) = n + 1
             /\ \A i \in 1..n + 1 : result[i] = IF i < k THEN timers[i]
                                                ELSE IF i = k THEN item ELSE timers[i - 1]
  <2>1. CASE later = 0
    <3>1. /\ Len(result) = n + 1
          /\ \A i \in 1..n : result[i] = timers[i]
          /\ result[n + 1] = item
      BY <1>1, <1>2, <2>1, AppendProperties DEF Timers
    <3>2. \A i \in 1..n + 1 : result[i] = IF i < n + 1 THEN timers[i]
                                          ELSE IF i = n + 1 THEN item ELSE timers[i - 1]
      BY <1>1, <3>1
    <3> HIDE DEF n
    <3> QED
      BY <1>4, <2>1, <3>1, <3>2
  <2>2. CASE later \in 1..n
    <3>1. result = (SubSeq(timers, 1, later - 1) \o <<item>>) \o SubSeq(timers, later, n)
      <4>1. later # 0
        BY <1>1, <2>2
      <4>2. result = InsertAt(timers, later, item)
        BY <1>2, <4>1
      <4> QED
        BY <4>2 DEF InsertAt
    <3>2. /\ SubSeq(timers, 1, later - 1) \in Seq(Item)
          /\ Len(SubSeq(timers, 1, later - 1)) = later - 1
          /\ \A i \in 1..later - 1 : SubSeq(timers, 1, later - 1)[i] = timers[i]
      BY <1>1, <2>2, SubSeqElements, SubSeqProperties, ElementOfSeq DEF Timers
    <3>3. /\ SubSeq(timers, later, n) \in Seq(Item)
          /\ Len(SubSeq(timers, later, n)) = n - later + 1
          /\ \A i \in 1..n - later + 1 : SubSeq(timers, later, n)[i] = timers[later + i - 1]
      BY <1>1, <2>2, SubSeqElements, SubSeqProperties, ElementOfSeq DEF Timers
    <3> DEFINE t == SubSeq(timers, 1, later - 1)
               u == SubSeq(timers, later, n)
               m == t \o <<item>>
    <3>4. <<item>> \in Seq(Item) /\ Len(<<item>>) = 1 /\ <<item>>[1] = item
      BY <1>1
    <3> HIDE DEF t, u
    <3>5. /\ m \in Seq(Item) /\ Len(m) = later
          /\ \A i \in 1..later : m[i] = IF i <= later - 1 THEN timers[i] ELSE item
      <4>1. t \in Seq(Item) /\ Len(t) = later - 1 /\ \A i \in 1..later - 1 : t[i] = timers[i]
        BY <3>2 DEF t
      <4>2. m = Append(t, item)
        BY <3>4, <4>1, AppendIsConcat DEF m
      <4>3. /\ m \in Seq(Item) /\ Len(m) = Len(t) + 1 /\ m[Len(t) + 1] = item
            /\ \A i \in 1..Len(t) : m[i] = t[i]
        BY <1>1, <4>1, <4>2, AppendProperties
      <4>4. \A i \in 1..later : i \in 1..later - 1 \/ i = Len(t) + 1
        BY <1>1, <2>2, <4>1
      <4> QED
        BY <1>1, <2>2, <4>1, <4>3, <4>4
    <3> HIDE DEF m
    <3>6. /\ Len(result) = n + 1
          /\ \A i \in 1..n + 1 : result[i] = IF i <= later THEN m[i] ELSE u[i - later]
      <4>1. result = m \o u
        BY <3>1 DEF m, t, u
      <4>2. u \in Seq(Item) /\ Len(u) = n - later + 1
        BY <3>3 DEF u
      <4>3. Len(m \o u) = Len(m) + Len(u)
        BY <3>5, <4>2, ConcatProperties
      <4>4. \A i \in 1..Len(m) + Len(u) : (m \o u)[i] = IF i <= Len(m) THEN m[i] ELSE u[i - Len(m)]
        BY <3>5, <4>2, ConcatProperties
      <4>5. Len(m) + Len(u) = n + 1
        BY <1>1, <2>2, <3>5, <4>2
      <4> QED
        BY <3>5, <4>1, <4>3, <4>4, <4>5
    <3>7. \A i \in 1..n + 1 : ~(i <= later) =>
            /\ i - later \in 1..n - later + 1 /\ later + (i - later) - 1 = i - 1
      BY <1>1, <2>2
    <3>8. \A i \in 1..n + 1 : result[i] = IF i < later THEN timers[i]
                                          ELSE IF i = later THEN item ELSE timers[i - 1]
      <4> SUFFICES ASSUME NEW i \in 1..n + 1
                   PROVE  result[i] = IF i < later THEN timers[i]
                                      ELSE IF i = later THEN item ELSE timers[i - 1]
        OBVIOUS
      <4>1. CASE i <= later
        BY <1>1, <2>2, <3>5, <3>6, <4>1
      <4>2. CASE ~(i <= later)
        <5>1. result[i] = u[i - later]
          BY <3>6, <4>2
        <5>2. u[i - later] = timers[i - 1]
          BY <3>3, <3>7, <4>2 DEF u
        <5> QED
          BY <1>1, <2>2, <4>2, <5>1, <5>2
      <4> QED
        BY <4>1, <4>2
    <3>9. k = later
      BY <1>1, <1>4, <2>2
    <3> QED
      BY <3>6, <3>8, <3>9
  <2> QED
    BY <1>1, <1>3, <2>1, <2>2
<1>5. \A i \in 1..n : timers[i].left \in Int
  <2>1. \A i \in 1..n : timers[i] \in Item
    BY ElementOfSeq DEF Timers
  <2> QED
    BY <2>1 DEF Item
<1> DEFINE at == IF later = 0 THEN n + 1 ELSE later
<1>6. at \in 1..n + 1
  BY <1>1, <1>3
<1>7. /\ \A i \in 1..n : i < at => timers[i].left <= item.left
      /\ at \in 1..n => item.left < timers[at].left
  BY <1>1, <1>3, <1>5
<1>8. /\ Len(result) = n + 1
      /\ \A i \in 1..n + 1 : result[i] = IF i < at THEN timers[i]
                                         ELSE IF i = at THEN item ELSE timers[i - 1]
  BY <1>4, <1>6
<1> HIDE DEF at
<1> QED
  BY <1>6, <1>7, <1>8 DEF InsertedAt, item

\* A sorted insertion adds the new timer once and keeps the others.
LEMMA TimerList_addPcbs ==
  ASSUME NEW timers \in Timers, NEW left \in Int, NEW b \in Pcb,
         NEW result, result = TimerList_add(timers, left, b),
         \A i, j \in 1..Len(timers) : timers[i].pcb = timers[j].pcb => i = j,
         \A i \in 1..Len(timers) : timers[i].pcb # b
  PROVE  /\ \A i, j \in 1..Len(result) : result[i].pcb = result[j].pcb => i = j
         /\ \A i \in 1..Len(result) :
              \/ result[i].pcb = b
              \/ \E j \in 1..Len(timers) : result[i].pcb = timers[j].pcb
<1> DEFINE item == [pcb |-> b, left |-> left]
           n    == Len(timers)
<1>1. item \in Item /\ n \in Nat /\ item.pcb = b
  BY LenProperties DEF Timers, Item
<1> HIDE DEF item
<1>4. PICK k \in 1..n + 1 : InsertedAt(k, timers, item, result)
  BY TimerList_addShape DEF item
<1>5. /\ Len(result) = n + 1
      /\ \A i \in 1..n + 1 : result[i] = IF i < k THEN timers[i]
                                         ELSE IF i = k THEN item ELSE timers[i - 1]
  BY <1>4 DEF InsertedAt
<1>6. \A i \in 1..n + 1 : i # k =>
        \E j \in 1..n : j = (IF i < k THEN i ELSE i - 1) /\ result[i] = timers[j]
  <2> SUFFICES ASSUME NEW i \in 1..n + 1, i # k
               PROVE  \E j \in 1..n : j = (IF i < k THEN i ELSE i - 1) /\ result[i] = timers[j]
    OBVIOUS
  <2>1. CASE i < k
    BY <2>1, <1>1, <1>5
  <2>2. CASE i > k
    <3>1. i - 1 \in 1..n /\ result[i] = timers[i - 1]
      BY <2>2, <1>1, <1>5
    <3> QED
      BY <3>1, <2>2, <1>1
  <2> QED
    BY <2>1, <2>2, <1>1
<1>7. result[k] = item
  BY <1>1, <1>5
<1>8. ASSUME NEW i \in 1..n + 1, NEW j \in 1..n + 1, result[i].pcb = result[j].pcb
      PROVE  i = j
  <2>1. CASE i = k \/ j = k
    BY <1>1, <1>6, <1>7, <1>8, <2>1
  <2>2. CASE i # k /\ j # k
    <3>1. (IF i < k THEN i ELSE i - 1) = (IF j < k THEN j ELSE j - 1)
      BY <1>6, <1>8, <2>2
    <3> QED
      BY <1>1, <2>2, <3>1
  <2> QED
    BY <2>1, <2>2
<1>9. \A i \in 1..n + 1 : \/ result[i].pcb = b
                         \/ \E j \in 1..n : result[i].pcb = timers[j].pcb
  BY <1>1, <1>6, <1>7
<1> QED
  BY <1>5, <1>8, <1>9

\* A fault or a hang leaves the lists and the PCBs as they are.
LEMMA StopKeeps ==
  ASSUME Inv, NEW how, Stop(how)
  PROVE  Sound'
BY DEF Inv, Sound, Stop, lists, family, allocators, call, EachProcessInOnePlace,
       StatusMatchesPlace, FreeStatus, TimersSound, ChildrenSound, FreePcbs, LivePcbs

-----------------------------------------------------------------------------
(* One lemma per action *)

\* internal_spawn and internal_fork move a block from the pool to the ready list.
LEMMA NewProcessKeeps ==
  ASSUME Inv, NEW num \in {"spawn", "fork"}, NEW withContext \in BOOLEAN,
         NewProcess(num, withContext)
  PROVE  Sound'
<1>1. CASE pcb_allocator = <<>> \/ pcb_ptr_allocator = 0
  BY <1>1, StopKeeps DEF NewProcess, Crash
<1>2. CASE pcb_allocator # <<>> /\ pcb_ptr_allocator # 0
  <2> DEFINE new == Head(pcb_allocator)
  <2>1. /\ PCB_alloc("Ready", running)
        /\ children' = [children EXCEPT ![new] = <<>>, ![running] = Append(@, new)]
        /\ ready_list' = Append(ready_list, new)
        /\ Called(num, 0)
        /\ UNCHANGED <<running, waiting_list, zombie_list, timer_list>>
    BY <1>2 DEF NewProcess
  <2>2. StateTyped /\ EachProcessInOnePlace /\ ChildrenSound /\ TimersSound
    BY DEF Inv, Sound
  <2>3. /\ new \in FreePcbs /\ IsInjective(pcb_allocator')
        /\ Range(pcb_allocator') = FreePcbs \ {new}
    BY <1>2, <2>1, <2>2, AllocFacts DEF PCB_alloc
  <2>4. status' = [status EXCEPT ![new] = "Ready"]
    BY <2>1 DEF PCB_alloc, PCB_init
  <2> HIDE DEF new
  <2>5. /\ new \in Pcb /\ running \in Pcb /\ new # running
        /\ new \notin Range(ready_list) \cup waiting_list \cup zombie_list
    BY <2>2, <2>3, ListFacts DEF EachProcessInOnePlace, NewProcess, InUserCode, StateTyped
  <2>6. /\ IsInjective(ready_list')
        /\ Range(ready_list') = Range(ready_list) \cup {new}
    BY <2>1, <2>2, <2>5, AppendElements DEF StateTyped, EachProcessInOnePlace
  <2>7. EachProcessInOnePlace'
    BY <2>1, <2>2, <2>3, <2>5, <2>6 DEF EachProcessInOnePlace, FreePcbs, LivePcbs
  <2>8. (StatusMatchesPlace /\ FreeStatus)'
    BY <2>1, <2>2, <2>3, <2>4, <2>5, <2>6, ListFacts
       DEF Inv, Sound, StatusMatchesPlace, FreeStatus, FreePcbs, StateTyped
  <2>9. TimersSound'
    BY <2>1, <2>2, TimersFrame
  <2>10. ChildrenSound'
    <3>1. /\ children[running] \in Seq(Pcb) /\ IsInjective(children[running])
          /\ new \notin Range(children[running])
      BY <2>2, <2>3, <2>5 DEF StateTyped, ChildrenSound, LivePcbs
    <3>2. /\ IsInjective(Append(children[running], new))
          /\ Range(Append(children[running], new)) = Range(children[running]) \cup {new}
      BY <2>5, <3>1, AppendElements
    <3>3. IsInjective(<<>>) /\ Range(<<>>) = {}
      BY DEF IsInjective, Range
    <3>4. \A b \in Pcb : children'[b] = IF b = new THEN <<>>
                                        ELSE IF b = running THEN Append(children[b], new)
                                        ELSE children[b]
      BY <2>1, <2>2, <2>5 DEF StateTyped
    <3>5. \A b \in Pcb : /\ IsInjective(children'[b])
                         /\ b # running => Range(children'[b]) \subseteq Range(children[b])
      BY <3>2, <3>3, <3>4, <2>2 DEF ChildrenSound
    <3>6. Range(children'[running]) = Range(children[running]) \cup {new}
      BY <2>5, <3>2, <3>4
    <3>7. \A b \in Pcb : new \notin Range(children[b])
      BY <2>2, <2>3 DEF ChildrenSound, LivePcbs
    <3>8. LivePcbs' = LivePcbs \cup {new}
      BY <2>3, <2>5 DEF LivePcbs, FreePcbs
    <3> QED
      BY <2>2, <2>5, <3>5, <3>6, <3>7, <3>8 DEF ChildrenSound
  <2> QED
    BY <2>7, <2>8, <2>9, <2>10 DEF Sound
<1> QED
  BY <1>1, <1>2 DEF Inv, StateTyped

\* The children lists once p has handed its children to init.
LEMMA ChildrenAfterExitFacts ==
  ASSUME Inv, NEW p \in Pcb, p # init_pcb \/ children[p] = <<>>
  PROVE  /\ \A b \in Pcb : /\ ChildrenAfterExit(b, p) \in Seq(Pcb)
                           /\ IsInjective(ChildrenAfterExit(b, p))
                           /\ Range(ChildrenAfterExit(b, p)) \subseteq LivePcbs
         /\ \A b, c \in Pcb : b # c =>
              Range(ChildrenAfterExit(b, p)) \cap Range(ChildrenAfterExit(c, p)) = {}
         /\ \A b \in Pcb : Range(ChildrenAfterExit(b, p)) =
              IF b = p THEN {}
              ELSE IF b = init_pcb THEN Range(children[b]) \cup Range(children[p])
              ELSE Range(children[b])
<1>1. StateTyped /\ ChildrenSound /\ init_pcb \in Pcb /\ \A b \in Pcb : children[b] \in Seq(Pcb)
  BY DEF Inv, Sound, StateTyped
<1>2. <<>> \in Seq(Pcb) /\ IsInjective(<<>>) /\ Range(<<>>) = {}
  BY EmptySeq DEF IsInjective, Range
<1>3. ASSUME init_pcb # p
      PROVE  /\ IsInjective(children[init_pcb] \o children[p])
             /\ Range(children[init_pcb] \o children[p])
                  = Range(children[init_pcb]) \cup Range(children[p])
  <2>1. /\ IsInjective(children[init_pcb]) /\ IsInjective(children[p])
        /\ Range(children[init_pcb]) \cap Range(children[p]) = {}
    BY <1>1, <1>3 DEF ChildrenSound
  <2>2. children[init_pcb] \in Seq(Pcb) /\ children[p] \in Seq(Pcb)
    BY <1>1
  <2> QED
    BY <2>1, <2>2, ConcatElements
<1>4. \A b \in Pcb : ChildrenAfterExit(b, p) \in Seq(Pcb)
  BY <1>1, ChildrenAfterExitType
<1>5. \A b \in Pcb : IsInjective(ChildrenAfterExit(b, p))
  BY <1>1, <1>2, <1>3 DEF ChildrenAfterExit, ChildrenSound
<1>6. \A b \in Pcb : Range(ChildrenAfterExit(b, p)) =
        IF b = p THEN {}
        ELSE IF b = init_pcb THEN Range(children[b]) \cup Range(children[p])
        ELSE Range(children[b])
  BY <1>1, <1>2, <1>3 DEF ChildrenAfterExit
<1> QED
  BY <1>1, <1>4, <1>5, <1>6 DEF ChildrenSound

\* The exit that frees the PCB and wakes the parent: three blocks change place.
LEMMA ExitToWaitingParentKeeps ==
  ASSUME Inv, running \in Pcb, running # init_pcb \/ children[running] = <<>>,
         parent[running] # Null, ParentAwaits(running), ExitToWaitingParent(running)
  PROVE  Sound'
<1> DEFINE waiter == parent[running]
           Left(b) == ChildrenAfterExit(b, running)
<1>1. CASE ~Contains(Left(waiter), running)
  BY <1>1, StopKeeps DEF ExitToWaitingParent, Crash
<1>2. CASE Contains(Left(waiter), running)
  <2>1. /\ StateTyped /\ EachProcessInOnePlace /\ StatusMatchesPlace /\ FreeStatus
        /\ TimersSound /\ ChildrenSound
    BY DEF Inv, Sound
  <2>2. waiter \in Pcb /\ status[waiter] = "Waiting" /\ syscall_num[waiter] = "wait"
    BY <2>1 DEF StateTyped, ParentAwaits
  <2>3. /\ children' = [b \in Pcb |-> IF b = waiter THEN RemoveFirst(Left(b), running)
                                      ELSE Left(b)]
        /\ status' = [status EXCEPT ![running] = "Zombie", ![waiter] = "Running"]
        /\ running' = waiter
        /\ waiting_list' = waiting_list \ {waiter}
        /\ Called("exit", 0) /\ PCB_free(running)
        /\ UNCHANGED <<ready_list, zombie_list, timer_list>>
    BY <1>2 DEF ExitToWaitingParent
  <2> HIDE DEF waiter
  <2>4. running \in LivePcbs
    BY <2>1 DEF EachProcessInOnePlace, LivePcbs
  <2>5. waiter \in waiting_list /\ waiter # running
    BY <2>1, <2>2 DEF EachProcessInOnePlace, StatusMatchesPlace, FreeStatus, LivePcbs, Null, Pcb
  <2>6. IsInjective(pcb_allocator') /\ Range(pcb_allocator') = FreePcbs \cup {running}
    BY <2>1, <2>3, <2>4, FreeFacts
  <2>7. EachProcessInOnePlace'
    BY <2>1, <2>2, <2>3, <2>5, <2>6 DEF EachProcessInOnePlace, FreePcbs, LivePcbs
  <2>8. (StatusMatchesPlace /\ FreeStatus)'
    <3>1. \A b \in Pcb : status'[b] = IF b = waiter THEN "Running"
                                      ELSE IF b = running THEN "Zombie" ELSE status[b]
      BY <2>1, <2>3 DEF StateTyped
    <3>2. /\ running \notin Range(ready_list) \cup waiting_list \cup zombie_list
          /\ waiter \notin Range(ready_list) \cup zombie_list \cup FreePcbs
      BY <2>1, <2>5 DEF EachProcessInOnePlace
    <3>3. waiting_list \subseteq Pcb /\ zombie_list \subseteq Pcb
      BY <2>1 DEF StateTyped
    <3> QED
      BY <2>1, <2>2, <2>3, <2>6, <3>1, <3>2, <3>3, ListFacts
         DEF StatusMatchesPlace, FreeStatus, FreePcbs
  <2>9. TimersSound'
    BY <2>1, <2>2, <2>3, TimersFrame
  <2>10. ChildrenSound'
    <3>1. /\ \A b \in Pcb : /\ Left(b) \in Seq(Pcb) /\ IsInjective(Left(b))
                             /\ Range(Left(b)) \subseteq LivePcbs
          /\ \A b, c \in Pcb : b # c => Range(Left(b)) \cap Range(Left(c)) = {}
      BY ChildrenAfterExitFacts
    <3>2. running \in Range(Left(waiter))
      BY <1>2, <2>2, <3>1, LenProperties DEF Contains, Range, waiter
    <3> HIDE DEF Left
    <3>3. /\ IsInjective(RemoveFirst(Left(waiter), running))
          /\ Range(RemoveFirst(Left(waiter), running)) = Range(Left(waiter)) \ {running}
      BY <2>2, <3>1, RemoveFirstElements
    <3>4. \A b \in Pcb : /\ IsInjective(children'[b])
                         /\ Range(children'[b]) = Range(Left(b)) \ {running}
      BY <2>2, <2>3, <3>1, <3>2, <3>3
    <3>5. LivePcbs' = LivePcbs \ {running}
      BY <2>6 DEF LivePcbs, FreePcbs
    <3> QED
      BY <3>1, <3>4, <3>5 DEF ChildrenSound
  <2> QED
    BY <2>7, <2>8, <2>9, <2>10 DEF Sound
<1> QED
  BY <1>1, <1>2

\* The exit that leaves a zombie: two blocks change place.
LEMMA ExitAsZombieKeeps ==
  ASSUME Inv, running \in Pcb, running # init_pcb \/ children[running] = <<>>,
         ExitAsZombie(running)
  PROVE  Sound'
<1>1. CASE ready_list = <<>>
  BY <1>1, StopKeeps DEF ExitAsZombie, Crash
<1>2. CASE ready_list # <<>>
  <2>1. /\ StateTyped /\ EachProcessInOnePlace /\ StatusMatchesPlace /\ FreeStatus
        /\ TimersSound /\ ChildrenSound
    BY DEF Inv, Sound
  <2>2. /\ children' = [b \in Pcb |-> ChildrenAfterExit(b, running)]
        /\ status' = [status EXCEPT ![running] = "Zombie", ![running'] = "Running"]
        /\ zombie_list' = zombie_list \cup {running}
        /\ DispatchFirstReady
        /\ Called("exit", 0)
        /\ UNCHANGED <<waiting_list, timer_list, pcb_allocator>>
    BY <1>2 DEF ExitAsZombie, DispatchFirstReady, allocators
  <2>3. /\ running' \in Range(ready_list) /\ IsInjective(ready_list')
        /\ Range(ready_list') = Range(ready_list) \ {running'}
    BY <1>2, <2>1, <2>2, DispatchFacts
  <2>4. EachProcessInOnePlace'
    BY <2>1, <2>2, <2>3 DEF EachProcessInOnePlace, FreePcbs, LivePcbs
  <2>5. (StatusMatchesPlace /\ FreeStatus)'
    <3>1. running' \in Pcb
      BY <2>1, <2>3, ListFacts
    <3>2. \A b \in Pcb : status'[b] = IF b = running' THEN "Running"
                                      ELSE IF b = running THEN "Zombie" ELSE status[b]
      BY <2>1, <2>2, <3>1 DEF StateTyped
    <3>3. /\ running \notin Range(ready_list) \cup waiting_list \cup zombie_list \cup FreePcbs
          /\ running' \notin waiting_list \cup zombie_list \cup FreePcbs
      BY <2>1, <2>3 DEF EachProcessInOnePlace
    <3>4. waiting_list \subseteq Pcb /\ zombie_list \subseteq Pcb
      BY <2>1 DEF StateTyped
    <3> QED
      BY <2>1, <2>2, <2>3, <3>1, <3>2, <3>3, <3>4, ListFacts
         DEF StatusMatchesPlace, FreeStatus, FreePcbs
  <2>6. TimersSound'
    BY <2>1, <2>2, TimersFrame
  <2>7. ChildrenSound'
    BY <2>2, ChildrenAfterExitFacts DEF ChildrenSound, LivePcbs, FreePcbs
  <2> QED
    BY <2>4, <2>5, <2>6, <2>7 DEF Sound
<1> QED
  BY <1>1, <1>2

\* internal_exit, in all its branches.
LEMMA ExitKeeps ==
  ASSUME Inv, internal_exit
  PROVE  Sound'
<1>1. running \in Pcb
  BY DEF Inv, StateTyped, internal_exit, InUserCode
<1> QED
  BY <1>1, StopKeeps, ExitToWaitingParentKeeps, ExitAsZombieKeeps
     DEF internal_exit, Crash

\* internal_wait: it reaps a zombie, blocks the caller or reports an error.
LEMMA WaitKeeps ==
  ASSUME Inv, NEW p \in Pid, internal_wait(p)
  PROVE  Sound'
<1> DEFINE kids  == children[running]
           child == AwaitedChild(kids, p)
<1>1. /\ StateTyped /\ EachProcessInOnePlace /\ StatusMatchesPlace /\ FreeStatus
      /\ TimersSound /\ ChildrenSound
  BY DEF Inv, Sound
<1>2. running \in Pcb /\ kids \in Seq(Pcb)
  BY <1>1 DEF internal_wait, InUserCode, StateTyped
<1>3. CASE kids = <<>>
  <2>1. Called("wait", p) /\ UNCHANGED <<running, lists, status, family, allocators>>
    BY <1>3 DEF internal_wait
  <2>2. TimersSound'
    BY <1>1, <2>1, TimersFrame DEF lists
  <2> QED
    BY <1>1, <2>1, <2>2
       DEF lists, family, allocators, Sound, EachProcessInOnePlace, StatusMatchesPlace,
           FreeStatus, ChildrenSound, FreePcbs, LivePcbs
<1>4. CASE kids # <<>> /\ status[child] = "Zombie"
  <2>1. Reap(child) /\ Called("wait", p)
    BY <1>4 DEF internal_wait
  <2>2. child \in Range(kids) /\ child \in LivePcbs /\ child \in Pcb
    <3>1. child \in Range(kids)
      BY <1>2, <1>4, AwaitedChildIsChild
    <3> QED
      BY <1>1, <1>2, <3>1 DEF ChildrenSound, LivePcbs
  <2>3. status[child] = "Zombie"
    BY <1>4
  <2> HIDE DEF child
  <2>4. child \in zombie_list
    BY <1>1, <1>2, <2>2, <2>3 DEF EachProcessInOnePlace, StatusMatchesPlace, LivePcbs, Null, Pcb
  <2>5. /\ children' = [children EXCEPT ![running] = RemoveFirst(@, child)]
        /\ zombie_list' = zombie_list \ {child}
        /\ PCB_free(child)
        /\ UNCHANGED <<running, ready_list, waiting_list, timer_list, status>>
    BY <2>1 DEF Reap
  <2>6. IsInjective(pcb_allocator') /\ Range(pcb_allocator') = FreePcbs \cup {child}
    BY <1>1, <2>2, <2>5, FreeFacts
  <2>7. EachProcessInOnePlace'
    BY <1>1, <2>2, <2>4, <2>5, <2>6 DEF EachProcessInOnePlace, FreePcbs, LivePcbs
  <2>8. (StatusMatchesPlace /\ FreeStatus)'
    BY <1>1, <2>3, <2>5, <2>6 DEF StatusMatchesPlace, FreeStatus, FreePcbs
  <2>9. TimersSound'
    BY <1>1, <2>1, <2>5, TimersFrame
  <2>10. ChildrenSound'
    <3>1. IsInjective(kids)
      BY <1>1, <1>2 DEF ChildrenSound
    <3>2. /\ IsInjective(RemoveFirst(kids, child))
          /\ Range(RemoveFirst(kids, child)) = Range(kids) \ {child}
      BY <1>2, <3>1, RemoveFirstElements
    <3>3. \A b \in Pcb : children'[b] = IF b = running THEN RemoveFirst(kids, child)
                                        ELSE children[b]
      BY <1>1, <1>2, <2>5 DEF StateTyped
    <3>4. \A b \in Pcb : b # running => child \notin Range(children[b])
      BY <1>1, <1>2, <2>2 DEF ChildrenSound
    <3>5. \A b \in Pcb : /\ IsInjective(children'[b])
                         /\ Range(children'[b]) = Range(children[b]) \ {child}
      BY <1>1, <3>2, <3>3, <3>4 DEF ChildrenSound
    <3>6. LivePcbs' = LivePcbs \ {child}
      BY <2>6 DEF LivePcbs, FreePcbs
    <3> QED
      BY <1>1, <3>5, <3>6 DEF ChildrenSound
  <2> QED
    BY <2>7, <2>8, <2>9, <2>10 DEF Sound
<1>5. CASE kids # <<>> /\ status[child] # "Zombie" /\ ready_list = <<>>
  BY <1>5, StopKeeps DEF internal_wait, Crash
<1>6. CASE kids # <<>> /\ status[child] # "Zombie" /\ ready_list # <<>>
  <2>1. BlockInWait /\ Called("wait", p)
    BY <1>6 DEF internal_wait
  <2>2. /\ status' = [status EXCEPT ![running] = "Waiting"]
        /\ waiting_list' = waiting_list \cup {running}
        /\ DispatchFirstReady
        /\ UNCHANGED <<zombie_list, timer_list, children, pcb_allocator>>
    BY <2>1 DEF BlockInWait, family, allocators
  <2>3. /\ running' \in Range(ready_list) /\ IsInjective(ready_list')
        /\ Range(ready_list') = Range(ready_list) \ {running'}
    BY <1>1, <1>6, <2>2, DispatchFacts
  <2>4. EachProcessInOnePlace' /\ (StatusMatchesPlace /\ FreeStatus)'
    BY <1>1, <1>2, <2>2, <2>3, ParkedPlaces
  <2>5. TimersSound'
    BY <1>1, <2>1, <2>2, TimersFrame
  <2>6. ChildrenSound'
    BY <1>1, <2>2 DEF ChildrenSound, LivePcbs, FreePcbs
  <2> QED
    BY <2>4, <2>5, <2>6 DEF Sound
<1> QED
  BY <1>3, <1>4, <1>5, <1>6

\* A call other than wait blocks the caller, with a timer.
LEMMA ParkKeeps ==
  ASSUME Inv, running \in Pcb, NEW cycles \in Int, ParkOnTimer(cycles),
         NEW num, num # "wait", Called(num, 0)
  PROVE  Sound'
<1>1. /\ StateTyped /\ EachProcessInOnePlace /\ StatusMatchesPlace /\ FreeStatus
      /\ TimersSound /\ ChildrenSound
  BY DEF Inv, Sound
<1>2. /\ timer_list' = TimerList_add(timer_list, cycles, running)
      /\ status' = [status EXCEPT ![running] = "Waiting"]
      /\ waiting_list' = waiting_list \cup {running}
      /\ UNCHANGED <<zombie_list, children, pcb_allocator>>
  BY DEF ParkOnTimer, family, allocators
<1>3. EachProcessInOnePlace' /\ (StatusMatchesPlace /\ FreeStatus)'
  <2>1. CASE ready_list = <<>>
    <3>1. running' = Null /\ ready_list' = ready_list
      BY <2>1 DEF ParkOnTimer
    <3> QED
      BY <1>1, <1>2, <3>1, ParkedPlacesIdle
  <2>2. CASE ready_list # <<>>
    <3>1. DispatchFirstReady
      BY <2>2 DEF ParkOnTimer
    <3>2. /\ running' \in Range(ready_list) /\ IsInjective(ready_list')
          /\ Range(ready_list') = Range(ready_list) \ {running'}
      BY <1>1, <2>2, <3>1, DispatchFacts
    <3> QED
      BY <1>1, <1>2, <3>2, ParkedPlaces
  <2> QED
    BY <2>1, <2>2
<1>4. TimersSound'
  <2>1. timer_list \in Timers
    BY <1>1 DEF StateTyped, Timers, Item
  <2>2. \A i \in 1..Len(timer_list) : timer_list[i].pcb # running
    BY <1>1 DEF TimersSound, EachProcessInOnePlace
  <2>3. /\ \A i, j \in 1..Len(timer_list') : timer_list'[i].pcb = timer_list'[j].pcb => i = j
        /\ \A i \in 1..Len(timer_list') :
             \/ timer_list'[i].pcb = running
             \/ \E j \in 1..Len(timer_list) : timer_list'[i].pcb = timer_list[j].pcb
    BY <1>1, <1>2, <2>1, <2>2, TimerList_addPcbs DEF TimersSound
  <2>4. \A w \in waiting_list : syscall_num'[w] = syscall_num[w]
    BY <1>1, <1>2 DEF Called, StateTyped, EachProcessInOnePlace
  <2>5. syscall_num'[running] # "wait"
    BY <1>1, <1>2 DEF Called, StateTyped
  <2> QED
    BY <1>1, <1>2, <2>3, <2>4, <2>5 DEF TimersSound
<1>5. ChildrenSound'
  BY <1>1, <1>2 DEF ChildrenSound, LivePcbs, FreePcbs
<1> QED
  BY <1>3, <1>4, <1>5 DEF Sound

LEMMA SleepKeeps ==
  ASSUME Inv, NEW cycles \in SleepTimes, internal_sleep(cycles)
  PROVE  Sound'
<1>1. running \in Pcb /\ cycles \in Int
  BY ProcessesAssumption DEF internal_sleep, InUserCode, Inv, StateTyped
<1> QED
  BY <1>1, ParkKeeps DEF internal_sleep

\* A scheduling pass.  The timers are those of the timer list, a tick nearer or not.
LEMMA ScheduleKeeps ==
  ASSUME Inv, running \in Pcb, NEW timers \in Timers, internal_schedule(timers),
         Len(timers) = Len(timer_list),
         \A i \in 1..Len(timers) : timers[i].pcb = timer_list[i].pcb,
         NEW num, NEW arg, Called(num, arg) \/ UNCHANGED call
  PROVE  Sound'
<1> DEFINE n     == ElapsedTimers(timers)
           woken == [i \in 1..n |-> timers[i].pcb]
           ready == woken \o ready_list
           rest  == SubSeq(timers, n + 1, Len(timers))
<1>1. /\ StateTyped /\ EachProcessInOnePlace /\ StatusMatchesPlace /\ FreeStatus
      /\ TimersSound /\ ChildrenSound
  BY DEF Inv, Sound
<1>2. /\ n \in 0..Len(timers) /\ Len(timers) \in Nat
      /\ woken \in Seq(Pcb) /\ rest \in Timers /\ ready_list \in Seq(Pcb)
  BY <1>1, WokenType DEF StateTyped
<1>3. /\ timer_list' = rest
      /\ waiting_list' = waiting_list \ Range(woken)
      /\ UNCHANGED <<zombie_list, children, pcb_allocator>>
  BY DEF internal_schedule, family, allocators
<1>4. /\ \A i \in 1..Len(timers) : timers[i].pcb \in waiting_list
      /\ \A i, j \in 1..Len(timers) : timers[i].pcb = timers[j].pcb => i = j
  BY <1>1 DEF TimersSound
<1>5. /\ DOMAIN woken = 1..n /\ \A i \in 1..n : i \in 1..Len(timers)
      /\ \A i \in 1..n : woken[i] = timers[i].pcb
  BY <1>2
<1>6. IsInjective(woken) /\ Range(woken) \subseteq waiting_list
  BY <1>4, <1>5 DEF IsInjective, Range
<1>7. \A w \in waiting_list : syscall_num'[w] = syscall_num[w]
  BY <1>1 DEF Called, call, StateTyped, EachProcessInOnePlace
<1>8. TimersSound'
  <2>1. /\ Len(rest) = Len(timers) - n
        /\ \A i \in 1..Len(timers) - n : rest[i] = timers[n + i]
    <3>1. \A i \in n + 1..Len(timers) : timers[i] \in Item
      BY <1>2, ElementOfSeq DEF Timers
    <3>2. /\ Len(rest) = IF n + 1 <= Len(timers) THEN Len(timers) - (n + 1) + 1 ELSE 0
          /\ \A i \in 1..Len(timers) - (n + 1) + 1 : rest[i] = timers[n + 1 + i - 1]
      <4>1. n + 1 \in Int /\ Len(timers) \in Int
        BY <1>2
      <4> HIDE DEF n
      <4> QED
        BY <3>1, <4>1, SubSeqProperties
    <3> HIDE DEF rest, n
    <3> QED
      BY <1>2, <3>2
  <2> HIDE DEF rest
  <2>2. \A i \in 1..Len(rest) : /\ n + i \in 1..Len(timers) /\ n + i \notin 1..n
                                /\ rest[i].pcb = timers[n + i].pcb
    BY <1>2, <2>1
  <2>3. \A i, j \in 1..Len(rest) : rest[i].pcb = rest[j].pcb => i = j
    <3> HIDE DEF n
    <3> QED
      BY <1>2, <1>4, <2>2
  <2>4. \A i \in 1..Len(rest) : rest[i].pcb \notin Range(woken)
    BY <1>4, <1>5, <2>2 DEF Range
  <2>5. \A i \in 1..Len(rest) : /\ rest[i].pcb \in waiting_list
                                /\ syscall_num[rest[i].pcb] # "wait"
    BY <1>1, <2>2 DEF TimersSound
  <2> HIDE DEF woken
  <2> QED
    BY <1>3, <1>7, <2>3, <2>4, <2>5 DEF TimersSound
<1>9. /\ ready \in Seq(Pcb) /\ IsInjective(ready)
      /\ Range(ready) = Range(woken) \cup Range(ready_list)
  <2>1. IsInjective(ready_list) /\ Range(woken) \cap Range(ready_list) = {}
    BY <1>1, <1>6 DEF EachProcessInOnePlace
  <2> HIDE DEF woken
  <2> QED
    BY <1>2, <1>6, <2>1, ConcatElements, ConcatProperties
<1>10. EachProcessInOnePlace' /\ (StatusMatchesPlace /\ FreeStatus)'
  <2>1. CASE ready = <<>>
    <3>1. UNCHANGED <<running, ready_list, status>>
      BY <2>1 DEF internal_schedule
    <3> HIDE DEF woken, ready
    <3>2. Range(ready) = {}
      <4>1. \A s : s = <<>> => Range(s) = {}
        BY DEF Range
      <4> QED
        BY <2>1, <4>1
    <3>3. waiting_list' = waiting_list
      BY <1>3, <1>9, <3>2
    <3> QED
      BY <1>1, <1>3, <3>1, <3>3
         DEF EachProcessInOnePlace, StatusMatchesPlace, FreeStatus, FreePcbs, LivePcbs
  <2>2. CASE ready # <<>>
    <3>1. /\ running' = Head(ready)
          /\ ready_list' = Append(Tail(ready), running)
          /\ status' = [b \in Pcb |->
                          IF b = Head(ready) THEN "Running"
                          ELSE IF b \in Range(woken) \cup {running} THEN "Ready"
                          ELSE status[b]]
      BY <2>2 DEF internal_schedule, ReadyAfterPreemption
    <3> HIDE DEF woken, ready
    <3>2. /\ Head(ready) \in Range(ready)
          /\ Range(ready) = Range(Tail(ready)) \cup {Head(ready)}
          /\ IsInjective(Tail(ready)) /\ Head(ready) \notin Range(Tail(ready))
          /\ Tail(ready) \in Seq(Pcb)
      BY <1>9, <2>2, TailElements, HeadTailProperties
    <3>3. running \notin Range(ready)
      BY <1>1, <1>6, <1>9 DEF EachProcessInOnePlace
    <3>4. /\ IsInjective(ready_list')
          /\ Range(ready_list') = Range(Tail(ready)) \cup {running}
      <4>1. running \notin Range(Tail(ready))
        BY <3>2, <3>3
      <4>2. \A t \in Seq(Pcb) : IsInjective(t) /\ running \notin Range(t) =>
              IsInjective(Append(t, running)) /\ Range(Append(t, running)) = Range(t) \cup {running}
        BY AppendElements
      <4> QED
        BY <3>1, <3>2, <4>1, <4>2
    <3>5. /\ Range(ready) \cap (zombie_list \cup FreePcbs) = {}
          /\ running \notin waiting_list \cup zombie_list \cup FreePcbs
      BY <1>1, <1>6, <1>9 DEF EachProcessInOnePlace
    <3>6. EachProcessInOnePlace'
      BY <1>1, <1>3, <1>6, <1>9, <3>1, <3>2, <3>3, <3>4, <3>5
         DEF EachProcessInOnePlace, FreePcbs, LivePcbs
    <3>7. /\ waiting_list \subseteq Pcb /\ zombie_list \subseteq Pcb
          /\ Range(ready_list) \subseteq Pcb /\ FreePcbs \subseteq Pcb
      BY <1>1, ListFacts DEF StateTyped
    <3>8. (StatusMatchesPlace /\ FreeStatus)'
      BY <1>1, <1>3, <1>6, <1>9, <3>1, <3>2, <3>3, <3>4, <3>5, <3>7
         DEF StatusMatchesPlace, FreeStatus, FreePcbs
    <3> QED
      BY <3>6, <3>8
  <2> QED
    BY <2>1, <2>2
<1>11. ChildrenSound'
  BY <1>1, <1>3 DEF ChildrenSound, LivePcbs, FreePcbs
<1> QED
  BY <1>8, <1>10, <1>11 DEF Sound

\* internal_preempt is a scheduling pass that ends no timer early.
LEMMA PreemptKeeps ==
  ASSUME Inv, internal_preempt
  PROVE  Sound'
<1>1. running \in Pcb /\ timer_list \in Timers
  BY DEF Inv, StateTyped, Timers, Item, internal_preempt, InUserCode
<1>2. internal_schedule(timer_list) /\ Called("preempt", 0)
  BY DEF internal_preempt
<1> QED
  BY <1>1, <1>2, ScheduleKeeps

\* timerInterrupt is a tick and a scheduling pass.
LEMMA TimerKeeps ==
  ASSUME Inv, timerInterrupt
  PROVE  Sound'
<1> DEFINE timers == [i \in DOMAIN timer_list |-> [timer_list[i] EXCEPT !.left = @ - 1]]
<1>1. CASE running = Null
  BY <1>1, StopKeeps DEF timerInterrupt, Crash
<1>2. CASE running # Null
  <2>1. running \in Pcb /\ StateTyped
    BY <1>2 DEF Inv, StateTyped
  <2>2. /\ Len(timer_list) \in Nat /\ DOMAIN timer_list = 1..Len(timer_list)
        /\ \A i \in 1..Len(timer_list) : timer_list[i] \in Item
    BY <2>1, ListFacts
  <2>3. \A i \in 1..Len(timer_list) : [timer_list[i] EXCEPT !.left = @ - 1] \in Item
    BY <2>2 DEF Item
  <2>4. timers \in Timers /\ Len(timers) = Len(timer_list)
    BY <2>2, <2>3 DEF Timers
  <2>5. \A i \in 1..Len(timers) : timers[i].pcb = timer_list[i].pcb
    BY <2>2, <2>4 DEF Item
  <2>6. internal_schedule(timers) /\ UNCHANGED call
    BY <1>2 DEF timerInterrupt
  <2> HIDE DEF timers
  <2> QED
    BY <2>1, <2>4, <2>5, <2>6, ScheduleKeeps
<1> QED
  BY <1>1, <1>2

\* A call that answers its caller at once moves no block.
LEMMA AnswerKeeps ==
  ASSUME Inv, NEW num, NEW arg, Called(num, arg),
         UNCHANGED <<running, lists, status, family, allocators>>
  PROVE  Sound'
<1>1. /\ StateTyped /\ EachProcessInOnePlace /\ StatusMatchesPlace /\ FreeStatus
      /\ TimersSound /\ ChildrenSound
  BY DEF Inv, Sound
<1>2. TimersSound'
  BY <1>1, TimersFrame DEF lists
<1> QED
  BY <1>1, <1>2
     DEF lists, family, allocators, Sound, EachProcessInOnePlace, StatusMatchesPlace,
         FreeStatus, ChildrenSound, FreePcbs, LivePcbs

LEMMA ShutdownKeeps ==
  ASSUME Inv, internal_shutdown
  PROVE  Sound'
  BY AnswerKeeps DEF internal_shutdown

\* RestartFromMain takes a block from the pool for a second init.
LEMMA RestartKeeps ==
  ASSUME Inv, RestartFromMain
  PROVE  Sound'
<1>1. CASE pcb_allocator = <<>>
  BY <1>1, StopKeeps DEF RestartFromMain, Crash
<1>2. CASE pcb_allocator # <<>>
  <2> DEFINE new == Head(pcb_allocator)
  <2>1. /\ PCB_alloc("Running", Null) /\ running = Null /\ running' = new
        /\ children' = [children EXCEPT ![new] = <<>>]
        /\ UNCHANGED <<ready_list, waiting_list, zombie_list, timer_list, call>>
    BY <1>2 DEF RestartFromMain, lists
  <2>2. /\ StateTyped /\ EachProcessInOnePlace /\ StatusMatchesPlace /\ FreeStatus
        /\ TimersSound /\ ChildrenSound
    BY DEF Inv, Sound
  <2>3. /\ new \in FreePcbs /\ IsInjective(pcb_allocator')
        /\ Range(pcb_allocator') = FreePcbs \ {new}
    BY <1>2, <2>1, <2>2, AllocFacts DEF PCB_alloc
  <2>4. status' = [status EXCEPT ![new] = "Running"]
    BY <2>1 DEF PCB_alloc, PCB_init
  <2> HIDE DEF new
  <2>5. /\ new \in Pcb /\ Null \notin Pcb
        /\ new \notin Range(ready_list) \cup waiting_list \cup zombie_list
        /\ waiting_list \subseteq Pcb /\ zombie_list \subseteq Pcb
        /\ Range(ready_list) \subseteq Pcb /\ FreePcbs \subseteq Pcb
    BY <2>2, <2>3, ListFacts DEF EachProcessInOnePlace, StateTyped
  <2>6. EachProcessInOnePlace'
    BY <2>1, <2>2, <2>3, <2>5 DEF EachProcessInOnePlace, FreePcbs, LivePcbs
  <2>7. \A b \in Pcb : status'[b] = IF b = new THEN "Running" ELSE status[b]
    BY <2>2, <2>4 DEF StateTyped
  <2>8. (StatusMatchesPlace /\ FreeStatus)'
    BY <2>1, <2>2, <2>3, <2>5, <2>7 DEF StatusMatchesPlace, FreeStatus, FreePcbs
  <2>9. TimersSound'
    BY <2>1, <2>2 DEF TimersSound, call
  <2>10. ChildrenSound'
    <3>1. IsInjective(<<>>) /\ Range(<<>>) = {}
      BY DEF IsInjective, Range
    <3>2. \A b \in Pcb : children'[b] = IF b = new THEN <<>> ELSE children[b]
      BY <2>1, <2>2 DEF StateTyped
    <3>3. \A b \in Pcb : /\ IsInjective(children'[b])
                         /\ Range(children'[b]) \subseteq Range(children[b])
      BY <2>2, <3>1, <3>2 DEF ChildrenSound
    <3>4. LivePcbs' = LivePcbs \cup {new}
      BY <2>3, <2>5 DEF LivePcbs, FreePcbs
    <3> QED
      BY <2>2, <3>3, <3>4 DEF ChildrenSound
  <2> QED
    BY <2>6, <2>8, <2>9, <2>10 DEF Sound
<1> QED
  BY <1>1, <1>2

-----------------------------------------------------------------------------
(* The theorem *)

\* The invariant holds when init has been created.
LEMMA InvInit == Init => Inv
<1> SUFFICES ASSUME Init PROVE Sound
  BY TypeInit DEF Inv
<1>1. StateTyped /\ MAX_NUM_PROCESSES \in Nat \ {0}
  BY TypeInit, ProcessesAssumption
<1>2. IsInjective(<<>>) /\ Range(<<>>) = {}
  BY DEF IsInjective, Range
<1>3. /\ DOMAIN pcb_allocator = 1..MAX_NUM_PROCESSES - 1
      /\ \A i \in 1..MAX_NUM_PROCESSES - 1 : pcb_allocator[i] = i + 1
  BY DEF Init
<1>4. IsInjective(pcb_allocator) /\ FreePcbs = 2..MAX_NUM_PROCESSES
  <2>1. \A b \in 2..MAX_NUM_PROCESSES : b - 1 \in DOMAIN pcb_allocator /\ pcb_allocator[b - 1] = b
    BY <1>1, <1>3
  <2>2. 2..MAX_NUM_PROCESSES \subseteq FreePcbs
    BY <2>1 DEF FreePcbs, Range
  <2>3. FreePcbs \subseteq 2..MAX_NUM_PROCESSES
    BY <1>1, <1>3 DEF FreePcbs, Range
  <2>4. IsInjective(pcb_allocator)
    BY <1>1, <1>3 DEF IsInjective
  <2> QED
    BY <2>2, <2>3, <2>4
<1>5. LivePcbs = {1} /\ FreePcbs \subseteq Pcb /\ 1 \notin FreePcbs
  BY <1>1, <1>4 DEF LivePcbs, Pcb
<1>6. EachProcessInOnePlace
  BY <1>2, <1>4, <1>5 DEF Init, EachProcessInOnePlace
<1>7. StatusMatchesPlace /\ FreeStatus
  BY <1>1, <1>2, <1>5 DEF Init, StatusMatchesPlace, FreeStatus, Pcb
<1>8. TimersSound
  BY DEF Init, TimersSound
<1>9. ChildrenSound
  BY <1>2 DEF Init, ChildrenSound
<1> QED
  BY <1>6, <1>7, <1>8, <1>9 DEF Sound

\* Every step keeps the invariant: one case per action.
LEMMA InvStep == Inv /\ [Next]_vars => Inv'
<1> SUFFICES ASSUME Inv, [Next]_vars PROVE Sound'
  BY TypeStep DEF Inv
<1>1. CASE UNCHANGED vars
  BY <1>1 DEF vars, lists, family, allocators, call, Inv, Sound, EachProcessInOnePlace,
              StatusMatchesPlace, FreeStatus, TimersSound, ChildrenSound, FreePcbs, LivePcbs
<1>2. CASE internal_spawn \/ internal_fork
  BY <1>2, NewProcessKeeps DEF internal_spawn, internal_fork
<1>3. CASE ResumeWithoutContext
  BY <1>3, StopKeeps DEF ResumeWithoutContext, Crash
<1>4. CASE Next
  BY <1>2, <1>3, <1>4, ExitKeeps, WaitKeeps, SleepKeeps, PreemptKeeps, ShutdownKeeps,
     TimerKeeps, RestartKeeps DEF Next
<1> QED
  BY <1>1, <1>4

\* The invariant holds in every reachable state.
LEMMA InvHolds == Spec => []Inv
BY InvInit, InvStep, PTL DEF Spec

\* Every PCB block runs, is in one of the three lists, or is free: in exactly one
\* of these places and once, in every state the machine can reach.
THEOREM PlacementCorrect == Spec => []EachProcessInOnePlace
<1>1. Inv => EachProcessInOnePlace
  BY DEF Inv, Sound
<1> QED
  BY <1>1, InvHolds, PTL

\* The status in a PCB tells in which of these places it is.
THEOREM StatusCorrect == Spec => []StatusMatchesPlace
<1>1. Inv => StatusMatchesPlace
  BY DEF Inv, Sound
<1> QED
  BY <1>1, InvHolds, PTL

-----------------------------------------------------------------------------
(* Timers and blocked processes *)

Ordered(timers) ==
  \A i, j \in 1..Len(timers) : i < j => timers[i].left <= timers[j].left

Pending(timers) == \A i \in 1..Len(timers) : timers[i].left >= 0

\* The processes named by the timers of result are those of timers, and b.
Adds(result, timers, b) ==
  /\ \E i \in 1..Len(result) : result[i].pcb = b
  /\ \A j \in 1..Len(timers) : \E i \in 1..Len(result) : result[i].pcb = timers[j].pcb

Covered ==
  \A w \in waiting_list : syscall_num[w] # "wait" =>
    \E i \in 1..Len(timer_list) : timer_list[i].pcb = w

TimersInv == Ordered(timer_list) /\ Pending(timer_list) /\ Covered

-----------------------------------------------------------------------------
(* The list operations *)

LEMMA LeftIsInt ==
  ASSUME NEW timers \in Timers
  PROVE  Len(timers) \in Nat /\ \A i \in 1..Len(timers) : timers[i].left \in Int
<1>1. \A i \in 1..Len(timers) : timers[i] \in Item
  BY ElementOfSeq DEF Timers
<1> QED
  BY <1>1, LenProperties DEF Timers, Item

\* An insertion keeps the order, and every timer that was there.
LEMMA InsertionOrdered ==
  ASSUME NEW timers \in Timers, NEW left \in Nat, NEW b \in Pcb,
         Ordered(timers), Pending(timers),
         NEW result, result = TimerList_add(timers, left, b)
  PROVE  Ordered(result) /\ Pending(result) /\ Adds(result, timers, b)
<1> DEFINE item == [pcb |-> b, left |-> left]
           n == Len(timers)
<1>1. n \in Nat /\ \A i \in 1..n : timers[i].left \in Int
  BY LeftIsInt
<1>2. PICK k \in 1..n + 1 : InsertedAt(k, timers, item, result)
  BY TimerList_addShape
<1>3. item.left = left /\ item.pcb = b
  OBVIOUS
<1> HIDE DEF item
<1>4. /\ Len(result) = n + 1
      /\ \A i \in 1..n + 1 : result[i] = IF i < k THEN timers[i]
                                         ELSE IF i = k THEN item ELSE timers[i - 1]
      /\ \A i \in 1..n : i < k => timers[i].left <= left
      /\ k \in 1..n => left < timers[k].left
  BY <1>2, <1>3 DEF InsertedAt
<1>5. \A i \in 1..n : ~(i < k) => left <= timers[i].left
  <2> SUFFICES ASSUME NEW i \in 1..n, ~(i < k) PROVE left <= timers[i].left
    OBVIOUS
  <2>1. k \in 1..n /\ (k = i \/ k < i)
    BY <1>1
  <2>2. timers[k].left <= timers[i].left
    BY <1>1, <2>1 DEF Ordered
  <2> QED
    BY <1>1, <1>4, <2>1, <2>2
<1>6. Ordered(result)
  <2> SUFFICES ASSUME NEW i \in 1..n + 1, NEW j \in 1..n + 1, i < j
               PROVE  result[i].left <= result[j].left
    BY <1>4 DEF Ordered
  <2>1. CASE j < k
    <3>1. i \in 1..n /\ j \in 1..n /\ result[i] = timers[i] /\ result[j] = timers[j]
      BY <1>1, <1>4, <2>1
    <3> QED
      BY <3>1 DEF Ordered
  <2>2. CASE j = k
    <3>1. i \in 1..n /\ result[i] = timers[i] /\ result[j] = item
      BY <1>1, <1>4, <2>2
    <3> QED
      BY <1>3, <1>4, <2>2, <3>1
  <2>3. CASE k < j
    <3>1. j - 1 \in 1..n /\ result[j] = timers[j - 1] /\ ~(j - 1 < k)
      BY <1>1, <1>4, <2>3
    <3>2. CASE i < k
      <4>1. i \in 1..n /\ result[i] = timers[i] /\ i < j - 1
        BY <1>1, <1>4, <2>3, <3>2
      <4> QED
        BY <3>1, <4>1 DEF Ordered
    <3>3. CASE i = k
      BY <1>3, <1>4, <1>5, <3>1, <3>3
    <3>4. CASE k < i
      <4>1. i - 1 \in 1..n /\ result[i] = timers[i - 1] /\ i - 1 < j - 1
        BY <1>1, <1>4, <3>4
      <4> QED
        BY <3>1, <4>1 DEF Ordered
    <3> QED
      BY <3>2, <3>3, <3>4
  <2> QED
    BY <2>1, <2>2, <2>3
<1>7. \A j \in 1..n : \E i \in 1..n + 1 : result[i] = timers[j]
  <2> SUFFICES ASSUME NEW j \in 1..n PROVE \E i \in 1..n + 1 : result[i] = timers[j]
    OBVIOUS
  <2>1. CASE j < k
    BY <1>1, <1>4, <2>1
  <2>2. CASE ~(j < k)
    <3>1. j + 1 \in 1..n + 1 /\ ~(j + 1 < k) /\ j + 1 # k /\ (j + 1) - 1 = j
      BY <1>1, <2>2
    <3>2. result[j + 1] = timers[j]
      BY <1>4, <3>1
    <3> QED
      BY <3>1, <3>2
  <2> QED
    BY <2>1, <2>2
<1>8. \A i \in 1..n + 1 : result[i] = item \/ \E j \in 1..n : result[i] = timers[j]
  <2> SUFFICES ASSUME NEW i \in 1..n + 1
               PROVE  result[i] = item \/ \E j \in 1..n : result[i] = timers[j]
    OBVIOUS
  <2>1. CASE i < k
    BY <1>1, <1>4, <2>1
  <2>2. CASE i = k
    BY <1>4, <2>2
  <2>3. CASE k < i
    <3>1. i - 1 \in 1..n /\ result[i] = timers[i - 1]
      BY <1>1, <1>4, <2>3
    <3> QED
      BY <3>1
  <2> QED
    BY <2>1, <2>2, <2>3
<1>9. Pending(result)
  BY <1>3, <1>4, <1>8 DEF Pending
<1>10. result[k] = item
  BY <1>4
<1> QED
  BY <1>3, <1>4, <1>6, <1>7, <1>9, <1>10 DEF Adds

\* The pass over timers in order stops before the first that has not elapsed.
LEMMA RestIsLater ==
  ASSUME NEW timers \in Timers, Ordered(timers), NEW n, n = ElapsedTimers(timers)
  PROVE  \A i \in 1..Len(timers) : n < i => timers[i].left > 0
<1> DEFINE I == {i \in 1..Len(timers) : timers[i].left > 0}
           pending == IF I # {} THEN Min(I) ELSE 0
<1>1. Len(timers) \in Nat /\ \A i \in 1..Len(timers) : timers[i].left \in Int
  BY LeftIsInt
<1>2. n = IF pending = 0 THEN Len(timers) ELSE pending - 1
  BY DEF ElapsedTimers, SelectInSeq
<1>3. I \subseteq 1..Len(timers)
  OBVIOUS
<1> HIDE DEF I
<1>4. /\ pending \in 0..Len(timers)
      /\ pending # 0 => pending \in I
  BY <1>1, <1>3, FirstIndex
<1> HIDE DEF pending
<1>5. CASE pending = 0
  BY <1>1, <1>2, <1>5
<1>6. CASE pending # 0
  <2>1. pending \in 1..Len(timers) /\ timers[pending].left > 0 /\ n = pending - 1
    BY <1>2, <1>4, <1>6 DEF I
  <2> SUFFICES ASSUME NEW i \in 1..Len(timers), n < i PROVE timers[i].left > 0
    OBVIOUS
  <2>2. i = pending \/ pending < i
    BY <1>1, <2>1
  <2>3. timers[pending].left <= timers[i].left
    BY <1>1, <2>1, <2>2 DEF Ordered
  <2> QED
    BY <1>1, <2>1, <2>3
<1> QED
  BY <1>5, <1>6

\* What is left of the timers after the pass.
LEMMA RestFacts ==
  ASSUME NEW timers \in Timers, NEW n \in 0..Len(timers),
         NEW rest, rest = SubSeq(timers, n + 1, Len(timers))
  PROVE  /\ Len(rest) = Len(timers) - n
         /\ \A i \in 1..Len(timers) - n : n + i \in 1..Len(timers) /\ rest[i] = timers[n + i]
<1>1. Len(timers) \in Nat /\ n + 1 \in Int /\ Len(timers) \in Int
  BY LeftIsInt
<1>2. \A i \in n + 1..Len(timers) : timers[i] \in Item
  BY <1>1, ElementOfSeq DEF Timers
<1>3. /\ Len(rest) = IF n + 1 <= Len(timers) THEN Len(timers) - (n + 1) + 1 ELSE 0
      /\ \A i \in 1..Len(timers) - (n + 1) + 1 : rest[i] = timers[n + 1 + i - 1]
  BY <1>1, <1>2, SubSeqProperties
<1> QED
  BY <1>1, <1>3

-----------------------------------------------------------------------------
(* The steps *)

\* A call that leaves the timers alone and blocks nobody but, in a wait, its caller.
LEMMA FrameOrdered ==
  ASSUME Inv, TimersInv, UNCHANGED timer_list,
         NEW num, NEW arg, Called(num, arg) \/ UNCHANGED call,
         \/ waiting_list' \subseteq waiting_list
         \/ /\ running \in Pcb /\ Called("wait", arg)
            /\ waiting_list' = waiting_list \cup {running}
  PROVE  TimersInv'
<1>1. StateTyped /\ EachProcessInOnePlace
  BY DEF Inv, Sound
<1>2. \A w \in waiting_list : syscall_num'[w] = syscall_num[w]
  BY <1>1 DEF Called, call, StateTyped, EachProcessInOnePlace
<1>3. \A w \in waiting_list' : w \in waiting_list \/ syscall_num'[w] = "wait"
  BY <1>1 DEF Called, StateTyped
<1>4. Covered'
  <2> SUFFICES ASSUME NEW w \in waiting_list', syscall_num'[w] # "wait"
               PROVE  \E i \in 1..Len(timer_list) : timer_list[i].pcb = w
    BY DEF Covered
  <2>1. w \in waiting_list /\ syscall_num[w] # "wait"
    BY <1>2, <1>3
  <2> QED
    BY <2>1 DEF TimersInv, Covered
<1> QED
  BY <1>4 DEF TimersInv, Ordered, Pending

LEMMA ParkOrdered ==
  ASSUME Inv, TimersInv, running \in Pcb, NEW cycles \in Nat, ParkOnTimer(cycles),
         NEW num, Called(num, 0)
  PROVE  TimersInv'
<1>1. StateTyped /\ EachProcessInOnePlace
  BY DEF Inv, Sound
<1>2. timer_list \in Timers
  BY <1>1 DEF StateTyped, Timers, Item
<1>3. /\ timer_list' = TimerList_add(timer_list, cycles, running)
      /\ waiting_list' = waiting_list \cup {running}
  BY DEF ParkOnTimer
<1>4. Ordered(timer_list') /\ Pending(timer_list') /\ Adds(timer_list', timer_list, running)
  BY <1>2, <1>3, InsertionOrdered DEF TimersInv
<1>5. \A w \in waiting_list : syscall_num'[w] = syscall_num[w]
  BY <1>1, <1>3 DEF Called, StateTyped, EachProcessInOnePlace
<1>6. Covered'
  <2> SUFFICES ASSUME NEW w \in waiting_list', syscall_num'[w] # "wait"
               PROVE  \E i \in 1..Len(timer_list') : timer_list'[i].pcb = w
    BY DEF Covered
  <2>1. CASE w = running
    BY <1>4, <2>1 DEF Adds
  <2>2. CASE w \in waiting_list
    <3>1. PICK j \in 1..Len(timer_list) : timer_list[j].pcb = w
      BY <1>5, <2>2 DEF TimersInv, Covered
    <3> QED
      BY <1>4, <3>1 DEF Adds
  <2> QED
    BY <1>3, <2>1, <2>2
<1> QED
  BY <1>4, <1>6 DEF TimersInv

LEMMA SleepOrdered ==
  ASSUME Inv, TimersInv, NEW cycles \in SleepTimes, internal_sleep(cycles)
  PROVE  TimersInv'
<1>1. running \in Pcb /\ cycles \in Nat
  BY ProcessesAssumption DEF internal_sleep, InUserCode, Inv, StateTyped
<1> QED
  BY <1>1, ParkOrdered DEF internal_sleep

\* A scheduling pass, over timers that are a tick nearer or not.
LEMMA ScheduleOrdered ==
  ASSUME Inv, TimersInv, NEW timers \in Timers, internal_schedule(timers),
         Ordered(timers), Len(timers) = Len(timer_list),
         \A i \in 1..Len(timers) : timers[i].pcb = timer_list[i].pcb,
         NEW num, NEW arg, Called(num, arg) \/ UNCHANGED call
  PROVE  TimersInv'
<1> DEFINE n     == ElapsedTimers(timers)
           woken == [i \in 1..n |-> timers[i].pcb]
           rest  == SubSeq(timers, n + 1, Len(timers))
<1>1. StateTyped /\ EachProcessInOnePlace
  BY DEF Inv, Sound
<1>2. /\ n \in 0..Len(timers) /\ Len(timers) \in Nat
      /\ \A i \in 1..Len(timers) : timers[i].left \in Int
  BY WokenType, LeftIsInt
<1>3. timer_list' = rest /\ waiting_list' = waiting_list \ Range(woken)
  BY DEF internal_schedule
<1>4. \A i \in 1..n : timers[i].pcb \in Range(woken)
  BY <1>2 DEF Range
<1>5. \A i \in 1..Len(timers) : n < i => timers[i].left > 0
  BY RestIsLater
<1> HIDE DEF n, woken, rest
<1>6. /\ Len(rest) = Len(timers) - n
      /\ \A i \in 1..Len(timers) - n : n + i \in 1..Len(timers) /\ rest[i] = timers[n + i]
  BY <1>2, RestFacts DEF rest
<1>7. Ordered(rest)
  <2> SUFFICES ASSUME NEW i \in 1..Len(rest), NEW j \in 1..Len(rest), i < j
               PROVE  rest[i].left <= rest[j].left
    BY DEF Ordered
  <2>1. /\ n + i \in 1..Len(timers) /\ n + j \in 1..Len(timers) /\ n + i < n + j
        /\ rest[i] = timers[n + i] /\ rest[j] = timers[n + j]
    BY <1>2, <1>6
  <2> QED
    BY <2>1 DEF Ordered
<1>8. Pending(rest)
  <2> SUFFICES ASSUME NEW i \in 1..Len(rest) PROVE rest[i].left >= 0
    BY DEF Pending
  <2>1. n + i \in 1..Len(timers) /\ n < n + i /\ rest[i] = timers[n + i]
    BY <1>2, <1>6
  <2> QED
    BY <1>2, <1>5, <2>1
<1>9. \A w \in waiting_list : syscall_num'[w] = syscall_num[w]
  BY <1>1 DEF Called, call, StateTyped, EachProcessInOnePlace
<1>10. ASSUME NEW w \in waiting_list', syscall_num'[w] # "wait"
       PROVE  \E i \in 1..Len(rest) : rest[i].pcb = w
  <2>1. w \in waiting_list /\ w \notin Range(woken) /\ syscall_num[w] # "wait"
    BY <1>3, <1>9, <1>10
  <2>2. PICK j \in 1..Len(timers) : timers[j].pcb = w
    BY <2>1 DEF TimersInv, Covered
  <2>3. ~(j \in 1..n)
    BY <1>4, <2>1, <2>2
  <2>4. j - n \in 1..Len(timers) - n /\ n + (j - n) = j
    BY <1>2, <2>3
  <2>5. rest[j - n] = timers[j] /\ j - n \in 1..Len(rest)
    BY <1>6, <2>4
  <2> QED
    BY <2>2, <2>5
<1> QED
  BY <1>3, <1>7, <1>8, <1>10 DEF TimersInv, Covered

LEMMA TimerOrdered ==
  ASSUME Inv, TimersInv, timerInterrupt
  PROVE  TimersInv'
<1> DEFINE timers == [i \in DOMAIN timer_list |-> [timer_list[i] EXCEPT !.left = @ - 1]]
<1>1. CASE running = Null
  BY <1>1, FrameOrdered DEF timerInterrupt, Crash, Stop, lists
<1>2. CASE running # Null
  <2>1. /\ Len(timer_list) \in Nat /\ DOMAIN timer_list = 1..Len(timer_list)
        /\ \A i \in 1..Len(timer_list) : timer_list[i] \in Item
    BY ListFacts DEF Inv
  <2>2. \A i \in 1..Len(timer_list) : [timer_list[i] EXCEPT !.left = @ - 1] \in Item
    BY <2>1 DEF Item
  <2>3. timers \in Timers /\ Len(timers) = Len(timer_list)
    BY <2>1, <2>2 DEF Timers
  <2>4. \A i \in 1..Len(timers) : /\ timers[i].pcb = timer_list[i].pcb
                                  /\ timers[i].left = timer_list[i].left - 1
                                  /\ timer_list[i].left \in Int
    BY <2>1, <2>3 DEF Item
  <2>5. internal_schedule(timers) /\ UNCHANGED call
    BY <1>2 DEF timerInterrupt
  <2> HIDE DEF timers
  <2>6. Ordered(timers)
    <3>1. Ordered(timer_list)
      BY DEF TimersInv
    <3> SUFFICES ASSUME NEW i \in 1..Len(timers), NEW j \in 1..Len(timers), i < j
                 PROVE  timers[i].left <= timers[j].left
      BY DEF Ordered
    <3>2. timer_list[i].left <= timer_list[j].left
      BY <2>3, <3>1 DEF Ordered
    <3> QED
      BY <2>4, <3>2
  <2> QED
    BY <2>3, <2>4, <2>5, <2>6, ScheduleOrdered
<1> QED
  BY <1>1, <1>2

\* exit ends the wait of its parent, if any.
LEMMA ExitOrdered ==
  ASSUME Inv, TimersInv, internal_exit
  PROVE  TimersInv'
<1>1. /\ UNCHANGED timer_list /\ waiting_list' \subseteq waiting_list
      /\ Called("exit", 0) \/ UNCHANGED call
  BY DEF internal_exit, ExitToWaitingParent, ExitAsZombie, Crash, Stop, lists
<1> QED
  BY <1>1, FrameOrdered

LEMMA WaitOrdered ==
  ASSUME Inv, TimersInv, NEW p \in Pid, internal_wait(p)
  PROVE  TimersInv'
<1>1. running \in Pcb
  BY DEF internal_wait, InUserCode, Inv, StateTyped
<1>2. /\ UNCHANGED timer_list
      /\ \/ /\ waiting_list' = waiting_list
            /\ Called("wait", p) \/ UNCHANGED call
         \/ /\ waiting_list' = waiting_list \cup {running}
            /\ Called("wait", p)
  BY DEF internal_wait, Reap, BlockInWait, Crash, Stop, lists
<1> QED
  BY <1>1, <1>2, FrameOrdered

LEMMA TimersStep == Inv /\ TimersInv /\ [Next]_vars => TimersInv'
<1> SUFFICES ASSUME Inv, TimersInv, [Next]_vars PROVE TimersInv'
  OBVIOUS
<1>1. CASE UNCHANGED vars
  BY <1>1, FrameOrdered DEF vars, lists
<1>2. ASSUME NEW num, NEW context, NewProcess(num, context)
      PROVE  TimersInv'
  BY <1>2, FrameOrdered DEF NewProcess, Crash, Stop, lists
<1>3. CASE ResumeWithoutContext
  BY <1>3, FrameOrdered DEF ResumeWithoutContext, Crash, Stop, lists
<1>4. CASE internal_preempt
  <2>1. timer_list \in Timers /\ Ordered(timer_list)
    BY DEF Inv, StateTyped, Timers, Item, TimersInv
  <2> QED
    BY <1>4, <2>1, ScheduleOrdered DEF internal_preempt
<1>5. CASE internal_shutdown
  BY <1>5, FrameOrdered DEF internal_shutdown, lists
<1>6. CASE RestartFromMain
  BY <1>6, FrameOrdered DEF RestartFromMain, Crash, Stop, lists
<1> QED
  BY <1>1, <1>2, <1>3, <1>4, <1>5, <1>6, ExitOrdered, WaitOrdered, SleepOrdered, TimerOrdered
     DEF Next, internal_spawn, internal_fork

LEMMA TimersFollow ==
  ASSUME Inv, TimersInv
  PROVE  TimersMatchSleepers
<1>1. TimersSound /\ DOMAIN timer_list = 1..Len(timer_list)
  BY ListFacts DEF Inv, Sound
<1>2. IsInjective([i \in DOMAIN timer_list |-> timer_list[i].pcb])
  BY <1>1 DEF IsInjective, TimersSound
<1>3. Sleepers = {b \in waiting_list : syscall_num[b] # "wait"}
  BY <1>1 DEF Sleepers, TimersSound, TimersInv, Covered
<1> QED
  BY <1>1, <1>2, <1>3 DEF TimersMatchSleepers, TimersInv, Ordered, Pending

-----------------------------------------------------------------------------

\* The timer list holds one item for each process that is blocked in anything
\* but a wait, in order of time, and none that is overdue: whatever the processes
\* do, nobody sleeps without a timer and no pass leaves an elapsed one behind.
THEOREM TimersCorrect == Spec => []TimersMatchSleepers
<1>1. Init => TimersInv
  BY DEF Init, TimersInv, Ordered, Pending, Covered
<1>2. Inv /\ TimersInv => TimersMatchSleepers
  BY TimersFollow
<1> QED
  BY <1>1, <1>2, TimersStep, InvHolds, PTL DEF Spec

=============================================================================
