--------------------------- MODULE FamiliesProofs ---------------------------
(***************************************************************************)
(* Parents and children: what holds whatever the processes do, and what    *)
(* each part of the discipline of the repository's tests buys.             *)
(*                                                                         *)
(* The first section says once, for each kind of step, what it does to the *)
(* processes block by block (StepShape); the invariants are then proved    *)
(* over those kinds, and the code is not looked at again.                  *)
(*                                                                         *)
(* Whatever the processes do, every one of them has one guardian: a        *)
(* process that is not a zombie and has it in its children list.  That     *)
(* lists share no child is ChildrenSound of ProcessesProofs.  That no      *)
(* child is lost needs three facts more: a zombie has handed its children  *)
(* to init; init is never a zombie and never freed; and it is not, because *)
(* it has no parent, so that internal_exit faults before it can end.       *)
(*                                                                         *)
(* The rest needs discipline, and each theorem assumes the liberties it    *)
(* excludes and no more.  If nobody leaves children behind (no "orphan"),  *)
(* parent pointers and children lists agree (Families).  If the sleeper    *)
(* never blocks (no "no_sleeper"), the CPU is never idle (CpuBusy).        *)
(***************************************************************************)
EXTENDS ProcessesProofs, FiniteSetTheorems

-----------------------------------------------------------------------------
(* What the actions do to the processes, block by block *)

\* Where a block is decides where else it cannot be.
LEMMA Apart ==
  ASSUME Inv
  PROVE  /\ FreePcbs \subseteq Pcb /\ Null \notin Pcb
         /\ Range(ready_list) \subseteq LivePcbs
         /\ waiting_list \subseteq LivePcbs /\ zombie_list \subseteq LivePcbs
         /\ running # Null => running \in LivePcbs
         /\ running \notin Range(ready_list) \cup waiting_list \cup zombie_list
         /\ Range(ready_list) \cap (waiting_list \cup zombie_list) = {}
         /\ waiting_list \cap zombie_list = {}
         /\ \A b \in LivePcbs \ zombie_list : status[b] # "Zombie"
         /\ \A b \in zombie_list : status[b] = "Zombie"
         /\ \A b \in Pcb : status[b] = "Waiting" => b \in waiting_list
         /\ \A b \in Pcb : Range(children[b]) \subseteq LivePcbs
<1>1. StateTyped /\ EachProcessInOnePlace /\ StatusMatchesPlace /\ FreeStatus /\ ChildrenSound
  BY DEF Inv, Sound
<1>2. /\ FreePcbs \subseteq Pcb /\ Null \notin Pcb /\ Range(ready_list) \subseteq Pcb
      /\ waiting_list \subseteq Pcb /\ zombie_list \subseteq Pcb
      /\ running \in Pcb \cup {Null}
  BY <1>1, ListFacts DEF StateTyped
<1>3. /\ Range(ready_list) \subseteq LivePcbs
      /\ waiting_list \subseteq LivePcbs /\ zombie_list \subseteq LivePcbs
      /\ running # Null => running \in LivePcbs
      /\ running \notin Range(ready_list) \cup waiting_list \cup zombie_list
      /\ Range(ready_list) \cap (waiting_list \cup zombie_list) = {}
      /\ waiting_list \cap zombie_list = {}
  BY <1>1, <1>2 DEF EachProcessInOnePlace, LivePcbs
<1>4. ASSUME NEW b \in Pcb, b \notin zombie_list, b \in LivePcbs
      PROVE  status[b] # "Zombie"
  BY <1>1, <1>2, <1>4 DEF EachProcessInOnePlace, StatusMatchesPlace, LivePcbs
<1>5. ASSUME NEW b \in Pcb, status[b] = "Waiting"
      PROVE  b \in waiting_list
  BY <1>1, <1>2, <1>5 DEF EachProcessInOnePlace, StatusMatchesPlace, FreeStatus, LivePcbs
<1>6. LivePcbs \subseteq Pcb
  BY DEF LivePcbs
<1> QED
  BY <1>1, <1>2, <1>3, <1>4, <1>5, <1>6 DEF StatusMatchesPlace, ChildrenSound

\* The running process leaves a call in its PCB.
Recorded(num, arg) ==
  \A b \in Pcb : /\ syscall_num'[b] = IF b = running THEN num ELSE syscall_num[b]
                 /\ syscall_arg'[b] = IF b = running THEN arg ELSE syscall_arg[b]

LEMMA CalledShape ==
  ASSUME StateTyped, running \in Pcb, NEW num, NEW arg, Called(num, arg)
  PROVE  Recorded(num, arg)
  BY DEF StateTyped, Called, Recorded

\* A fault, a hang or nothing at all.
Stopped == UNCHANGED <<running, lists, status, family, call, retvalue, allocators>>

\* The free block `new` becomes a ready child of the running process.
Spawned(new) ==
  /\ running \in LivePcbs /\ new \in FreePcbs
  /\ LivePcbs' = LivePcbs \cup {new} /\ FreePcbs' = FreePcbs \ {new}
  /\ Range(ready_list') = Range(ready_list) \cup {new}
  /\ last_pid' = last_pid + 1 /\ pcb_ptr_allocator' = pcb_ptr_allocator - 1
  /\ \A b \in Pcb :
       /\ pid'[b] = IF b = new THEN last_pid ELSE pid[b]
       /\ parent'[b] = IF b = new THEN running ELSE parent[b]
       /\ Range(children'[b]) = IF b = new THEN {}
                                ELSE IF b = running THEN Range(children[b]) \cup {new}
                                ELSE Range(children[b])
  /\ \E num \in {"spawn", "fork"} : Recorded(num, 0)
  /\ \A b \in Pcb : b # running => retvalue'[b] = retvalue[b]
  /\ contexts' = contexts \cup {new} \/ "fork" \in Liberties
  /\ UNCHANGED <<running, waiting_list, zombie_list, init_pcb, system>>

LEMMA NewProcessShape ==
  ASSUME Inv, NEW num \in {"spawn", "fork"}, NEW withContext \in BOOLEAN,
         withContext \/ "fork" \in Liberties, NewProcess(num, withContext)
  PROVE  (Stopped /\ ~NeverFaults') \/ \E new \in FreePcbs : Spawned(new)
<1>1. CASE pcb_allocator = <<>> \/ pcb_ptr_allocator = 0
  BY <1>1 DEF NewProcess, Crash, Stop, Stopped, NeverFaults
<1>2. CASE pcb_allocator # <<>> /\ pcb_ptr_allocator # 0
  <2> DEFINE new == Head(pcb_allocator)
  <2>1. /\ PCB_alloc("Ready", running)
        /\ children' = [children EXCEPT ![new] = <<>>, ![running] = Append(@, new)]
        /\ ready_list' = Append(ready_list, new)
        /\ retvalue' = [retvalue EXCEPT ![running] = last_pid]
        /\ pcb_ptr_allocator' = pcb_ptr_allocator - 1
        /\ contexts' = IF withContext THEN contexts \cup {new} ELSE contexts
        /\ Called(num, 0)
        /\ UNCHANGED <<running, waiting_list, zombie_list, init_pcb, system>>
    BY <1>2 DEF NewProcess
  <2>2. StateTyped /\ EachProcessInOnePlace
    BY DEF Inv, Sound
  <2>3. /\ new \in FreePcbs /\ Range(pcb_allocator') = FreePcbs \ {new}
    BY <1>2, <2>1, <2>2, AllocFacts DEF PCB_alloc
  <2>4. /\ pid' = [pid EXCEPT ![new] = last_pid]
        /\ parent' = [parent EXCEPT ![new] = running]
        /\ last_pid' = last_pid + 1
    BY <2>1 DEF PCB_alloc, PCB_init
  <2> HIDE DEF new
  <2>5. /\ new \in Pcb /\ running \in Pcb /\ new # running /\ running \in LivePcbs
    BY <2>2, <2>3, Apart DEF NewProcess, InUserCode, StateTyped, LivePcbs
  <2>6. /\ ready_list \in Seq(Pcb) /\ children[running] \in Seq(Pcb)
    BY <2>2, <2>5 DEF StateTyped
  <2>7. /\ Range(ready_list') = Range(ready_list) \cup {new}
        /\ Range(Append(children[running], new)) = Range(children[running]) \cup {new}
    BY <2>1, <2>5, <2>6, AppendElements
  <2>8. LivePcbs' = LivePcbs \cup {new} /\ FreePcbs' = FreePcbs \ {new}
    BY <2>3, <2>5 DEF LivePcbs, FreePcbs
  <2>9. Range(<<>>) = {}
    BY DEF Range
  <2>10. \A b \in Pcb : children'[b] = IF b = new THEN <<>>
                                       ELSE IF b = running THEN Append(children[b], new)
                                       ELSE children[b]
    BY <2>1, <2>2, <2>5 DEF StateTyped
  <2>11. \A b \in Pcb :
       /\ pid'[b] = IF b = new THEN last_pid ELSE pid[b]
       /\ parent'[b] = IF b = new THEN running ELSE parent[b]
       /\ b # running => retvalue'[b] = retvalue[b]
    BY <2>1, <2>2, <2>4, <2>5 DEF StateTyped
  <2>12. \A b \in Pcb : Range(children'[b]) =
                           IF b = new THEN {}
                           ELSE IF b = running THEN Range(children[b]) \cup {new}
                           ELSE Range(children[b])
    <3> SUFFICES ASSUME NEW b \in Pcb
                 PROVE  Range(children'[b]) = IF b = new THEN {}
                           ELSE IF b = running THEN Range(children[b]) \cup {new}
                           ELSE Range(children[b])
      OBVIOUS
    <3>1. CASE b = new
      BY <2>9, <2>10, <3>1
    <3>2. CASE b = running /\ b # new
      BY <2>7, <2>10, <3>2
    <3>3. CASE b # running /\ b # new
      BY <2>10, <3>3
    <3> QED
      BY <3>1, <3>2, <3>3
  <2>13. \E call_num \in {"spawn", "fork"} : Recorded(call_num, 0)
    BY <2>1, <2>2, <2>5, CalledShape
  <2>14. contexts' = contexts \cup {new} \/ "fork" \in Liberties
    BY <2>1
  <2>15. Spawned(new)
    BY <2>1, <2>3, <2>4, <2>5, <2>7, <2>8, <2>11, <2>12, <2>13, <2>14 DEF Spawned
  <2> QED
    BY <2>3, <2>15
<1> QED
  BY <1>1, <1>2 DEF Inv, StateTyped

\* The free block `new` becomes a second init, and runs.
Restarted(new) ==
  /\ running = Null /\ new \in FreePcbs
  /\ LivePcbs' = LivePcbs \cup {new} /\ FreePcbs' = FreePcbs \ {new}
  /\ running' = new /\ init_pcb' = new
  /\ contexts' = contexts \cup {new}
  /\ last_pid' = last_pid + 1
  /\ \A b \in Pcb :
       /\ pid'[b] = IF b = new THEN last_pid ELSE pid[b]
       /\ parent'[b] = IF b = new THEN Null ELSE parent[b]
       /\ Range(children'[b]) = IF b = new THEN {} ELSE Range(children[b])
  /\ UNCHANGED <<ready_list, waiting_list, zombie_list, call, retvalue,
                 pcb_ptr_allocator, system>>

LEMMA RestartShape ==
  ASSUME Inv, RestartFromMain
  PROVE  Stopped \/ \E new \in FreePcbs : Restarted(new)
<1>1. CASE pcb_allocator = <<>>
  BY <1>1 DEF RestartFromMain, Crash, Stop, Stopped
<1>2. CASE pcb_allocator # <<>>
  <2> DEFINE new == Head(pcb_allocator)
  <2>1. /\ PCB_alloc("Running", Null) /\ running = Null
        /\ children' = [children EXCEPT ![new] = <<>>]
        /\ running' = new /\ init_pcb' = new /\ contexts' = contexts \cup {new}
        /\ UNCHANGED <<ready_list, waiting_list, zombie_list, call, retvalue,
                       pcb_ptr_allocator, system>>
    BY <1>2 DEF RestartFromMain, lists
  <2>2. StateTyped /\ EachProcessInOnePlace
    BY DEF Inv, Sound
  <2>3. new \in FreePcbs /\ Range(pcb_allocator') = FreePcbs \ {new}
    BY <1>2, <2>1, <2>2, AllocFacts DEF PCB_alloc
  <2>4. /\ pid' = [pid EXCEPT ![new] = last_pid]
        /\ parent' = [parent EXCEPT ![new] = Null]
        /\ last_pid' = last_pid + 1
    BY <2>1 DEF PCB_alloc, PCB_init
  <2> HIDE DEF new
  <2>5. new \in Pcb
    BY <2>3, Apart
  <2>6. LivePcbs' = LivePcbs \cup {new} /\ FreePcbs' = FreePcbs \ {new}
    BY <2>3, <2>5 DEF LivePcbs, FreePcbs
  <2>7. \A b \in Pcb :
       /\ pid'[b] = IF b = new THEN last_pid ELSE pid[b]
       /\ parent'[b] = IF b = new THEN Null ELSE parent[b]
       /\ children'[b] = IF b = new THEN <<>> ELSE children[b]
    BY <2>1, <2>2, <2>4 DEF StateTyped
  <2>8. Range(<<>>) = {}
    BY DEF Range
  <2>9. \A b \in Pcb : Range(children'[b]) = IF b = new THEN {} ELSE Range(children[b])
    BY <2>7, <2>8
  <2> QED
    BY <2>1, <2>3, <2>4, <2>6, <2>7, <2>9 DEF Restarted
<1> QED
  BY <1>1, <1>2

\* The first ready process leaves the ready list and has the CPU.
Dispatched ==
  /\ running' \in Range(ready_list)
  /\ Range(ready_list') = Range(ready_list) \ {running'}

\* The running process ends and is freed, its parent awakes and is told its pid.
Collected ==
  /\ running \in LivePcbs /\ parent[running] \in waiting_list
  /\ running \in Range(ChildrenAfterExit(parent[running], running))
  /\ LivePcbs' = LivePcbs \ {running} /\ FreePcbs' = FreePcbs \cup {running}
  /\ running' = parent[running]
  /\ waiting_list' = waiting_list \ {parent[running]}
  /\ \A b \in Pcb :
       /\ Range(children'[b]) = Range(ChildrenAfterExit(b, running)) \ {running}
       /\ retvalue'[b] = IF b = parent[running] THEN pid[running] ELSE retvalue[b]
  /\ Recorded("exit", 0)
  /\ UNCHANGED <<ready_list, zombie_list, pid, parent, init_pcb, pcb_ptr_allocator,
                 last_pid, contexts, system>>

\* The running process ends and is a zombie.
Zombied ==
  /\ running \in LivePcbs
  /\ Dispatched
  /\ zombie_list' = zombie_list \cup {running}
  /\ \A b \in Pcb : Range(children'[b]) = Range(ChildrenAfterExit(b, running))
  /\ Recorded("exit", 0)
  /\ UNCHANGED <<waiting_list, pid, parent, init_pcb, retvalue, allocators, system>>

LEMMA ExitShape ==
  ASSUME Inv, internal_exit
  PROVE  \/ Stopped /\ ~NeverFaults'
         \/ /\ MayExit /\ running \in Pcb /\ parent[running] # Null
            /\ \/ ParentAwaits(running) /\ Collected
               \/ ~ParentAwaits(running) /\ Zombied
<1>1. StateTyped /\ EachProcessInOnePlace
  BY DEF Inv, Sound
<1>2. running \in Pcb /\ running \in LivePcbs /\ MayExit
  BY Apart DEF internal_exit, InUserCode, Inv, StateTyped
<1>3. ASSUME NEW how \in {"crashed", "hung"}, Stop(how) PROVE Stopped /\ ~NeverFaults'
  BY <1>3 DEF Stop, Stopped, NeverFaults
<1>4. ASSUME parent[running] # Null, ParentAwaits(running), ExitToWaitingParent(running),
             running # init_pcb \/ children[running] = <<>>
      PROVE  (Stopped /\ ~NeverFaults') \/ Collected
  <2> DEFINE waiter == parent[running]
             Left(b) == ChildrenAfterExit(b, running)
  <2>1. CASE ~Contains(Left(waiter), running)
    BY <1>3, <1>4, <2>1 DEF ExitToWaitingParent, Crash
  <2>2. CASE Contains(Left(waiter), running)
    <3>1. waiter \in Pcb /\ waiter \in waiting_list
      BY <1>1, <1>2, <1>4, Apart DEF StateTyped, ParentAwaits
    <3>2. /\ children' = [b \in Pcb |-> IF b = waiter THEN RemoveFirst(Left(b), running)
                                        ELSE Left(b)]
          /\ running' = waiter
          /\ waiting_list' = waiting_list \ {waiter}
          /\ Called("exit", 0) /\ PCB_free(running)
          /\ retvalue' = [retvalue EXCEPT ![waiter] = pid[running]]
          /\ UNCHANGED <<ready_list, zombie_list, pid, parent, init_pcb,
                         pcb_ptr_allocator, last_pid, contexts, system>>
      BY <1>4, <2>2 DEF ExitToWaitingParent, Report
    <3> HIDE DEF waiter
    <3>3. Range(pcb_allocator') = FreePcbs \cup {running}
      BY <1>1, <1>2, <3>2, FreeFacts
    <3>4. LivePcbs' = LivePcbs \ {running} /\ FreePcbs' = FreePcbs \cup {running}
      BY <3>3 DEF LivePcbs, FreePcbs
    <3>5. /\ \A b \in Pcb : Left(b) \in Seq(Pcb) /\ IsInjective(Left(b))
          /\ \A b, c \in Pcb : b # c => Range(Left(b)) \cap Range(Left(c)) = {}
      BY <1>2, <1>4, ChildrenAfterExitFacts
    <3>6. running \in Range(Left(waiter))
      BY <2>2, <3>1, <3>5, LenProperties DEF Contains, Range
    <3> HIDE DEF Left
    <3>7. Range(RemoveFirst(Left(waiter), running)) = Range(Left(waiter)) \ {running}
      BY <3>1, <3>5, RemoveFirstElements
    <3>8. \A b \in Pcb : Range(children'[b]) = Range(Left(b)) \ {running}
      BY <3>1, <3>2, <3>5, <3>6, <3>7
    <3>9. \A b \in Pcb : retvalue'[b] = IF b = waiter THEN pid[running] ELSE retvalue[b]
      BY <1>1, <3>1, <3>2 DEF StateTyped
    <3>10. Recorded("exit", 0)
      BY <1>1, <1>2, <3>2, CalledShape
    <3> QED
      BY <1>2, <3>1, <3>2, <3>4, <3>6, <3>8, <3>9, <3>10 DEF Collected, waiter, Left
  <2> QED
    BY <2>1, <2>2
<1>5. ASSUME ExitAsZombie(running)
      PROVE  (Stopped /\ ~NeverFaults') \/ Zombied
  <2>1. CASE ready_list = <<>>
    BY <1>3, <1>5, <2>1 DEF ExitAsZombie, Crash
  <2>2. CASE ready_list # <<>>
    <3>1. /\ children' = [b \in Pcb |-> ChildrenAfterExit(b, running)]
          /\ zombie_list' = zombie_list \cup {running}
          /\ DispatchFirstReady
          /\ Called("exit", 0)
          /\ UNCHANGED <<waiting_list, pid, parent, init_pcb, retvalue, allocators, system>>
      BY <1>5, <2>2 DEF ExitAsZombie
    <3>2. Dispatched
      BY <1>1, <2>2, <3>1, DispatchFacts DEF Dispatched
    <3>3. Recorded("exit", 0)
      BY <1>1, <1>2, <3>1, CalledShape
    <3> QED
      BY <1>2, <3>1, <3>2, <3>3 DEF Zombied
  <2> QED
    BY <2>1, <2>2
<1> QED
  BY <1>2, <1>3, <1>4, <1>5 DEF internal_exit, Crash

\* wait, in a process without children.
Refused(p) ==
  /\ running \in LivePcbs
  /\ Recorded("wait", p)
  /\ \A b \in Pcb : retvalue'[b] = IF b = running THEN DSOS_EWAIT ELSE retvalue[b]
  /\ UNCHANGED <<running, lists, status, family, allocators, system>>

\* wait finds a zombie, which is freed.
Reaped(p, child) ==
  /\ running \in LivePcbs /\ child \in zombie_list /\ child \in Range(children[running])
  /\ child = AwaitedChild(children[running], p) /\ MayWaitFor(p)
  /\ LivePcbs' = LivePcbs \ {child} /\ FreePcbs' = FreePcbs \cup {child}
  /\ zombie_list' = zombie_list \ {child}
  /\ pcb_ptr_allocator' = pcb_ptr_allocator + 1
  /\ \A b \in Pcb :
       /\ Range(children'[b]) = IF b = running THEN Range(children[b]) \ {child}
                                ELSE Range(children[b])
       /\ retvalue'[b] = IF b = running THEN pid[child] ELSE retvalue[b]
  /\ Recorded("wait", p)
  /\ UNCHANGED <<running, ready_list, waiting_list, pid, parent, init_pcb, last_pid,
                 contexts, system>>

\* wait blocks the caller.
Blocked(p) ==
  /\ running \in LivePcbs /\ children[running] # <<>> /\ MayWaitFor(p) /\ MayBlock
  /\ status[AwaitedChild(children[running], p)] # "Zombie"
  /\ Dispatched
  /\ waiting_list' = waiting_list \cup {running}
  /\ Recorded("wait", p)
  /\ UNCHANGED <<zombie_list, family, retvalue, allocators, system>>

LEMMA WaitShape ==
  ASSUME Inv, NEW p \in Pid, internal_wait(p)
  PROVE  \/ Stopped /\ ~NeverFaults'
         \/ Refused(p) \/ Blocked(p)
         \/ \E child \in zombie_list : Reaped(p, child)
<1> DEFINE kids  == children[running]
           child == AwaitedChild(kids, p)
<1>1. /\ StateTyped /\ EachProcessInOnePlace /\ StatusMatchesPlace /\ FreeStatus
      /\ TimersSound /\ ChildrenSound
  BY DEF Inv, Sound
<1>2. running \in Pcb /\ kids \in Seq(Pcb) /\ running \in LivePcbs
  BY <1>1, Apart DEF internal_wait, InUserCode, StateTyped
<1>3. CASE kids = <<>>
  <2>1. /\ Called("wait", p) /\ UNCHANGED <<running, lists, status, family, allocators, system>>
        /\ retvalue' = [retvalue EXCEPT ![running] = DSOS_EWAIT]
    BY <1>3 DEF internal_wait
  <2>2. \A b \in Pcb : retvalue'[b] = IF b = running THEN DSOS_EWAIT ELSE retvalue[b]
    BY <1>1, <2>1 DEF StateTyped
  <2> QED
    BY <1>1, <1>2, <2>1, <2>2, CalledShape DEF Refused
<1>4. CASE kids # <<>> /\ status[child] = "Zombie"
  <2>1. Reap(child) /\ Called("wait", p) /\ MayWaitFor(p)
    BY <1>4 DEF internal_wait
  <2>2. child \in Range(kids)
    BY <1>2, <1>4, AwaitedChildIsChild
  <2>3. child \in LivePcbs /\ child \in Pcb
    BY <1>2, <2>2, Apart DEF LivePcbs
  <2>4. status[child] = "Zombie" /\ child = AwaitedChild(kids, p)
    BY <1>4
  <2> HIDE DEF child
  <2>5. child \in zombie_list
    BY <2>3, <2>4, Apart
  <2>6. /\ children' = [children EXCEPT ![running] = RemoveFirst(@, child)]
        /\ zombie_list' = zombie_list \ {child}
        /\ PCB_free(child)
        /\ retvalue' = [retvalue EXCEPT ![running] = pid[child]]
        /\ pcb_ptr_allocator' = pcb_ptr_allocator + 1
        /\ UNCHANGED <<running, ready_list, waiting_list, pid, parent, init_pcb, last_pid,
                       contexts, system>>
    BY <2>1 DEF Reap, Report
  <2>7. Range(pcb_allocator') = FreePcbs \cup {child}
    BY <1>1, <2>3, <2>6, FreeFacts
  <2>8. LivePcbs' = LivePcbs \ {child} /\ FreePcbs' = FreePcbs \cup {child}
    BY <2>7 DEF LivePcbs, FreePcbs
  <2>9. Range(RemoveFirst(kids, child)) = Range(kids) \ {child}
    BY <1>1, <1>2, RemoveFirstElements DEF ChildrenSound
  <2>10. \A b \in Pcb : children'[b] = IF b = running THEN RemoveFirst(kids, child)
                                       ELSE children[b]
    BY <1>1, <1>2, <2>6 DEF StateTyped
  <2>11. \A b \in Pcb :
       /\ Range(children'[b]) = IF b = running THEN Range(children[b]) \ {child}
                                ELSE Range(children[b])
       /\ retvalue'[b] = IF b = running THEN pid[child] ELSE retvalue[b]
    BY <1>1, <1>2, <2>6, <2>9, <2>10 DEF StateTyped
  <2>12. Recorded("wait", p)
    BY <1>1, <1>2, <2>1, CalledShape
  <2> QED
    BY <1>2, <2>1, <2>2, <2>4, <2>5, <2>6, <2>8, <2>11, <2>12 DEF Reaped
<1>5. CASE kids # <<>> /\ status[child] # "Zombie" /\ ready_list = <<>>
  BY <1>5 DEF internal_wait, Crash, Stop, Stopped, NeverFaults
<1>6. CASE kids # <<>> /\ status[child] # "Zombie" /\ ready_list # <<>>
  <2>1. BlockInWait /\ Called("wait", p) /\ MayWaitFor(p) /\ MayBlock
    BY <1>6 DEF internal_wait
  <2>2. /\ waiting_list' = waiting_list \cup {running}
        /\ DispatchFirstReady
        /\ UNCHANGED <<zombie_list, family, retvalue, allocators, system>>
    BY <2>1 DEF BlockInWait
  <2>3. Dispatched
    BY <1>1, <1>6, <2>2, DispatchFacts DEF Dispatched
  <2>4. Recorded("wait", p)
    BY <1>1, <1>2, <2>1, CalledShape
  <2> QED
    BY <1>2, <1>6, <2>1, <2>2, <2>3, <2>4 DEF Blocked
<1> QED
  BY <1>3, <1>4, <1>5, <1>6

\* A call other than wait and exit; its argument does not matter.
RecordedOther == \E num \in Syscall \ {"wait", "exit"} : Recorded(num, 0)

\* The call blocks its caller with a timer, whatever it returns, and to whom.
Parked ==
  /\ running \in LivePcbs /\ MayBlock
  /\ \/ Dispatched
     \/ ready_list = <<>> /\ running' = Null /\ UNCHANGED ready_list
  /\ waiting_list' = waiting_list \cup {running}
  /\ RecordedOther
  /\ UNCHANGED <<zombie_list, family, allocators, system>>

LEMMA ParkShape ==
  ASSUME Inv, running \in Pcb, MayBlock, NEW cycles, ParkOnTimer(cycles),
         NEW num \in Syscall \ {"wait", "exit"}, Called(num, 0)
  PROVE  Parked
<1>1. StateTyped /\ EachProcessInOnePlace /\ running \in LivePcbs
  BY Apart DEF Inv, Sound
<1>2. /\ waiting_list' = waiting_list \cup {running}
      /\ UNCHANGED <<zombie_list, family, allocators, system>>
  BY DEF ParkOnTimer
<1>3. \/ Dispatched
      \/ ready_list = <<>> /\ running' = Null /\ UNCHANGED ready_list
  <2>1. CASE ready_list = <<>>
    BY <2>1 DEF ParkOnTimer
  <2>2. CASE ready_list # <<>>
    <3>1. DispatchFirstReady
      BY <2>2 DEF ParkOnTimer
    <3> QED
      BY <1>1, <2>2, <3>1, DispatchFacts DEF Dispatched
  <2> QED
    BY <2>1, <2>2
<1>4. RecordedOther
  BY <1>1, CalledShape DEF RecordedOther
<1> QED
  BY <1>1, <1>2, <1>3, <1>4 DEF Parked

LEMMA SleepShape ==
  ASSUME Inv, NEW cycles \in SleepTimes, internal_sleep(cycles)
  PROVE  Parked /\ UNCHANGED retvalue
<1>1. running \in Pcb /\ MayBlock /\ "sleep" \in Syscall \ {"wait", "exit"}
  BY DEF internal_sleep, InUserCode, Inv, StateTyped, Syscall
<1> QED
  BY <1>1, ParkShape DEF internal_sleep

\* A scheduling pass: processes that were in no wait awake, and the CPU may change
\* hands; those that ran or were ready still do or are.
Scheduled ==
  /\ running \in LivePcbs
  /\ \E woken \in SUBSET waiting_list :
       /\ \A w \in woken : syscall_num[w] # "wait"
       /\ waiting_list' = waiting_list \ woken
       /\ {running'} \cup Range(ready_list') = {running} \cup Range(ready_list) \cup woken
  /\ UNCHANGED call \/ Recorded("preempt", 0)
  /\ UNCHANGED <<zombie_list, family, retvalue, allocators, system>>

LEMMA ScheduleShape ==
  ASSUME Inv, running \in Pcb, NEW timers \in Timers, internal_schedule(timers),
         Len(timers) = Len(timer_list),
         \A i \in 1..Len(timers) : timers[i].pcb = timer_list[i].pcb,
         Called("preempt", 0) \/ UNCHANGED call
  PROVE  Scheduled
<1> DEFINE n     == ElapsedTimers(timers)
           woken == [i \in 1..n |-> timers[i].pcb]
           ready == woken \o ready_list
<1>1. StateTyped /\ TimersSound
  BY DEF Inv, Sound
<1>2. /\ n \in 0..Len(timers) /\ Len(timers) \in Nat
      /\ woken \in Seq(Pcb) /\ ready_list \in Seq(Pcb)
  BY <1>1, WokenType DEF StateTyped
<1>3. /\ waiting_list' = waiting_list \ Range(woken)
      /\ UNCHANGED <<zombie_list, family, retvalue, allocators, system>>
  BY DEF internal_schedule
<1>4. \A i \in 1..n : /\ woken[i] \in waiting_list
                      /\ syscall_num[woken[i]] # "wait"
  BY <1>1, <1>2 DEF TimersSound
<1>5. DOMAIN woken = 1..n
  OBVIOUS
<1>6. Range(woken) \subseteq waiting_list /\ \A w \in Range(woken) : syscall_num[w] # "wait"
  BY <1>4, <1>5 DEF Range
<1>7. {running'} \cup Range(ready_list') = {running} \cup Range(ready_list) \cup Range(woken)
  <2>1. ready \in Seq(Pcb) /\ Range(ready) = Range(woken) \cup Range(ready_list)
    <3> HIDE DEF woken
    <3> QED
      BY <1>2, ConcatElements, ConcatProperties
  <2>2. CASE ready = <<>>
    <3>1. UNCHANGED <<running, ready_list>>
      BY <2>2 DEF internal_schedule
    <3> HIDE DEF woken, ready
    <3>2. Range(ready) = {}
      <4>1. \A s : s = <<>> => Range(s) = {}
        BY DEF Range
      <4> QED
        BY <2>2, <4>1
    <3> QED
      BY <2>1, <3>1, <3>2
  <2>3. CASE ready # <<>>
    <3>1. running' = Head(ready) /\ ready_list' = Append(Tail(ready), running)
      BY <2>3 DEF internal_schedule, ReadyAfterPreemption
    <3> HIDE DEF woken, ready
    <3>2. Range(ready) = Range(Tail(ready)) \cup {Head(ready)} /\ Tail(ready) \in Seq(Pcb)
      BY <2>1, <2>3, TailElements, HeadTailProperties
    <3>3. \A t \in Seq(Pcb) : Range(Append(t, running)) = Range(t) \cup {running}
      BY AppendElements
    <3>4. Range(ready_list') = Range(Tail(ready)) \cup {running}
      BY <3>1, <3>2, <3>3
    <3> QED
      BY <2>1, <3>1, <3>2, <3>4
  <2> QED
    BY <2>2, <2>3
<1>8. running \in LivePcbs
  BY Apart
<1>9. UNCHANGED call \/ Recorded("preempt", 0)
  BY <1>1, CalledShape
<1> HIDE DEF woken
<1> QED
  BY <1>3, <1>6, <1>7, <1>8, <1>9 DEF Scheduled

LEMMA PreemptShape ==
  ASSUME Inv, internal_preempt
  PROVE  Scheduled
<1>1. running \in Pcb /\ timer_list \in Timers
  BY DEF Inv, StateTyped, Timers, Item, internal_preempt, InUserCode
<1>2. internal_schedule(timer_list) /\ Called("preempt", 0)
  BY DEF internal_preempt
<1> QED
  BY <1>1, <1>2, ScheduleShape

LEMMA TimerShape ==
  ASSUME Inv, timerInterrupt
  PROVE  (Stopped /\ ~NeverFaults') \/ Scheduled
<1> DEFINE timers == [i \in DOMAIN timer_list |-> [timer_list[i] EXCEPT !.left = @ - 1]]
<1>1. CASE running = Null
  BY <1>1 DEF timerInterrupt, Crash, Stop, Stopped, NeverFaults
<1>2. CASE running # Null
  <2>1. running \in Pcb /\ StateTyped
    BY <1>2 DEF Inv, StateTyped
  <2>2. /\ Len(timer_list) \in Nat /\ DOMAIN timer_list = 1..Len(timer_list)
        /\ \A i \in 1..Len(timer_list) : timer_list[i] \in Item
    BY <2>1, ListFacts
  <2>3. \A i \in 1..Len(timer_list) : [timer_list[i] EXCEPT !.left = @ - 1] \in Item
    BY <2>2 DEF Item
  <2>4. timers \in Timers /\ Len(timers) = Len(timer_list)
    BY <2>2, <2>3 DEF Timers
  <2>5. \A i \in 1..Len(timers) : timers[i].pcb = timer_list[i].pcb
    BY <2>2, <2>4 DEF Item
  <2>6. internal_schedule(timers) /\ UNCHANGED call
    BY <1>2 DEF timerInterrupt
  <2> HIDE DEF timers
  <2> QED
    BY <2>1, <2>4, <2>5, <2>6, ScheduleShape
<1> QED
  BY <1>1, <1>2

\* The call answers its caller at once and moves nobody.
Replied ==
  /\ running \in LivePcbs
  /\ RecordedOther
  /\ \A b \in Pcb : b # running => retvalue'[b] = retvalue[b]
  /\ UNCHANGED <<running, lists, status, family, allocators>>

LEMMA AnswerShape ==
  ASSUME Inv, running \in Pcb, NEW num \in Syscall \ {"wait", "exit"}, Called(num, 0),
         \A b \in Pcb : b # running => retvalue'[b] = retvalue[b],
         UNCHANGED <<running, lists, status, family, allocators>>
  PROVE  Replied
<1>1. StateTyped /\ running \in LivePcbs
  BY Apart DEF Inv
<1> QED
  BY <1>1, CalledShape DEF Replied, RecordedOther

LEMMA ShutdownShape ==
  ASSUME Inv, internal_shutdown
  PROVE  Replied
<1>1. running \in Pcb /\ "shutdown" \in Syscall \ {"wait", "exit"}
  BY DEF internal_shutdown, InUserCode, Inv, StateTyped, Syscall
<1> QED
  BY <1>1, AnswerShape DEF internal_shutdown

\* The steps of this module's processes, by their shapes.
ProcessStep ==
  \/ Stopped \/ (Parked /\ UNCHANGED retvalue) \/ Scheduled \/ Replied
  \/ \E new \in FreePcbs : Spawned(new) \/ Restarted(new)
  \/ /\ MayExit /\ running \in Pcb /\ parent[running] # Null
     /\ \/ ParentAwaits(running) /\ Collected
        \/ ~ParentAwaits(running) /\ Zombied
  \/ \E p \in Pid : \/ Refused(p) \/ Blocked(p)
                    \/ \E child \in zombie_list : Reaped(p, child)

\* Where processes also send and receive, a call that blocks may store a result.
SystemStep == ProcessStep \/ Parked

LEMMA StepShape ==
  ASSUME Inv, [Next]_vars
  PROVE  ProcessStep /\ SystemStep
<1> USE DEF ProcessStep, SystemStep
<1>1. CASE UNCHANGED vars
  BY <1>1 DEF vars, Stopped
<1>2. CASE internal_spawn \/ internal_fork
  BY <1>2, NewProcessShape DEF internal_spawn, internal_fork
<1>3. CASE ResumeWithoutContext
  BY <1>3 DEF ResumeWithoutContext, Crash, Stop, Stopped
<1>4. CASE internal_exit
  BY <1>4, ExitShape
<1>5. CASE \E p \in Pid : internal_wait(p)
  BY <1>5, WaitShape
<1>6. CASE \E cycles \in SleepTimes : internal_sleep(cycles)
  BY <1>6, SleepShape
<1>7. CASE internal_preempt \/ timerInterrupt
  BY <1>7, PreemptShape, TimerShape
<1>8. CASE internal_shutdown \/ RestartFromMain
  BY <1>8, ShutdownShape, RestartShape
<1> QED
  BY <1>1, <1>2, <1>3, <1>4, <1>5, <1>6, <1>7, <1>8 DEF Next

-----------------------------------------------------------------------------
(* Every process has a guardian *)

Guarded ==
  \A b \in LivePcbs : parent[b] # Null =>
    \E g \in LivePcbs \ zombie_list : b \in Range(children[g])

EndedChildless == \A b \in zombie_list \cup FreePcbs : Range(children[b]) = {}

InitStays == init_pcb \in LivePcbs \ zombie_list /\ parent[init_pcb] = Null

GuardiansInv == Guarded /\ EndedChildless /\ InitStays

\* The process p has ended: whoever had a guardian has it still, or init.
LEMMA HandedOver ==
  ASSUME Inv, GuardiansInv, NEW p \in Pcb, parent[p] # Null,
         UNCHANGED <<parent, init_pcb>>,
         LivePcbs' \subseteq LivePcbs,
         LivePcbs' \ zombie_list' = (LivePcbs \ zombie_list) \ {p},
         \A b \in LivePcbs', g \in Pcb :
           b \in Range(ChildrenAfterExit(g, p)) => b \in Range(children'[g])
  PROVE  Guarded' /\ InitStays'
<1>1. p # init_pcb /\ init_pcb \in LivePcbs \ zombie_list /\ LivePcbs \subseteq Pcb
  BY DEF GuardiansInv, InitStays, LivePcbs
<1>2. InitStays'
  BY <1>1 DEF GuardiansInv, InitStays
<1>3. \A b \in Pcb : Range(ChildrenAfterExit(b, p)) =
        IF b = p THEN {}
        ELSE IF b = init_pcb THEN Range(children[b]) \cup Range(children[p])
        ELSE Range(children[b])
  BY <1>1, ChildrenAfterExitFacts
<1>4. Guarded'
  <2> SUFFICES ASSUME NEW b \in LivePcbs', parent[b] # Null
               PROVE  \E g \in LivePcbs' \ zombie_list' : b \in Range(children'[g])
    BY DEF Guarded
  <2>1. PICK g \in LivePcbs \ zombie_list : b \in Range(children[g])
    BY DEF GuardiansInv, Guarded
  <2>2. CASE g # p
    BY <1>1, <1>3, <2>1, <2>2
  <2>3. CASE g = p
    BY <1>1, <1>3, <2>1, <2>3
  <2> QED
    BY <2>2, <2>3
<1> QED
  BY <1>2, <1>4

LEMMA GuardiansStep ==
  ASSUME Inv, GuardiansInv, SystemStep
  PROVE  GuardiansInv'
<1>1. /\ FreePcbs \subseteq Pcb /\ LivePcbs \subseteq Pcb /\ FreePcbs \cap LivePcbs = {}
      /\ zombie_list \subseteq LivePcbs /\ running \notin zombie_list /\ Null \notin Pcb
  BY Apart DEF LivePcbs
<1>2. UNCHANGED pcb_allocator => LivePcbs' = LivePcbs /\ FreePcbs' = FreePcbs
  BY DEF LivePcbs, FreePcbs
<1>3. ASSUME UNCHANGED <<children, parent, init_pcb, zombie_list, pcb_allocator>>
      PROVE  GuardiansInv'
  BY <1>2, <1>3 DEF GuardiansInv, Guarded, EndedChildless, InitStays
<1>4. CASE Stopped \/ Parked \/ Scheduled \/ Replied
  BY <1>3, <1>4 DEF Stopped, Parked, Scheduled, Replied, lists, family, allocators
<1>5. ASSUME NEW new \in FreePcbs, Spawned(new) \/ Restarted(new)
      PROVE  GuardiansInv'
  <2>1. /\ LivePcbs' = LivePcbs \cup {new} /\ zombie_list' = zombie_list /\ new \in Pcb \ LivePcbs
        /\ FreePcbs' = FreePcbs \ {new}
        /\ \A b \in LivePcbs : /\ parent'[b] = parent[b]
                               /\ Range(children[b]) \subseteq Range(children'[b])
    BY <1>1, <1>5 DEF Spawned, Restarted
  <2>2. parent'[new] # Null => running \in LivePcbs' /\ new \in Range(children'[running])
    BY <1>1, <1>5 DEF Spawned, Restarted
  <2>3. Guarded'
    <3> SUFFICES ASSUME NEW b \in LivePcbs', parent'[b] # Null
                 PROVE  \E g \in LivePcbs' \ zombie_list' : b \in Range(children'[g])
      BY DEF Guarded
    <3>1. CASE b = new
      BY <1>1, <2>1, <2>2, <3>1
    <3>2. CASE b # new
      <4>1. PICK g \in LivePcbs \ zombie_list : b \in Range(children[g])
        BY <2>1, <3>2 DEF GuardiansInv, Guarded
      <4> QED
        BY <2>1, <4>1
    <3> QED
      BY <3>1, <3>2
  <2>4. EndedChildless'
    <3> SUFFICES ASSUME NEW b \in zombie_list' \cup FreePcbs' PROVE Range(children'[b]) = {}
      BY DEF EndedChildless
    <3>1. b \in zombie_list \cup FreePcbs /\ b # new /\ b \in Pcb
      BY <1>1, <2>1
    <3>2. Range(children'[b]) = Range(children[b])
      BY <1>1, <1>5, <3>1 DEF Spawned, Restarted
    <3> QED
      BY <3>1, <3>2 DEF GuardiansInv, EndedChildless
  <2>5. InitStays'
    BY <1>1, <1>5, <2>1 DEF GuardiansInv, InitStays, Spawned, Restarted
  <2> QED
    BY <2>3, <2>4, <2>5 DEF GuardiansInv
<1>6. CASE running \in Pcb /\ parent[running] # Null /\ (Collected \/ Zombied)
  <2>1. running # init_pcb
    BY <1>6 DEF GuardiansInv, InitStays
  <2>2. /\ LivePcbs' \subseteq LivePcbs
        /\ LivePcbs' \ zombie_list' = (LivePcbs \ zombie_list) \ {running}
        /\ UNCHANGED <<parent, init_pcb>>
    BY <1>1, <1>2, <1>6 DEF Collected, Zombied, allocators
  <2>3. \A b \in LivePcbs', g \in Pcb :
          b \in Range(ChildrenAfterExit(g, running)) => b \in Range(children'[g])
    BY <1>6 DEF Collected, Zombied
  <2>4. Guarded' /\ InitStays'
    BY <1>6, <2>2, <2>3, HandedOver
  <2>5. \A b \in Pcb : Range(ChildrenAfterExit(b, running)) =
          IF b = running THEN {}
          ELSE IF b = init_pcb THEN Range(children[b]) \cup Range(children[running])
          ELSE Range(children[b])
    BY <1>6, <2>1, ChildrenAfterExitFacts
  <2>6. \A z \in zombie_list' \cup FreePcbs' :
          z \in Pcb /\ z # init_pcb /\ (z = running \/ z \in zombie_list \cup FreePcbs)
    BY <1>1, <1>2, <1>6, <2>1 DEF GuardiansInv, InitStays, Collected, Zombied, allocators
  <2>7. EndedChildless'
    <3> SUFFICES ASSUME NEW z \in zombie_list' \cup FreePcbs' PROVE Range(children'[z]) = {}
      BY DEF EndedChildless
    <3>1. Range(ChildrenAfterExit(z, running)) = {}
      BY <2>5, <2>6 DEF GuardiansInv, EndedChildless
    <3> QED
      BY <1>6, <2>6, <3>1 DEF Collected, Zombied
  <2> QED
    BY <2>4, <2>7 DEF GuardiansInv
<1>7. ASSUME NEW p \in Pid, NEW child \in zombie_list, Reaped(p, child)
      PROVE  GuardiansInv'
  <2>1. /\ LivePcbs' = LivePcbs \ {child} /\ zombie_list' = zombie_list \ {child}
        /\ FreePcbs' = FreePcbs \cup {child}
        /\ \A b \in Pcb : /\ b # running => Range(children'[b]) = Range(children[b])
                          /\ Range(children[b]) \ {child} \subseteq Range(children'[b])
        /\ UNCHANGED <<parent, init_pcb>>
    BY <1>7 DEF Reaped
  <2>2. Guarded'
    <3> SUFFICES ASSUME NEW b \in LivePcbs', parent[b] # Null
                 PROVE  \E g \in LivePcbs' \ zombie_list' : b \in Range(children'[g])
      BY <2>1 DEF Guarded
    <3>1. PICK g \in LivePcbs \ zombie_list : b \in Range(children[g])
      BY <2>1 DEF GuardiansInv, Guarded
    <3> QED
      BY <1>1, <2>1, <3>1
  <2>3. InitStays'
    BY <1>1, <2>1 DEF GuardiansInv, InitStays
  <2>4. EndedChildless'
    <3> SUFFICES ASSUME NEW b \in zombie_list' \cup FreePcbs' PROVE Range(children'[b]) = {}
      BY DEF EndedChildless
    <3>1. b \in zombie_list \cup FreePcbs /\ b \in Pcb /\ b # running
      BY <1>1, <1>7, <2>1 DEF Reaped
    <3> QED
      BY <2>1, <3>1 DEF GuardiansInv, EndedChildless
  <2> QED
    BY <2>2, <2>3, <2>4 DEF GuardiansInv
<1>8. ASSUME NEW p \in Pid, Refused(p) \/ Blocked(p)
      PROVE  GuardiansInv'
  BY <1>3, <1>8 DEF Refused, Blocked, lists, family, allocators
<1> QED
  BY <1>4, <1>5, <1>6, <1>7, <1>8 DEF SystemStep, ProcessStep

LEMMA GuardiansInit == Init => GuardiansInv
<1> SUFFICES ASSUME Init PROVE GuardiansInv
  OBVIOUS
<1>1. 1 \in Pcb /\ zombie_list = {} /\ init_pcb = 1 /\ \A b \in Pcb : parent[b] = Null
  BY ProcessesAssumption DEF Init, Pcb
<1>2. 1 \notin FreePcbs
  BY ProcessesAssumption DEF Init, FreePcbs, Range
<1>3. FreePcbs \subseteq Pcb /\ \A b \in Pcb : Range(children[b]) = {}
  BY InvInit, Apart DEF Init, Range
<1> QED
  BY <1>1, <1>2, <1>3 DEF GuardiansInv, Guarded, EndedChildless, InitStays, LivePcbs


-----------------------------------------------------------------------------
(* What holds whatever the processes do *)

\* No two processes have the same pid: the next pid is larger than all.
PidsDistinct ==
  /\ \A b, c \in LivePcbs : pid[b] = pid[c] => b = c
  /\ \A b \in LivePcbs : pid[b] < last_pid

LEMMA PidsStep ==
  ASSUME Inv, PidsDistinct, SystemStep
  PROVE  PidsDistinct'
<1>1. /\ pid \in [Pcb -> Pid] /\ last_pid \in Int /\ LivePcbs \subseteq Pcb
      /\ \A b \in Pcb : pid[b] \in Int
  BY ProcessesAssumption DEF Inv, StateTyped, Pid, LivePcbs
<1>2. CASE LivePcbs' \subseteq LivePcbs /\ UNCHANGED <<pid, last_pid>>
  BY <1>1, <1>2 DEF PidsDistinct
<1>3. ASSUME NEW new \in FreePcbs, LivePcbs' = LivePcbs \cup {new}, new \in Pcb \ LivePcbs,
             last_pid' = last_pid + 1,
             \A b \in Pcb : pid'[b] = IF b = new THEN last_pid ELSE pid[b]
      PROVE  PidsDistinct'
  BY <1>1, <1>3 DEF PidsDistinct
<1>4. \A b \in FreePcbs : b \in Pcb \ LivePcbs
  BY Apart DEF LivePcbs
<1>5. UNCHANGED pcb_allocator => LivePcbs' = LivePcbs
  BY DEF LivePcbs, FreePcbs
<1> QED
  BY <1>2, <1>3, <1>4, <1>5
     DEF SystemStep, ProcessStep, Stopped, Parked, Scheduled, Replied, Spawned,
         Restarted, Collected, Zombied,
         Refused, Blocked, Reaped, family, allocators

\* A process that has ended has exit as its last call, and the block it leaves
\* keeps it.
EndedCalls == \A b \in FreePcbs \cup zombie_list : syscall_num[b] \in {"none", "exit"}

LEMMA EndedStep ==
  ASSUME Inv, EndedCalls, SystemStep
  PROVE  EndedCalls'
<1>1. /\ FreePcbs \subseteq Pcb /\ zombie_list \subseteq Pcb
      /\ running \notin FreePcbs \cup zombie_list
  BY Apart DEF LivePcbs
<1>2. UNCHANGED pcb_allocator => FreePcbs' = FreePcbs
  BY DEF FreePcbs
<1>3. ASSUME FreePcbs' \cup zombie_list' \subseteq FreePcbs \cup zombie_list,
             UNCHANGED call \/ \E num, arg : Recorded(num, arg)
      PROVE  EndedCalls'
  BY <1>1, <1>3 DEF EndedCalls, Recorded, call
<1>4. ASSUME FreePcbs' \cup zombie_list' \subseteq FreePcbs \cup zombie_list \cup {running},
             running \in Pcb, Recorded("exit", 0)
      PROVE  EndedCalls'
  BY <1>1, <1>4 DEF EndedCalls, Recorded
<1>5. CASE Stopped \/ Parked \/ Scheduled \/ Replied
  BY <1>2, <1>3, <1>5 DEF Stopped, Parked, RecordedOther, Scheduled, Replied, lists, allocators
<1>6. CASE \E new \in FreePcbs : Spawned(new) \/ Restarted(new)
  BY <1>3, <1>6 DEF Spawned, Restarted
<1>7. CASE Collected \/ Zombied
  BY <1>2, <1>4, <1>7 DEF Collected, Zombied, LivePcbs, allocators
<1>8. ASSUME NEW p \in Pid,
             Refused(p) \/ Blocked(p) \/ \E child \in zombie_list : Reaped(p, child)
      PROVE  EndedCalls'
  BY <1>2, <1>3, <1>8 DEF Refused, Blocked, Reaped, lists, allocators
<1> QED
  BY <1>5, <1>6, <1>7, <1>8 DEF SystemStep, ProcessStep

AlwaysInv == Inv /\ GuardiansInv /\ PidsDistinct /\ EndedCalls

LEMMA AlwaysInit ==
  ASSUME Init
  PROVE  AlwaysInv
<1>1. /\ Inv /\ zombie_list = {} /\ waiting_list = {} /\ ready_list = <<>>
      /\ running = 1 /\ last_pid = 1
  BY InvInit DEF Init
<1>2. \A b \in LivePcbs : b = 1
  BY <1>1 DEF Inv, Sound, EachProcessInOnePlace, Range
<1>3. \A b \in Pcb : pid[b] = 0 /\ syscall_num[b] = "none"
  BY DEF Init
<1>4. FreePcbs \subseteq Pcb /\ LivePcbs \subseteq Pcb
  BY <1>1, Apart DEF LivePcbs
<1> QED
  BY <1>1, <1>2, <1>3, <1>4, GuardiansInit DEF AlwaysInv, PidsDistinct, EndedCalls

LEMMA AlwaysStep ==
  ASSUME AlwaysInv, Inv', SystemStep
  PROVE  AlwaysInv'
  BY GuardiansStep, PidsStep, EndedStep DEF AlwaysInv

LEMMA AlwaysHolds == Spec => []AlwaysInv
<1>1. Init => AlwaysInv
  BY AlwaysInit
<1>2. AlwaysInv /\ [Next]_vars => AlwaysInv'
  BY InvStep, StepShape, AlwaysStep DEF AlwaysInv
<1> QED
  BY <1>1, <1>2, PTL DEF Spec

\* How internal_wait chooses the child: a zombie when any child will do and there
\* is one, the child with the pid when there is one.
LEMMA AwaitedChildChoice ==
  ASSUME NEW kids \in Seq(Pcb), kids # <<>>, NEW p
  PROVE  /\ AwaitedChild(kids, p) \in Range(kids)
         /\ p = 0 /\ status[AwaitedChild(kids, p)] # "Zombie" =>
              \A c \in Range(kids) : status[c] # "Zombie"
         /\ p # 0 /\ (\E c \in Range(kids) : pid[c] = p) =>
              pid[AwaitedChild(kids, p)] = p
<1> DEFINE Matches(c) == IF p = 0 THEN status[c] = "Zombie" ELSE pid[c] = p
           I == {i \in 1..Len(kids) : Matches(kids[i])}
           i == IF I # {} THEN Min(I) ELSE 0
<1>1. Len(kids) \in Nat \ {0} /\ DOMAIN kids = 1..Len(kids)
  BY LenProperties, EmptySeq
<1>2. AwaitedChild(kids, p) = IF i = 0 THEN kids[Len(kids)] ELSE kids[i]
  BY DEF AwaitedChild, SelectInSeq, Last
<1>3. /\ I \subseteq 1..Len(kids)
      /\ \A j \in I : Matches(kids[j])
      /\ I = {} => \A c \in Range(kids) : ~Matches(c)
  BY <1>1 DEF Range
<1> HIDE DEF I
<1>4. i \in 0..Len(kids) /\ (i # 0 => i \in I) /\ (i = 0 => I = {})
  BY <1>1, <1>3, FirstIndex
<1> HIDE DEF i
<1>5. AwaitedChild(kids, p) \in Range(kids)
  BY <1>1, <1>2, <1>4 DEF Range
<1>6. \/ Matches(AwaitedChild(kids, p))
      \/ \A c \in Range(kids) : ~Matches(c)
  BY <1>2, <1>3, <1>4
<1> QED
  BY <1>5, <1>6

-----------------------------------------------------------------------------
(* wait reports the child it was asked for *)

\* A blocked waiter is told the pid of the child that wakes it, and nobody gets
\* the CPU with the call of the block's last owner.
LEMMA ReportStep ==
  ASSUME AlwaysInv, "stranger" \notin Liberties, WaitReturnsAskedChild, ProcessStep
  PROVE  WaitReturnsAskedChild'
<1>1. Inv /\ GuardiansInv /\ EndedCalls /\ StateTyped
  BY DEF AlwaysInv, Inv
<1>2. /\ FreePcbs \subseteq Pcb /\ LivePcbs \subseteq Pcb /\ FreePcbs \cap LivePcbs = {}
      /\ waiting_list \subseteq LivePcbs /\ running \notin waiting_list
      /\ \A b \in Pcb : syscall_arg[b] \in Pid
  BY <1>1, Apart DEF LivePcbs, StateTyped
<1>3. UNCHANGED pcb_allocator => LivePcbs' = LivePcbs
  BY DEF LivePcbs, FreePcbs
<1> DEFINE Told(b) == syscall_num[b] = "wait" /\ b \notin waiting_list /\ syscall_arg[b] > 0
                        => retvalue[b] \in {syscall_arg[b], DSOS_EWAIT}
<1>4. \A b \in LivePcbs : Told(b)
  BY DEF WaitReturnsAskedChild
<1> SUFFICES ASSUME NEW b \in LivePcbs' PROVE Told(b)'
  BY DEF WaitReturnsAskedChild
<1>5. CASE Stopped
  BY <1>3, <1>4, <1>5 DEF Stopped, lists, call, allocators
<1>6. CASE (Parked /\ UNCHANGED retvalue) \/ Scheduled \/ Replied
  <2>1. b \in LivePcbs
    BY <1>3, <1>6 DEF Parked, Scheduled, Replied, allocators
  <2>2. \/ syscall_num'[b] # "wait"
        \/ /\ syscall_num'[b] = syscall_num[b] /\ syscall_arg'[b] = syscall_arg[b]
           /\ retvalue'[b] = retvalue[b]
           /\ b \in waiting_list /\ syscall_num[b] = "wait" => b \in waiting_list'
    BY <1>2, <1>6, <2>1
       DEF Parked, RecordedOther, Scheduled, Replied, Recorded, lists, call
  <2> QED
    BY <1>4, <2>1, <2>2
<1>7. ASSUME NEW new \in FreePcbs, Spawned(new) \/ Restarted(new)
      PROVE  Told(b)'
  <2>1. CASE b = new
    <3>1. syscall_num'[b] # "wait"
      BY <1>1, <1>2, <1>7, <2>1 DEF EndedCalls, Spawned, Restarted, Recorded, call
    <3> QED
      BY <3>1
  <2>2. CASE b # new
    <3>1. b \in LivePcbs /\ waiting_list' = waiting_list
      BY <1>7, <2>2 DEF Spawned, Restarted
    <3>2. \/ syscall_num'[b] # "wait"
          \/ /\ syscall_num'[b] = syscall_num[b] /\ syscall_arg'[b] = syscall_arg[b]
             /\ retvalue'[b] = retvalue[b]
      BY <1>2, <1>7, <3>1 DEF Spawned, Restarted, Recorded, call
    <3> QED
      BY <1>4, <3>1, <3>2
  <2> QED
    BY <2>1, <2>2
<1>8. CASE ParentAwaits(running) /\ Collected
  <2>1. b \in LivePcbs /\ b # running
    BY <1>8 DEF Collected
  <2>2. syscall_num'[b] = syscall_num[b] /\ syscall_arg'[b] = syscall_arg[b]
    BY <1>2, <1>8, <2>1 DEF Collected, Recorded
  <2>3. CASE b = parent[running]
    <3>1. retvalue'[b] = pid[running] /\ syscall_arg[b] \in {0, pid[running]}
      BY <1>2, <1>8, <2>1, <2>3 DEF Collected, ParentAwaits
    <3> QED
      BY <2>2, <3>1
  <2>4. CASE b # parent[running]
    <3>1. retvalue'[b] = retvalue[b] /\ (b \in waiting_list => b \in waiting_list')
      BY <1>2, <1>8, <2>1, <2>4 DEF Collected
    <3> QED
      BY <1>4, <2>1, <2>2, <3>1
  <2> QED
    BY <2>3, <2>4
<1>9. CASE Zombied
  <2>1. b \in LivePcbs /\ retvalue'[b] = retvalue[b] /\ waiting_list' = waiting_list
    BY <1>3, <1>9 DEF Zombied, allocators
  <2>2. \/ syscall_num'[b] # "wait"
        \/ syscall_num'[b] = syscall_num[b] /\ syscall_arg'[b] = syscall_arg[b]
    BY <1>2, <1>9, <2>1 DEF Zombied, Recorded
  <2> QED
    BY <1>4, <2>1, <2>2
<1>10. ASSUME NEW p \in Pid, Refused(p) \/ Blocked(p) \/ \E child \in zombie_list : Reaped(p, child)
       PROVE  Told(b)'
  <2>1. b \in LivePcbs
    BY <1>3, <1>10 DEF Refused, Blocked, Reaped, allocators
  <2>2. CASE b # running
    <3>1. /\ syscall_num'[b] = syscall_num[b] /\ syscall_arg'[b] = syscall_arg[b]
          /\ retvalue'[b] = retvalue[b] /\ (b \in waiting_list => b \in waiting_list')
      BY <1>2, <1>10, <2>1, <2>2 DEF Refused, Blocked, Reaped, Recorded, lists
    <3> QED
      BY <1>4, <2>1, <3>1
  <2>3. CASE b = running /\ Refused(p)
    BY <1>2, <2>1, <2>3 DEF Refused
  <2>4. CASE b = running /\ Blocked(p)
    BY <2>4 DEF Blocked
  <2>5. ASSUME b = running, NEW child \in zombie_list, Reaped(p, child)
        PROVE  Told(b)'
    <3>1. retvalue'[b] = pid[child] /\ syscall_arg'[b] = p
      BY <1>2, <2>1, <2>5 DEF Reaped, Recorded
    <3>2. CASE p = 0
      BY <3>1, <3>2
    <3>3. CASE p # 0
      <4>1. /\ child = AwaitedChild(children[b], p)
            /\ \E c \in Range(children[b]) : pid[c] = p
        BY <2>5, <3>3 DEF Reaped, MayWaitFor
      <4>2. children[b] \in Seq(Pcb) /\ children[b] # <<>>
        BY <1>1, <1>2, <2>1, <2>5 DEF StateTyped, Reaped, Range
      <4>3. pid[child] = p
        BY <3>3, <4>1, <4>2, AwaitedChildChoice
      <4> QED
        BY <3>1, <4>3
    <3> QED
      BY <3>2, <3>3
  <2> QED
    BY <1>10, <2>2, <2>3, <2>4, <2>5
<1> QED
  BY <1>1, <1>5, <1>6, <1>7, <1>8, <1>9, <1>10 DEF ProcessStep

-----------------------------------------------------------------------------
(* Families in which nobody leaves children behind *)

\* The parent pointer of a child names the owner of the list it is in.
Families == \A b \in Pcb : \A c \in Range(children[b]) : parent[c] = b

\* Without orphans, exit has no children to hand over.
LEMMA ChildlessExit ==
  ASSUME Inv, GuardiansInv, "orphan" \notin Liberties, MayExit, running \in Pcb,
         parent[running] # Null
  PROVE  \A b \in Pcb : Range(ChildrenAfterExit(b, running)) = Range(children[b])
<1>1. running # init_pcb /\ children[running] = <<>>
  BY DEF MayExit, GuardiansInv, InitStays
<1>2. Range(<<>>) = {}
  BY DEF Range
<1>3. Range(children[running]) = {}
  BY <1>1, <1>2
<1>4. \A b \in Pcb : Range(ChildrenAfterExit(b, running)) =
        IF b = running THEN {}
        ELSE IF b = init_pcb THEN Range(children[b]) \cup Range(children[running])
        ELSE Range(children[b])
  BY <1>1, ChildrenAfterExitFacts
<1> QED
  BY <1>3, <1>4

LEMMA FamiliesStep ==
  ASSUME Inv, GuardiansInv, "orphan" \notin Liberties, Families, SystemStep
  PROVE  Families'
<1>1. /\ FreePcbs \subseteq Pcb /\ LivePcbs \subseteq Pcb /\ FreePcbs \cap LivePcbs = {}
      /\ \A b \in Pcb : Range(children[b]) \subseteq LivePcbs
  BY Apart DEF LivePcbs
<1>2. ASSUME UNCHANGED parent,
             \A b \in Pcb : Range(children'[b]) \subseteq Range(children[b])
      PROVE  Families'
  BY <1>2 DEF Families
<1>3. CASE Stopped \/ Parked \/ Scheduled \/ Replied
  BY <1>2, <1>3 DEF Stopped, Parked, Scheduled, Replied, family
<1>4. ASSUME NEW new \in FreePcbs, Spawned(new) \/ Restarted(new)
      PROVE  Families'
  <2> SUFFICES ASSUME NEW b \in Pcb, NEW c \in Range(children'[b])
               PROVE  parent'[c] = b
    BY DEF Families
  <2>1. CASE c \in Range(children[b])
    <3>1. c \in LivePcbs /\ c # new /\ parent[c] = b
      BY <1>1, <2>1 DEF Families
    <3> QED
      BY <1>1, <1>4, <3>1 DEF Spawned, Restarted
  <2>2. CASE c \notin Range(children[b])
    <3>1. Spawned(new) /\ b = running /\ c = new
      BY <1>4, <2>2 DEF Spawned, Restarted
    <3>2. new \in Pcb
      BY <1>1
    <3> QED
      BY <3>1, <3>2 DEF Spawned
  <2> QED
    BY <2>1, <2>2
<1>5. CASE MayExit /\ running \in Pcb /\ parent[running] # Null /\ (Collected \/ Zombied)
  BY <1>2, <1>5, ChildlessExit DEF Collected, Zombied
<1>6. ASSUME NEW p \in Pid, Refused(p) \/ Blocked(p) \/ \E child \in zombie_list : Reaped(p, child)
      PROVE  Families'
  BY <1>2, <1>6 DEF Refused, Blocked, Reaped, family
<1> QED
  BY <1>3, <1>4, <1>5, <1>6 DEF SystemStep, ProcessStep

LEMMA FamiliesHold ==
  ASSUME "orphan" \notin Liberties
  PROVE  Spec => [](AlwaysInv /\ Families)
<1>1. Init => Families
  BY DEF Init, Families, Range
<1>2. AlwaysInv /\ Families /\ [Next]_vars => Families'
  BY StepShape, FamiliesStep DEF AlwaysInv
<1> QED
  BY <1>1, <1>2, AlwaysHolds, PTL DEF Spec

-----------------------------------------------------------------------------
(* The CPU is never idle *)

\* The sleeper runs or is ready as soon as there is one, and no process but the
\* one init was given an orphan's null parent.
CpuBusy ==
  /\ running # Null
  /\ last_pid > 1 => \E b \in {running} \cup Range(ready_list) : pid[b] = 1
  /\ \A b \in LivePcbs : parent[b] = Null => b = init_pcb

\* Whoever may block leaves the sleeper ready.
LEMMA SleeperReady ==
  ASSUME "no_sleeper" \notin Liberties, CpuBusy, MayBlock
  PROVE  /\ ready_list # <<>>
         /\ \E b \in Range(ready_list) : pid[b] = 1
<1>1. \E b \in Range(ready_list) : pid[b] = 1
  BY DEF CpuBusy, MayBlock
<1>2. Range(<<>>) = {}
  BY DEF Range
<1> QED
  BY <1>1, <1>2

LEMMA BusyStep ==
  ASSUME Inv, "no_sleeper" \notin Liberties, CpuBusy, SystemStep
  PROVE  CpuBusy'
<1>1. /\ FreePcbs \subseteq Pcb /\ LivePcbs \subseteq Pcb /\ FreePcbs \cap LivePcbs = {}
      /\ running \in LivePcbs /\ Range(ready_list) \subseteq LivePcbs /\ Null \notin Pcb
      /\ waiting_list \subseteq LivePcbs /\ last_pid \in Nat
  <2>1. last_pid \in Nat
    BY ProcessesAssumption DEF Inv, StateTyped, Pid
  <2> QED
    BY <2>1, Apart DEF LivePcbs, CpuBusy
<1>2. ASSUME UNCHANGED <<pid, parent, init_pcb, last_pid>>, LivePcbs' \subseteq LivePcbs,
             running' # Null,
             \A b \in {running} \cup Range(ready_list) : pid[b] = 1 =>
               \E c \in {running'} \cup Range(ready_list') : pid[c] = 1
      PROVE  CpuBusy'
  BY <1>2 DEF CpuBusy
<1>3. UNCHANGED pcb_allocator => LivePcbs' = LivePcbs
  BY DEF LivePcbs, FreePcbs
<1>4. CASE Stopped \/ Replied
  BY <1>1, <1>2, <1>3, <1>4 DEF Stopped, Replied, lists, family, allocators
<1>5. CASE Scheduled
  <2>1. UNCHANGED <<pid, parent, init_pcb, last_pid, pcb_allocator>>
    BY <1>5 DEF Scheduled, family, allocators
  <2>2. PICK woken \in SUBSET waiting_list :
          {running'} \cup Range(ready_list') = {running} \cup Range(ready_list) \cup woken
    BY <1>5 DEF Scheduled
  <2>3. running' # Null
    BY <1>1, <2>2
  <2> QED
    BY <1>2, <1>3, <2>1, <2>2, <2>3
<1>6. ASSUME MayBlock, Dispatched, UNCHANGED <<pid, parent, init_pcb, last_pid, pcb_allocator>>
      PROVE  CpuBusy'
  <2>1. \E b \in Range(ready_list) : pid[b] = 1
    BY <1>6, SleeperReady
  <2>2. running' # Null /\ {running'} \cup Range(ready_list') = Range(ready_list)
    BY <1>1, <1>6 DEF Dispatched
  <2> QED
    BY <1>2, <1>3, <1>6, <2>1, <2>2
<1>7. CASE Parked
  BY <1>6, <1>7, SleeperReady DEF Parked, family, allocators
<1>8. ASSUME NEW new \in FreePcbs, Spawned(new)
      PROVE  CpuBusy'
  <2>1. /\ running' = running /\ Range(ready_list') = Range(ready_list) \cup {new}
        /\ last_pid' = last_pid + 1 /\ pid'[new] = last_pid
        /\ \A b \in LivePcbs : pid'[b] = pid[b]
    BY <1>1, <1>8 DEF Spawned
  <2>2. last_pid' > 1 => \E b \in {running'} \cup Range(ready_list') : pid'[b] = 1
    <3>1. CASE last_pid > 1
      <4>1. PICK b \in {running} \cup Range(ready_list) : pid[b] = 1
        BY <3>1 DEF CpuBusy
      <4>2. pid'[b] = 1
        BY <1>1, <2>1, <4>1
      <4> QED
        BY <2>1, <4>1, <4>2
    <3>2. CASE last_pid = 1
      BY <2>1, <3>2
    <3>3. CASE last_pid = 0
      BY <2>1, <3>3
    <3> QED
      BY <1>1, <3>1, <3>2, <3>3
  <2>3. \A b \in LivePcbs' : parent'[b] = Null => b = init_pcb'
    BY <1>1, <1>8 DEF Spawned, CpuBusy
  <2>4. running' # Null
    BY <2>1 DEF CpuBusy
  <2> QED
    BY <2>2, <2>3, <2>4 DEF CpuBusy
<1>9. ASSUME NEW new \in FreePcbs, Restarted(new)
      PROVE  CpuBusy'
  BY <1>9 DEF Restarted, CpuBusy
<1>10. CASE MayExit /\ Collected
  <2>1. \E b \in Range(ready_list) : pid[b] = 1
    BY <1>10, SleeperReady DEF MayExit
  <2>2. running' # Null /\ ready_list' = ready_list
    BY <1>1, <1>10 DEF Collected
  <2> QED
    BY <1>2, <1>10, <2>1, <2>2 DEF Collected
<1>11. CASE MayExit /\ Zombied
  BY <1>6, <1>11 DEF MayExit, Zombied, allocators
<1>12. ASSUME NEW p \in Pid, Refused(p) \/ \E child \in zombie_list : Reaped(p, child)
       PROVE  CpuBusy'
  <2>1. UNCHANGED <<pid, parent, init_pcb, last_pid, running, ready_list>>
    BY <1>12 DEF Refused, Reaped, family, allocators, lists
  <2>2. LivePcbs' \subseteq LivePcbs
    BY <1>3, <1>12 DEF Refused, Reaped, allocators
  <2> QED
    BY <1>1, <1>2, <2>1, <2>2 DEF CpuBusy
<1>13. ASSUME NEW p \in Pid, Blocked(p)
       PROVE  CpuBusy'
  BY <1>6, <1>13 DEF Blocked, family, allocators
<1> QED
  BY <1>4, <1>5, <1>7, <1>8, <1>9, <1>10, <1>11, <1>12, <1>13 DEF SystemStep, ProcessStep

LEMMA BusyInit ==
  ASSUME Init
  PROVE  CpuBusy
<1>1. Inv /\ zombie_list = {} /\ waiting_list = {} /\ ready_list = <<>>
      /\ running = 1 /\ init_pcb = 1 /\ last_pid = 1
  BY InvInit DEF Init
<1>2. \A b \in LivePcbs : b = 1
  BY <1>1 DEF Inv, Sound, EachProcessInOnePlace, Range
<1> QED
  BY <1>1, <1>2 DEF CpuBusy, Null

LEMMA BusyHolds ==
  ASSUME "no_sleeper" \notin Liberties
  PROVE  Spec => [](AlwaysInv /\ CpuBusy)
<1>1. Init => CpuBusy
  BY BusyInit
<1>2. AlwaysInv /\ CpuBusy /\ [Next]_vars => CpuBusy'
  BY StepShape, BusyStep DEF AlwaysInv
<1> QED
  BY <1>1, <1>2, AlwaysHolds, PTL DEF Spec

-----------------------------------------------------------------------------
(* Nobody waits in vain *)

\* A process blocked in wait has a child that it asked for, and none of those
\* is a zombie.
WaitersHope ==
  \A w \in waiting_list : BlockedInWait(w) =>
    AwaitedBy(w) # {} /\ AwaitedBy(w) \cap zombie_list = {}

LEMMA HopeStep ==
  ASSUME AlwaysInv, {"orphan", "stranger"} \cap Liberties = {}, Families, WaitersHope,
         SystemStep
  PROVE  WaitersHope'
<1>1. Inv /\ GuardiansInv /\ PidsDistinct /\ StateTyped /\ "orphan" \notin Liberties
  BY DEF AlwaysInv, Inv
<1>2. /\ FreePcbs \subseteq Pcb /\ LivePcbs \subseteq Pcb /\ FreePcbs \cap LivePcbs = {}
      /\ waiting_list \subseteq LivePcbs /\ running \notin waiting_list
      /\ zombie_list \subseteq LivePcbs
      /\ \A b \in Pcb : Range(children[b]) \subseteq LivePcbs
  BY <1>1, Apart DEF LivePcbs
<1>3. ASSUME NEW w \in waiting_list,
             syscall_num'[w] = syscall_num[w] /\ syscall_arg'[w] = syscall_arg[w],
             Range(children'[w]) = Range(children[w]),
             \A c \in LivePcbs : pid'[c] = pid[c],
             zombie_list' \cap AwaitedBy(w) \subseteq zombie_list,
             BlockedInWait(w)'
      PROVE  (AwaitedBy(w) # {} /\ AwaitedBy(w) \cap zombie_list = {})'
  <2>1. BlockedInWait(w)
    BY <1>3 DEF BlockedInWait
  <2>2. AwaitedBy(w)' = AwaitedBy(w)
    BY <1>2, <1>3 DEF AwaitedBy
  <2> QED
    BY <1>3, <2>1, <2>2 DEF WaitersHope
<1> SUFFICES ASSUME NEW w \in waiting_list', BlockedInWait(w)'
             PROVE  (AwaitedBy(w) # {} /\ AwaitedBy(w) \cap zombie_list = {})'
  BY DEF WaitersHope
<1>4. CASE Stopped
  BY <1>3, <1>4 DEF Stopped, lists, family, call
<1>5. CASE Parked \/ Scheduled \/ Replied
  <2>1. /\ w \in waiting_list
        /\ syscall_num'[w] = syscall_num[w] /\ syscall_arg'[w] = syscall_arg[w]
    BY <1>2, <1>5
       DEF Parked, RecordedOther, Scheduled, Replied, Recorded, call, lists, BlockedInWait
  <2> QED
    BY <1>3, <1>5, <2>1 DEF Parked, RecordedOther, Scheduled, Replied, family, lists
<1>6. ASSUME NEW new \in FreePcbs, Spawned(new) \/ Restarted(new)
      PROVE  (AwaitedBy(w) # {} /\ AwaitedBy(w) \cap zombie_list = {})'
  <2>1. w \in waiting_list /\ w # new /\ w \in Pcb /\ zombie_list' = zombie_list
    BY <1>2, <1>6 DEF Spawned, Restarted
  <2>2. syscall_num'[w] = syscall_num[w] /\ syscall_arg'[w] = syscall_arg[w]
    BY <1>2, <1>6, <2>1 DEF Spawned, Restarted, Recorded, call
  <2>3. Range(children'[w]) = Range(children[w])
    BY <1>2, <1>6, <2>1 DEF Spawned, Restarted
  <2>4. \A c \in LivePcbs : pid'[c] = pid[c]
    BY <1>2, <1>6 DEF Spawned, Restarted
  <2> QED
    BY <1>3, <2>1, <2>2, <2>3, <2>4
<1>7. CASE MayExit /\ running \in Pcb /\ parent[running] # Null
           /\ ParentAwaits(running) /\ Collected
  <2>1. w \in waiting_list /\ w # parent[running] /\ w \in Pcb /\ w # running
    BY <1>2, <1>7 DEF Collected
  <2>2. /\ syscall_num'[w] = syscall_num[w] /\ syscall_arg'[w] = syscall_arg[w]
        /\ zombie_list' = zombie_list /\ pid' = pid
    BY <1>2, <1>7, <2>1 DEF Collected, Recorded
  <2>3. Range(children'[w]) = Range(children[w])
    <3>1. Range(ChildrenAfterExit(w, running)) = Range(children[w])
      BY <1>1, <1>7, <2>1, ChildlessExit
    <3>2. running \notin Range(children[w])
      BY <2>1 DEF Families
    <3> QED
      BY <1>7, <2>1, <3>1, <3>2 DEF Collected
  <2> QED
    BY <1>3, <2>1, <2>2, <2>3
<1>8. CASE MayExit /\ running \in Pcb /\ parent[running] # Null
           /\ ~ParentAwaits(running) /\ Zombied
  <2>1. w \in waiting_list /\ w \in Pcb /\ w # running
    BY <1>2, <1>8 DEF Zombied
  <2>2. /\ syscall_num'[w] = syscall_num[w] /\ syscall_arg'[w] = syscall_arg[w]
        /\ zombie_list' = zombie_list \cup {running} /\ pid' = pid
    BY <1>2, <1>8, <2>1 DEF Zombied, Recorded
  <2>3. Range(children'[w]) = Range(children[w])
    BY <1>1, <1>8, <2>1, ChildlessExit DEF Zombied
  <2>4. running \notin AwaitedBy(w)
    <3> SUFFICES ASSUME running \in AwaitedBy(w) PROVE FALSE
      OBVIOUS
    <3>1. parent[running] = w /\ syscall_arg[w] \in {0, pid[running]}
      BY <2>1 DEF AwaitedBy, Families
    <3>2. status[w] = "Waiting"
      BY <1>1, <2>1 DEF Inv, Sound, StatusMatchesPlace
    <3>3. syscall_num[w] = "wait"
      BY <2>2 DEF BlockedInWait
    <3> QED
      BY <1>8, <3>1, <3>2, <3>3 DEF ParentAwaits
  <2> QED
    BY <1>3, <2>1, <2>2, <2>3, <2>4
<1>9. ASSUME NEW p \in Pid, Refused(p) \/ \E child \in zombie_list : Reaped(p, child)
      PROVE  (AwaitedBy(w) # {} /\ AwaitedBy(w) \cap zombie_list = {})'
  <2>1. w \in waiting_list /\ w \in Pcb /\ w # running
    BY <1>2, <1>9 DEF Refused, Reaped, lists
  <2>2. /\ syscall_num'[w] = syscall_num[w] /\ syscall_arg'[w] = syscall_arg[w]
        /\ zombie_list' \subseteq zombie_list /\ pid' = pid
    BY <1>2, <1>9, <2>1 DEF Refused, Reaped, Recorded, lists, family
  <2>3. Range(children'[w]) = Range(children[w])
    BY <1>9, <2>1 DEF Refused, Reaped, family
  <2> QED
    BY <1>3, <2>1, <2>2, <2>3
<1>10. ASSUME NEW p \in Pid, Blocked(p)
       PROVE  (AwaitedBy(w) # {} /\ AwaitedBy(w) \cap zombie_list = {})'
  <2>1. UNCHANGED <<pid, children, zombie_list>>
    BY <1>10 DEF Blocked, family
  <2>2. CASE w # running
    <3>1. w \in waiting_list
      BY <1>10, <2>2 DEF Blocked
    <3>2. syscall_num'[w] = syscall_num[w] /\ syscall_arg'[w] = syscall_arg[w]
      BY <1>2, <1>10, <2>2, <3>1 DEF Blocked, Recorded
    <3> QED
      BY <1>3, <2>1, <3>1, <3>2
  <2>3. CASE w = running
    <3> DEFINE kids  == children[running]
               child == AwaitedChild(kids, p)
    <3>1. /\ running \in Pcb /\ kids \in Seq(Pcb) /\ kids # <<>> /\ status[child] # "Zombie"
          /\ syscall_arg'[w] = p /\ p \in Nat
      <4>1. running \in Pcb
        BY <1>2, <1>10 DEF Blocked
      <4>2. kids \in Seq(Pcb)
        BY <1>1, <4>1 DEF StateTyped
      <4>3. syscall_arg'[w] = p
        BY <1>10, <2>3, <4>1 DEF Blocked, Recorded
      <4>4. p \in Nat
        BY ProcessesAssumption DEF Pid
      <4> QED
        BY <1>10, <4>1, <4>2, <4>3, <4>4 DEF Blocked
    <3>2. /\ child \in Range(kids)
          /\ p = 0 => \A c \in Range(kids) : status[c] # "Zombie"
          /\ p # 0 /\ (\E c \in Range(kids) : pid[c] = p) => pid[child] = p
      BY <3>1, AwaitedChildChoice
    <3>3. p # 0 => \E c \in Range(kids) : pid[c] = p
      BY <1>10 DEF Blocked, MayWaitFor
    <3>4. AwaitedBy(w)' = {c \in Range(kids) : p \in {0, pid[c]}}
      BY <2>1, <2>3, <3>1 DEF AwaitedBy
    <3> HIDE DEF kids, child
    <3>5. child \in AwaitedBy(w)'
      BY <3>1, <3>2, <3>3, <3>4
    <3>6. \A c \in AwaitedBy(w)' : status[c] # "Zombie"
      <4> SUFFICES ASSUME NEW c \in Range(kids), p \in {0, pid[c]}
                   PROVE  status[c] # "Zombie"
        BY <3>4
      <4>1. CASE p = 0
        BY <3>2, <4>1
      <4>2. CASE p # 0
        <5>1. pid[c] = pid[child]
          BY <3>2, <3>3, <4>2
        <5>2. c \in LivePcbs /\ child \in LivePcbs
          BY <1>2, <3>1, <3>2 DEF kids
        <5>3. c = child
          BY <1>1, <5>1, <5>2 DEF PidsDistinct
        <5> QED
          BY <3>1, <5>3
      <4> QED
        BY <4>1, <4>2
    <3>7. \A z \in zombie_list : status[z] = "Zombie"
      BY <1>1, Apart
    <3> QED
      BY <2>1, <3>5, <3>6, <3>7
  <2> QED
    BY <2>2, <2>3
<1> QED
  BY <1>1, <1>4, <1>5, <1>6, <1>7, <1>8, <1>9, <1>10 DEF SystemStep, ProcessStep

-----------------------------------------------------------------------------
(* The theorems *)

\* Every process but an init is in one children list, once, and that list
\* belongs to a process that can still wait for it, orphans and the children of
\* zombies included.
THEOREM GuardiansCorrect == Spec => []OneGuardianEach
<1>1. Inv /\ GuardiansInv => OneGuardianEach
  <2> SUFFICES ASSUME Inv, GuardiansInv PROVE OneGuardianEach
    OBVIOUS
  <2>1. ChildrenSound /\ \A b \in Pcb : children[b] \in Seq(Pcb)
    BY DEF Inv, Sound, StateTyped
  <2>2. ASSUME NEW g \in LivePcbs, NEW b, b \in Range(children[g])
        PROVE  Contains(children[g], b)
    <3>1. children[g] \in Seq(Pcb)
      BY <2>1 DEF LivePcbs
    <3>2. DOMAIN children[g] = 1..Len(children[g])
      BY <3>1, LenProperties
    <3> QED
      BY <2>2, <3>2 DEF Contains, Range
  <2> QED
    BY <2>1, <2>2 DEF OneGuardianEach, ChildrenSound, GuardiansInv, Guarded
<1> QED
  BY <1>1, GuardiansInit, GuardiansStep, StepShape, InvHolds, PTL DEF Spec

\* wait(pid) returns the pid it was asked for, or the error, as long as nobody
\* waits for a process that is not its child: also the waiters that an exit in
\* another process awakes, and also when children become orphans.
THEOREM WaitCorrect ==
  ASSUME "stranger" \notin Liberties
  PROVE  Spec => []WaitReturnsAskedChild
<1>1. Init => WaitReturnsAskedChild
  BY DEF Init, WaitReturnsAskedChild, LivePcbs
<1>2. AlwaysInv /\ WaitReturnsAskedChild /\ [Next]_vars => WaitReturnsAskedChild'
  BY StepShape, ReportStep DEF AlwaysInv
<1> QED
  BY <1>1, <1>2, AlwaysHolds, PTL DEF Spec

\* Families and a busy CPU keep the parent pointers good.
LEMMA ParentsFollow ==
  ASSUME AlwaysInv, Families, CpuBusy
  PROVE  ParentPointersLive
<1> SUFFICES ASSUME NEW b \in LivePcbs \ {init_pcb}
             PROVE  /\ parent[b] \in LivePcbs \ zombie_list
                    /\ Contains(children[parent[b]], b)
  BY DEF ParentPointersLive
<1>1. PICK g \in LivePcbs \ zombie_list : b \in Range(children[g])
  BY DEF AlwaysInv, GuardiansInv, Guarded, CpuBusy
<1>2. g \in Pcb /\ parent[b] = g /\ children[g] \in Seq(Pcb)
  BY <1>1 DEF Families, LivePcbs, AlwaysInv, Inv, StateTyped
<1>3. Contains(children[g], b)
  BY <1>1, <1>2, LenProperties DEF Contains, Range
<1> QED
  BY <1>1, <1>2, <1>3

\* The parent that internal_exit follows is alive and has the process in its
\* list, as long as nobody leaves children behind and the sleeper never blocks
\* (the second init of an idle machine would own no process).
THEOREM ParentsCorrect ==
  ASSUME {"orphan", "no_sleeper"} \cap Liberties = {}
  PROVE  Spec => []ParentPointersLive
<1>1. "orphan" \notin Liberties /\ "no_sleeper" \notin Liberties
  OBVIOUS
<1>2. AlwaysInv /\ Families /\ CpuBusy => ParentPointersLive
  BY ParentsFollow
<1> QED
  BY <1>1, <1>2, FamiliesHold, BusyHolds, PTL

LEMMA WakeupFollows ==
  ASSUME AlwaysInv, Families, WaitersHope
  PROVE  NoLostWakeup
<1> SUFFICES ASSUME NEW w \in waiting_list, BlockedInWait(w)
             PROVE  /\ AwaitedBy(w) # {}
                    /\ \A c \in AwaitedBy(w) : c \notin zombie_list /\ parent[c] = w
  BY DEF NoLostWakeup
<1>1. w \in Pcb
  BY DEF AlwaysInv, Inv, StateTyped
<1>2. \A c \in AwaitedBy(w) : parent[c] = w
  BY <1>1 DEF AwaitedBy, Families
<1> QED
  BY <1>2 DEF WaitersHope

\* A process blocked in wait has a child that it asked for, none of those is a
\* zombie, and each of them will find it when it exits, as long as nobody leaves
\* children behind or waits for a process that is not its child.
THEOREM WakeupCorrect ==
  ASSUME {"orphan", "stranger"} \cap Liberties = {}
  PROVE  Spec => []NoLostWakeup
<1>1. "orphan" \notin Liberties
  OBVIOUS
<1>2. Init => WaitersHope
  BY DEF Init, WaitersHope
<1>3. AlwaysInv /\ Families /\ WaitersHope /\ [Next]_vars => WaitersHope'
  BY StepShape, HopeStep DEF AlwaysInv
<1>4. AlwaysInv /\ Families /\ WaitersHope => NoLostWakeup
  BY WakeupFollows
<1> QED
  BY <1>1, <1>2, <1>3, <1>4, FamiliesHold, PTL DEF Spec

\* A PCB goes back to the pool only in a wait of its parent, which is told its
\* pid and has the CPU to read it, as long as nobody leaves children behind.
THEOREM ReapCorrect ==
  ASSUME "orphan" \notin Liberties
  PROVE  Spec => ReapedIsReported
<1>1. ASSUME AlwaysInv, Families, [Next]_vars
      PROVE  FreedIsReported
  <2> SUFFICES ASSUME NEW b \in LivePcbs, b \in FreePcbs'
               PROVE  /\ parent[b] = running'
                      /\ Contains(children[parent[b]], b)
                      /\ syscall_num'[running'] = "wait"
                      /\ retvalue'[running'] = pid[b]
    BY DEF FreedIsReported
  <2>1. /\ Inv /\ GuardiansInv /\ b \in Pcb /\ b \notin FreePcbs
        /\ \A c \in Pcb : children[c] \in Seq(Pcb)
    BY <1>1 DEF AlwaysInv, Inv, StateTyped, LivePcbs
  <2>2. \A g \in Pcb : b \in Range(children[g]) => parent[b] = g /\ Contains(children[parent[b]], b)
    <3> SUFFICES ASSUME NEW g \in Pcb, b \in Range(children[g])
                 PROVE  parent[b] = g /\ Contains(children[g], b)
      OBVIOUS
    <3>1. parent[b] = g
      BY <1>1 DEF Families
    <3>2. Contains(children[g], b)
      BY <2>1, LenProperties DEF Contains, Range
    <3> QED
      BY <3>1, <3>2
  <2>3. UNCHANGED pcb_allocator => FreePcbs' = FreePcbs
    BY DEF FreePcbs
  <2>4. CASE Stopped \/ Parked \/ Scheduled \/ Replied
    BY <2>1, <2>3, <2>4 DEF Stopped, Parked, Scheduled, Replied, allocators
  <2>5. CASE \E new \in FreePcbs : Spawned(new) \/ Restarted(new)
    BY <2>1, <2>5 DEF Spawned, Restarted
  <2>6. CASE MayExit /\ running \in Pcb /\ parent[running] # Null
             /\ ParentAwaits(running) /\ Collected
    <3>1. b = running /\ parent[b] \in Pcb /\ parent[b] # running
      BY <2>1, <2>6, Apart DEF Collected, LivePcbs
    <3>2. b \in Range(children[parent[b]])
      BY <2>1, <2>6, <3>1, ChildlessExit DEF Collected
    <3>3. running' = parent[b] /\ retvalue'[running'] = pid[b]
      BY <2>6, <3>1 DEF Collected
    <3>4. syscall_num'[running'] = "wait"
      BY <2>6, <3>1, <3>3 DEF Collected, Recorded, ParentAwaits
    <3> QED
      BY <2>2, <3>1, <3>2, <3>3, <3>4
  <2>7. CASE Zombied
    BY <2>1, <2>3, <2>7 DEF Zombied, allocators
  <2>8. ASSUME NEW p \in Pid, Refused(p) \/ Blocked(p)
        PROVE  FALSE
    BY <2>1, <2>3, <2>8 DEF Refused, Blocked, allocators
  <2>9. ASSUME NEW p \in Pid, NEW child \in zombie_list, Reaped(p, child)
        PROVE  /\ parent[b] = running'
               /\ Contains(children[parent[b]], b)
               /\ syscall_num'[running'] = "wait"
               /\ retvalue'[running'] = pid[b]
    <3>1. b = child /\ running' = running /\ running \in Pcb /\ b \in Range(children[running])
      BY <2>1, <2>9 DEF Reaped, LivePcbs
    <3> QED
      BY <2>2, <2>9, <3>1 DEF Reaped, Recorded
  <2> QED
    BY <1>1, <2>1, <2>4, <2>5, <2>6, <2>7, <2>8, <2>9, StepShape DEF AlwaysInv, ProcessStep
<1> QED
  BY <1>1, FamiliesHold, PTL DEF Spec, ReapedIsReported

\* The processes whose context was never written are children of fork.
Contexts == LivePcbs \subseteq contexts

LEMMA ContextsInit ==
  ASSUME Init
  PROVE  Contexts
<1>1. Inv /\ zombie_list = {} /\ waiting_list = {} /\ ready_list = <<>> /\ running = 1
      /\ contexts = {1}
  BY InvInit DEF Init
<1> QED
  BY <1>1 DEF Inv, Sound, EachProcessInOnePlace, Range, Contexts

LEMMA ContextsStep ==
  ASSUME "fork" \notin Liberties, Contexts, SystemStep
  PROVE  Contexts'
<1>1. UNCHANGED pcb_allocator => LivePcbs' = LivePcbs
  BY DEF LivePcbs, FreePcbs
<1> QED
  BY <1>1
     DEF SystemStep, ProcessStep, Contexts, Stopped, Parked, Scheduled, Replied, Spawned,
         Restarted, Collected, Zombied, Refused, Blocked, Reaped, allocators

LEMMA ContextsHold ==
  ASSUME "fork" \notin Liberties
  PROVE  Spec => []Contexts
<1>1. Init => Contexts
  BY ContextsInit
<1>2. AlwaysInv /\ Contexts /\ [Next]_vars => Contexts'
  BY StepShape, ContextsStep DEF AlwaysInv
<1> QED
  BY <1>1, <1>2, AlwaysHolds, PTL DEF Spec

LEMMA FaultsStep ==
  ASSUME Liberties \subseteq {"stranger"}, AlwaysInv, Families, CpuBusy, Contexts,
         ParentPointersLive, NeverFaults, [Next]_vars
  PROVE  NeverFaults'
<1>1. /\ "orphan" \notin Liberties /\ "no_sleeper" \notin Liberties
      /\ "fork" \notin Liberties /\ "exhaust" \notin Liberties
      /\ "init_exits" \notin Liberties
  OBVIOUS
<1> SUFFICES ASSUME Next PROVE UNCHANGED system \/ system' = "down"
  BY DEF NeverFaults, vars
<1>2. Inv /\ GuardiansInv /\ StateTyped /\ running \in LivePcbs /\ running \in Pcb
  BY Apart DEF AlwaysInv, Inv, CpuBusy, LivePcbs
<1>3. running \in contexts
  BY <1>2 DEF Contexts
<1>4. MayBlock => ready_list # <<>>
  BY <1>1, SleeperReady
<1>5. CASE internal_spawn \/ internal_fork
  BY <1>1, <1>5 DEF internal_spawn, internal_fork, NewProcess, MaySpawn
<1>6. CASE internal_exit
  <2>1. MayExit /\ MayBlock /\ running # init_pcb
    BY <1>1, <1>6 DEF internal_exit, MayExit
  <2>2. parent[running] \in LivePcbs /\ Contains(children[parent[running]], running)
    BY <1>2, <2>1 DEF ParentPointersLive
  <2>3. parent[running] \in Pcb /\ parent[running] # Null /\ children[running] = <<>>
    BY <1>1, <1>2, <2>1, <2>2, Apart DEF LivePcbs, MayExit
  <2>4. Contains(ChildrenAfterExit(parent[running], running), running)
    <3>1. \A b \in Pcb : Range(ChildrenAfterExit(b, running)) = Range(children[b])
      BY <1>1, <1>2, <2>1, <2>3, ChildlessExit
    <3>2. \A b \in Pcb : children[b] \in Seq(Pcb) /\ ChildrenAfterExit(b, running) \in Seq(Pcb)
      BY <1>2, ChildrenAfterExitType DEF StateTyped
    <3>3. running \in Range(children[parent[running]])
      BY <2>2, <2>3, <3>2, LenProperties DEF Contains, Range
    <3>4. running \in Range(ChildrenAfterExit(parent[running], running))
      BY <2>3, <3>1, <3>3
    <3> QED
      BY <2>3, <3>2, <3>4, LenProperties DEF Contains, Range
  <2> QED
    BY <1>4, <1>6, <2>1, <2>3, <2>4 DEF internal_exit, ExitToWaitingParent, ExitAsZombie
<1>7. ASSUME NEW p \in Pid, internal_wait(p)
      PROVE  UNCHANGED system
  BY <1>4, <1>7 DEF internal_wait, Reap, BlockInWait
<1>8. ASSUME NEW cycles \in SleepTimes, internal_sleep(cycles)
      PROVE  UNCHANGED system
  BY <1>8 DEF internal_sleep, ParkOnTimer
<1>9. CASE internal_preempt \/ timerInterrupt
  BY <1>9 DEF internal_preempt, timerInterrupt, internal_schedule, CpuBusy
<1>10. CASE internal_shutdown
  BY <1>10 DEF internal_shutdown
<1>11. CASE ResumeWithoutContext \/ RestartFromMain
  BY <1>3, <1>11 DEF ResumeWithoutContext, RestartFromMain, CpuBusy
<1> QED
  BY <1>5, <1>6, <1>7, <1>8, <1>9, <1>10, <1>11 DEF Next

\* No system call and no interrupt follows a null or dangling pointer, fails an
\* assertion or loops for ever, as long as the processes keep to the discipline
\* of the repository's tests; they may wait for strangers.
THEOREM FaultsCorrect ==
  ASSUME Liberties \subseteq {"stranger"}
  PROVE  Spec => []NeverFaults
<1>1. /\ "orphan" \notin Liberties /\ "no_sleeper" \notin Liberties
      /\ "fork" \notin Liberties
      /\ {"orphan", "no_sleeper"} \cap Liberties = {}
  OBVIOUS
<1>2. AlwaysInv /\ Families /\ CpuBusy /\ Contexts /\ ParentPointersLive /\ NeverFaults
        /\ [Next]_vars => NeverFaults'
  BY FaultsStep
<1>3. Init => NeverFaults
  BY DEF Init, NeverFaults
<1> QED
  BY <1>1, <1>2, <1>3, FamiliesHold, BusyHolds, ContextsHold, ParentsCorrect, PTL DEF Spec

-----------------------------------------------------------------------------
(* The PCBPtr blocks *)

\* Whoever is in a children list is in it once: as many items as children.
Kin == UNION {Range(children[b]) : b \in Pcb}

LEMMA ItemsAreKin ==
  ASSUME Inv
  PROVE  /\ IsFiniteSet(Kin) /\ Cardinality(Kin) \in Nat
         /\ Cardinality(ChildItems) = Cardinality(Kin)
<1>1. /\ \A b \in Pcb : children[b] \in Seq(Pcb)
      /\ \A b \in Pcb : IsInjective(children[b])
      /\ \A b, c \in Pcb : b # c => Range(children[b]) \cap Range(children[c]) = {}
  BY DEF Inv, StateTyped, Sound, ChildrenSound
<1>2. \A b \in Pcb : DOMAIN children[b] = 1..Len(children[b]) /\ Range(children[b]) \subseteq Pcb
  BY <1>1, LenProperties, RangeOfSeq
<1>3. Kin \subseteq Pcb
  BY <1>2 DEF Kin
<1>4. IsFiniteSet(Kin) /\ Cardinality(Kin) \in Nat
  <2>1. IsFiniteSet(Pcb)
    BY ProcessesAssumption, FS_Interval DEF Pcb
  <2>2. IsFiniteSet(Kin)
    BY <1>3, <2>1, FS_Subset
  <2> QED
    BY <2>2, FS_CardinalityType
<1> DEFINE f == [x \in ChildItems |-> children[x[1]][x[2]]]
<1>5. \A x \in ChildItems : x[1] \in Pcb /\ x[2] \in DOMAIN children[x[1]] /\ x = <<x[1], x[2]>>
  BY DEF ChildItems
<1>6. \A x \in ChildItems : children[x[1]][x[2]] \in Range(children[x[1]])
  BY <1>5 DEF Range
<1>7. f \in [ChildItems -> Kin]
  BY <1>5, <1>6 DEF Kin
<1>8. IsInjective(f)
  <2> SUFFICES ASSUME NEW x \in ChildItems, NEW y \in ChildItems,
                      children[x[1]][x[2]] = children[y[1]][y[2]]
               PROVE  x = y
    BY DEF IsInjective
  <2>1. x[1] = y[1]
    BY <1>1, <1>5, <1>6
  <2>2. x[2] = y[2]
    BY <1>1, <1>5, <2>1 DEF IsInjective
  <2> QED
    BY <1>5, <2>1, <2>2
<1>9. \A c \in Kin : \E x \in ChildItems : f[x] = c
  <2> SUFFICES ASSUME NEW b \in Pcb, NEW i \in DOMAIN children[b]
               PROVE  \E x \in ChildItems : f[x] = children[b][i]
    BY DEF Kin, Range
  <2>1. <<b, i>> \in ChildItems
    BY DEF ChildItems
  <2> QED
    BY <2>1
<1> HIDE DEF f
<1>10. f \in Injection(ChildItems, Kin) /\ f \in Surjection(ChildItems, Kin)
  BY <1>7, <1>8, <1>9 DEF Injection, Surjection
<1> QED
  BY <1>4, <1>10, FS_Injection

\* Each child costs its parent one PCBPtr and the pool gets it back, wherever
\* the lists are handed over to; an exit into a waiting parent loses one.
THEOREM PointersCorrect == Spec => OnlyAwaitedExitLosesPointer
<1>1. ASSUME Inv, GuardiansInv, Inv', [Next]_vars
      PROVE  \/ PtrStock' = PtrStock
             \/ /\ PtrStock' = PtrStock - 1
                /\ running \in FreePcbs' /\ running' = parent[running]
  <2>1. /\ FreePcbs \subseteq Pcb /\ LivePcbs \subseteq Pcb /\ FreePcbs \cap LivePcbs = {}
        /\ \A b \in Pcb : Range(children[b]) \subseteq LivePcbs
    BY <1>1, Apart DEF LivePcbs
  <2>2. /\ PtrStock = pcb_ptr_allocator + Cardinality(Kin)
        /\ PtrStock' = pcb_ptr_allocator' + Cardinality(Kin')
        /\ IsFiniteSet(Kin) /\ Cardinality(Kin) \in Nat /\ pcb_ptr_allocator \in Nat
        /\ Cardinality(Kin') \in Nat
    <3>1. (/\ IsFiniteSet(Kin) /\ Cardinality(Kin) \in Nat
           /\ Cardinality(ChildItems) = Cardinality(Kin))'
      BY <1>1, ItemsAreKin, PTL
    <3> QED
      BY <1>1, <3>1, ItemsAreKin DEF PtrStock, Inv, StateTyped
  <2>3. ASSUME UNCHANGED pcb_ptr_allocator, Kin' = Kin
        PROVE  PtrStock' = PtrStock
    BY <2>2, <2>3
  <2>4. ASSUME UNCHANGED <<children, pcb_ptr_allocator>>
        PROVE  PtrStock' = PtrStock
    BY <2>3, <2>4 DEF Kin
  <2>5. CASE Stopped \/ Parked \/ Scheduled \/ Replied
    BY <2>4, <2>5 DEF Stopped, Parked, Scheduled, Replied, family, allocators
  <2>6. ASSUME NEW new \in FreePcbs, Spawned(new)
        PROVE  PtrStock' = PtrStock
    <3>1. new \notin Kin /\ Range(children[new]) = {}
      BY <1>1, <2>1 DEF Kin, GuardiansInv, EndedChildless
    <3>2. Kin' = Kin \cup {new}
      <4>1. \A b \in Pcb : Range(children'[b]) =
              IF b = running THEN Range(children[b]) \cup {new} ELSE Range(children[b])
        BY <2>1, <2>6, <3>1 DEF Spawned
      <4>2. running \in Pcb
        BY <2>1, <2>6 DEF Spawned
      <4> QED
        BY <4>1, <4>2 DEF Kin
    <3>3. Cardinality(Kin') = Cardinality(Kin) + 1
      BY <2>2, <3>1, <3>2, FS_AddElement
    <3> QED
      BY <2>2, <2>6, <3>3 DEF Spawned
  <2>7. ASSUME NEW new \in FreePcbs, Restarted(new)
        PROVE  PtrStock' = PtrStock
    <3>1. Range(children[new]) = {}
      BY <1>1 DEF GuardiansInv, EndedChildless
    <3>2. \A b \in Pcb : Range(children'[b]) = Range(children[b])
      BY <2>7, <3>1 DEF Restarted
    <3> QED
      BY <2>3, <2>7, <3>2 DEF Kin, Restarted
  <2>8. CASE running \in Pcb /\ parent[running] # Null /\ (Collected \/ Zombied)
    <3> DEFINE Left(b) == ChildrenAfterExit(b, running)
    <3>1. running # init_pcb /\ init_pcb \in Pcb
      BY <1>1, <2>1, <2>8 DEF GuardiansInv, InitStays
    <3>2. \A b \in Pcb : Range(Left(b)) =
            IF b = running THEN {}
            ELSE IF b = init_pcb THEN Range(children[b]) \cup Range(children[running])
            ELSE Range(children[b])
      BY <1>1, <2>8, <3>1, ChildrenAfterExitFacts
    <3> HIDE DEF Left
    <3>3. UNION {Range(Left(b)) : b \in Pcb} = Kin
      BY <2>8, <3>1, <3>2 DEF Kin
    <3>4. CASE Zombied
      BY <2>3, <3>3, <3>4 DEF Zombied, Left, Kin, allocators
    <3>5. CASE Collected
      <4>1. parent[running] \in Pcb /\ running \in Range(Left(parent[running]))
        BY <1>1, <3>5 DEF Collected, Left, Inv, StateTyped
      <4>2. running \in Kin
        BY <3>3, <4>1
      <4>3. \A b \in Pcb : Range(children'[b]) = Range(Left(b)) \ {running}
        BY <3>5 DEF Collected, Left
      <4>4. Kin' = Kin \ {running}
        BY <3>3, <4>3 DEF Kin
      <4>5. Cardinality(Kin') = Cardinality(Kin) - 1
        BY <2>2, <4>2, <4>4, FS_RemoveElement
      <4> QED
        BY <2>2, <3>5, <4>5 DEF Collected
    <3> QED
      BY <2>8, <3>4, <3>5
  <2>9. ASSUME NEW p \in Pid, NEW child \in zombie_list, Reaped(p, child)
        PROVE  PtrStock' = PtrStock
    <3>1. child \in Range(children[running]) /\ running \in Pcb
      BY <2>1, <2>9 DEF Reaped
    <3>2. \A b \in Pcb : b # running => child \notin Range(children[b])
      BY <1>1, <3>1 DEF Inv, Sound, ChildrenSound
    <3>3. \A b \in Pcb : Range(children'[b]) = Range(children[b]) \ {child}
      BY <2>9, <3>2 DEF Reaped
    <3>4. Kin' = Kin \ {child} /\ child \in Kin
      BY <3>1, <3>3 DEF Kin
    <3>5. Cardinality(Kin') = Cardinality(Kin) - 1
      BY <2>2, <3>4, FS_RemoveElement
    <3> QED
      BY <2>2, <2>9, <3>5 DEF Reaped
  <2>10. ASSUME NEW p \in Pid, Refused(p) \/ Blocked(p)
         PROVE  PtrStock' = PtrStock
    BY <2>4, <2>10 DEF Refused, Blocked, family, allocators
  <2> QED
    BY <1>1, <2>5, <2>6, <2>7, <2>8, <2>9, <2>10, StepShape DEF ProcessStep
<1>2. AlwaysInv => Inv /\ GuardiansInv
  BY DEF AlwaysInv
<1> QED
  BY <1>1, <1>2, AlwaysHolds, PTL DEF Spec, OnlyAwaitedExitLosesPointer

=============================================================================
