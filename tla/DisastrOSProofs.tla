-------------------------- MODULE DisastrOSProofs --------------------------
(***************************************************************************)
(* The whole system, proved for every number of processes, blocks and ids: *)
(* what holds of the process manager alone and of the queues alone still   *)
(* holds when the processes are those that send and receive.               *)
(*                                                                         *)
(* Nothing of the two parts is proved again.  A step of the composition is *)
(* a step of Processes, or a call on queues, which to the process manager  *)
(* is one that answers its caller at once or parks it (Replied, Parked of  *)
(* FamiliesProofs); to the queues, every step is one of their calls, a     *)
(* step that leaves them alone, or the end or the birth of a process.      *)
(***************************************************************************)
EXTENDS DisastrOS, FamiliesProofs

MP == INSTANCE MailboxesProofs WITH
  Proc <- Pcb, MAX_NUM_DESCRIPTORS <- MAX_NUM_PROCESSES, Liberties <- MailLiberties

\* What Mailboxes assumes of its constants holds of those it is given here.
LEMMA MailAssumption ==
  /\ MP!Null \notin Pcb
  /\ {MAX_NUM_RESOURCES, MAX_NUM_MESSAGES, MAX_NUM_PROCESSES,
      MQ_MAX_MSG_SIZE, MaxFd} \subseteq Nat \ {0}
  /\ Modes \subseteq SUBSET {MP!CREATE, MP!EXCL, MP!READ}
  /\ MP!NoMsg \notin Msgs
  /\ MailLiberties \subseteq MP!AllLiberties
<1>1. MP!Null \notin Pcb
  BY ProcessesAssumption DEF Pcb, MP!Null
<1>2. MAX_NUM_PROCESSES \in Nat \ {0}
  BY ProcessesAssumption
<1>3. {MAX_NUM_RESOURCES, MAX_NUM_MESSAGES, MQ_MAX_MSG_SIZE, MaxFd} \subseteq Nat \ {0}
  BY DisastrOSAssumption
<1>4. /\ Modes \subseteq SUBSET {MP!CREATE, MP!EXCL, MP!READ}
      /\ MP!NoMsg \notin Msgs
      /\ MailLiberties \subseteq MP!AllLiberties
  BY DisastrOSAssumption
     DEF MP!CREATE, MP!EXCL, MP!READ, MP!NoMsg, MP!AllLiberties,
         Mail!CREATE, Mail!EXCL, Mail!READ, Mail!NoMsg, Mail!AllLiberties
<1> QED
  BY <1>1, <1>2, <1>3, <1>4

-----------------------------------------------------------------------------
(* The calls on queues are those that MailboxesProofs is about *)

LEMMA SameOpen ==
  ASSUME NEW i, NEW mode, Mail!internal_mqOpen(i, Mail!DSOS_MQ, mode)
  PROVE  MP!internal_mqOpen(i, MP!DSOS_MQ, mode)
<1>1. Mail!Kernel = MP!Kernel
  BY DEF Mail!Kernel, MP!Kernel
<1>2. ASSUME NEW k, NEW type
      PROVE  Mail!OpenExisting(k, i, type, mode) = MP!OpenExisting(k, i, type, mode)
  BY DEF Mail!OpenExisting, MP!OpenExisting, Mail!AddDescriptor, MP!AddDescriptor,
         Mail!Min, MP!Min, Mail!FreeDescs, MP!FreeDescs, Mail!Desc, MP!Desc,
         Mail!ById, MP!ById, Mail!Fails, MP!Fails, Mail!EXCL, MP!EXCL,
         Mail!DSOS_ERESOURCEOPEN, MP!DSOS_ERESOURCEOPEN,
         Mail!DSOS_ERESOURCENOEXCL, MP!DSOS_ERESOURCENOEXCL,
         Mail!DSOS_ERESOURCENOFD, MP!DSOS_ERESOURCENOFD
<1>3. ASSUME NEW k
      PROVE  Mail!NewQueue(k, i) = MP!NewQueue(k, i)
  BY DEF Mail!NewQueue, MP!NewQueue, Mail!Insert, MP!Insert, Mail!DSOS_MQ, MP!DSOS_MQ
<1>4. ASSUME NEW k, NEW type
      PROVE  Mail!OpenQueue(k, i, type, mode) = MP!OpenQueue(k, i, type, mode)
  BY <1>2, <1>3
     DEF Mail!OpenQueue, MP!OpenQueue, Mail!ById, MP!ById, Mail!Fails, MP!Fails,
         Mail!Faults, MP!Faults, Mail!CREATE, MP!CREATE,
         Mail!DSOS_ERESOURCECREATE, MP!DSOS_ERESOURCECREATE
<1>5. ASSUME NEW k, Mail!Becomes(k)
      PROVE  MP!Becomes(k)
  BY <1>5
     DEF Mail!Becomes, MP!Becomes, Mail!Crash, MP!Crash, Mail!mailVars, MP!mailVars,
         Mail!blocks, MP!blocks, Mail!queues, MP!queues, Mail!files, MP!files,
         Mail!Returns, MP!Returns, Mail!SecondArg, MP!SecondArg, Mail!NoMsg, MP!NoMsg
<1> QED
  BY <1>1, <1>4, <1>5
     DEF Mail!internal_mqOpen, MP!internal_mqOpen, Mail!MqOpen, MP!MqOpen,
         Mail!MayOpen, MP!MayOpen, Mail!Desc, MP!Desc, Mail!DSOS_MQ, MP!DSOS_MQ

LEMMA SameClose ==
  ASSUME NEW fd, Mail!internal_closeResource(fd)
  PROVE  MP!internal_closeResource(fd)
  BY DEF Mail!internal_closeResource, MP!internal_closeResource, Mail!ByFd, MP!ByFd,
         Mail!Returns, MP!Returns, Mail!Descriptors_free, MP!Descriptors_free,
         Mail!Released, MP!Released, Mail!mailVars, MP!mailVars, Mail!blocks, MP!blocks,
         Mail!queues, MP!queues, Mail!files, MP!files,
         Mail!DSOS_ERESOURCECLOSE, MP!DSOS_ERESOURCECLOSE

LEMMA SameUnlink ==
  ASSUME NEW i, Mail!internal_mqUnlink(i)
  PROVE  MP!internal_mqUnlink(i)
  BY DEF Mail!internal_mqUnlink, MP!internal_mqUnlink, Mail!ById, MP!ById,
         Mail!MqBlock, MP!MqBlock, Mail!InUse, MP!InUse, Mail!Detached, MP!Detached,
         Mail!MessageQueue_free, MP!MessageQueue_free, Mail!Returns, MP!Returns,
         Mail!mailVars, MP!mailVars, Mail!blocks, MP!blocks,
         Mail!queues, MP!queues, Mail!files, MP!files,
         Mail!DSOS_ERESOURCECLOSE, MP!DSOS_ERESOURCECLOSE,
         Mail!DSOS_ERESOURCEINUSE, MP!DSOS_ERESOURCEINUSE

LEMMA SameSend ==
  ASSUME NEW fd, NEW m, Mail!internal_mqSend(fd, m)
  PROVE  MP!internal_mqSend(fd, m)
  BY DEF Mail!internal_mqSend, MP!internal_mqSend, Mail!ByFd, MP!ByFd,
         Mail!IsQueue, MP!IsQueue, Mail!MqBlock, MP!MqBlock, Mail!QueueOf, MP!QueueOf,
         Mail!BlocksInSend, MP!BlocksInSend, Mail!Enqueue, MP!Enqueue,
         Mail!Crash, MP!Crash, Mail!Returns, MP!Returns, Mail!SecondArg, MP!SecondArg,
         Mail!mailVars, MP!mailVars, Mail!blocks, MP!blocks,
         Mail!queues, MP!queues, Mail!files, MP!files,
         Mail!DSOS_ERESOURCESEND, MP!DSOS_ERESOURCESEND

LEMMA SameReceive ==
  ASSUME NEW fd, Mail!internal_mqReceive(fd)
  PROVE  MP!internal_mqReceive(fd)
  BY DEF Mail!internal_mqReceive, MP!internal_mqReceive, Mail!ByFd, MP!ByFd,
         Mail!IsQueue, MP!IsQueue, Mail!MqBlock, MP!MqBlock, Mail!QueueOf, MP!QueueOf,
         Mail!BlocksInReceive, MP!BlocksInReceive, Mail!Dequeue, MP!Dequeue,
         Mail!Crash, MP!Crash, Mail!Returns, MP!Returns, Mail!SecondArg, MP!SecondArg,
         Mail!mailVars, MP!mailVars, Mail!blocks, MP!blocks,
         Mail!queues, MP!queues, Mail!files, MP!files, Mail!NoMsg, MP!NoMsg,
         Mail!DSOS_ERESOURCERECV, MP!DSOS_ERESOURCERECV

-----------------------------------------------------------------------------
(* The invariant *)

\* The mail: its variables are typed, no block is in two places and no descriptor
\* dangles (Inv of MailboxesProofs, without what a call's caller needs).
MailSound ==
  /\ syscall_arg1 \in [Pcb -> Msgs \cup {MP!NoMsg}]
  /\ MP!MessagesTyped /\ MP!BlocksSound /\ MP!FdsSound

SysInv ==
  /\ AlwaysInv /\ TimersInv
  /\ MailSound /\ MP!FreeHoldNothing /\ MP!StockSuffices

\* A process that calls finds the mail as the queues' lemmas assume it.
LEMMA CallerFacts ==
  ASSUME SysInv, Calling
  PROVE  /\ running \in Pcb /\ running \in LivePcbs /\ system = "up"
         /\ Inv /\ MP!Inv /\ MP!FreeHoldNothing
<1>1. Inv /\ StateTyped /\ running \in contexts /\ system = "up"
  BY DEF SysInv, AlwaysInv, Inv, Calling, InUserCode
<1>2. running \in Pcb
  BY <1>1 DEF StateTyped
<1>3. running \in LivePcbs
  BY <1>1, <1>2, Apart
<1>4. MP!CallersTyped
  BY <1>1, <1>2 DEF MP!CallersTyped, SysInv, MailSound, StateTyped
<1>5. MP!Inv
  BY <1>4, MailAssumption, MP!InvParts DEF SysInv, MailSound
<1> QED
  BY <1>1, <1>2, <1>3, <1>5 DEF SysInv

\* A step that leaves the mail alone.
LEMMA MailFrame ==
  ASSUME SysInv, UNCHANGED mail, syscall_arg1' \in [Pcb -> Msgs \cup {MP!NoMsg}]
  PROVE  (MailSound /\ MP!FreeHoldNothing /\ MP!StockSuffices)'
  BY DEF SysInv, MailSound, mail, MP!MessagesTyped, MP!BlocksSound, MP!FdsSound,
         MP!FreeHoldNothing, MP!StockSuffices, MP!ResourceStock, MP!Listed

\* A step of the process manager alone.
LEMMA ProcessPart ==
  ASSUME SysInv, [Next]_vars
  PROVE  SystemStep /\ (AlwaysInv /\ TimersInv)'
<1>1. Inv /\ AlwaysInv /\ TimersInv
  BY DEF SysInv, AlwaysInv
<1>2. SystemStep /\ Inv' /\ TimersInv'
  BY <1>1, StepShape, InvStep, TimersStep
<1> QED
  BY <1>1, <1>2, AlwaysStep

-----------------------------------------------------------------------------
(* What every step does *)

\* When a step may change `system`: a call of the process manager; a call on
\* queues that follows a null pointer; one that blocks when nobody is ready.
MayStop ==
  [Next]_vars \/ MP!MayFault \/ (MayBlock /\ ready_list = <<>>)

StepKeeps ==
  /\ SystemStep /\ SysInv'
  /\ MP!MessagesStep
  /\ MayStop \/ UNCHANGED system

\* A call of the process manager, whose descriptors come and go.
LEMMA ProcessKeeps ==
  ASSUME SysInv, [Next]_vars, (MailSound /\ MP!FreeHoldNothing /\ MP!StockSuffices)',
         UNCHANGED <<messages, num_msg, messages_allocator>>
  PROVE  StepKeeps
<1>1. SystemStep /\ (AlwaysInv /\ TimersInv)'
  BY ProcessPart
<1>2. MP!MessagesStep
  BY DEF MP!MessagesStep, MP!MessagesStay
<1> QED
  BY <1>1, <1>2 DEF StepKeeps, SysInv, MayStop

LEMMA TimerStep ==
  ASSUME SysInv, timer
  PROVE  StepKeeps
<1>1. [Next]_vars /\ UNCHANGED <<syscall_arg1, mail>>
  BY DEF timer, Next
<1>2. (MailSound /\ MP!FreeHoldNothing /\ MP!StockSuffices)'
  BY <1>1, MailFrame DEF SysInv, MailSound
<1> QED
  BY <1>1, <1>2, ProcessKeeps DEF mail

LEMMA WaitStep ==
  ASSUME SysInv, NEW p \in Pid, wait(p)
  PROVE  StepKeeps
<1>1. [Next]_vars /\ UNCHANGED mail
  BY DEF wait, Next
<1>2. syscall_arg1' \in [Pcb -> Msgs \cup {MP!NoMsg}]
  BY DEF wait, Mail!SecondArg, Mail!NoMsg, MP!NoMsg, SysInv, MailSound
<1>3. (MailSound /\ MP!FreeHoldNothing /\ MP!StockSuffices)'
  BY <1>1, <1>2, MailFrame
<1> QED
  BY <1>1, <1>3, ProcessKeeps DEF mail

\* The new process has no descriptor, whatever the last owner of its block had.
LEMMA SpawnStep ==
  ASSUME SysInv, spawn
  PROVE  StepKeeps
<1>1. [Next]_vars /\ internal_spawn
  BY DEF spawn, Next
<1>2. CASE UNCHANGED <<syscall_arg1, mail>>
  <2>1. (MailSound /\ MP!FreeHoldNothing /\ MP!StockSuffices)'
    BY <1>2, MailFrame DEF SysInv, MailSound
  <2> QED
    BY <1>1, <1>2, <2>1, ProcessKeeps DEF mail
<1>3. CASE system' = "up"
  <2> DEFINE new == Head(pcb_allocator)
  <2>1. /\ syscall_arg1' = [syscall_arg1 EXCEPT ![running] = MP!NoMsg]
        /\ descriptors' = [descriptors EXCEPT ![new] = {}]
        /\ last_fd' = [last_fd EXCEPT ![new] = 0]
        /\ UNCHANGED <<resources_list, messages, num_msg, mq_allocator,
                       resource_allocator, messages_allocator, desc>>
    BY <1>3 DEF spawn, Mail!SecondArg, Mail!NoMsg, MP!NoMsg, Mail!FreshPcb
  <2>2. new \in Pcb
    <3>1. pcb_allocator # <<>> /\ pcb_allocator \in Seq(Pcb)
      BY <1>1, <1>3
         DEF internal_spawn, NewProcess, Crash, Stop, SysInv, AlwaysInv, Inv, StateTyped
    <3> QED
      BY <3>1
  <2> HIDE DEF new
  <2>3. MP!FdsSound'
    <3>1. MP!FdsSound
      BY DEF SysInv, MailSound
    <3>2. /\ descriptors' \in [Pcb -> SUBSET MP!Desc] /\ last_fd' \in [Pcb -> 0..MaxFd + 1]
          /\ descriptors'[new] = {}
          /\ \A q \in Pcb \ {new} :
               descriptors'[q] = descriptors[q] /\ last_fd'[q] = last_fd[q]
      BY <2>1, <2>2, <3>1, MailAssumption DEF MP!FdsSound
    <3>3. MP!Agree(resources_list, desc, {}, last_fd'[new], new)
      BY DEF MP!Agree
    <3> QED
      BY <2>1, <3>1, <3>2, <3>3 DEF MP!FdsSound
  <2>4. (MailSound /\ MP!FreeHoldNothing /\ MP!StockSuffices)'
    BY <2>1, <2>3
       DEF SysInv, MailSound, MP!MessagesTyped, MP!BlocksSound, MP!FreeHoldNothing,
           MP!StockSuffices, MP!ResourceStock, MP!Listed
  <2> QED
    BY <1>1, <2>1, <2>4, ProcessKeeps
<1> QED
  BY <1>2, <1>3 DEF spawn

\* The descriptors of a process that is freed at once are released; the others
\* keep theirs.
LEMMA ExitStep ==
  ASSUME SysInv, exit
  PROVE  StepKeeps
<1>1. [Next]_vars /\ Calling /\ UNCHANGED syscall_arg1
  BY DEF exit, Next
<1>2. CASE UNCHANGED mail
  <2>1. (MailSound /\ MP!FreeHoldNothing /\ MP!StockSuffices)'
    BY <1>1, <1>2, MailFrame DEF SysInv, MailSound
  <2> QED
    BY <1>1, <1>2, <2>1, ProcessKeeps DEF mail
<1>3. CASE pcb_allocator' # pcb_allocator
  <2>1. /\ MP!Descriptors_free(descriptors[running])
        /\ descriptors' = [descriptors EXCEPT ![running] = {}]
        /\ UNCHANGED <<messages, num_msg, mq_allocator, resource_allocator,
                       messages_allocator, last_fd>>
    BY <1>3
       DEF exit, ReleaseOnExit, Mail!ReleaseAll, Mail!Descriptors_free, Mail!Released,
           MP!Descriptors_free, MP!Released
  <2>2. running \in Pcb /\ MP!BlocksSound /\ MP!FdsSound
    BY <1>1, CallerFacts DEF SysInv, MailSound
  <2>3. /\ MP!ListTyped(resources_list') /\ MP!FilesTyped(desc')
        /\ MP!Placed(resources_list', mq_allocator, resource_allocator)
        /\ \A fds, n, p : MP!Agree(resources_list, desc, fds, n, p)
              => MP!Agree(resources_list', desc', fds \ descriptors[running], n, p)
    BY <2>1, <2>2, MailAssumption, MP!ReleaseKeeps
  <2>4. \A p \in Pcb \ {running} : descriptors[p] \ descriptors[running] = descriptors[p]
    BY <2>2, MailAssumption, MP!OthersKeepTheirs
  <2>5. MP!BlocksSound'
    BY <2>1, <2>3 DEF MP!BlocksSound
  <2>6. MP!FdsSound'
    <3>1. /\ descriptors' \in [Pcb -> SUBSET MP!Desc]
          /\ descriptors'[running] = {}
          /\ \A p \in Pcb \ {running} : descriptors'[p] = descriptors[p]
      BY <2>1, <2>2 DEF MP!FdsSound
    <3>2. MP!Agree(resources_list', desc', {}, last_fd[running], running)
      BY DEF MP!Agree
    <3> QED
      BY <2>1, <2>2, <2>3, <2>4, <3>1, <3>2 DEF MP!FdsSound
  <2>7. (MP!FreeHoldNothing /\ MP!StockSuffices)'
    BY <2>1
       DEF SysInv, MP!FreeHoldNothing, MP!StockSuffices, MP!ResourceStock, MP!Listed,
           MP!Descriptors_free, MP!Released
  <2>8. MailSound'
    BY <1>1, <2>1, <2>5, <2>6 DEF SysInv, MailSound, MP!MessagesTyped
  <2> QED
    BY <1>1, <2>1, <2>7, <2>8, ProcessKeeps
<1> QED
  BY <1>2, <1>3 DEF exit

-----------------------------------------------------------------------------
(* The calls on queues *)

\* A call that returns to its caller.
LEMMA CompletesKeeps ==
  ASSUME SysInv, Calling, NEW num \in Syscall \ {"wait", "exit"}, Completes(num),
         MP!Inv', MP!StocksStep,
         UNCHANGED retvalue \/ \E code : MP!Returns(code)
  PROVE  StepKeeps
<1>1. Inv /\ StateTyped /\ running \in Pcb /\ AlwaysInv /\ TimersInv
  BY CallerFacts DEF SysInv, AlwaysInv, Inv
<1>2. MP!CallersTyped' /\ (MP!MessagesTyped /\ MP!BlocksSound /\ MP!FdsSound)'
  BY MailAssumption, MP!InvParts, PTL
<1>3. \A b \in Pcb : b # running => retvalue'[b] = retvalue[b]
  BY <1>1 DEF MP!Returns, StateTyped
<1>4. /\ Called(num, 0) /\ UNCHANGED <<running, lists, status, family, allocators>>
  BY DEF Completes
<1>5. SystemStep
  BY <1>1, <1>3, <1>4, AnswerShape DEF SystemStep, ProcessStep
<1>6. StateTyped'
  BY <1>1, <1>2, <1>4, AnswerType DEF MP!CallersTyped
<1>7. Inv'
  BY <1>1, <1>4, <1>6, AnswerKeeps DEF Inv
<1>8. TimersInv'
  BY <1>1, <1>4, FrameOrdered DEF lists
<1>9. AlwaysInv'
  BY <1>1, <1>5, <1>7, AlwaysStep
<1>10. MailSound'
  BY <1>2 DEF MailSound, MP!CallersTyped
<1> QED
  BY <1>5, <1>8, <1>9, <1>10 DEF StepKeeps, SysInv, MayStop, MP!StocksStep

LEMMA OpenStep ==
  ASSUME SysInv, NEW i \in Ids, NEW mode, mq_open(i, mode)
  PROVE  StepKeeps
<1>1. Calling /\ Completes("mq_open") /\ MP!internal_mqOpen(i, MP!DSOS_MQ, mode)
  BY SameOpen DEF mq_open
<1>2. MP!Inv /\ MP!FreeHoldNothing /\ UNCHANGED running
  BY <1>1, CallerFacts DEF Completes
<1>3. MP!Inv' /\ MP!StocksStep
  BY <1>1, <1>2, MailAssumption, MP!OpenCallsKeep, MP!OpenCallsStocks
<1>4. UNCHANGED retvalue \/ \E code : MP!Returns(code)
  BY <1>1 DEF MP!internal_mqOpen, MP!Becomes, MP!Crash
<1> QED
  BY <1>1, <1>3, <1>4, CompletesKeeps DEF Syscall

LEMMA CloseStep ==
  ASSUME SysInv, NEW fd, mq_close(fd)
  PROVE  StepKeeps
<1>1. Calling /\ Completes("mq_close") /\ MP!internal_closeResource(fd)
  BY SameClose DEF mq_close
<1>2. MP!Inv /\ MP!FreeHoldNothing /\ UNCHANGED running
  BY <1>1, CallerFacts DEF Completes
<1>3. MP!Inv' /\ MP!StocksStep
  BY <1>1, <1>2, MailAssumption, MP!CloseKeeps, MP!CloseStocks
<1>4. \E code : MP!Returns(code)
  BY <1>1 DEF MP!internal_closeResource
<1> QED
  BY <1>1, <1>3, <1>4, CompletesKeeps DEF Syscall

LEMMA UnlinkStep ==
  ASSUME SysInv, NEW i, mq_unlink(i)
  PROVE  StepKeeps
<1>1. Calling /\ Completes("mq_unlink") /\ MP!internal_mqUnlink(i)
  BY SameUnlink DEF mq_unlink
<1>2. MP!Inv /\ MP!FreeHoldNothing /\ UNCHANGED running
  BY <1>1, CallerFacts DEF Completes
<1>3. MP!Inv' /\ MP!StocksStep
  BY <1>1, <1>2, MailAssumption, MP!UnlinkKeeps, MP!UnlinkStocks
<1>4. \E code : MP!Returns(code)
  BY <1>1 DEF MP!internal_mqUnlink
<1> QED
  BY <1>1, <1>3, <1>4, CompletesKeeps DEF Syscall

\* A call that blocks: to the process manager the caller is parked.
LEMMA BlockKeeps ==
  ASSUME SysInv, Calling, NEW num \in Syscall \ {"wait", "exit"},
         NEW arg \in Msgs \cup {MP!NoMsg}, NEW code \in Int, Block(num, arg, code)
  PROVE  StepKeeps
<1>1. /\ Inv /\ StateTyped /\ running \in Pcb /\ AlwaysInv /\ TimersInv
      /\ MayBlock /\ UNCHANGED mail
  BY CallerFacts DEF SysInv, AlwaysInv, Inv, Block
<1>2. MP!MessagesStep
  BY <1>1 DEF mail, MP!MessagesStep, MP!MessagesStay
<1>3. CASE ready_list = <<>>
  <2>1. Stopped /\ UNCHANGED syscall_arg1 /\ Stop("crashed")
    BY <1>3 DEF Block, Crash, Stop, Stopped
  <2>2. SystemStep
    BY <2>1 DEF SystemStep, ProcessStep
  <2>3. Inv'
    BY <1>1, <2>1, StopKeeps DEF Stop, Inv, StateTyped, lists, family, call, allocators
  <2>4. TimersInv'
    BY <1>1, <2>1 DEF Stop, TimersInv, Covered, lists, call
  <2>5. AlwaysInv'
    BY <1>1, <2>2, <2>3, AlwaysStep
  <2>6. (MailSound /\ MP!FreeHoldNothing /\ MP!StockSuffices)'
    BY <1>1, <2>1, MailFrame DEF SysInv, MailSound
  <2> QED
    BY <1>1, <1>2, <1>3, <2>2, <2>4, <2>5, <2>6 DEF StepKeeps, SysInv, MayStop
<1>4. CASE ready_list # <<>>
  <2>1. /\ ParkOnTimer(SLEEP) /\ Called(num, 0)
        /\ retvalue' = [retvalue EXCEPT ![running'] = code]
        /\ syscall_arg1' = [syscall_arg1 EXCEPT ![running] = arg]
    BY <1>4 DEF Block, ParkCaller, Mail!SecondArg
  <2>2. SLEEP \in Nat /\ SLEEP \in Int
    BY DisastrOSAssumption
  <2>3. retvalue' \in [Pcb -> Int] /\ UNCHANGED system
    BY <1>1, <2>1 DEF StateTyped, ParkOnTimer
  <2>4. Parked /\ SystemStep
    BY <1>1, <2>1, <2>2, ParkShape DEF SystemStep
  <2>5. Inv' /\ TimersInv'
    BY <1>1, <2>1, <2>2, <2>3, ParkType, ParkKeeps, ParkOrdered DEF Inv
  <2>6. AlwaysInv'
    BY <1>1, <2>4, <2>5, AlwaysStep
  <2>7. syscall_arg1' \in [Pcb -> Msgs \cup {MP!NoMsg}]
    BY <2>1 DEF SysInv, MailSound
  <2>8. (MailSound /\ MP!FreeHoldNothing /\ MP!StockSuffices)'
    BY <1>1, <2>7, MailFrame
  <2> QED
    BY <1>2, <2>3, <2>4, <2>5, <2>6, <2>8 DEF StepKeeps, SysInv
<1> QED
  BY <1>3, <1>4

LEMMA SendStep ==
  ASSUME SysInv, NEW fd, NEW m \in Msgs, mq_send(fd, m)
  PROVE  StepKeeps
<1>1. Calling /\ "mq_send" \in Syscall \ {"wait", "exit"}
  BY DEF mq_send, Syscall
<1>2. CASE Mail!internal_mqSend(fd, m) /\ Completes("mq_send")
  <2>1. MP!internal_mqSend(fd, m)
    BY <1>2, SameSend
  <2>2. MP!Inv /\ MP!FreeHoldNothing /\ UNCHANGED running
    BY <1>1, <1>2, CallerFacts DEF Completes
  <2>3. MP!Inv' /\ MP!StocksStep
    BY <2>1, <2>2, MailAssumption, MP!SendKeeps, MP!SendStocks
  <2>4. UNCHANGED retvalue \/ \E code : MP!Returns(code)
    BY <2>1 DEF MP!internal_mqSend, MP!Crash
  <2> QED
    BY <1>1, <1>2, <2>3, <2>4, CompletesKeeps
<1>3. CASE Block("mq_send", m, Mail!DSOS_MQ_FULL)
  BY <1>1, <1>3, BlockKeeps DEF Mail!DSOS_MQ_FULL
<1> QED
  BY <1>2, <1>3 DEF mq_send

LEMMA ReceiveStep ==
  ASSUME SysInv, NEW fd, mq_receive(fd)
  PROVE  StepKeeps
<1>1. Calling /\ "mq_receive" \in Syscall \ {"wait", "exit"}
  BY DEF mq_receive, Syscall
<1>2. CASE Mail!internal_mqReceive(fd) /\ Completes("mq_receive")
  <2>1. MP!internal_mqReceive(fd)
    BY <1>2, SameReceive
  <2>2. MP!Inv /\ MP!FreeHoldNothing /\ UNCHANGED running
    BY <1>1, <1>2, CallerFacts DEF Completes
  <2>3. MP!Inv' /\ MP!StocksStep
    BY <2>1, <2>2, MailAssumption, MP!ReceiveKeeps, MP!ReceiveStocks
  <2>4. UNCHANGED retvalue \/ \E code : MP!Returns(code)
    BY <2>1 DEF MP!internal_mqReceive, MP!Crash
  <2> QED
    BY <1>1, <1>2, <2>3, <2>4, CompletesKeeps
<1>3. CASE Block("mq_receive", Mail!NoMsg, Mail!DSOS_MQ_EMPTY)
  <2>1. Block("mq_receive", MP!NoMsg, -16)
    BY <1>3 DEF Mail!DSOS_MQ_EMPTY, Mail!NoMsg, MP!NoMsg
  <2>2. -16 \in Int /\ MP!NoMsg \in Msgs \cup {MP!NoMsg}
    OBVIOUS
  <2> QED
    BY <1>1, <2>1, <2>2, BlockKeeps
<1> QED
  BY <1>2, <1>3 DEF mq_receive

-----------------------------------------------------------------------------
(* Every step *)

LEMMA SysInitSound ==
  ASSUME SysInit
  PROVE  SysInv /\ MP!Counted
<1>1. Init
  BY DEF SysInit
<1>2. AlwaysInv /\ TimersInv
  BY <1>1, AlwaysInit DEF Init, TimersInv, Ordered, Pending, Covered
<1>3. MP!Init
  <2>1. running \in Pcb
    BY <1>1, ProcessesAssumption DEF Init, Pcb
  <2>2. /\ system = "up" /\ retvalue = [p \in Pcb |-> 0]
        /\ syscall_arg1 = [p \in Pcb |-> MP!NoMsg]
    BY <1>1 DEF SysInit, Init, Mail!NoMsg, MP!NoMsg
  <2>3. /\ messages = [b \in MP!MqBlock |-> <<>>]
        /\ num_msg = [b \in MP!MqBlock |-> 0]
    BY DEF SysInit, Mail!MqBlock, MP!MqBlock
  <2> QED
    BY <2>1, <2>2, <2>3, Zenon DEF SysInit, MP!Init
<1>4. MP!Inv /\ MP!StocksInv /\ MP!Counted
  BY <1>3, MailAssumption, MP!InitSound, MP!InitStocks
<1>5. MP!CallersTyped /\ MP!MessagesTyped /\ MP!BlocksSound /\ MP!FdsSound
  BY <1>4, MailAssumption, MP!InvParts
<1> QED
  BY <1>2, <1>4, <1>5 DEF SysInv, MailSound, MP!StocksInv, MP!CallersTyped

LEMMA SysStep ==
  ASSUME SysInv, [SysNext]_sysVars
  PROVE  StepKeeps
<1>1. CASE UNCHANGED sysVars
  <2>1. [Next]_vars /\ UNCHANGED mail /\ UNCHANGED syscall_arg1
    BY <1>1 DEF sysVars
  <2>2. (MailSound /\ MP!FreeHoldNothing /\ MP!StockSuffices)'
    BY <2>1, MailFrame DEF SysInv, MailSound
  <2> QED
    BY <2>1, <2>2, ProcessKeeps DEF mail
<1>2. CASE spawn \/ exit \/ timer \/ \E p \in Pid : wait(p)
  BY <1>2, SpawnStep, ExitStep, TimerStep, WaitStep
<1>3. CASE \E i \in Ids, mode \in Modes : mq_open(i, mode)
  BY <1>3, OpenStep
<1>4. CASE (\E fd \in OwnFds : mq_close(fd)) \/ \E i \in Ids : mq_unlink(i)
  BY <1>4, CloseStep, UnlinkStep
<1>5. CASE \E fd \in OwnFds, m \in Msgs : mq_send(fd, m)
  BY <1>5, SendStep
<1>6. CASE \E fd \in OwnFds : mq_receive(fd)
  BY <1>6, ReceiveStep
<1> QED
  BY <1>1, <1>2, <1>3, <1>4, <1>5, <1>6 DEF SysNext

LEMMA SysInvHolds == SysSpec => []SysInv
<1>1. SysInit => SysInv
  BY SysInitSound
<1>2. SysInv /\ [SysNext]_sysVars => SysInv'
  BY SysStep DEF StepKeeps
<1> QED
  BY <1>1, <1>2, PTL DEF SysSpec

\* Parents and children agree: those that send and receive leave them alone.
LEMMA SysFamilies ==
  ASSUME "orphan" \notin Liberties
  PROVE  SysSpec => []Families
<1>1. SysInit => Families
  BY DEF SysInit, Init, Families, Range
<1>2. SysInv /\ Families /\ [SysNext]_sysVars => Families'
  BY SysStep, FamiliesStep DEF StepKeeps, SysInv, AlwaysInv
<1> QED
  BY <1>1, <1>2, SysInvHolds, PTL DEF SysSpec

\* The sleeper never blocks: a send or a receive that does is not its call.
LEMMA SysBusy ==
  ASSUME "no_sleeper" \notin Liberties
  PROVE  SysSpec => []CpuBusy
<1>1. SysInit => CpuBusy
  BY BusyInit DEF SysInit
<1>2. SysInv /\ CpuBusy /\ [SysNext]_sysVars => CpuBusy'
  BY SysStep, BusyStep DEF StepKeeps, SysInv, AlwaysInv
<1> QED
  BY <1>1, <1>2, SysInvHolds, PTL DEF SysSpec

LEMMA SysContexts ==
  ASSUME "fork" \notin Liberties
  PROVE  SysSpec => []Contexts
<1>1. SysInit => Contexts
  BY ContextsInit DEF SysInit
<1>2. SysInv /\ Contexts /\ [SysNext]_sysVars => Contexts'
  BY SysStep, ContextsStep DEF StepKeeps
<1> QED
  BY <1>1, <1>2, SysInvHolds, PTL DEF SysSpec

LEMMA SysCounted ==
  ASSUME "undrained" \notin MailLiberties
  PROVE  SysSpec => []MP!Counted
<1>1. SysInit => MP!Counted
  BY SysInitSound
<1>2. SysInv /\ MP!Counted /\ [SysNext]_sysVars => MP!Counted'
  BY SysStep, MailAssumption, MP!CountersStep DEF StepKeeps, SysInv, MailSound
<1> QED
  BY <1>1, <1>2, SysInvHolds, PTL DEF SysSpec

-----------------------------------------------------------------------------
(* The theorems *)

\* Every PCB block is in one place, once, also when sends and receives park
\* processes and awake them.
THEOREM SystemPlaces == SysSpec => []EachProcessInOnePlace
<1>1. SysInv => EachProcessInOnePlace
  BY DEF SysInv, AlwaysInv, Inv, Sound
<1> QED
  BY <1>1, SysInvHolds, PTL

\* The status of a process tells in which list it is, whatever call blocked it.
THEOREM SystemStatus == SysSpec => []StatusMatchesPlace
<1>1. SysInv => StatusMatchesPlace
  BY DEF SysInv, AlwaysInv, Inv, Sound
<1> QED
  BY <1>1, SysInvHolds, PTL

\* Every process that is blocked in a send or a receive has a timer, in order.
THEOREM SystemTimers == SysSpec => []TimersMatchSleepers
<1>1. SysInv => TimersMatchSleepers
  BY TimersFollow DEF SysInv, AlwaysInv
<1> QED
  BY <1>1, SysInvHolds, PTL

\* A process blocked in wait will be awakened, also when its children send and
\* receive, as long as nobody leaves children behind or waits for a stranger.
THEOREM SystemWakeups ==
  ASSUME {"orphan", "stranger"} \cap Liberties = {}
  PROVE  SysSpec => []NoLostWakeup
<1>1. "orphan" \notin Liberties
  OBVIOUS
<1>2. SysInit => WaitersHope
  BY DEF SysInit, Init, WaitersHope
<1>3. SysInv /\ Families /\ WaitersHope /\ [SysNext]_sysVars => WaitersHope'
  BY SysStep, HopeStep DEF StepKeeps, SysInv
<1>4. SysInv /\ Families /\ WaitersHope => NoLostWakeup
  BY WakeupFollows DEF SysInv
<1> QED
  BY <1>1, <1>2, <1>3, <1>4, SysInvHolds, SysFamilies, PTL DEF SysSpec

\* No descriptor dangles when queues are opened, closed and unlinked by processes
\* that are preempted, block, exit as zombies or not, and are replaced by others
\* in the same PCB.
THEOREM SystemDescriptors == SysSpec => []OpenQueuesExist
<1>1. SysInv => OpenQueuesExist
  BY DEF SysInv, MailSound, MP!FdsSound, MP!Agree, OpenQueuesExist, Mail!DescriptorsAgree,
         Mail!Listed
<1> QED
  BY <1>1, SysInvHolds, PTL

\* The counter that blocks senders and receivers is the length of the queue,
\* whoever ran in between, as long as queues are drained before they are unlinked.
THEOREM SystemCounters ==
  ASSUME "undrained" \notin MailLiberties
  PROVE  SysSpec => []CountersAreLengths
<1>1. MP!Counted => CountersAreLengths
  BY DEF MP!Counted, CountersAreLengths, Mail!CounterIsLength, Mail!Queues,
         Mail!MqBlock, MP!MqBlock
<1> QED
  BY <1>1, SysCounted, PTL

\* No call and no interrupt follows a null or dangling pointer: a process that
\* blocks leaves another ready, whoever exits finds its parent, and a queue that
\* counts messages holds them.
THEOREM SystemFaultless ==
  ASSUME Liberties \subseteq {"stranger"},
         {"undrained", "exhaust", "no_sleeper"} \cap MailLiberties = {}
  PROVE  SysSpec => []NeverFaults
<1>1. /\ "orphan" \notin Liberties /\ "no_sleeper" \notin Liberties
      /\ "fork" \notin Liberties /\ "undrained" \notin MailLiberties
  OBVIOUS
<1>2. ASSUME SysInv, Families, CpuBusy, Contexts, MP!Counted, NeverFaults,
             [SysNext]_sysVars
      PROVE  NeverFaults'
  <2>1. AlwaysInv /\ ParentPointersLive
    BY <1>2, ParentsFollow DEF SysInv
  <2>2. MayStop \/ UNCHANGED system
    BY <1>2, SysStep DEF StepKeeps
  <2>3. CASE [Next]_vars
    BY <1>2, <2>1, <2>3, FaultsStep
  <2>4. ~MP!MayFault
    BY <1>2 DEF MP!MayFault, SysInv
  <2>5. MayBlock => ready_list # <<>>
    BY <1>1, <1>2, SleeperReady
  <2> QED
    BY <1>2, <2>2, <2>3, <2>4, <2>5 DEF MayStop, NeverFaults
<1>3. SysInit => NeverFaults
  BY DEF SysInit, Init, NeverFaults
<1> QED
  BY <1>1, <1>2, <1>3, SysInvHolds, SysFamilies, SysBusy, SysContexts, SysCounted, PTL
     DEF SysSpec

\* A process that hands the CPU to the parent that waits for it has released all
\* its descriptors: no queue counts them among its users.
THEOREM SystemReleases == SysSpec => ExitReleasesAll
<1>1. ASSUME SysInv, [SysNext]_sysVars,
             NEW b \in LivePcbs, running = b, b \in FreePcbs',
             NEW d \in descriptors[b], NEW q \in DOMAIN resources_list'
      PROVE  d \notin resources_list'[q].opened
  <2>1. Inv /\ b \notin FreePcbs /\ b \notin zombie_list
    BY <1>1, Apart DEF SysInv, AlwaysInv, LivePcbs
  <2>2. pcb_allocator' # pcb_allocator
    BY <1>1, <2>1 DEF FreePcbs
  <2>3. CASE exit
    <3>1. resources_list' = [c \in DOMAIN resources_list |->
            [resources_list[c] EXCEPT !.opened = @ \ descriptors[b]]]
      BY <1>1, <2>2, <2>3
         DEF exit, ReleaseOnExit, Mail!ReleaseAll, Mail!Descriptors_free, Mail!Released
    <3>2. q \in DOMAIN resources_list /\ resources_list[q] \in MP!Resource
      BY <1>1, <3>1 DEF SysInv, MailSound, MP!BlocksSound, MP!ListTyped
    <3> QED
      BY <3>1, <3>2 DEF MP!Resource
  <2>4. CASE spawn
    <3>1. internal_spawn
      BY <2>4 DEF spawn
    <3>2. Stopped \/ \E new \in FreePcbs : Spawned(new)
      BY <2>1, <3>1, NewProcessShape DEF internal_spawn
    <3> QED
      BY <1>1, <2>1, <2>2, <3>2 DEF Stopped, Spawned, allocators
  <2>5. ASSUME NEW p \in Pid, wait(p)
        PROVE  FALSE
    <3>1. internal_wait(p)
      BY <2>5 DEF wait
    <3>2. Stopped \/ Refused(p) \/ Blocked(p) \/ \E child \in zombie_list : Reaped(p, child)
      BY <2>1, <3>1, WaitShape
    <3> QED
      BY <1>1, <2>1, <2>2, <3>2 DEF Stopped, Refused, Blocked, Reaped, allocators
  <2>6. CASE timer
    BY <2>2, <2>6 DEF timer, timerInterrupt, internal_schedule, Crash, Stop, allocators
  <2>7. CASE UNCHANGED sysVars
    BY <2>2, <2>7 DEF sysVars, vars, allocators
  <2>8. ASSUME NEW num, Completes(num)
        PROVE  FALSE
    BY <2>2, <2>8 DEF Completes, allocators
  <2>9. ASSUME NEW num, NEW arg, NEW code, Block(num, arg, code)
        PROVE  FALSE
    BY <2>2, <2>9 DEF Block, ParkCaller, ParkOnTimer, Crash, Stop, allocators
  <2>10. CASE \/ \E i \in Ids, mode \in Modes : mq_open(i, mode)
              \/ \E fd \in OwnFds : mq_close(fd)
              \/ \E i \in Ids : mq_unlink(i)
              \/ \E fd \in OwnFds, m \in Msgs : mq_send(fd, m)
              \/ \E fd \in OwnFds : mq_receive(fd)
    BY <2>8, <2>9, <2>10 DEF mq_open, mq_close, mq_unlink, mq_send, mq_receive
  <2> QED
    BY <1>1, <2>3, <2>4, <2>5, <2>6, <2>7, <2>10 DEF SysNext
<1>2. SysInv /\ [SysNext]_sysVars =>
        [\A b \in LivePcbs : running = b /\ b \in FreePcbs' =>
           \A d \in descriptors[b], q \in DOMAIN resources_list' :
             d \notin resources_list'[q].opened]_sysVars
  BY <1>1
<1> QED
  BY <1>2, SysInvHolds, PTL DEF SysSpec, ExitReleasesAll

=============================================================================
